# Verification of mico-mqtt-aliyun-iot

TLA+ models of the MQTT client library in `src/lib_mqtt`, of the transport it
runs on and of the application in `src/mqtt`, checked with TLC and, for what
matters most, proved with TLAPS.
Paths below are relative to the root of the repository.

## 1. The system

A MiCO device runs one application thread that talks MQTT 3.1.1 to a broker
through a *blocking* client derived from the AWS IoT SDK. The library has no
thread of its own: incoming messages, keep-alive and reconnection are handled
inside `mqtt_yield`, and incoming messages also inside every request that waits
for its acknowledgement. Callbacks run in the middle of those calls and may
call the library again. That re-entrance, over a network that fails at any
moment, is where the difficulty lies.

| Component | State | Operations | Correct when |
|---|---|---|---|
| Connecting (`mqtt_client_connect.c`) | `clientState`, `isPingOutstanding`, `pingTimer` | `mqtt_connect`, `mqtt_disconnect`, `mqtt_attempt_reconnect` | a live state has a socket, an open socket has a live state, a manual disconnect holds |
| Requests (`mqtt_client_publish.c`, `_subscribe.c`, `_unsubscribe.c`) | `clientState`, `nextPacketId`, `messageHandlers[]` | `mqtt_publish`, `mqtt_subscribe`, `mqtt_unsubscribe`, `mqtt_resubscribe` | the state is given back on every path, handlers are neither lost nor given away, an answer answers its own request |
| Yield (`mqtt_client_yield.c`) | `currentReconnectWaitInterval`, `reconnectDelayTimer` | `mqtt_yield`: read, keep-alive, disconnect handling, back-off | dead links are noticed, healthy ones kept, the return code tells the state |
| Reading and delivery (`mqtt_client_common_internal.c`) | `readBuf`, `writeBuf` | `mqtt_internal_cycle_read`, `mqtt_internal_wait_for_read`, `deliver_message`, `mqtt_internal_send_packet` | every call returns, yield is not re-entered from a callback |
| Client data (`mqtt_client.c`, headers, `mqtt_config.h`) | `ClientStatus`, `ClientData` | `mqtt_init`, `mqtt_set_client_state` (a compare-and-set), `mqtt_get_next_packet_id`, setters | identifiers in range, no state overwritten |
| Transport (`platform/network_platform.c`) | `server_fd`, `ssl` | connect, read, write, disconnect, isConnected, destroy | whole packets, no leaked descriptor |
| Timers (`platform/timer_platform.c`) | `end_time` | countdown, expired, left | waits end |
| Packet formats (serialisers, deserialisers, topic filters) | `writeBuf`, `readBuf` | pure functions over them | a broker reads what was asked for, the client what was sent; nothing is written past a buffer |
| Thread build (`platform/threads_platform.c`), off in `mqtt_config.h` | three mutexes | lock, trylock, unlock | one call at a time, a buffer is one thread's, no deadlock |
| Application (`mqtt/mqtt_main.c`, `mqtt/mico_main.c`) | a client, a start-up semaphore | wait for the WiFi, connect, subscribe, loop of yield and publish; a disconnect handler that may reconnect | the WiFi coming up is not missed, the client is used in order |

How they interact: the application calls the client; the client calls the six
function pointers of `Network`; a delivery calls the application's subscription
callbacks, keep-alive its disconnect handler. `clientState` is the only lock: a
call is refused unless it finds a state that allows it, puts its own state in
and puts the old one back with a compare-and-set. The saved state lives in a C
local, so that it may be stale when it is put back.

The hard behaviours, each listed at its line in `PROJECT.json` under `hazards`:
calls nested inside callbacks nested inside calls; requests whose answer is
read by another request, or comes after a timeout; a slot or a state chosen
before a wait and used after it; a reconnection failing half-way; a peer that
dies without a word; the ping of an old connection; back-off at its maximum.

## 2. Modules

`Network.tla` is the transport and the broker. `socket` is `server_fd` together
with what has become of the connection: "closed" (-1), "up", "silent" (the peer
is gone, or sent its FIN, which `iot_tls_read` counts as nothing read), "torn"
(silent in the middle of a packet), "reset" (`recv` fails). `toBroker` and
`toClient` are FIFO channels of packets, as TCP gives; what the network loses it
loses with the connection. The client's operations on it (`OpenConnection`,
`CloseConnection`, `Send`, `SendFails`, `Consume`, ...) translate
`network_platform.c` and its callers. The broker is external: it answers in
order, may refuse a CONNECT or a SUBSCRIBE, publishes to the topics it
holds, and may stay silent for ever.

`MqttClient.tla` EXTENDS it with the client. The C call stack is explicit:
`stack` is a sequence of frames, one for every library call that can be
interrupted, with the program point (`pc`) and the locals it will still need.
Application code runs when the stack is empty, when the top frame is a delivery
at "callback", or a yield at "handler"; `MayCall` says so, and the constants
`AppOps`, `CallbackOps`, `HandlerOps` say which calls are made from where. One
call runs atomically up to where it waits for a packet or calls the application.

| Code | Model |
|---|---|
| `clientStatus`, `clientData` fields | variables of the same names |
| `messageHandlers[].topicName` | `messageHandlers`, a function on `1..NumHandlers`, `NoTopic` for NULL |
| `pingTimer`, `reconnectDelayTimer` | `pingExpired`, `delayExpired`, raised at any moment |
| the timer of a request, or of a yield | `WaitTimeout`, `YieldReturns`: the countdown may end at any moment |
| the topic in `readBuf` that a delivery points into | `rxTopic`, overwritten by whatever a nested call reads |
| `mqtt_set_client_state` | `Cas`, `CasRc` |
| outer functions of the requests | `RefuseRequest`, `SendRequest`, `EndRequest` |
| `mqtt_connect`, `mqtt_disconnect`, `mqtt_attempt_reconnect` | `Connect`, `ReadConnack`, `FailConnect`; `Disconnect`; `AttemptReconnect`, `ReconnectFailed`, `ReconnectConnected`, `ReconnectResubscribed` |
| `mqtt_internal_cycle_read` | the `Read...` actions, one per packet type and error |
| `handle_publish`, `deliver_message` | `ReadPublish`, `Deliver`, `CallbackReturns`, `EndDelivery`, `YieldAfterDelivery` |
| `mqtt_yield` and what it calls | `Yield`, `KeepAliveCheck`, `HandleDisconnect`, `HandlerReturns`, `HandleReconnect`, `BackOff`, `YieldAfterReconnect`, `YieldAgain`, `YieldReturns` |

A frame of `mqtt_yield` stands, in turn, at "loop" (read or reconnect), "deliver"
(a delivery on top of it), "alive" (keep-alive), "lost" and "handler"
(disconnection), "reconnect" (a reconnection on top of it), and "check" (the timer
at the end of the loop) or "exit" (`break`).

Abstractions: a message is its topic and whether it is QoS1 or too long; a
topic filter matches its own topic only; failures of DNS, TCP, TLS and of the
write of CONNECT share one return code; `CLIENT_STATE_DISCONNECTING` never
outlives a step; the DISCONNECT packet and the close are one. A resubscribe
that meets a handler freed under its feet sends a SUBSCRIBE with `NoTopic`.
Reading from descriptor -1 (`FD_SET(-1)` is undefined) is taken to report
nothing. `currentReconnectWaitInterval`, which `mqtt_init` does not set, starts
with any value of `Garbage`. A publish whose identifier is 0 is QoS0.

`Session.tla` is what the client promises its application about the connection,
whatever calls, callbacks and answers it is made of: seven phases (fresh,
connecting, connected, lost, waiting, failed, manual), whether a descriptor is
open, whether reconnection is automatic, and who runs, application or library.
A connection is attempted only with no descriptor open, by the library only when
it waits to reconnect; only the application ends a manual disconnection; a lost
connection is followed by waiting if and only if auto-reconnect is on.
`MqttSession.tla` states that `MqttClient` implements it. Its refinement mapping
reads the phase off `clientState`, with one exception: from the call of the
disconnect handler until it returns the connection is "lost", whatever
`clientState` holds meanwhile (`TellingLoss`). `MCMqttClient.tla` adds the
symmetry of topics for TLC.

`Wire.tla` is the level below `Network`: packets byte by byte. The broker's
stream is a queue of remaining lengths and the packet begun (`part`, `digits`,
`size`). `pc` stands at the loops of `mqtt_internal_read_packet` and
`_decode_packet_remaining_len` ("header", "length", "body", "drop") and of
`iot_tls_write` ("write", "send"); `packetExpired` and `callerExpired` are the
two timers, `ret` is the local that outlives its round, `cut` remembers that a
packet begun was left half read. A byte is taken at a time, bytes come when
they like, the socket takes as many as it likes, and nothing relates the timers.

`Lengths.tla` is the remaining length field and the estimate of a packet's
length from it. `Radix` stands for the 128 of the code, so that TLC meets the
thresholds at 127/128 and 16383/16384 with packets of a few bytes.

`Codec.tla` EXTENDS it with every serialiser (into a `writeBuf` of any size) and
deserialiser (out of a `readBuf` with old packets behind the new one), and the
topic filters of `mqtt_internal_is_topic_matched`. A state is one call; `out` is
what was asked for and its bytes, `got` what was made of the packet `came`, and
`ran` the filters whose handlers ran for it. The properties compare it with a
reader that goes by the standard (`BrokerReads`, which takes the data apart by
`View` and `Strings`, and `Meant`), and filters with a definition by levels
(`MatchesByLevels`).

`MqttThreads.tla` is the client with `_ENABLE_THREAD_SUPPORT_`: threads that call
`mqtt_connect`, `mqtt_publish`, `mqtt_yield` and `mqtt_disconnect` on one client,
at the grain of what its three mutexes make atomic. Testing the state and taking
it are two steps; `writeBuf` is filled before `tls_write_mutex` is taken and
`readBuf` used after `tls_read_mutex` is given back. Both mutexes have a place where
a thread is blocked (`lockwrite`, `lockread`), which it leaves only with the mutex:
its timer is looked at before, at `wait`. Of packets only the owner is kept, and
links do not fail: `MqttClient` has those.

`App.tla` is the demonstration application on a client that behaves as `Session`:
`application_start` with its semaphore and the notification handler that another
thread runs, the MQTT thread with its loop and disconnect handler, the WiFi
station, and the back-off with the real intervals. It instantiates `Session` for
the part of its state that is the connection, which composes it with
`MqttClient`: one shows the promise kept by the library, the other what the
application makes of it.

`MqttClientProofs`, `MqttStackProofs`, `MqttDataProofs`, `MqttSessionProofs`,
`CodecProofs`, `WireProofs`, `ThreadsProofs` and `AppProofs` hold the proofs. An
operator marked "Mutant" is a plausible bug in the operator that follows it;
nothing uses it, and each is the one that makes a property fail.

## 3. Runs

Bounds of the runs of `MCMqttClient`, named in every cfg: `MaxQueue` packets in
flight in one direction (1: a queue never holds two packets the client waits
for, since it is blocking; late answers, the interesting case, need only one),
`MaxDepth` (no call is made with that many frames on the stack, so calls nest
one deeper than that at most; 4 is enough for a request in a callback inside a
request, 5 for a callback inside the resubscription of a yield), `MaxPacketId`
(1 or 3; wrap-around is then frequent), `MinInterval = 1`, `MaxInterval = 2`
(one or two doublings before giving up).

Passing runs:

| Run | Distinct states | Shows |
|---|---|---|
| Core | 333 thousand | `TypeOK`, `OpenSocketOwned`, `PingAnswerable`, `ResultTellsState`, `SessionImplemented`, `ReconnectedMeansSubscribed`: every application call but unsubscribe, two handlers, no callbacks, uninitialised interval 0 or 3, a refusing broker |
| Handlers | 639 thousand, symmetric | `HandlersKept`, `YieldNotInCallback`, `ResultTellsState`, `SessionImplemented`: two topics, two slots; callbacks publish, unsubscribe, resubscribe, disconnect and yield |
| Reentrant | 636 thousand | `StackInv` and its parts `StateOnTop` and `ConnectedHasSocket`; `ManualDisconnectSticks`: callbacks disconnect, connect, publish and try to yield, the disconnect handler reconnects |
| Live | 42 thousand | `EveryCallReturns`, `DeadLinkNoticed`, `PendingResolves`, under `FairSpec` |
| Wire | 118 thousand | `ReaderInSync`, `SentWhole`, `ReadEnds`, `SendEnds` and the types: packets of 0 to 7 bytes of data in one to three length bytes, a `readBuf` of 3 (so dropped in one, two and three pieces), arithmetic modulo 16 |
| Codec | 16 thousand | `BuffersHold`, `WrittenAsAsked`, `RefusedIfTooLong`, `ReceivedAsSent`, `DeliveredByLevels`: radix 4, buffers on both sides of every length that occurs, filters and names of up to three characters |
| Threads | 48 thousand | `OneCall`, `BuffersOwned`, `StateGivenBack`, `CallsReturn` and the types: two threads that publish and yield; one of them connects, the other disconnects |
| App | 1.8 thousand | `StationSeen`, `AppKeepsSession`, `LossSettled`, `GivenUpForGood` and the types, with the intervals of `mqtt_config.h`, 1000 and 20000 ms |

Deadlock is checked in all but Threads: there a client that a disconnect left in
DISCONNECTING, or a callback in WAIT_FOR_CB_RETURN, refuses every call for ever
(see below). Three characters are enough for a filter to hold a wildcard, a
separator and a level, or an empty level at either end. Two threads are enough
for every conflict of two accesses; `ThreadsProofs` removes that bound. `ReadEnds`
needs a maximum of neither packets nor cuts, since a new connection starts the
stream afresh.

Some properties hold only for the calls their run makes, and the other side of
the line is a finding or listed below: `HandlersKept` without subscribing
callbacks, `ReconnectedMeansSubscribed` without unsubscribing, `OpenSocketOwned`
without connections made by the disconnect handler, `SessionImplemented` also
without a callback that disconnects during the resubscription of a reconnecting
yield (Handlers has it disconnect everywhere else), and so `ManualDisconnectSticks`
(in Reentrant, with one handler, nothing is delivered during a resubscription).

Runs that find a violation, each of what a text of the repository says:

| Run | What happens |
|---|---|
| HandlerReconnect | a disconnect handler that reconnects, like that of `mqtt_main.c`, has its connection overwritten with DISCONNECTED_ERROR and its descriptor leaked |
| ResubscribeGap | `_mqtt_internal_resubscribe` stops at the first free slot: after an unsubscribe, later handlers are silently not resubscribed |
| LatePuback | a late PUBACK completes the next publish |
| TooLong | a packet whose data just fits is read into `readBuf` behind its header, past the end |

Other things the code does, seen while modelling. In the calls:

- A failed `mqtt_attempt_reconnect` leaves the client PENDING_RECONNECT, so that
  `mqtt_yield` reconnects by itself, also with auto-reconnect disabled, where the
  comment at `mqtt_client_yield.c:260` says that state is only set with
  auto-reconnect enabled.
- With the WiFi down, `iot_tls_is_connected` reports NETWORK_MANUALLY_DISCONNECTED
  and a yield that waits to reconnect may return it to an application that never
  disconnected (`mqtt_error.h:28`).
- A callback that disconnects and connects again makes the client CONNECTED_IDLE,
  so that its `mqtt_yield` is accepted inside the delivery, against the comment at
  `mqtt_client_common_internal.c:456-458`.
- A callback that disconnects during the resubscription of a reconnecting yield:
  the yield goes on, finds the connection dead and reconnects
  (`mqtt_client_yield.c:53`).
- SUBACK 0x80, a refusal, is success (`mqtt_client_subscribe.c:229-230`).
- Two subscribes, one in a callback inside the other, choose the same slot
  (`mqtt_client_subscribe.c:243`); both succeed and one handler is lost.
- A delivery's topic and payload lie in `readBuf`, which a call made by one
  callback overwrites before the next handler is matched.

On the wire and in the buffers:

- `packetTimer` is started before the header byte is waited for
  (`mqtt_client_common_internal.c:337-338`), although the comment at 356-359 means
  it for the rest of the packet: a packet that begins late is cut at once.
- A packet that a timer cut is not taken for a lost connection: the next read
  starts in its middle. Nor is a send that timed out after half a packet.
- `ret` in `iot_tls_write` keeps the value of an earlier round
  (`network_platform.c:293`): a timer that expires between the tests of the two
  loops can make half a packet count as all of it, and the send report success.
  `SentWhole` says how much may be missing, as many bytes as the last piece had.
- The test against `MAX_NO_OF_REMAINING_LENGTH_BYTES` never succeeds, since the
  read overwrites `len` with 1 at every byte.
- A packet of exactly `writeBufSize` bytes is refused by `mqtt_internal_send_packet`.
- The loop over the codes of a SUBACK lets one more in than `maxExpectedQoSCount`;
  the array has room for it.
- `MQTT_Connack_Header_Flags` has the session-present bit at the wrong end when
  REVERSED is not defined; nothing reads it.
- `a/#` does not match `a`, and no wildcard matches an empty level.

With threads:

- A call that another thread makes while a callback runs takes the state, and the
  delivery and the call put back what the other took: a client can be left in
  WAIT_FOR_CB_RETURN, which yield refuses for ever.
- `mqtt_disconnect` writes `clientState` without its mutex and fills `writeBuf`
  under the feet of the call it takes the state from; what that call then puts
  back can leave the client in DISCONNECTING.
- `mqtt_client_connect.c:453` does not look whether it got the state, so two
  threads that connect both go on, against the comment at 448-449. `MqttThreads`
  lets more than one connect; the proofs suppose one.
- Without blocking locks the stub of `mqtt_thread_mutex_trylock` refuses every call.

In the application:

- After waits of 1, 2, 4, 8 and 16 seconds, those with the WiFi down included,
  the client gives up for ever (`GivenUpForGood`), and `mqtt_yield` then returns at
  once: the loop runs without pause, since the `continue` that the comment at
  `mqtt_main.c:180` describes is commented out.
- A failed subscribe ends the thread with the connection open (`mqtt_main.c:160`).
- Whether the thread could be started is not looked at (`mico_main.c:60`).
- A notification that is already in its handler when it is removed may set the
  semaphore after it was deinitialised (`mico_main.c:20-21,65`).
- The payload is printed as a string though nothing ends it (`mqtt_main.c:69`).

### Fairness

In `MqttClient`, `Fairness` asks for what the code and its contract give, and nothing of the
broker or the network.
- Weak fairness of `ReadStep` and `ClientStep`: the one thread runs.
- Strong fairness of `WaitTimeout` and `YieldReturns`: countdowns end, and the
  loops test them once in every round, while other steps switch the actions on
  and off in between. Of `WaitTimeout` only the expiry of the timer of the
  innermost request is meant; each request has its own.
- Strong fairness of `CallbackReturns` and `HandlerReturns`: application
  callbacks make finitely many calls.
- Weak fairness of `PingTimerExpires` and `DelayTimerExpires`: clocks advance.
- Strong fairness of `Yield`: `mqtt_client_interface.h:145-152` requires the
  application to keep calling it, and `mqtt_main.c:174` does.

In `Wire`, timers run out, and the thread runs once they have; nothing is asked
of the socket, which may take no byte for ever, nor of the peer. `ReadEnds` says
nothing of a read that lost its place in the stream: length bytes without end
keep it in a loop that looks at its timer only when no byte comes.

In `MqttThreads`, weak fairness of every thread's steps, strong fairness of taking
`tls_write_mutex` and `tls_read_mutex` (the platform's mutexes starve nobody among
those that wait; that they are ever given back is what `CallsReturn` shows) and of
`TimerExpires` (the loops test their timer in every round, `mqtt_client_common_internal.c:610`
and `mqtt_client_yield.c:221`; nothing is assumed of the timer of a blocked thread). In `App`, weak fairness of the three
threads, and strong fairness of `Reconnect`: the loop calls `mqtt_yield` again and
again, until the delay is over during one of them. Nothing makes the station come
up, or the broker answer.

## 4. Proofs

Assumed of the constants: the named assumptions of the modules (at least one
handler, packet identifier and queue place; the call sets are sets of calls; a
radix of at least 2, in `Codec` 3, so that the remaining length of an
acknowledgement takes one byte; buffers no longer than the largest packet; strings
and identifiers of 16 bits, where 256 is twice the radix). The proofs about `MqttClient` bound neither the number of
topics, nor handlers, nor the depth of nesting, and let every call be made from
everywhere, the calls of the findings included, unless the table says otherwise.

| Theorem | Module | Statement |
|---|---|---|
| `TypeCorrect` | `MqttClientProofs` | `Spec => []TypeOK` |
| `StackCorrect` | `MqttStackProofs` | `Spec => []StackInv` |
| `NoBusyStateLeft` | `MqttStackProofs` | `Spec => []StateOnTop` |
| `LiveClientHasSocket` | `MqttStackProofs` | `Spec => []ConnectedHasSocket` |
| `YieldNotReentered` | `MqttStackProofs` | `Spec => []YieldNotInCallback`, if callbacks do not connect again what one of them disconnected |
| `HandlersKeptCorrect` | `MqttDataProofs` | `Spec => HandlersKept`, if callbacks and the disconnect handler do not subscribe |
| `PingsAnswered` | `MqttDataProofs` | `Spec => []PingAnswerable` |
| `ReconnectedSubscribed` | `MqttDataProofs` | `Spec => ReconnectedMeansSubscribed`, if nobody unsubscribes and the broker refuses no SUBSCRIBE |
| `SocketsOwned` | `MqttSessionProofs` | `Spec => []OpenSocketOwned`, if the disconnect handler does not connect |
| `ResultsTellState` | `MqttSessionProofs` | `Spec => ResultTellsState`, if the handler does not connect and callbacks do not connect again what one of them disconnected |
| `ManualDisconnectKept`, `ClientImplementsSession` | `MqttSessionProofs` | `Spec => ManualDisconnectSticks`, `SessionImplemented`, if the handler does not connect and callbacks do not disconnect |
| `EstimateIsClose`, `ShorterIsAccepted` | `CodecProofs` | the estimated packet length is right or one too large, and refuses no packet that is shorter than the buffer |
| `LengthTestsCorrect` | `CodecProofs` | `Spec => [](OutInv /\ RefusedIfTooLong)` |
| `ReceiverCorrect` | `CodecProofs` | `Spec => [](InInv /\ ReceivedAsSent)` |
| `MatchingIsByLevels` | `CodecProofs` | a filter matches a name if and only if it does level by level, empty levels and the parent of a `#` aside, for strings over any alphabet |
| `TopicsMatchedByLevels` | `CodecProofs` | `Spec => []DeliveredByLevels` |
| `BuffersAreLongEnough`, `WriterUnderstood` | `CodecProofs` | `Spec => []BuffersHold`, `[]WrittenAsAsked` |
| `WireTypeCorrect` | `WireProofs` | `Spec => []WireTypeOK` |
| `ReaderCorrect` | `WireProofs` | `Spec => []ReaderInSync` |
| `WriterCorrect` | `WireProofs` | `Spec => SentWhole` |
| `MutexesCorrect` | `ThreadsProofs` | `Spec => []ThreadsTypeOK`, for any set of threads |
| `OneCallCorrect`, `BuffersCorrect`, `StateCorrect` | `ThreadsProofs` | `Spec => []OneCall`, `[]BuffersOwned`, `[]StateGivenBack`, for any set of threads of which at most one connects |
| `AppTypeCorrect`, `AppImplementsSession`, `GivenUpStays` | `AppProofs` | `Spec => []AppTypeOK`, `AppKeepsSession`, `GivenUpForGood`, for any intervals |

**The stack of calls.** `TypeOK` is inductive. The work is in the stack, a sequence
of records: lemmas type `Top`, `Pop`, `SetTop` and a pushed frame once, others the
building blocks (`Cas`, `EndRequest`, `SendRequest`, `StartConnect`, ...), and one
lemma per action cites them.

`StateOnTop`, "a busy state belongs to the innermost call", is not inductive.
When a call ends it puts back the state its frame saved, so the frame below must
be the owner of that (`SavedBelow`). A yield has no saved state: it puts back
CONNECTED_IDLE if its own state is still there, and does not for two return
codes (`LeaveState`), so a yield about to return one of these must have given its
state up (`YieldOnTop`), and a frame on top of a yield must not bring it back
unless the yield expects that (`YieldBelow`). A connect would take any state
away from under a frame above it: nothing runs above a connect
(`ConnectInnermost`), because nothing is delivered before the CONNACK
(`ConnackFirst`: it is the first packet of a connection). With the latter a
socket is also closed only where the state leaves the live ones, which is
`ConnectedHasSocket`. `StackInv` is the conjunction; it is checked by run
Reentrant and proved inductive relative to `TypeOK`. The proof sorts the actions
by what they do to the stack: replace the top frame, push one, pop one. A lemma
each shows that the shape of the stack (`SavedBelow`, `ConnectInnermost`,
`YieldBelow`) survives, given who owns the state put in place; the lemma of an
action only supplies that.

That `mqtt_yield` is not re-entered needs an invariant of its own, `CallbackInv`:
above a delivery there are only requests and other deliveries, and the state the
client is in, or will be given back, is one of theirs or the one that a callback
left it in by disconnecting (`CallbackStates`). The calls refused there are those
that could break it, and each is refused because of it: a yield and a resubscribe,
which want an idle client, and a connect, which wants a disconnected one. The last
is where the hypothesis is used (`NoReopening`); without it TLC finds a callback
that disconnects, connects, and yields.

**The wire.** `ReaderInSync` relates the decoder to the stream: what was decoded so
far plus the multiplier times the number that the length bytes to come stand for
is the length that was encoded. It needs that the stream itself is well-formed
(what is announced is at most what a `size_t` holds, and digits to come are of
the size announced), and it says nothing from a cut until the next connection;
the conjunction is `WireInv`. That the digits come least significant first is
where the proof multiplies; the lemmas of the beginning do that once.
`WriterCorrect` is an action property, from what a send counts as written: what is
on the wire, and once its timer ran out perhaps the last piece a second time
(`WrittenIsOnWire`).

**The threads.** `ThreadsTypeOK` is inductive, for the mutexes need nothing of
`clientState`. The rest is the proof of a lock: `OneCall` names, for every place a
thread can stand in, what `clientState` must then be, and a history variable
`disturbed` ends its validity where the code itself ends it, when a disconnect takes
the state from a call in progress or a call takes it during another thread's
callback. A disconnect of an idle client is one call among the others. `mqtt_connect`, which does not look whether
it got the state, is what makes the strengthening necessary: a thread about to
connect still finds the state it read, and only threads that connect do so
(`ConnectersConnect`), so that with one of them nobody else can have taken it.

**Handlers and pings.** A slot that a subscribe has chosen must still be free when
its SUBACK is read. `SlotKept` says so of the one subscribe that can be on the
stack, its first call: everything above it was made by callbacks, which do not
subscribe, and an unsubscribe only empties slots. `PingAnswerable` follows the
ping from `KeepAliveCheck` to the PINGRESP (`PingInv`): a client past CONNECTING on
a connection that is up has an accepted session, since the CONNACK it read was
written after the broker accepted, and on an accepted session an outstanding ping is a
PINGREQ on its way there or a PINGRESP on its way back. The ping of an older
connection is forgotten where the CONNACK is read, and this is used there.

**Resubscription.** A reconnection may return NETWORK_RECONNECTED only when every
handler's topic is asked for: held by the broker, or its SUBSCRIBE on the way
(`Asked`). Callbacks run while each SUBACK is waited for, and may subscribe,
disconnect, connect, or resubscribe themselves. What makes it true is that a
request whose connection was exchanged under it does not succeed: the state it
left is not the one it finds, and its compare-and-set fails. So `SubscribedInv`
lets a call on the stack claim the topics it has sent SUBSCRIBE for (`Due`) only
as long as it still holds the client (`Held`): each frame above it will give back
the state in progress of the frame below, down to the state the client is in now. A
connect saves an idle or disconnected state, which nobody holds, so that below it
nothing is claimed and nothing need be kept when the broker's subscriptions are
lost. To this come the shape of the handler table (`Filled`: without unsubscribing
it fills from its start, which is what makes stopping at the first free slot
right), and of the stream (`Orderly`: a SUBSCRIBE reaches the broker in an accepted
session). The finding ResubscribeGap is the other side of `NothingLost`.

**The bytes.** The induction theorems of the library cannot be instantiated here,
but induction over a set of numbers can be had from well-foundedness (`Induction`),
and from it that a function defined by recursion on smaller arguments satisfies
its equation (`Recursion`, with the body of the definition given as a function). Thus
`WriteLen`, the loop of `LengthField` and `Strings` are unfolded, for any radix.
`OutInv` says that `out.bytes` are those of the request, as long as `RemLen` and the
header say (`BodyIs`: the lengths computed before anything is written are those of
the fields); then the estimate decides as it should. `InInv` says that `readBuf`
holds the packet that came at its beginning, whatever follows it (`Holds`); the
decoder finds the length the encoder wrote (`LengthDecoded`), hence where the data
ends, and each deserialiser stays inside. For `WriterUnderstood` the reader of the
standard is run over the same bytes: `LengthSaid` for the length, `StringsUnfolded`
for the strings one after another, and a lemma for each kind of packet.

**Topics.** `IsTopicMatched` and `Levels` are unfolded in the same way
(`MatchesUnfolded`, `LevelsUnfolded`). A level of a well-formed filter is a `+`, a last
`#`, or characters that stand for themselves (`LevelKinds`). Over the last kind the
matcher goes on exactly while the characters agree (`Run`), so that it comes to the
end of both levels if and only if they are equal (`LiteralLevel`); a `+` or `#` needs a
level that is not empty (`WildLevel`). `OneLevel` puts the three together, and
`MatchesLevels` is the induction over the levels of the filter, from its end:
`Agrees` is what is claimed of the rest of the filter and the rest of the name.

**Descriptor and session.** `OwnInv`, for `OpenSocketOwned`: every state a frame will
restore is a connected one, so that none can be restored without a socket, and the
disconnect handler, after which `mqtt_yield` overwrites the state, finds and leaves
a closed one. For the rest, `LinkInv` describes the stack call by call: a base that
the application pushed, and above it requests and deliveries by turns, or the
reconnection of a yield (`Base`, `Over`); and for the innermost call what the
client state is and what the result last returned says (`Stands`). It replaces, with
stronger assumptions, the inequalities of `StackInv` by equalities, which is what the
return codes of `mqtt_yield` and the refinement need. A callback that disconnects
leaves the calls below it in DISCONNECTED_MANUALLY (`Left`): each of them finds
that its compare-and-set fails, and reports neither success nor a state, which is
what `ResultsTellState` needs. `ManualDisconnectSticks` and `SessionImplemented` are
false then, as TLC finds, when a callback disconnects during the resubscription of
a yield, which goes on. Given `LinkInv`, the refinement is a
lemma for each way a step can look from `Session`: the connection stays as it is
(`SameConnection`), an attempt is made (`AttemptMade`), or one of the steps that
establish, fail, leave or lose it.

**The application.** `AppInv` gives for each place of the MQTT thread the phase of the
connection, and ties the semaphore to the registration of its handler.

Only model-checked: liveness, which is out of the provers' reach (`EveryCallReturns`,
`DeadLinkNoticed`, `PendingResolves`, `StationSeen`, `LossSettled`, `SendEnds`,
`ReadEnds`, `CallsReturn`), and the findings.

## 5. Not modelled

Timer arithmetic on `gettimeofday`, which moves with the clock of the system:
a countdown may end at any moment instead. Name resolution, the TLS handshake and
its certificates: one success or failure. QoS2, retained messages, wills and
non-clean sessions beyond their bytes (the application connects with a clean
session and publishes with QoS0). The contents of strings, NULL arguments, and
packets that the broker gets wrong. JSON, LED and the text of messages in the
application. Logging, build and project files.

`MqttThreads` has no subscribe and unsubscribe of its own (they take the state and
the buffers as publish does), and its callbacks make no calls.

## 6. Plan

Done, in this order: `Network`, `MqttClient` and their proofs; `Session` and the
refinement; `Wire`, `Lengths` and `Codec`; `MqttThreads`; `App`; the proofs about
`Codec` and about resubscription. Every safety property the runs check is now
stated by a theorem, some of them for the calls that their row in the table allows.
