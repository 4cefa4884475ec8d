----------------------------- MODULE MqttClient -----------------------------
(* The client of lib_mqtt/src: one thread, blocking calls, and callbacks   *)
(* that may call the client again.  The C call stack is explicit: a frame  *)
(* for every library call that can be interrupted, by the broker, by a     *)
(* timer or by application code running inside it.  Timers are not         *)
(* clocks: a countdown may end at any moment, which covers every timing.   *)
EXTENDS Network

CONSTANTS
  NumHandlers,   \* MQTT_NUM_SUBSCRIBE_HANDLERS
  MinInterval,   \* MQTT_MIN_RECONNECT_WAIT_INTERVAL
  MaxInterval,   \* MQTT_MAX_RECONNECT_WAIT_INTERVAL
  Garbage,       \* what currentReconnectWaitInterval may hold before it is set
  AutoReconnect, \* possible values of enableAutoReconnect
  KeepAlive,     \* keepAliveIntervalInSec is not 0
  OutQos,        \* QoS of the messages the application publishes: 0, 1
  AppOps,        \* calls the application makes from its thread,
  CallbackOps,   \* from a subscription callback,
  HandlerOps,    \* and from the disconnect handler
  MaxDepth       \* bound: no call is made with so many frames on the stack

Ops == {"connect", "reconnect", "disconnect", "publish", "subscribe",
        "unsubscribe", "resubscribe", "yield", "set_autoreconnect"}

ASSUME ClientAssumption ==
  /\ NumHandlers \in Nat \ {0}
  /\ MinInterval \in Nat \ {0}
  /\ MaxInterval \in Nat
  /\ Garbage \subseteq Nat /\ Garbage # {}
  /\ AutoReconnect \subseteq BOOLEAN /\ AutoReconnect # {}
  /\ KeepAlive \in BOOLEAN
  /\ OutQos \subseteq {0, 1}
  /\ AppOps \subseteq Ops /\ CallbackOps \subseteq Ops /\ HandlerOps \subseteq Ops
  /\ MaxDepth \in Nat

VARIABLES
  clientState,                  \* clientStatus.clientState
  isPingOutstanding,            \* clientStatus.isPingOutstanding
  isAutoReconnectEnabled,       \* clientStatus.isAutoReconnectEnabled
  currentReconnectWaitInterval, \* clientData.currentReconnectWaitInterval
  nextPacketId,                 \* clientData.nextPacketId
  messageHandlers,              \* clientData.messageHandlers[].topicName
  rxTopic,                      \* the bytes of readBuf a delivery points into
  pingExpired,                  \* has_timer_expired(pingTimer)
  delayExpired,                 \* has_timer_expired(reconnectDelayTimer)
  stack,                        \* the library calls in progress, innermost last
  ret                           \* what the last call returned, until the next begins

ping == <<isPingOutstanding, pingExpired>>
backoff == <<isAutoReconnectEnabled, currentReconnectWaitInterval, delayExpired>>
subs == <<nextPacketId, messageHandlers, rxTopic>>
calls == <<clientState, stack, ret>>
clientVars == <<ping, backoff, subs, calls>>
vars == <<netVars, clientVars>>

----------------------------------------------------------------------------
(* Client states and calls.                                                *)

(* The state a call puts the client in while it runs.                      *)
InProgress == [connect |-> "CONNECTING",
               yield |-> "CONNECTED_YIELD_IN_PROGRESS",
               publish |-> "CONNECTED_PUBLISH_IN_PROGRESS",
               subscribe |-> "CONNECTED_SUBSCRIBE_IN_PROGRESS",
               unsubscribe |-> "CONNECTED_UNSUBSCRIBE_IN_PROGRESS",
               resubscribe |-> "CONNECTED_RESUBSCRIBE_IN_PROGRESS",
               deliver |-> "CONNECTED_WAIT_FOR_CB_RETURN"]

Requests == {"publish", "subscribe", "unsubscribe", "resubscribe"}

BusyOps == Requests \cup {"connect", "yield", "deliver"}

(* mqtt_is_client_connected *)
ConnectedStates == {"CONNECTED_IDLE", "CONNECTED_YIELD_IN_PROGRESS",
                    "CONNECTED_PUBLISH_IN_PROGRESS", "CONNECTED_SUBSCRIBE_IN_PROGRESS",
                    "CONNECTED_UNSUBSCRIBE_IN_PROGRESS", "CONNECTED_RESUBSCRIBE_IN_PROGRESS",
                    "CONNECTED_WAIT_FOR_CB_RETURN"}

(* _mqtt_is_client_state_valid_for_connect *)
ValidForConnect == {"INITIALIZED", "DISCONNECTED_ERROR", "DISCONNECTED_MANUALLY",
                    "PENDING_RECONNECT"}

(* CLIENT_STATE_DISCONNECTING lasts only inside mqtt_disconnect, which     *)
(* neither waits nor calls back.                                           *)
ClientStates == ConnectedStates \cup ValidForConnect \cup {"CONNECTING"}

IsConnected == clientState \in ConnectedStates

MayRequest == clientState \in {"CONNECTED_IDLE", "CONNECTED_WAIT_FOR_CB_RETURN"}

Slots == 1..NumHandlers

Registered == {messageHandlers[s] : s \in Slots} \ {NoTopic}

ResultCodes == {"MQTT_SUCCESS", "MQTT_FAILURE", "MQTT_REQUEST_TIMEOUT_ERROR",
  "MQTT_UNEXPECTED_CLIENT_STATE_ERROR", "MQTT_CLIENT_NOT_IDLE_ERROR",
  "MQTT_MAX_SUBSCRIPTIONS_REACHED_ERROR", "MQTT_RX_BUFFER_TOO_SHORT_ERROR",
  "MQTT_CONNACK_REFUSED", "TCP_CONNECTION_ERROR", "NETWORK_SSL_NOTHING_TO_READ",
  "NETWORK_DISCONNECTED_ERROR", "NETWORK_MANUALLY_DISCONNECTED",
  "NETWORK_ATTEMPTING_RECONNECT", "NETWORK_RECONNECTED",
  "NETWORK_RECONNECT_TIMED_OUT_ERROR", "NETWORK_ALREADY_CONNECTED_ERROR"}

(* A frame: the call, where it stands, and the locals it still needs.      *)
Frames == [op : Ops \cup {"deliver"},
           pc : {"wait", "connect", "resubscribe", "scan", "callback", "loop",
                 "deliver", "alive", "lost", "handler", "reconnect", "check", "exit"},
           saved : ClientStates,          \* clientState to go back to
           topic : Topics \cup {NoTopic}, \* subscribe, unsubscribe
           slot : 0..NumHandlers,         \* subscribe, resubscribe, deliver: handler index
           last : 0..NumHandlers,         \* resubscribe: existingSubCount
           id : PacketIds,                \* request sent, or message to acknowledge
           rc : ResultCodes]              \* yield: yieldRc

Frame(op, pc) == [op |-> op, pc |-> pc, saved |-> "CONNECTED_IDLE", topic |-> NoTopic,
                  slot |-> 0, last |-> 0, id |-> 0, rc |-> "MQTT_SUCCESS"]

(* Mutant: the state given back is that of mqtt_yield.                     *)
SavingYield(op, pc, topic, slot, last, id) ==
  [op |-> op, pc |-> pc, saved |-> "CONNECTED_YIELD_IN_PROGRESS", topic |-> topic,
   slot |-> slot, last |-> last, id |-> id, rc |-> "MQTT_SUCCESS"]

(* A frame that gives the state it found back.                             *)
Saving(op, pc, topic, slot, last, id) ==
  [op |-> op, pc |-> pc, saved |-> clientState, topic |-> topic, slot |-> slot,
   last |-> last, id |-> id, rc |-> "MQTT_SUCCESS"]

Results == [op : Ops \cup {"deliver", "none"}, rc : ResultCodes]

Result(op, rc) == [op |-> op, rc |-> rc]

NoResult == Result("none", "MQTT_SUCCESS")

Top == stack[Len(stack)]
At(op, pc) == stack # <<>> /\ Top.op = op /\ Top.pc = pc

Pop == SubSeq(stack, 1, Len(stack) - 1)
SetTop(f) == [stack EXCEPT ![Len(stack)] = f]

DataTypeOK ==
  /\ isPingOutstanding \in BOOLEAN /\ pingExpired \in BOOLEAN
  /\ isAutoReconnectEnabled \in BOOLEAN /\ delayExpired \in BOOLEAN
  /\ currentReconnectWaitInterval \in Nat
  /\ nextPacketId \in 1..MaxPacketId
  /\ messageHandlers \in [Slots -> Topics \cup {NoTopic}]
  /\ rxTopic \in Topics \cup {NoTopic}

CallsTypeOK ==
  /\ clientState \in ClientStates
  /\ stack \in Seq(Frames)
  /\ ret \in Results

(* Every variable of the client and of its transport has its type.         *)
TypeOK == NetTypeOK /\ DataTypeOK /\ CallsTypeOK

(* mqtt_init *)
Init ==
  /\ NetInit
  /\ clientState = "INITIALIZED"
  /\ isPingOutstanding = FALSE /\ pingExpired = TRUE
  /\ isAutoReconnectEnabled \in AutoReconnect
  /\ currentReconnectWaitInterval \in Garbage /\ delayExpired = TRUE
  /\ nextPacketId = 1
  /\ messageHandlers = [s \in Slots |-> NoTopic]
  /\ rxTopic = NoTopic
  /\ stack = <<>>
  /\ ret = NoResult

----------------------------------------------------------------------------
(* Building blocks.                                                        *)

(* Mutant: the state is set, whatever it was.                              *)
CasBlind(expected, new) == clientState' = new

(* mqtt_set_client_state: a compare-and-set, and its return code.          *)
Cas(expected, new) == clientState' = IF clientState = expected THEN new ELSE clientState

CasRc(expected) == IF clientState = expected THEN "MQTT_SUCCESS"
                                             ELSE "MQTT_UNEXPECTED_CLIENT_STATE_ERROR"

(* Application code runs: no library call in progress, or inside one of    *)
(* the two callbacks.                                                      *)
MayCall(op) ==
  /\ \/ stack = <<>> /\ op \in AppOps
     \/ At("deliver", "callback") /\ op \in CallbackOps
     \/ At("yield", "handler") /\ op \in HandlerOps
  /\ Len(stack) < MaxDepth

(* A call that ends where it began, with nothing done.                     *)
Refuse(op, rc) ==
  /\ ret' = Result(op, rc)
  /\ UNCHANGED <<netVars, ping, backoff, subs, clientState, stack>>

RefuseRequest(op) ==
  /\ ~MayRequest
  /\ Refuse(op, IF IsConnected THEN "MQTT_CLIENT_NOT_IDLE_ERROR"
                               ELSE "NETWORK_DISCONNECTED_ERROR")

(* The outer functions of the four requests: take the state, run the inner *)
(* function, put the state back if it is still the one taken.  A request   *)
(* whose packet cannot be written is over at once; one that was written    *)
(* waits for its answer in frame f on top of the frames below.              *)
SendRequest(op, p, f, below) ==
  \/ /\ Send(p)
     /\ clientState' = InProgress[op]
     /\ stack' = Append(below, f)
     /\ ret' = NoResult
  \/ /\ SendFails
     /\ ret' = Result(op, "MQTT_FAILURE")
     /\ stack' = below
     /\ UNCHANGED clientState

(* Mutant: a failed request returns before it puts the state back.         *)
EndRequestEarly(rc) ==
  /\ IF rc = "MQTT_SUCCESS" THEN Cas(InProgress[Top.op], Top.saved) ELSE UNCHANGED clientState
  /\ ret' = Result(Top.op, rc)
  /\ stack' = Pop

EndRequest(rc) ==
  LET taken == InProgress[Top.op] IN
  /\ Cas(taken, Top.saved)
  /\ ret' = Result(Top.op, IF rc = "MQTT_SUCCESS" THEN CasRc(taken) ELSE rc)
  /\ stack' = Pop

(* Mutant: the timer is wound up, the flag stays.                          *)
FreshTimer == pingExpired' = FALSE /\ UNCHANGED isPingOutstanding

(* A connection starts, or a PINGRESP came: the ping timer is wound up.    *)
FreshPing == isPingOutstanding' = FALSE /\ pingExpired' = FALSE

(* Mutant: the identifier never wraps.                                     *)
NextIdUnbounded == nextPacketId + 1

(* mqtt_get_next_packet_id *)
NextId == IF nextPacketId = MaxPacketId THEN 1 ELSE nextPacketId + 1

(* Mutant: the last slot will do when none is free.                        *)
FirstFreeOrLast(s) ==
  /\ messageHandlers[s] = NoTopic \/ s = NumHandlers
  /\ \A r \in 1..(s-1) : messageHandlers[r] # NoTopic

(* _mqtt_get_free_message_handler_index *)
FirstFree(s) == messageHandlers[s] = NoTopic /\ \A r \in 1..(s-1) : messageHandlers[r] # NoTopic

(* Mutant: one handler too few is counted.                                 *)
HandlersInUseLess(n) == \/ n = NumHandlers - 1 /\ NoTopic \notin {messageHandlers[s] : s \in Slots}
                        \/ n + 2 \in Slots /\ FirstFree(n + 2)

HandlersInUse(n) == \/ n = NumHandlers /\ NoTopic \notin {messageHandlers[s] : s \in Slots}
                    \/ n + 1 \in Slots /\ FirstFree(n + 1)

----------------------------------------------------------------------------
(* Connecting.                                                             *)

(* mqtt_connect up to the wait for the CONNACK, with the frames under it.  *)
(* Failures of the DNS lookup, the TCP connection and the write of the     *)
(* CONNECT packet end alike; one code stands for theirs.                   *)
StartConnect(below) ==
  \/ /\ OpenConnection
     /\ clientState' = "CONNECTING"
     /\ stack' = Append(below, Frame("connect", "wait"))
     /\ ret' = NoResult
  \/ /\ CloseConnection
     /\ clientState' = "DISCONNECTED_ERROR"
     /\ stack' = below
     /\ ret' = Result("connect", "TCP_CONNECTION_ERROR")

Connect ==
  /\ MayCall("connect")
  /\ \/ /\ clientState \in ValidForConnect
        /\ StartConnect(stack)
        /\ UNCHANGED <<ping, backoff, subs>>
     \/ /\ clientState \notin ValidForConnect
        /\ Refuse("connect", "NETWORK_ALREADY_CONNECTED_ERROR")

(* Mutant: the socket of a failed connect is not closed.                   *)
FailConnectLeak(rc) ==
  /\ Cas("CONNECTING", "DISCONNECTED_ERROR")
  /\ ret' = Result("connect", rc)
  /\ stack' = Pop
  /\ UNCHANGED <<netVars, ping, backoff, subs>>

(* mqtt_connect after a failed _mqtt_internal_connect *)
FailConnect(rc) ==
  /\ CloseConnection
  /\ Cas("CONNECTING", "DISCONNECTED_ERROR")
  /\ ret' = Result("connect", rc)
  /\ stack' = Pop
  /\ UNCHANGED <<ping, backoff, subs>>

ReadConnack ==
  /\ At("connect", "wait") /\ Arrived("CONNACK")
  /\ \/ /\ Head(toClient).kind = "plain"
        /\ Consume
        /\ Cas("CONNECTING", "CONNECTED_IDLE")
        /\ FreshPing
        /\ ret' = Result("connect", "MQTT_SUCCESS")
        /\ stack' = Pop
        /\ UNCHANGED <<backoff, subs>>
     \/ /\ Head(toClient).kind = "refused"
        /\ FailConnect("MQTT_CONNACK_REFUSED")

(* mqtt_attempt_reconnect: a connect, then a resubscribe, in one frame that *)
(* waits for each.                                                         *)
AttemptReconnect ==
  /\ MayCall("reconnect")
  /\ \/ /\ IsConnected
        /\ Refuse("reconnect", "NETWORK_ALREADY_CONNECTED_ERROR")
     \/ /\ ~IsConnected      \* nothing calls this while CONNECTING
        /\ StartConnect(Append(stack, Frame("reconnect", "connect")))
        /\ UNCHANGED <<ping, backoff, subs>>

(* Mutant: the failure is reported, the state is not set.                  *)
ReconnectFailedQuietly ==
  /\ At("reconnect", "connect") /\ clientState # "CONNECTED_IDLE"
  /\ ret' = Result("reconnect", "NETWORK_ATTEMPTING_RECONNECT")
  /\ stack' = Pop
  /\ UNCHANGED <<netVars, ping, backoff, subs, clientState>>

(* "If still disconnected handle disconnect" *)
ReconnectFailed ==
  /\ At("reconnect", "connect") /\ clientState # "CONNECTED_IDLE"
  /\ Cas("DISCONNECTED_ERROR", "PENDING_RECONNECT")
  /\ ret' = Result("reconnect", "NETWORK_ATTEMPTING_RECONNECT")
  /\ stack' = Pop
  /\ UNCHANGED <<netVars, ping, backoff, subs>>

ReconnectResubscribed ==
  /\ At("reconnect", "resubscribe")
  /\ ret' = Result("reconnect", IF ret.rc = "MQTT_SUCCESS" THEN "NETWORK_RECONNECTED" ELSE ret.rc)
  /\ stack' = Pop
  /\ UNCHANGED <<netVars, ping, backoff, subs, clientState>>

(* _mqtt_internal_resubscribe: one SUBSCRIBE per handler up to the first   *)
(* free one, each answered before the next.                                *)
StartResubscribe(below) ==
  \E n \in 0..NumHandlers :
    /\ HandlersInUse(n)
    /\ \/ /\ n = 0
          /\ ret' = Result("resubscribe", "MQTT_SUCCESS")
          /\ stack' = below
          /\ UNCHANGED <<netVars, clientState, nextPacketId>>
       \/ /\ n > 0
          /\ nextPacketId' = NextId
          /\ SendRequest("resubscribe", Packet("SUBSCRIBE", messageHandlers[1], NextId),
                         Saving("resubscribe", "wait", NoTopic, 1, n, NextId),
                         below)

Resubscribe ==
  /\ MayCall("resubscribe")
  /\ \/ /\ clientState = "CONNECTED_IDLE"
        /\ StartResubscribe(stack)
        /\ UNCHANGED <<ping, backoff, messageHandlers, rxTopic>>
     \/ /\ clientState # "CONNECTED_IDLE"
        /\ Refuse("resubscribe", IF IsConnected THEN "MQTT_CLIENT_NOT_IDLE_ERROR"
                                                ELSE "NETWORK_DISCONNECTED_ERROR")

ReconnectConnected ==
  /\ At("reconnect", "connect") /\ clientState = "CONNECTED_IDLE"
  /\ StartResubscribe(SetTop([Top EXCEPT !.pc = "resubscribe"]))
  /\ UNCHANGED <<ping, backoff, messageHandlers, rxTopic>>

(* The SUBACK of one handler; on to the next one.  A handler that became   *)
(* free meanwhile is subscribed to with its NULL topic.                    *)
ReadResuback ==
  /\ At("resubscribe", "wait") /\ Arrived("SUBACK")
  /\ rxTopic' = NoTopic
  /\ \/ /\ Top.slot = Top.last
        /\ Consume
        /\ EndRequest("MQTT_SUCCESS")
        /\ UNCHANGED nextPacketId
     \/ /\ Top.slot < Top.last
        /\ nextPacketId' = NextId
        /\ \/ /\ ConsumeAndSend(Packet("SUBSCRIBE", messageHandlers[Top.slot + 1], NextId))
              /\ stack' = SetTop([Top EXCEPT !.slot = @ + 1, !.id = NextId])
              /\ UNCHANGED <<clientState, ret>>
           \/ /\ Consume
              /\ EndRequest("MQTT_FAILURE")
  /\ UNCHANGED <<ping, backoff, messageHandlers>>

(* mqtt_disconnect: the DISCONNECT packet and the end of the connection    *)
(* are one; when the packet cannot be written everything stays as it was.  *)
Disconnect ==
  /\ MayCall("disconnect")
  /\ \/ /\ ~IsConnected
        /\ Refuse("disconnect", "NETWORK_DISCONNECTED_ERROR")
     \/ /\ IsConnected /\ CanSend
        /\ CloseConnection
        /\ clientState' = "DISCONNECTED_MANUALLY"
        /\ ret' = Result("disconnect", "MQTT_SUCCESS")
        /\ UNCHANGED <<ping, backoff, subs, stack>>
     \/ /\ IsConnected
        /\ Refuse("disconnect", "MQTT_FAILURE")

(* mqtt_autoreconnect_set_status *)
SetAutoReconnect ==
  /\ MayCall("set_autoreconnect")
  /\ isAutoReconnectEnabled' = ~isAutoReconnectEnabled
  /\ UNCHANGED <<netVars, ping, currentReconnectWaitInterval, delayExpired, subs, calls>>

----------------------------------------------------------------------------
(* Requests.                                                               *)

(* mqtt_publish.  QoS0 is over when it is written.                         *)
Publish ==
  /\ MayCall("publish")
  /\ \/ RefuseRequest("publish")
     \/ /\ MayRequest /\ 0 \in OutQos
        /\ \/ Send(Simple("PUBLISH")) /\ ret' = Result("publish", "MQTT_SUCCESS")
           \/ SendFails /\ ret' = Result("publish", "MQTT_FAILURE")
        /\ UNCHANGED <<ping, backoff, subs, clientState, stack>>
     \/ /\ MayRequest /\ 1 \in OutQos
        /\ nextPacketId' = NextId
        /\ SendRequest("publish", Packet("PUBLISH", NoTopic, NextId),
                       Saving("publish", "wait", NoTopic, 0, 0, NextId),
                       stack)
        /\ UNCHANGED <<ping, backoff, messageHandlers, rxTopic>>

(* mqtt_subscribe: the handler's slot is chosen before the wait.           *)
Subscribe ==
  /\ MayCall("subscribe")
  /\ \/ RefuseRequest("subscribe")
     \/ /\ MayRequest
        /\ nextPacketId' = NextId
        /\ \/ /\ HandlersInUse(NumHandlers)
              /\ ret' = Result("subscribe", "MQTT_MAX_SUBSCRIPTIONS_REACHED_ERROR")
              /\ UNCHANGED <<netVars, clientState, stack>>
           \/ \E s \in Slots, t \in Topics :
                /\ FirstFree(s)
                /\ SendRequest("subscribe", Packet("SUBSCRIBE", t, NextId),
                     Saving("subscribe", "wait", t, s, 0, NextId),
                     stack)
        /\ UNCHANGED <<ping, backoff, messageHandlers, rxTopic>>

(* mqtt_unsubscribe *)
Unsubscribe ==
  /\ MayCall("unsubscribe")
  /\ \/ RefuseRequest("unsubscribe")
     \/ /\ MayRequest /\ Registered # Topics
        /\ Refuse("unsubscribe", "MQTT_FAILURE")
     \/ /\ MayRequest
        /\ nextPacketId' = NextId
        /\ \E t \in Registered :
             SendRequest("unsubscribe", Packet("UNSUBSCRIBE", t, NextId),
                         Saving("unsubscribe", "wait", t, 0, 0, NextId), stack)
        /\ UNCHANGED <<ping, backoff, messageHandlers, rxTopic>>

(* The answers.  Packet identifiers and granted QoS are not looked at.     *)
ReadPuback ==
  /\ At("publish", "wait") /\ Arrived("PUBACK")
  /\ Consume
  /\ EndRequest("MQTT_SUCCESS")
  /\ UNCHANGED <<ping, backoff, subs>>

ReadSuback ==
  /\ At("subscribe", "wait") /\ Arrived("SUBACK")
  /\ Consume
  /\ messageHandlers' = [messageHandlers EXCEPT ![Top.slot] = Top.topic]
  /\ rxTopic' = NoTopic
  /\ EndRequest("MQTT_SUCCESS")
  /\ UNCHANGED <<ping, backoff, nextPacketId>>

ReadUnsuback ==
  /\ At("unsubscribe", "wait") /\ Arrived("UNSUBACK")
  /\ Consume
  /\ messageHandlers' = [s \in Slots |-> IF messageHandlers[s] = Top.topic THEN NoTopic
                                                                         ELSE messageHandlers[s]]
  /\ EndRequest("MQTT_SUCCESS")
  /\ UNCHANGED <<ping, backoff, nextPacketId, rxTopic>>

(* mqtt_internal_wait_for_read runs out of time.                           *)
Waiting == stack # <<>> /\ Top.pc = "wait"

(* Mutant: only the wait for a CONNACK looks at its timer.                 *)
WaitTimeoutConnack ==
  Waiting /\ Top.op = "connect" /\ FailConnect("MQTT_REQUEST_TIMEOUT_ERROR")

WaitTimeout ==
  /\ Waiting
  /\ \/ /\ Top.op = "connect"
        /\ FailConnect("MQTT_REQUEST_TIMEOUT_ERROR")
     \/ /\ Top.op \in Requests
        /\ EndRequest("MQTT_REQUEST_TIMEOUT_ERROR")
        /\ UNCHANGED <<netVars, ping, backoff, subs>>

----------------------------------------------------------------------------
(* mqtt_internal_cycle_read: called in a loop by every waiting request and *)
(* by mqtt_yield, which alone looks at its return code.                    *)

Reading == \/ Waiting
           \/ At("yield", "loop") /\ clientState # "PENDING_RECONNECT"

AnswerTo == [connect |-> "CONNACK", publish |-> "PUBACK", subscribe |-> "SUBACK",
             resubscribe |-> "SUBACK", unsubscribe |-> "UNSUBACK", yield |-> "none"]

YieldTo(pc, rc) == stack' = SetTop([Top EXCEPT !.pc = pc, !.rc = rc])

AfterRead(rc) ==
  IF Top.op = "yield" THEN YieldTo(IF rc = "MQTT_SUCCESS" THEN "alive" ELSE "exit", rc)
                      ELSE UNCHANGED stack

(* An answer nobody waits for is dropped.  A SUBACK is a byte longer than  *)
(* the others and overwrites the first byte of a topic still being         *)
(* delivered.                                                              *)
ReadOther ==
  /\ Reading
  /\ \E type \in {"CONNACK", "PUBACK", "SUBACK", "UNSUBACK"} :
       /\ Arrived(type) /\ type # AnswerTo[Top.op]
       /\ rxTopic' = IF type = "SUBACK" THEN NoTopic ELSE rxTopic
  /\ Consume
  /\ AfterRead("MQTT_SUCCESS")
  /\ UNCHANGED <<ping, backoff, nextPacketId, messageHandlers, clientState, ret>>

ReadPingresp ==
  /\ Reading /\ Arrived("PINGRESP")
  /\ Consume
  /\ FreshPing
  /\ AfterRead("MQTT_SUCCESS")
  /\ UNCHANGED <<backoff, subs, clientState, ret>>

(* A message longer than readBuf is read over it piece by piece.           *)
ReadOversize ==
  /\ Reading /\ Arrived("PUBLISH") /\ Head(toClient).kind = "oversize"
  /\ Consume
  /\ rxTopic' = NoTopic
  /\ AfterRead("MQTT_RX_BUFFER_TOO_SHORT_ERROR")
  /\ UNCHANGED <<ping, backoff, nextPacketId, messageHandlers, clientState, ret>>

(* Nothing came before the timer ran out; also what a read on server_fd -1 *)
(* reports.  A waiting request just looks again.                           *)
ReadNothing ==
  /\ At("yield", "loop") /\ clientState # "PENDING_RECONNECT"
  /\ socket \in {"up", "silent", "closed"}
  /\ YieldTo("alive", "MQTT_SUCCESS")
  /\ UNCHANGED <<netVars, ping, backoff, subs, clientState, ret>>

(* The rest of a packet does not come: in its length bytes, or after them, *)
(* when part of it is in readBuf.                                          *)
ReadTorn ==
  /\ Reading /\ socket = "torn" /\ toClient = <<>>
  /\ socket' \in {"silent", "reset"}
  /\ \/ AfterRead("NETWORK_SSL_NOTHING_TO_READ") /\ UNCHANGED rxTopic
     \/ AfterRead("MQTT_FAILURE") /\ rxTopic' \in {rxTopic, NoTopic}
  /\ UNCHANGED <<wifi, toBroker, toClient, session, brokerSubs, ping, backoff,
                 nextPacketId, messageHandlers, clientState, ret>>

(* NETWORK_SSL_READ_ERROR.  A waiting request goes on until it times out.  *)
ReadError ==
  /\ At("yield", "loop") /\ clientState # "PENDING_RECONNECT" /\ socket = "reset"
  /\ YieldTo("lost", "MQTT_SUCCESS")
  /\ UNCHANGED <<netVars, ping, backoff, subs, clientState, ret>>

----------------------------------------------------------------------------
(* _aws_iot_mqtt_internal_handle_publish and deliver_message.              *)

ReadPublish ==
  /\ Reading /\ Arrived("PUBLISH") /\ Head(toClient).kind # "oversize"
  /\ Consume
  /\ rxTopic' = Head(toClient).topic
  /\ clientState' = "CONNECTED_WAIT_FOR_CB_RETURN"
  /\ stack' = Append(IF Top.op = "yield" THEN SetTop([Top EXCEPT !.pc = "deliver"]) ELSE stack,
                     Saving("deliver", "scan", NoTopic, 0, 0, Head(toClient).id))
  /\ ret' = NoResult
  /\ UNCHANGED <<ping, backoff, nextPacketId, messageHandlers>>

Matches(s) == messageHandlers[s] # NoTopic /\ messageHandlers[s] = rxTopic

(* The next handler, in slot order, whose topic is the one in the buffer.  *)
Deliver ==
  /\ At("deliver", "scan")
  /\ \E s \in Slots :
       /\ s > Top.slot /\ Matches(s)
       /\ \A r \in (Top.slot + 1)..(s-1) : ~Matches(r)
       /\ stack' = SetTop([Top EXCEPT !.pc = "callback", !.slot = s])
  /\ UNCHANGED <<netVars, ping, backoff, subs, clientState, ret>>

CallbackReturns ==
  /\ At("deliver", "callback")
  /\ stack' = SetTop([Top EXCEPT !.pc = "scan"])
  /\ UNCHANGED <<netVars, ping, backoff, subs, clientState, ret>>

(* No handler is left: the state goes back, a QoS1 message is acknowledged *)
(* under the caller's timer.  Bytes nobody will look at again are dropped. *)
EndDelivery ==
  /\ At("deliver", "scan")
  /\ \A s \in Slots : s > Top.slot => ~Matches(s)
  /\ Cas("CONNECTED_WAIT_FOR_CB_RETURN", Top.saved)
  /\ LET rc == CasRc("CONNECTED_WAIT_FOR_CB_RETURN") IN
       \/ /\ rc # "MQTT_SUCCESS" \/ Top.id = 0
          /\ UNCHANGED netVars
          /\ ret' = Result("deliver", rc)
       \/ /\ rc = "MQTT_SUCCESS" /\ Top.id # 0
          /\ \/ Send(Packet("PUBACK", NoTopic, Top.id)) /\ ret' = Result("deliver", "MQTT_SUCCESS")
             \/ SendFails /\ ret' = Result("deliver", "MQTT_FAILURE")
  /\ stack' = Pop
  /\ rxTopic' = IF \E i \in 1..(Len(stack) - 1) : stack[i].op = "deliver" THEN rxTopic ELSE NoTopic
  /\ UNCHANGED <<ping, backoff, nextPacketId, messageHandlers>>

YieldAfterDelivery ==
  /\ At("yield", "deliver")
  /\ AfterRead(ret.rc)
  /\ ret' = NoResult
  /\ UNCHANGED <<netVars, ping, backoff, subs, clientState>>

----------------------------------------------------------------------------
(* mqtt_yield                                                              *)

(* Mutant: mqtt_yield accepts the state of a callback.                     *)
ValidForYieldCallback == {"CONNECTED_IDLE", "PENDING_RECONNECT", "CONNECTED_WAIT_FOR_CB_RETURN"}

ValidForYield == {"CONNECTED_IDLE", "PENDING_RECONNECT"}

Yield ==
  /\ MayCall("yield")
  /\ \/ /\ clientState \notin ValidForYield
        /\ Refuse("yield",
             IF clientState = "DISCONNECTED_MANUALLY" THEN "NETWORK_MANUALLY_DISCONNECTED"
             ELSE IF IsConnected THEN "MQTT_CLIENT_NOT_IDLE_ERROR"
             ELSE "NETWORK_DISCONNECTED_ERROR")
     \/ /\ clientState \in ValidForYield
        /\ Cas("CONNECTED_IDLE", "CONNECTED_YIELD_IN_PROGRESS")
        /\ stack' = Append(stack, Frame("yield", "loop"))
        /\ ret' = NoResult
        /\ UNCHANGED <<netVars, ping, backoff, subs>>

(* _mqtt_keep_alive *)
PingLost == KeepAlive /\ pingExpired /\ isPingOutstanding

(* Mutant: another PINGREQ goes out while one is unanswered.               *)
PingDueAgain == KeepAlive /\ pingExpired

PingDue == KeepAlive /\ pingExpired /\ ~isPingOutstanding

KeepAliveCheck ==
  /\ At("yield", "alive")
  /\ \/ /\ ~PingLost /\ ~PingDue
        /\ YieldTo("check", "MQTT_SUCCESS")
        /\ UNCHANGED <<netVars, ping>>
     \/ /\ PingLost
        /\ YieldTo("lost", "MQTT_SUCCESS")
        /\ UNCHANGED <<netVars, ping>>
     \/ /\ PingDue
        /\ \/ /\ Send(Simple("PINGREQ"))
              /\ isPingOutstanding' = TRUE /\ pingExpired' = FALSE
              /\ YieldTo("check", "MQTT_SUCCESS")
           \/ /\ SendFails
              /\ YieldTo("lost", "MQTT_SUCCESS")
              /\ UNCHANGED ping
  /\ UNCHANGED <<backoff, subs, clientState, ret>>

(* _mqtt_handle_disconnect up to the disconnect handler: mqtt_disconnect,  *)
(* or _mqtt_force_client_disconnect when that fails.                       *)
HandleDisconnect ==
  /\ At("yield", "lost")
  /\ CloseConnection
  /\ \/ IsConnected /\ CanSend /\ clientState' = "DISCONNECTED_MANUALLY"
     \/ clientState' = "DISCONNECTED_ERROR"
  /\ YieldTo("handler", "MQTT_SUCCESS")
  /\ UNCHANGED <<ping, backoff, subs, ret>>

(* The handler returns, its work is overwritten with DISCONNECTED_ERROR,   *)
(* and yield starts the reconnection or gives up.                          *)
HandlerReturns ==
  /\ At("yield", "handler")
  /\ \/ /\ isAutoReconnectEnabled
        /\ clientState' = "PENDING_RECONNECT"
        /\ currentReconnectWaitInterval' = MinInterval
        /\ delayExpired' = FALSE
        /\ YieldTo("check", "NETWORK_ATTEMPTING_RECONNECT")
     \/ /\ ~isAutoReconnectEnabled
        /\ clientState' = "DISCONNECTED_ERROR"
        /\ YieldTo("exit", "NETWORK_DISCONNECTED_ERROR")
        /\ UNCHANGED <<currentReconnectWaitInterval, delayExpired>>
  /\ UNCHANGED <<netVars, ping, isAutoReconnectEnabled, subs, ret>>

(* Mutant: the interval stays as it is.                                    *)
BackOffConstant(rc) ==
  /\ delayExpired' = FALSE
  /\ YieldTo("check", rc)
  /\ UNCHANGED <<isAutoReconnectEnabled, currentReconnectWaitInterval>>

(* _mqtt_handle_reconnect: the interval doubles after every attempt that   *)
(* did not end in a resubscribed connection.                               *)
BackOff(rc) ==
  /\ currentReconnectWaitInterval' = 2 * currentReconnectWaitInterval
  /\ \/ /\ 2 * currentReconnectWaitInterval > MaxInterval
        /\ YieldTo("check", "NETWORK_RECONNECT_TIMED_OUT_ERROR")
        /\ UNCHANGED delayExpired
     \/ /\ 2 * currentReconnectWaitInterval <= MaxInterval
        /\ delayExpired' = FALSE
        /\ YieldTo("check", rc)
  /\ UNCHANGED isAutoReconnectEnabled

HandleReconnect ==
  /\ At("yield", "loop") /\ clientState = "PENDING_RECONNECT"
  /\ \/ /\ currentReconnectWaitInterval > MaxInterval
        /\ YieldTo("exit", "NETWORK_RECONNECT_TIMED_OUT_ERROR")
        /\ UNCHANGED <<netVars, backoff, clientState, ret>>
     \/ /\ currentReconnectWaitInterval <= MaxInterval /\ ~delayExpired
        /\ YieldTo("check", "NETWORK_ATTEMPTING_RECONNECT")
        /\ UNCHANGED <<netVars, backoff, clientState, ret>>
     \/ /\ currentReconnectWaitInterval <= MaxInterval /\ delayExpired /\ ~wifi
        /\ BackOff("NETWORK_MANUALLY_DISCONNECTED")
        /\ UNCHANGED <<netVars, clientState, ret>>
     \/ /\ currentReconnectWaitInterval <= MaxInterval /\ delayExpired /\ wifi
        /\ StartConnect(Append(SetTop([Top EXCEPT !.pc = "reconnect"]),
                               Frame("reconnect", "connect")))
        /\ UNCHANGED backoff
  /\ UNCHANGED <<ping, subs>>

YieldAfterReconnect ==
  /\ At("yield", "reconnect")
  /\ \/ /\ ret.rc = "NETWORK_RECONNECTED"
        /\ Cas("CONNECTED_IDLE", "CONNECTED_YIELD_IN_PROGRESS")
        /\ YieldTo("check", IF clientState = "CONNECTED_IDLE" THEN "NETWORK_RECONNECTED"
                            ELSE "MQTT_UNEXPECTED_CLIENT_STATE_ERROR")
        /\ UNCHANGED backoff
     \/ /\ ret.rc # "NETWORK_RECONNECTED"
        /\ BackOff(ret.rc)
        /\ UNCHANGED clientState
  /\ ret' = NoResult
  /\ UNCHANGED <<netVars, ping, subs>>

YieldAgain ==
  /\ At("yield", "check")
  /\ YieldTo("loop", "MQTT_SUCCESS")
  /\ UNCHANGED <<netVars, ping, backoff, subs, clientState, ret>>

(* The return codes for which mqtt_yield does not restore the state.       *)
LeaveState == {"NETWORK_DISCONNECTED_ERROR", "NETWORK_ATTEMPTING_RECONNECT"}

(* The yield timer has expired, or the loop was left.                      *)
YieldReturns ==
  /\ At("yield", "check") \/ At("yield", "exit")
  /\ LET restore == Top.rc \notin LeaveState
     IN /\ IF restore THEN Cas("CONNECTED_YIELD_IN_PROGRESS", "CONNECTED_IDLE")
                      ELSE UNCHANGED clientState
        /\ ret' = Result("yield", IF restore /\ Top.rc = "MQTT_SUCCESS"
                                  THEN CasRc("CONNECTED_YIELD_IN_PROGRESS") ELSE Top.rc)
  /\ stack' = Pop
  /\ UNCHANGED <<netVars, ping, backoff, subs>>

----------------------------------------------------------------------------
(* Timers, and the world.                                                  *)

PingTimerExpires ==
  /\ ~pingExpired
  /\ pingExpired' = TRUE
  /\ UNCHANGED <<netVars, isPingOutstanding, backoff, subs, calls>>

DelayTimerExpires ==
  /\ ~delayExpired
  /\ delayExpired' = TRUE
  /\ UNCHANGED <<netVars, ping, isAutoReconnectEnabled, currentReconnectWaitInterval, subs, calls>>

World == (Broker \/ Outages) /\ UNCHANGED clientVars

ApiCall == \/ Connect \/ AttemptReconnect \/ Resubscribe \/ Disconnect \/ SetAutoReconnect
           \/ Publish \/ Subscribe \/ Unsubscribe \/ Yield

ReadStep == \/ ReadConnack \/ ReadResuback \/ ReadPuback \/ ReadSuback \/ ReadUnsuback
            \/ ReadOther \/ ReadPingresp \/ ReadOversize \/ ReadPublish
            \/ ReadNothing \/ ReadTorn \/ ReadError

ClientStep == \/ ReconnectFailed \/ ReconnectConnected \/ ReconnectResubscribed
              \/ Deliver \/ EndDelivery \/ YieldAfterDelivery
              \/ KeepAliveCheck \/ HandleDisconnect \/ HandleReconnect \/ YieldAfterReconnect

Next == \/ ApiCall \/ ReadStep \/ ClientStep
        \/ WaitTimeout \/ CallbackReturns \/ HandlerReturns \/ YieldAgain \/ YieldReturns
        \/ PingTimerExpires \/ DelayTimerExpires \/ World

Spec == Init /\ [][Next]_vars

----------------------------------------------------------------------------
(* Safety.                                                                 *)

(* A client that believes it is connected, or is connecting, has a socket: *)
(* no read, write or ping of a live state goes to descriptor -1, whatever  *)
(* callbacks did inside the call in progress.                              *)
ConnectedHasSocket ==
  clientState \in ConnectedStates \cup {"CONNECTING"} => socket # "closed"

(* The converse: an open descriptor always has a client state that will    *)
(* close it.  mqtt_connect overwrites server_fd, so a descriptor open in a *)
(* disconnected state is lost at the next connect.                         *)
OpenSocketOwned ==
  socket # "closed" => clientState \in ConnectedStates \cup {"CONNECTING"}

(* A busy state belongs to the innermost call: when a call has returned,   *)
(* normally, by timeout or after callbacks that called the client again,   *)
(* no state that would refuse every later request is left behind.          *)
StateOnTop ==
  \A op \in BusyOps : clientState = InProgress[op] => stack # <<>> /\ Top.op = op

(* What makes StateOnTop and ConnectedHasSocket inductive.  The state a     *)
(* frame will restore belongs to the frame under it, and no library call   *)
(* runs on top of a connect.                                               *)
SavedBelow ==
  \A i \in 1..Len(stack) : \A op \in BusyOps :
    stack[i].saved = InProgress[op] => i > 1 /\ stack[i-1].op = op

ConnectInnermost == \A i \in 1..(Len(stack) - 1) : stack[i].op # "connect"

(* A yield that runs something on top of itself will get its own state     *)
(* back only from a delivery.                                              *)
YieldBelow ==
  \A i \in 2..Len(stack) : stack[i-1].op = "yield" =>
    /\ stack[i].saved = "CONNECTED_YIELD_IN_PROGRESS" => stack[i-1].pc = "deliver"
    /\ stack[i-1].pc = "deliver" => stack[i].op = "deliver"

DeliveryCodes == {"MQTT_SUCCESS", "MQTT_FAILURE", "MQTT_UNEXPECTED_CLIENT_STATE_ERROR"}

(* A yield that will return such a code has given its state up.            *)
YieldOnTop ==
  stack # <<>> /\ Top.op = "yield" =>
    /\ clientState = "CONNECTED_YIELD_IN_PROGRESS" =>
         /\ Top.pc \notin {"handler", "reconnect"}
         /\ Top.pc \in {"check", "exit"} => Top.rc \notin LeaveState
    /\ Top.pc = "deliver" => ret.rc \in DeliveryCodes

(* A CONNACK is the first packet of a connection, so that nothing is read  *)
(* before it by a connect; and nothing is read after the socket is closed. *)
ConnackFirst ==
  /\ stack # <<>> /\ Top.op = "connect" =>
       /\ clientState = "CONNECTING"
       /\ (toClient = <<>> /\ ~session) \/ Arrived("CONNACK")
  /\ socket = "closed" => toClient = <<>>

StackInv == /\ StateOnTop /\ SavedBelow /\ ConnectInnermost /\ YieldBelow /\ YieldOnTop
            /\ ConnackFirst /\ ConnectedHasSocket

(* An outstanding ping can still be answered: isPingOutstanding never      *)
(* survives into a connection on which no PINGREQ was sent, where keep     *)
(* alive would take a healthy link for a dead one.                         *)
PingAnswerable ==
  IsConnected /\ isPingOutstanding /\ socket = "up" =>
    \/ \E i \in 1..Len(toBroker) : toBroker[i].type = "PINGREQ"
    \/ \E i \in 1..Len(toClient) : toClient[i].type = "PINGRESP"

(* mqtt_yield is not re-entered from a subscription callback: the comment  *)
(* of deliver_message says WAIT_FOR_CB_RETURN accomplishes that.  It does  *)
(* as long as callbacks do not disconnect and connect again.               *)
YieldNotInCallback ==
  \A i, j \in 1..Len(stack) : i < j /\ stack[i].op = "deliver" => stack[j].op # "yield"

----------------------------------------------------------------------------
(* Steps.                                                                  *)

AppLevel == stack = <<>> \/ At("deliver", "callback") \/ At("yield", "handler")

ReturnsWith(op, rc) == ret' # ret /\ ret' = Result(op, rc)

(* What the outermost call returns tells the application the state it      *)
(* finds the client in.                                                    *)
ResultTellsState ==
  [][stack # <<>> /\ stack' = <<>> =>
       /\ ret'.rc \in {"MQTT_SUCCESS", "NETWORK_RECONNECTED"} => clientState' = "CONNECTED_IDLE"
       /\ ret'.rc = "NETWORK_ATTEMPTING_RECONNECT" => clientState' = "PENDING_RECONNECT"
       /\ ret'.rc = "NETWORK_DISCONNECTED_ERROR" => clientState' \notin ConnectedStates]_vars

(* After a disconnect the application asked for, only the application      *)
(* makes the client leave DISCONNECTED_MANUALLY.  Unless a callback        *)
(* disconnects during the resubscription of a reconnecting yield, which    *)
(* goes on.                                                                *)
ManualDisconnectSticks ==
  [][clientState = "DISCONNECTED_MANUALLY" /\ clientState' # clientState =>
       AppLevel]_vars

(* A handler slot in use is only ever emptied (by unsubscribe), never given *)
(* to another subscription.                                                *)
HandlersKept ==
  [][\A s \in Slots : messageHandlers[s] # NoTopic =>
       messageHandlers'[s] \in {messageHandlers[s], NoTopic}]_vars

(* NETWORK_RECONNECTED: every topic with a handler is subscribed to on the *)
(* new connection, or its SUBSCRIBE is on the way.                         *)
ReconnectedMeansSubscribed ==
  [][ReturnsWith("reconnect", "NETWORK_RECONNECTED") /\ socket = "up" =>
       \A t \in Registered :
         \/ t \in brokerSubs
         \/ \E i \in 1..Len(toBroker) : toBroker[i].type = "SUBSCRIBE" /\ toBroker[i].topic = t]_vars

(* A successful QoS1 publish was acknowledged by its own PUBACK.           *)
PubackAnswersPublish ==
  [][At("publish", "wait") /\ ReturnsWith("publish", "MQTT_SUCCESS") =>
       Head(toClient).id = Top.id]_vars

----------------------------------------------------------------------------
(* Liveness.  The thread runs; every countdown ends, and the loops that    *)
(* test one test it again and again; callbacks make finitely many calls.   *)
(* The application keeps calling mqtt_yield, whatever else it does, as     *)
(* mqtt_client_interface.h asks it to.  Nothing is asked of the broker.    *)

Fairness ==
  /\ WF_vars(ReadStep) /\ WF_vars(ClientStep)
  /\ SF_vars(WaitTimeout) /\ SF_vars(YieldReturns)
  /\ SF_vars(CallbackReturns) /\ SF_vars(HandlerReturns)
  /\ WF_vars(PingTimerExpires) /\ WF_vars(DelayTimerExpires)
  /\ SF_vars(Yield)

FairSpec == Spec /\ Fairness

(* Every blocking call returns to the application, dead peer or not.       *)
EveryCallReturns == stack # <<>> ~> stack = <<>>

(* A connection whose peer is gone is noticed: keep alive takes the client *)
(* out of the connected states, or the application does.                   *)
DeadLinkNoticed ==
  IsConnected /\ socket \in {"silent", "torn", "reset"} ~> ~IsConnected \/ socket = "up"

(* A pending reconnection ends: in an attempt, or in giving up when the    *)
(* interval has grown past its maximum.                                    *)
PendingResolves ==
  clientState = "PENDING_RECONNECT" ~>
    clientState # "PENDING_RECONNECT" \/ currentReconnectWaitInterval > MaxInterval
=============================================================================
