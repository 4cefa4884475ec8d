---------------------------- MODULE MqttThreads ----------------------------
(* The client with _ENABLE_THREAD_SUPPORT_: threads that share it, at the  *)
(* grain of what its three mutexes make atomic.  A state is tested and     *)
(* taken in two steps, a packet is written into writeBuf before the mutex  *)
(* of the socket is taken, and readBuf is used after its mutex is given    *)
(* back.  Locks block (otherwise the stub of trylock refuses every call),  *)
(* links do not fail, and callbacks make no calls: MqttClient has the      *)
(* last two.                                                               *)
EXTENDS Naturals, FiniteSets

CONSTANTS
  Threads,
  Connecters,     \* those that call mqtt_connect
  Disconnecters,  \* those that call mqtt_disconnect
  Nobody          \* no thread

ASSUME ThreadsAssumption ==
  /\ Connecters \subseteq Threads /\ Disconnecters \subseteq Threads
  /\ Nobody \notin Threads

VARIABLES
  clientState,
  tls_read_mutex, tls_write_mutex, \* who holds it, or Nobody
  writeBuf, readBuf,               \* whose packet is in it, or Nobody's
  op, pc,                          \* of each thread: its call, and where it is
  packet,                          \* the packet it writes and sends
  saved,                           \* clientState as the call found it
  cbSaved,                         \* clientState as the delivery found it
  disturbed                        \* history: a call took the state from another

shared == <<tls_read_mutex, tls_write_mutex, writeBuf, readBuf>>
locals == <<op, packet, saved, cbSaved>>
vars == <<clientState, shared, locals, pc, disturbed>>

Ops == {"connect", "publish", "yield", "disconnect"}

(* The packet a call sends.  publish is with QoS1, and yield sends packets *)
(* of its own.                                                             *)
PacketOf(o) ==
  CASE o = "connect"    -> "CONNECT"
    [] o = "publish"    -> "PUBLISH"
    [] o = "yield"      -> "PINGREQ"
    [] o = "disconnect" -> "DISCONNECT"

InProgress(o) ==
  CASE o = "connect"    -> "CONNECTING"
    [] o = "publish"    -> "CONNECTED_PUBLISH_IN_PROGRESS"
    [] o = "yield"      -> "CONNECTED_YIELD_IN_PROGRESS"
    [] o = "disconnect" -> "DISCONNECTING"

Connected == {"CONNECTED_IDLE", "CONNECTED_PUBLISH_IN_PROGRESS", "CONNECTED_YIELD_IN_PROGRESS",
              "CONNECTED_WAIT_FOR_CB_RETURN"}

Unconnected == {"INITIALIZED", "DISCONNECTED_ERROR", "DISCONNECTED_MANUALLY"}

States == Connected \cup Unconnected \cup {"CONNECTING", "DISCONNECTING"}

(* The states in which a call goes on.                                     *)
Allowed(o) ==
  CASE o = "connect"    -> Unconnected
    [] o = "publish"    -> {"CONNECTED_IDLE", "CONNECTED_WAIT_FOR_CB_RETURN"}
    [] o = "yield"      -> {"CONNECTED_IDLE"}
    [] o = "disconnect" -> Connected

MayCall(t) ==
  {"publish", "yield"} \cup (IF t \in Connecters THEN {"connect"} ELSE {})
                       \cup (IF t \in Disconnecters THEN {"disconnect"} ELSE {})

----------------------------------------------------------------------------
Goto(t, p) == pc' = [pc EXCEPT ![t] = p]

(* A call returns, and its locals with it.                                 *)
Return(t) ==
  /\ Goto(t, "out")
  /\ op' = [op EXCEPT ![t] = "yield"] /\ packet' = [packet EXCEPT ![t] = "PINGREQ"]
  /\ saved' = [saved EXCEPT ![t] = "INITIALIZED"]
  /\ cbSaved' = [cbSaved EXCEPT ![t] = "INITIALIZED"]

(* mqtt_set_client_state holds state_change_mutex throughout.              *)
Cas(expected, new) == clientState = expected /\ clientState' = new

CasFails(expected) == clientState # expected /\ UNCHANGED clientState

(* A call begins, and goes on if the state it reads allows it.             *)
Call(t) ==
  /\ pc[t] = "out"
  /\ \E o \in MayCall(t) :
       /\ clientState \in Allowed(o)
       /\ op' = [op EXCEPT ![t] = o]
       /\ packet' = [packet EXCEPT ![t] = PacketOf(o)]
  /\ saved' = [saved EXCEPT ![t] = clientState]
  /\ Goto(t, "take")
  /\ UNCHANGED <<clientState, shared, cbSaved, disturbed>>

(* The states of a client that no call is using.                           *)
Resting == Unconnected \cup {"CONNECTED_IDLE"}

(* yield reads at least once, whatever its timer says.                     *)
Taken(t) ==
  /\ clientState' = InProgress(op[t])
  /\ Goto(t, IF op[t] = "yield" THEN "lockread" ELSE "write")
  /\ disturbed' = (disturbed \/ saved[t] \notin Resting)
  /\ UNCHANGED locals

(* Mutant: the state is taken whatever it has become.                      *)
TakeBlind(t) == pc[t] = "take" /\ Taken(t) /\ UNCHANGED shared

(* ... and takes the state it found.  mqtt_connect does not look whether   *)
(* it got it.                                                              *)
Take(t) ==
  /\ pc[t] = "take"
  /\ \/ Cas(saved[t], InProgress(op[t])) /\ Taken(t)
     \/ /\ CasFails(saved[t])
        /\ IF op[t] = "connect" THEN Goto(t, "write") /\ UNCHANGED locals ELSE Return(t)
        /\ UNCHANGED disturbed
  /\ UNCHANGED shared

(* A serialiser, under no mutex.                                           *)
Write(t) ==
  /\ pc[t] = "write"
  /\ writeBuf' = t
  /\ Goto(t, "lockwrite")
  /\ UNCHANGED <<clientState, tls_read_mutex, tls_write_mutex, readBuf, locals, disturbed>>

(* Where a packet that was not sent leaves its call.  A PUBACK is sent from *)
(* within a loop, which goes on; yield ends at its first error.            *)
AfterFailure(t) == IF packet[t] = "PUBACK" /\ op[t] # "yield" THEN "wait" ELSE "restore"

(* mqtt_internal_send_packet                                               *)
LockWrite(t) ==
  /\ pc[t] = "lockwrite"
  /\ tls_write_mutex = Nobody
  /\ tls_write_mutex' = t /\ Goto(t, "send")
  /\ UNCHANGED <<clientState, tls_read_mutex, writeBuf, readBuf, locals, disturbed>>

(* A packet that was sent, or given up, is not referred to any more.       *)
Forget(t) == packet' = [packet EXCEPT ![t] = "PINGREQ"] /\ UNCHANGED <<op, saved, cbSaved>>

(* mqtt_internal_send_packet's loop, while which the mutex is held.        *)
Sent(t) ==
  /\ pc[t] = "send"
  /\ tls_write_mutex' = Nobody
  /\ Goto(t, IF packet[t] = "DISCONNECT" THEN "restore" ELSE "wait")
  /\ Forget(t)
  /\ UNCHANGED <<clientState, tls_read_mutex, writeBuf, readBuf, disturbed>>

(* Mutant: an error leaves the function before the unlock.                 *)
SendFailsLocked(t) ==
  /\ pc[t] = "send" /\ packet[t] # "PINGREQ"
  /\ Goto(t, AfterFailure(t))
  /\ Forget(t)
  /\ UNCHANGED <<clientState, shared, disturbed>>

(* The timer runs out.  A connection that does not take a PINGREQ is lost. *)
SendFails(t) ==
  /\ pc[t] = "send" /\ packet[t] # "PINGREQ"
  /\ tls_write_mutex' = Nobody
  /\ Goto(t, AfterFailure(t))
  /\ Forget(t)
  /\ UNCHANGED <<clientState, tls_read_mutex, writeBuf, readBuf, disturbed>>

----------------------------------------------------------------------------
(* The loops of mqtt_internal_wait_for_read and _mqtt_internal_yield.      *)

(* has_timer_expired, once a round: a thread that has gone on to the lock  *)
(* looks at no timer until it has had its turn.                            *)
TimerExpires(t) ==
  /\ pc[t] = "wait"
  /\ Goto(t, "restore")
  /\ UNCHANGED <<clientState, shared, locals, disturbed>>

TimerRuns(t) ==
  /\ pc[t] = "wait"
  /\ Goto(t, "lockread")
  /\ UNCHANGED <<clientState, shared, locals, disturbed>>

(* _mqtt_keep_alive, before the timer is looked at.                        *)
Ping(t) ==
  /\ pc[t] = "wait" /\ op[t] = "yield"
  /\ packet' = [packet EXCEPT ![t] = "PINGREQ"]
  /\ Goto(t, "write")
  /\ UNCHANGED <<clientState, shared, op, saved, cbSaved, disturbed>>

(* mqtt_internal_cycle_read                                                *)
LockRead(t) ==
  /\ pc[t] = "lockread"
  /\ tls_read_mutex = Nobody
  /\ tls_read_mutex' = t /\ Goto(t, "read")
  /\ UNCHANGED <<clientState, tls_write_mutex, writeBuf, readBuf, locals, disturbed>>

(* Mutant: nothing to read leaves the function before the unlock.          *)
ReadNothingLocked(t) ==
  /\ pc[t] = "read"
  /\ \/ Goto(t, "wait") /\ UNCHANGED <<tls_read_mutex, readBuf>>
     \/ /\ tls_read_mutex' = Nobody /\ readBuf' = t
        /\ \/ op[t] # "yield" /\ Goto(t, "answer")
           \/ op[t] # "connect" /\ Goto(t, "deliver")
  /\ UNCHANGED <<clientState, tls_write_mutex, writeBuf, locals, disturbed>>

(* read_packet, and the unlock: nothing, the answer that ends the call, a  *)
(* message, or another packet, such as the answer to another thread.       *)
Read(t) ==
  /\ pc[t] = "read"
  /\ tls_read_mutex' = Nobody
  /\ \/ Goto(t, "wait") /\ readBuf' \in {readBuf, t}
     \/ op[t] # "yield" /\ Goto(t, "answer") /\ readBuf' = t
     \/ op[t] # "connect" /\ Goto(t, "deliver") /\ readBuf' = t
  /\ UNCHANGED <<clientState, tls_write_mutex, writeBuf, locals, disturbed>>

(* The answer is deserialised from readBuf.                                *)
TakeAnswer(t) ==
  /\ pc[t] = "answer"
  /\ Goto(t, "restore")
  /\ UNCHANGED <<clientState, shared, locals, disturbed>>

(* _aws_iot_mqtt_internal_deliver_message: the state is read, ...          *)
Deliver(t) ==
  /\ pc[t] = "deliver"
  /\ cbSaved' = [cbSaved EXCEPT ![t] = clientState]
  /\ Goto(t, "claim")
  /\ UNCHANGED <<clientState, shared, op, packet, saved, disturbed>>

(* ... taken, or not: the callback is called anyway, ...                   *)
Claim(t) ==
  /\ pc[t] = "claim"
  /\ Cas(cbSaved[t], "CONNECTED_WAIT_FOR_CB_RETURN") \/ CasFails(cbSaved[t])
  /\ Goto(t, "callback")
  /\ UNCHANGED <<shared, locals, disturbed>>

(* ... and given back.  A QoS1 message is then acknowledged.  When the     *)
(* state cannot be given back a yield ends and a wait goes on.             *)
Unclaim(t) ==
  /\ pc[t] = "callback"
  /\ \/ /\ Cas("CONNECTED_WAIT_FOR_CB_RETURN", cbSaved[t])
        /\ \/ packet' = [packet EXCEPT ![t] = "PUBACK"] /\ Goto(t, "write")
           \/ UNCHANGED packet /\ Goto(t, "wait")
     \/ /\ CasFails("CONNECTED_WAIT_FOR_CB_RETURN")
        /\ Goto(t, IF op[t] = "yield" THEN "restore" ELSE "wait")
        /\ UNCHANGED packet
  /\ cbSaved' = [cbSaved EXCEPT ![t] = "INITIALIZED"]
  /\ UNCHANGED <<shared, op, saved, disturbed>>

(* Mutant: a call that ends leaves the state it took.                      *)
RestoreForgotten(t) ==
  /\ pc[t] = "restore"
  /\ Return(t)
  /\ UNCHANGED <<clientState, shared, disturbed>>

(* The end of a call.  mqtt_disconnect writes the state without the mutex. *)
Restore(t) ==
  /\ pc[t] = "restore"
  /\ \/ /\ op[t] = "disconnect"
        /\ clientState' \in {"DISCONNECTED_MANUALLY", saved[t]}
     \/ /\ op[t] \in {"publish", "yield"}
        /\ Cas(InProgress(op[t]), saved[t]) \/ CasFails(InProgress(op[t]))
     \/ /\ op[t] = "connect"
        /\ \/ \E s \in {"CONNECTED_IDLE", "DISCONNECTED_ERROR"} : Cas("CONNECTING", s)
           \/ CasFails("CONNECTING")
  /\ Return(t)
  /\ UNCHANGED <<shared, disturbed>>

----------------------------------------------------------------------------
Init ==
  /\ clientState = "INITIALIZED"
  /\ tls_read_mutex = Nobody /\ tls_write_mutex = Nobody
  /\ writeBuf = Nobody /\ readBuf = Nobody
  /\ op = [t \in Threads |-> "yield"] /\ packet = [t \in Threads |-> "PINGREQ"]
  /\ pc = [t \in Threads |-> "out"]
  /\ saved = [t \in Threads |-> "INITIALIZED"] /\ cbSaved = [t \in Threads |-> "INITIALIZED"]
  /\ disturbed = FALSE

Send(t) == LockWrite(t) \/ Sent(t) \/ SendFails(t)

Receive(t) == TimerRuns(t) \/ LockRead(t) \/ Read(t) \/ TakeAnswer(t) \/ Deliver(t) \/ Claim(t) \/ Unclaim(t)

Step(t) == Take(t) \/ Write(t) \/ Send(t) \/ Ping(t) \/ TimerExpires(t) \/ Receive(t) \/ Restore(t)

Next == \E t \in Threads : Call(t) \/ Step(t)

Spec == Init /\ [][Next]_vars

(* Threads run, a mutex goes to who waits for it, timers run out, and the  *)
(* loops test them.                                                        *)
Fairness ==
  \A t \in Threads : /\ WF_vars(Step(t))
                     /\ SF_vars(LockWrite(t)) /\ SF_vars(LockRead(t))
                     /\ SF_vars(TimerExpires(t))

FairSpec == Spec /\ Fairness

----------------------------------------------------------------------------
(* Correctness.                                                            *)

Packets == {"CONNECT", "PUBLISH", "PUBACK", "PINGREQ", "DISCONNECT"}

Places == {"out", "take", "write", "lockwrite", "send", "wait", "lockread", "read", "answer",
           "deliver", "claim", "callback", "restore"}

(* Every variable has its type, and a mutex is held by the thread that     *)
(* sends or reads, by nobody when none does.                               *)
ThreadsTypeOK ==
  /\ clientState \in States
  /\ tls_read_mutex \in Threads \cup {Nobody} /\ tls_write_mutex \in Threads \cup {Nobody}
  /\ writeBuf \in Threads \cup {Nobody} /\ readBuf \in Threads \cup {Nobody}
  /\ op \in [Threads -> Ops] /\ packet \in [Threads -> Packets]
  /\ pc \in [Threads -> Places]
  /\ saved \in [Threads -> States] /\ cbSaved \in [Threads -> States]
  /\ disturbed \in BOOLEAN
  /\ \A t \in Threads : (tls_write_mutex = t <=> pc[t] = "send")
                       /\ (tls_read_mutex = t <=> pc[t] = "read")

InCall(t) == pc[t] \notin {"out", "take"}

(* clientState is a lock that lets one call at a time through, disconnects *)
(* too, as long as no call takes the state during another's callback and   *)
(* no disconnect takes it from a call in progress.  It names the call that is in progress, and a thread    *)
(* about to connect still finds it as it read it.                          *)
OneCall ==
  ~disturbed =>
    /\ \A t, u \in Threads : InCall(t) /\ InCall(u) => t = u
    /\ \A t \in Threads : InCall(t) =>
         /\ clientState = IF pc[t] = "callback" THEN "CONNECTED_WAIT_FOR_CB_RETURN"
                                               ELSE InProgress(op[t])
         /\ pc[t] \in {"claim", "callback"} => cbSaved[t] = InProgress(op[t])
         /\ op[t] # "connect" => saved[t] = "CONNECTED_IDLE"
    /\ \A t \in Threads : pc[t] = "take" =>
         /\ saved[t] \in Allowed(op[t])
         /\ op[t] = "connect" => clientState = saved[t]

(* Although writeBuf is under no mutex, a thread then sends the packet it  *)
(* wrote there, whole, and finds in readBuf the packet it read.            *)
BuffersOwned ==
  ~disturbed => \A t \in Threads :
    /\ pc[t] \in {"lockwrite", "send"} => writeBuf = t
    /\ pc[t] \in {"answer", "deliver", "claim", "callback"} => readBuf = t

(* Under the same condition, threads that are all out of their calls have  *)
(* left the client in a state that lets one of them in.                    *)
StateGivenBack ==
  ~disturbed /\ (\A t \in Threads : ~InCall(t)) => clientState \in Resting

(* Every call returns, deliveries and disconnects or not: neither mutex is *)
(* kept by a call that went on or ended, for who waits for one looks at no *)
(* timer, and no two threads wait for each other.                          *)
CallsReturn == \A t \in Threads : pc[t] # "out" ~> pc[t] = "out"
=============================================================================
