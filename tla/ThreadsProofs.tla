---------------------------- MODULE ThreadsProofs ----------------------------
(* clientState as the lock of MqttThreads, for any number of threads of    *)
(* which one connects.                                                     *)
EXTENDS MqttThreads, TLAPS

ThreadsInv == ThreadsTypeOK /\ OneCall /\ BuffersOwned /\ StateGivenBack

OneConnecter == \A c, d \in Connecters : c = d

(* A thread that calls mqtt_connect is one that may.                       *)
ConnectersConnect == \A t \in Threads : op[t] = "connect" => t \in Connecters

IInv == ThreadsInv /\ ConnectersConnect

LEMMA Progress ==
  ASSUME NEW o \in Ops
  PROVE  /\ InProgress(o) \in States
         /\ InProgress(o) \notin Resting \cup {"CONNECTED_WAIT_FOR_CB_RETURN"}
         /\ Allowed(o) \subseteq States
         /\ PacketOf(o) \in Packets
  BY DEF InProgress, Ops, States, Connected, Unconnected, Resting, Allowed, PacketOf, Packets

LEMMA Initially == Init => IInv
<1> SUFFICES ASSUME Init PROVE IInv
  OBVIOUS
<1>1. \A t \in Threads : pc[t] = "out" /\ op[t] = "yield"
  BY DEF Init
<1>2. ThreadsTypeOK
  BY ThreadsAssumption
     DEF Init, ThreadsTypeOK, States, Unconnected, Ops, Packets, Places
<1>3. OneCall /\ BuffersOwned
  BY <1>1 DEF OneCall, BuffersOwned, InCall
<1>4. StateGivenBack /\ ConnectersConnect
  BY <1>1 DEF Init, StateGivenBack, ConnectersConnect, Resting, Unconnected
<1> QED BY <1>2, <1>3, <1>4 DEF IInv, ThreadsInv

LEMMA TypeStep ==
  ASSUME ThreadsTypeOK, NEW t \in Threads, Call(t) \/ Step(t)
  PROVE  ThreadsTypeOK'
<1> USE ThreadsAssumption DEF ThreadsTypeOK, Goto, shared, locals, Places
<1>1. CASE Call(t)
  <2>1. PICK o \in MayCall(t) : op' = [op EXCEPT ![t] = o] /\ packet' = [packet EXCEPT ![t] = PacketOf(o)]
    BY <1>1 DEF Call
  <2>2. o \in Ops /\ PacketOf(o) \in Packets
    BY Progress DEF MayCall, Ops
  <2> QED BY <1>1, <2>1, <2>2 DEF Call
<1>2. CASE Take(t)
  <2>1. op[t] \in Ops /\ InProgress(op[t]) \in States
    BY Progress
  <2>2. CASE Taken(t)
    BY <1>2, <2>1, <2>2 DEF Take, Taken
  <2>3. CASE CasFails(saved[t])
    <3>1. /\ pc[t] = "take" /\ UNCHANGED <<clientState, shared, disturbed>>
      BY <1>2, <2>3 DEF Take, CasFails, Taken, Cas
    <3>2. CASE op[t] = "connect"
      BY <1>2, <2>3, <3>1, <3>2 DEF Take, CasFails, Taken, Cas
    <3>3. CASE Return(t)
      BY <3>1, <3>3 DEF Return, Ops, Packets, States, Unconnected
    <3> QED BY <1>2, <2>3, <3>2, <3>3 DEF Take, CasFails, Cas
  <2> QED BY <1>2, <2>2, <2>3 DEF Take
<1>3. CASE Write(t)
  BY <1>3 DEF Write
<1>4. CASE Send(t)
  BY <1>4 DEF Send, LockWrite, Sent, SendFails, Forget, AfterFailure, Packets
<1>5. CASE Ping(t)
  BY <1>5 DEF Ping, Packets
<1>6. CASE TimerExpires(t)
  BY <1>6 DEF TimerExpires
<1>7. CASE TimerRuns(t) \/ LockRead(t) \/ Read(t) \/ TakeAnswer(t)
  BY <1>7 DEF TimerRuns, LockRead, Read, TakeAnswer
<1>8. CASE Deliver(t) \/ Claim(t) \/ Unclaim(t)
  BY <1>8 DEF Deliver, Claim, Unclaim, Cas, CasFails, States, Connected, Unconnected, Packets
<1>9. CASE Restore(t)
  BY <1>9 DEF Restore, Return, Cas, CasFails, States, Connected, Unconnected, Ops, Packets
<1> QED BY <1>1, <1>2, <1>3, <1>4, <1>5, <1>6, <1>7, <1>8, <1>9 DEF Step, Receive

LEMMA ConnectersStep ==
  ASSUME ThreadsTypeOK, ConnectersConnect, NEW t \in Threads, Call(t) \/ Step(t)
  PROVE  ConnectersConnect'
<1> USE DEF ThreadsTypeOK, ConnectersConnect
<1>1. CASE Call(t)
  BY <1>1 DEF Call, MayCall
<1>2. CASE op' = op
  BY <1>2
<1>3. CASE Return(t)
  BY <1>3 DEF Return
<1> QED BY <1>1, <1>2, <1>3
        DEF Step, Send, Receive, Take, Taken, Write, LockWrite, Sent, SendFails, Forget, Ping,
            TimerExpires, TimerRuns, LockRead, Read, TakeAnswer, Deliver, Claim, Unclaim, Restore, shared, locals

----------------------------------------------------------------------------
(* The steps of a thread, by what they do to the lock.                     *)
Undisturbed == OneCall /\ BuffersOwned /\ StateGivenBack

(* A call begins.                                                          *)
LEMMA CallStep ==
  ASSUME IInv, NEW t \in Threads, Call(t)
  PROVE  Undisturbed'
<1> USE DEF IInv, ThreadsInv, ThreadsTypeOK, Undisturbed, InCall
<1>1. PICK o \in MayCall(t) : clientState \in Allowed(o) /\ op' = [op EXCEPT ![t] = o]
  BY DEF Call
<1>2. /\ pc' = [pc EXCEPT ![t] = "take"] /\ saved' = [saved EXCEPT ![t] = clientState]
      /\ UNCHANGED <<clientState, tls_read_mutex, tls_write_mutex, writeBuf, readBuf, cbSaved, disturbed>>
      /\ pc[t] = "out"
  BY DEF Call, Goto, shared
<1>3. \A u \in Threads : InCall(u)' <=> InCall(u)
  BY <1>2
<1>4. OneCall'
  BY <1>1, <1>2, <1>3 DEF OneCall
<1>5. BuffersOwned'
  BY <1>2 DEF BuffersOwned
<1>6. StateGivenBack'
  BY <1>2, <1>3 DEF StateGivenBack
<1> QED BY <1>4, <1>5, <1>6

(* The lock is free, or it is this thread's own.                           *)
LEMMA TakeStep ==
  ASSUME IInv, OneConnecter, NEW t \in Threads, Take(t)
  PROVE  Undisturbed'
<1> USE DEF IInv, ThreadsInv, ThreadsTypeOK, Undisturbed, InCall
<1>1. CASE disturbed'
  BY <1>1 DEF OneCall, BuffersOwned, StateGivenBack
<1>2. CASE ~disturbed'
  <2>1. ~disturbed
    BY <1>2 DEF Take, Taken
  <2>2. saved[t] \in Allowed(op[t]) /\ (op[t] = "connect" => clientState = saved[t])
    BY <2>1 DEF OneCall, Take
  <2>3. UNCHANGED <<tls_read_mutex, tls_write_mutex, writeBuf, readBuf>> /\ pc[t] = "take"
    BY DEF Take, shared
  <2>4. CASE Cas(saved[t], InProgress(op[t])) /\ Taken(t)
    <3>1. saved[t] \in Resting
      BY <1>2, <2>4 DEF Taken
    <3>2. op[t] # "connect" => saved[t] = "CONNECTED_IDLE"
      BY <2>2, <3>1 DEF Allowed, Ops, Resting, Connected, Unconnected
    <3>3. op[t] = "connect" => saved[t] \in Unconnected
      BY <2>2 DEF Allowed
    <3>4. \A u \in Threads : ~InCall(u)
      <4> SUFFICES ASSUME NEW u \in Threads, InCall(u) PROVE FALSE
        OBVIOUS
      <4>1. clientState \in Resting
        BY <2>4, <3>1 DEF Cas
      <4>2. clientState \in {"CONNECTED_WAIT_FOR_CB_RETURN", InProgress(op[u])}
        BY <2>1 DEF OneCall
      <4> QED BY <4>1, <4>2, Progress DEF Resting, Unconnected
    <3>5. /\ clientState' = InProgress(op[t]) /\ op' = op /\ saved' = saved /\ cbSaved' = cbSaved
          /\ pc' = [pc EXCEPT ![t] = IF op[t] = "yield" THEN "lockread" ELSE "write"]
      BY <2>4 DEF Taken, Goto, locals
    <3>6. \A u \in Threads : InCall(u)' <=> u = t
      BY <3>4, <3>5
    <3>7. \A u \in Threads : pc[u] = "take" /\ op[u] = "connect" /\ u # t => FALSE
      <4> SUFFICES ASSUME NEW u \in Threads, pc[u] = "take", op[u] = "connect", u # t PROVE FALSE
        OBVIOUS
      <4>1. clientState = saved[u] /\ saved[u] \in Unconnected
        BY <2>1 DEF OneCall, Allowed
      <4>2. op[t] = "connect"
        BY <2>4, <3>2, <4>1 DEF Cas, Unconnected
      <4> QED BY <4>2 DEF OneConnecter, ConnectersConnect
    <3>8. OneCall'
      BY <2>1, <3>2, <3>5, <3>6, <3>7 DEF OneCall
    <3>9. BuffersOwned'
      BY <2>1, <2>3, <3>5 DEF BuffersOwned
    <3>10. StateGivenBack'
      BY <3>6 DEF StateGivenBack
    <3> QED BY <3>8, <3>9, <3>10
  <2>5. CASE CasFails(saved[t]) /\ op[t] # "connect" /\ Return(t)
    <3>1. /\ clientState' = clientState /\ pc' = [pc EXCEPT ![t] = "out"]
          /\ op' = [op EXCEPT ![t] = "yield"] /\ saved' = [saved EXCEPT ![t] = "INITIALIZED"]
          /\ cbSaved' = [cbSaved EXCEPT ![t] = "INITIALIZED"]
      BY <2>5 DEF CasFails, Return, Goto
    <3>2. \A u \in Threads : InCall(u)' <=> InCall(u)
      BY <2>3, <3>1
    <3>3. OneCall'
      BY <2>1, <2>3, <3>1, <3>2 DEF OneCall
    <3>4. BuffersOwned'
      BY <2>1, <2>3, <3>1 DEF BuffersOwned
    <3>5. StateGivenBack'
      BY <2>1, <3>1, <3>2 DEF StateGivenBack
    <3> QED BY <3>3, <3>4, <3>5
  <2>6. ~(CasFails(saved[t]) /\ op[t] = "connect")
    BY <2>2 DEF CasFails, OneConnecter
  <2> QED BY <2>4, <2>5, <2>6 DEF Take
<1> QED BY <1>1, <1>2

(* A step of a call in progress that leaves clientState, the calls and     *)
(* what they saved as they are.                                            *)
LEMMA QuietStep ==
  ASSUME IInv, NEW t \in Threads, InCall(t), NEW p, p \notin {"out", "take", "callback"},
         pc[t] \notin {"claim", "callback"},
         pc' = [pc EXCEPT ![t] = p],
         UNCHANGED <<clientState, op, saved, disturbed>>,
         IF p = "claim" THEN cbSaved' = [cbSaved EXCEPT ![t] = clientState] ELSE cbSaved' = cbSaved
  PROVE  OneCall' /\ StateGivenBack'
<1> USE DEF IInv, ThreadsInv, ThreadsTypeOK, InCall
<1>1. \A u \in Threads : InCall(u)' <=> InCall(u)
  OBVIOUS
<1>2. OneCall'
  BY <1>1 DEF OneCall
<1>3. StateGivenBack'
  BY <1>1 DEF StateGivenBack
<1> QED BY <1>2, <1>3

(* The thread in its call is the only one, and no other's packet is in the *)
(* buffers: it may write there.                                            *)
LEMMA BufferStep ==
  ASSUME IInv, NEW t \in Threads, InCall(t), NEW p,
         pc' = [pc EXCEPT ![t] = p], disturbed' = disturbed,
         writeBuf' \in {writeBuf, t}, readBuf' \in {readBuf, t},
         p \in {"lockwrite", "send"} => writeBuf' = t \/ (pc[t] \in {"lockwrite", "send"} /\ writeBuf' = writeBuf),
         p \in {"answer", "deliver", "claim", "callback"}
           => readBuf' = t \/ (pc[t] \in {"answer", "deliver", "claim", "callback"} /\ readBuf' = readBuf)
  PROVE  BuffersOwned'
  BY DEF IInv, ThreadsInv, ThreadsTypeOK, OneCall, BuffersOwned, InCall

LEMMA LoopStep ==
  ASSUME IInv, NEW t \in Threads,
         \/ Write(t) \/ Send(t) \/ Ping(t) \/ TimerExpires(t)
         \/ TimerRuns(t) \/ LockRead(t) \/ Read(t) \/ TakeAnswer(t) \/ Deliver(t)
  PROVE  Undisturbed'
<1> USE DEF Undisturbed, InCall, Goto, shared, locals
<1>1. CASE Write(t)
  <2>1. /\ pc[t] = "write" /\ pc' = [pc EXCEPT ![t] = "lockwrite"]
        /\ writeBuf' = t
        /\ UNCHANGED <<clientState, readBuf, op, saved, cbSaved, disturbed>>
    BY <1>1 DEF Write
  <2>2. OneCall' /\ StateGivenBack'
    BY <2>1, QuietStep
  <2>3. BuffersOwned'
    BY <2>1, BufferStep
  <2> QED BY <2>2, <2>3
<1>2. CASE Send(t)
  <2>1. /\ pc[t] \in {"lockwrite", "send"}
        /\ UNCHANGED <<clientState, writeBuf, readBuf, op, saved, cbSaved, disturbed>>
    BY <1>2 DEF Send, LockWrite, Sent, SendFails, Forget
  <2>2. ASSUME NEW p \in {"send", "wait", "restore"}, pc' = [pc EXCEPT ![t] = p]
        PROVE  Undisturbed'
    <3>1. OneCall' /\ StateGivenBack'
      BY <2>1, <2>2, QuietStep
    <3>2. BuffersOwned'
      BY <2>1, <2>2, BufferStep
    <3> QED BY <3>1, <3>2
  <2>3. \E p \in {"send", "wait", "restore"} : pc' = [pc EXCEPT ![t] = p]
    BY <1>2 DEF Send, LockWrite, Sent, SendFails, AfterFailure
  <2> QED BY <2>2, <2>3
<1>3. CASE Ping(t)
  BY <1>3, QuietStep, BufferStep DEF Ping
<1>4. CASE TimerExpires(t)
  BY <1>4, QuietStep, BufferStep DEF TimerExpires
<1>5. CASE TimerRuns(t) \/ LockRead(t)
  BY <1>5, QuietStep, BufferStep DEF TimerRuns, LockRead
<1>6. CASE Read(t)
  <2>1. PICK p \in {"wait", "answer", "deliver"} :
          /\ pc' = [pc EXCEPT ![t] = p] /\ readBuf' \in {readBuf, t}
          /\ p # "wait" => readBuf' = t
    BY <1>6 DEF Read
  <2>2. /\ pc[t] = "read"
        /\ UNCHANGED <<clientState, writeBuf, op, saved, cbSaved, disturbed>>
    BY <1>6 DEF Read
  <2>3. OneCall' /\ StateGivenBack'
    BY <2>1, <2>2, QuietStep
  <2>4. BuffersOwned'
    BY <2>1, <2>2, BufferStep
  <2> QED BY <2>3, <2>4
<1>7. CASE TakeAnswer(t)
  BY <1>7, QuietStep, BufferStep DEF TakeAnswer
<1>8. CASE Deliver(t)
  BY <1>8, QuietStep, BufferStep DEF Deliver
<1> QED BY <1>1, <1>2, <1>3, <1>4, <1>5, <1>6, <1>7, <1>8

(* A callback: the state is taken from the call, and given back to it.     *)
LEMMA CallbackStep ==
  ASSUME IInv, OneConnecter, NEW t \in Threads, Claim(t) \/ Unclaim(t)
  PROVE  Undisturbed'
<1> USE DEF IInv, ThreadsInv, ThreadsTypeOK, Undisturbed, InCall
<1>1. CASE disturbed
  <2>1. disturbed'
    BY <1>1 DEF Claim, Unclaim
  <2> QED BY <2>1 DEF OneCall, BuffersOwned, StateGivenBack
<1>2. CASE ~disturbed
  <2>1. /\ UNCHANGED <<writeBuf, readBuf, op, saved, disturbed>>
        /\ cbSaved' = IF pc[t] = "claim" THEN cbSaved ELSE [cbSaved EXCEPT ![t] = "INITIALIZED"]
        /\ pc[t] \in {"claim", "callback"}
    BY DEF Claim, Unclaim, shared, locals
  <2>2. /\ \A u \in Threads : InCall(u) => u = t
        /\ cbSaved[t] = InProgress(op[t])
        /\ clientState = IF pc[t] = "callback" THEN "CONNECTED_WAIT_FOR_CB_RETURN"
                                              ELSE InProgress(op[t])
    BY <1>2, <2>1 DEF OneCall
  <2>3. PICK p \in {"callback", "write", "wait"} :
          /\ pc' = [pc EXCEPT ![t] = p]
          /\ p = "callback" <=> pc[t] = "claim"
          /\ clientState' = IF p = "callback" THEN "CONNECTED_WAIT_FOR_CB_RETURN" ELSE cbSaved[t]
    BY <2>1, <2>2 DEF Claim, Unclaim, Cas, CasFails, Goto, OneConnecter
  <2>4. \A u \in Threads : InCall(u)' <=> InCall(u)
    BY <2>1, <2>3
  <2>5. \A u \in Threads : pc[u] = "take" /\ op[u] = "connect" => FALSE
    <3> SUFFICES ASSUME NEW u \in Threads, pc[u] = "take", op[u] = "connect" PROVE FALSE
      OBVIOUS
    <3>1. clientState \in Unconnected
      BY <1>2 DEF OneCall, Allowed
    <3> QED BY <2>2, <3>1, Progress DEF Resting, Unconnected
  <2>6. OneCall'
    BY <1>2, <2>1, <2>2, <2>3, <2>4, <2>5 DEF OneCall
  <2>7. BuffersOwned'
    BY <2>1, <2>3, BufferStep
  <2>8. StateGivenBack'
    BY <2>1, <2>4 DEF StateGivenBack
  <2> QED BY <2>6, <2>7, <2>8
<1> QED BY <1>1, <1>2

(* The call ends, and the lock is given back.                              *)
LEMMA RestoreStep ==
  ASSUME IInv, OneConnecter, NEW t \in Threads, Restore(t)
  PROVE  Undisturbed'
<1> USE DEF IInv, ThreadsInv, ThreadsTypeOK, Undisturbed, InCall
<1>1. CASE disturbed
  <2>1. disturbed'
    BY <1>1 DEF Restore
  <2> QED BY <2>1 DEF OneCall, BuffersOwned, StateGivenBack
<1>2. CASE ~disturbed
  <2>1. /\ UNCHANGED <<writeBuf, readBuf, disturbed>> /\ pc[t] = "restore"
        /\ pc' = [pc EXCEPT ![t] = "out"]
        /\ op' = [op EXCEPT ![t] = "yield"]
        /\ saved' = [saved EXCEPT ![t] = "INITIALIZED"]
        /\ cbSaved' = [cbSaved EXCEPT ![t] = "INITIALIZED"]
    BY DEF Restore, Return, Goto, shared
  <2>2. /\ \A u \in Threads : InCall(u) => u = t
        /\ clientState = InProgress(op[t])
        /\ op[t] # "connect" => saved[t] = "CONNECTED_IDLE"
    BY <1>2, <2>1 DEF OneCall
  <2>3. clientState' \in Resting
    BY <2>2 DEF Restore, Cas, CasFails, OneConnecter, InProgress, Resting, Unconnected
  <2>4. \A u \in Threads : ~InCall(u)'
    BY <2>1, <2>2
  <2>5. \A u \in Threads : pc[u] = "take" /\ op[u] = "connect" => FALSE
    <3> SUFFICES ASSUME NEW u \in Threads, pc[u] = "take", op[u] = "connect" PROVE FALSE
      OBVIOUS
    <3>1. clientState \in Unconnected
      BY <1>2 DEF OneCall, Allowed
    <3> QED BY <2>2, <3>1, Progress DEF Resting
  <2>6. OneCall'
    BY <1>2, <2>1, <2>4, <2>5 DEF OneCall
  <2>7. BuffersOwned'
    BY <2>1, BufferStep
  <2>8. StateGivenBack'
    BY <2>3 DEF StateGivenBack
  <2> QED BY <2>6, <2>7, <2>8
<1> QED BY <1>1, <1>2

----------------------------------------------------------------------------
(* With any threads, each mutex is held by the thread that sends *)
(* or reads, and by nobody when none does.                                 *)
THEOREM MutexesCorrect == Spec => []ThreadsTypeOK
<1>1. Init => ThreadsTypeOK
  BY Initially DEF IInv, ThreadsInv
<1>2. ThreadsTypeOK /\ [Next]_vars => ThreadsTypeOK'
  <2> SUFFICES ASSUME ThreadsTypeOK, [Next]_vars PROVE ThreadsTypeOK'
    OBVIOUS
  <2>1. CASE UNCHANGED vars
    BY <2>1 DEF vars, shared, locals, ThreadsTypeOK
  <2>2. CASE Next
    BY <2>2, TypeStep DEF Next
  <2> QED BY <2>1, <2>2
<1> QED BY <1>1, <1>2, PTL DEF Spec

(* However many threads share the client, and whatever the order of their  *)
(* steps, as long as only one of them connects: the mutexes are where they *)
(* belong and clientState lets one call at a time into the client, so that *)
(* its unprotected buffers are never mixed up.                             *)
THEOREM ThreadsCorrect ==
  ASSUME OneConnecter
  PROVE  Spec => []ThreadsInv
<1>1. Init => IInv
  BY Initially
<1>2. IInv /\ [Next]_vars => IInv'
  <2> SUFFICES ASSUME IInv, [Next]_vars PROVE IInv'
    OBVIOUS
  <2>1. CASE UNCHANGED vars
    BY <2>1 DEF vars, shared, locals, IInv, ThreadsInv, ThreadsTypeOK, OneCall, BuffersOwned, StateGivenBack,
                ConnectersConnect, InCall
  <2>2. CASE Next
    <3>1. PICK t \in Threads : Call(t) \/ Step(t)
      BY <2>2 DEF Next
    <3>2. ThreadsTypeOK' /\ ConnectersConnect'
      BY <3>1, TypeStep, ConnectersStep DEF IInv, ThreadsInv
    <3>3. Undisturbed'
      BY <3>1, CallStep, TakeStep, LoopStep, CallbackStep, RestoreStep DEF Step, Receive
    <3> QED BY <3>2, <3>3 DEF IInv, ThreadsInv, Undisturbed
  <2> QED BY <2>1, <2>2
<1>3. IInv => ThreadsInv
  BY DEF IInv
<1> QED BY <1>1, <1>2, <1>3, PTL DEF Spec

(* clientState lets one call at a time through.                            *)
THEOREM OneCallCorrect ==
  ASSUME OneConnecter
  PROVE  Spec => []OneCall
<1>1. ThreadsInv => OneCall
  BY DEF ThreadsInv
<1> QED BY <1>1, ThreadsCorrect, PTL

(* A thread sends the packet it wrote, and takes its answer or message     *)
(* from the packet it read, although neither buffer is under a mutex.      *)
THEOREM BuffersCorrect ==
  ASSUME OneConnecter
  PROVE  Spec => []BuffersOwned
<1>1. ThreadsInv => BuffersOwned
  BY DEF ThreadsInv
<1> QED BY <1>1, ThreadsCorrect, PTL

(* When every thread is out of its call, one of them can be let in.        *)
THEOREM StateCorrect ==
  ASSUME OneConnecter
  PROVE  Spec => []StateGivenBack
<1>1. ThreadsInv => StateGivenBack
  BY DEF ThreadsInv
<1> QED BY <1>1, ThreadsCorrect, PTL
=============================================================================
