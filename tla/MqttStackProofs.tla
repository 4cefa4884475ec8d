-------------------------- MODULE MqttStackProofs --------------------------
(* The call stack of MqttClient and its client state belong together, for  *)
(* every nesting of callbacks: StackInv is an invariant, and with it that  *)
(* no busy state outlives its call and that a live client has a socket.    *)
EXTENDS MqttClientProofs

----------------------------------------------------------------------------
(* Shape is what StackInv says of the stack alone, Owned what it says of a *)
(* client state on top of a stack.                                         *)

Shape(s) ==
  /\ \A i \in 1..Len(s) : \A op \in BusyOps :
       s[i].saved = InProgress[op] => i > 1 /\ s[i-1].op = op
  /\ \A i \in 1..(Len(s) - 1) : s[i].op # "connect"
  /\ \A i \in 2..Len(s) : s[i-1].op = "yield" =>
       /\ s[i].saved = "CONNECTED_YIELD_IN_PROGRESS" => s[i-1].pc = "deliver"
       /\ s[i-1].pc = "deliver" => s[i].op = "deliver"

Owned(s, c) == \A op \in BusyOps : c = InProgress[op] => s # <<>> /\ s[Len(s)].op = op

Quiet(c) == \A op \in BusyOps : c # InProgress[op]

(* A frame that may be pushed on s.                                        *)
Fits(s, f) ==
  /\ Owned(s, f.saved)
  /\ s # <<>> =>
       /\ s[Len(s)].op # "connect"
       /\ s[Len(s)].op = "yield" =>
            /\ f.saved = "CONNECTED_YIELD_IN_PROGRESS" => s[Len(s)].pc = "deliver"
            /\ s[Len(s)].pc = "deliver" => f.op = "deliver"

LEMMA EmptyStack ==
  ASSUME NEW s \in Seq(Frames)
  PROVE  s = <<>> <=> Len(s) = 0
  OBVIOUS

LEMMA BusyStates ==
  /\ \A op \in BusyOps : \A other \in BusyOps : InProgress[op] = InProgress[other] => op = other
  /\ InProgress["yield"] = "CONNECTED_YIELD_IN_PROGRESS"
  /\ InProgress["connect"] = "CONNECTING"
  /\ InProgress["deliver"] = "CONNECTED_WAIT_FOR_CB_RETURN"
  /\ {"yield", "connect", "deliver"} \cup Requests \subseteq BusyOps
  BY DEF BusyOps, Requests, InProgress

LEMMA QuietStates == \A c \in ValidForConnect \cup {"CONNECTED_IDLE"} : Quiet(c)
  BY DEF Quiet, ValidForConnect, BusyOps, Requests, InProgress

LEMMA ShapeIsStackInv ==
  /\ Shape(stack) <=> SavedBelow /\ ConnectInnermost /\ YieldBelow
  /\ Owned(stack, clientState) <=> StateOnTop
  BY DEF Shape, Owned, SavedBelow, ConnectInnermost, YieldBelow, StateOnTop, Top

LEMMA PushShape ==
  ASSUME NEW s \in Seq(Frames), NEW f \in Frames, Shape(s), Fits(s, f)
  PROVE  Shape(Append(s, f))
  <1> DEFINE r == Append(s, f)
             n == Len(s)
  <1>1. n \in Nat /\ r \in Seq(Frames) /\ Len(r) = n + 1 /\ r[n+1] = f /\ \A i \in 1..n : r[i] = s[i]
    BY PushStack
  <1>2. s # <<>> <=> n > 0
    OBVIOUS
  <1> HIDE DEF r, n
  <1>3. ASSUME NEW i \in 1..Len(r), NEW op \in BusyOps, r[i].saved = InProgress[op]
        PROVE  i > 1 /\ r[i-1].op = op
    <2>1. CASE i = n + 1
      <3>1. s # <<>> /\ s[n].op = op
        BY <1>1, <1>3, <2>1 DEF Fits, Owned, n
      <3> QED
        BY <1>1, <1>2, <2>1, <3>1
    <2>2. CASE i \in 1..n
      <3>1. i > 1 /\ s[i-1].op = op
        BY <1>1, <1>3, <2>2 DEF Shape, n
      <3> QED
        BY <1>1, <2>2, <3>1
    <2> QED
      BY <1>1, <2>1, <2>2
  <1>4. ASSUME NEW i \in 1..(Len(r) - 1)
        PROVE  r[i].op # "connect"
    <2>1. i \in 1..n /\ r[i] = s[i]
      BY <1>1
    <2>2. CASE i = n
      BY <1>2, <2>1, <2>2 DEF Fits, n
    <2>3. CASE i \in 1..(n-1)
      BY <1>1, <2>1, <2>3 DEF Shape, n
    <2> QED
      BY <1>1, <2>1, <2>2, <2>3
  <1>5. ASSUME NEW i \in 2..Len(r), r[i-1].op = "yield"
        PROVE  /\ r[i].saved = "CONNECTED_YIELD_IN_PROGRESS" => r[i-1].pc = "deliver"
               /\ r[i-1].pc = "deliver" => r[i].op = "deliver"
    <2>1. i - 1 \in 1..n /\ r[i-1] = s[i-1]
      BY <1>1
    <2>2. CASE i = n + 1
      <3>1. i - 1 = n /\ r[i] = f
        BY <1>1, <2>2
      <3> QED
        BY <1>2, <1>5, <2>1, <3>1 DEF Fits, n
    <2>3. CASE i \in 2..n
      <3>1. r[i] = s[i] /\ s[i-1].op = "yield"
        BY <1>1, <1>5, <2>1, <2>3
      <3> QED
        BY <1>1, <2>1, <2>3, <3>1 DEF Shape, n
    <2> QED
      BY <1>1, <2>2, <2>3
  <1>6. Shape(r)
    BY <1>3, <1>4, <1>5 DEF Shape
  <1> QED
    BY <1>6 DEF r

LEMMA PopShape ==
  ASSUME NEW s \in Seq(Frames), s # <<>>, Shape(s), NEW p, p = SubSeq(s, 1, Len(s) - 1)
  PROVE  /\ Shape(p)
         /\ Owned(p, s[Len(s)].saved)
         /\ p # <<>> =>
              /\ p[Len(p)].op # "connect"
              /\ p[Len(p)].op = "yield" =>
                   /\ s[Len(s)].saved = "CONNECTED_YIELD_IN_PROGRESS" => p[Len(p)].pc = "deliver"
                   /\ p[Len(p)].pc = "deliver" => s[Len(s)].op = "deliver"
  <1> DEFINE n == Len(s)
  <1>1. n \in Nat \ {0}
    OBVIOUS
  <1>2. p \in Seq(Frames) /\ Len(p) = n - 1 /\ \A i \in 1..(n-1) : p[i] = s[i]
    BY PopStack
  <1>3. p # <<>> <=> n > 1
    <2>1. p # <<>> <=> Len(p) # 0
      BY <1>2, EmptyStack
    <2> HIDE DEF n
    <2> QED
      BY <1>1, <1>2, <2>1
  <1> HIDE DEF n
  <1>4. Shape(p)
    BY <1>1, <1>2 DEF Shape, n
  <1>5. n > 1 => p[Len(p)] = s[n-1] /\ n \in 2..n /\ n - 1 \in 1..(n-1)
    BY <1>1, <1>2
  <1>6. Owned(p, s[n].saved)
    BY <1>1, <1>3, <1>5 DEF Shape, Owned, n
  <1>7. p # <<>> => /\ p[Len(p)].op # "connect"
                    /\ p[Len(p)].op = "yield" =>
                         /\ s[n].saved = "CONNECTED_YIELD_IN_PROGRESS" => p[Len(p)].pc = "deliver"
                         /\ p[Len(p)].pc = "deliver" => s[n].op = "deliver"
    BY <1>3, <1>5 DEF Shape, n
  <1> QED
    BY <1>4, <1>6, <1>7 DEF n

LEMMA ReplaceShape ==
  ASSUME NEW s \in Seq(Frames), s # <<>>, Shape(s), NEW f \in Frames,
         f.op = s[Len(s)].op, f.saved = s[Len(s)].saved,
         NEW r, r = [s EXCEPT ![Len(s)] = f]
  PROVE  /\ Shape(r)
         /\ \A c : Owned(s, c) => Owned(r, c)
         /\ r \in Seq(Frames) /\ r # <<>> /\ r[Len(r)] = f
  <1> DEFINE n == Len(s)
  <1>1. n \in Nat \ {0}
    OBVIOUS
  <1>2. r \in Seq(Frames) /\ r # <<>> /\ Len(r) = n /\ r[n] = f /\ \A i \in 1..(n-1) : r[i] = s[i]
    BY ReplaceTop
  <1> HIDE DEF n
  <1>3. \A i \in 1..n : r[i].op = s[i].op /\ r[i].saved = s[i].saved
    <2>1. f.op = s[n].op /\ f.saved = s[n].saved
      BY DEF n
    <2>2. \A i \in 1..n : i = n \/ i \in 1..(n-1)
      BY <1>1
    <2> QED
      BY <1>2, <2>1, <2>2
  <1>4. \A i \in 2..n : i - 1 \in 1..(n-1) /\ i - 1 \in 1..n /\ i \in 1..n
    BY <1>1
  <1>5. \A i \in 1..n : \A op \in BusyOps : r[i].saved = InProgress[op] => i > 1 /\ r[i-1].op = op
    <2>1. \A i \in 1..n : \A op \in BusyOps : s[i].saved = InProgress[op] => i > 1 /\ s[i-1].op = op
      BY DEF Shape, n
    <2>2. \A i \in 1..n : i > 1 => i \in 2..n
      BY <1>1
    <2> QED
      BY <1>3, <1>4, <2>1, <2>2
  <1>6. \A i \in 1..(n-1) : r[i].op # "connect"
    BY <1>2 DEF Shape, n
  <1>7. ASSUME NEW i \in 2..n, r[i-1].op = "yield"
        PROVE  /\ r[i].saved = "CONNECTED_YIELD_IN_PROGRESS" => r[i-1].pc = "deliver"
               /\ r[i-1].pc = "deliver" => r[i].op = "deliver"
    <2>1. r[i-1] = s[i-1] /\ r[i].op = s[i].op /\ r[i].saved = s[i].saved
      BY <1>2, <1>3, <1>4
    <2>2. s[i-1].op = "yield" =>
            /\ s[i].saved = "CONNECTED_YIELD_IN_PROGRESS" => s[i-1].pc = "deliver"
            /\ s[i-1].pc = "deliver" => s[i].op = "deliver"
      BY DEF Shape, n
    <2> QED
      BY <1>7, <2>1, <2>2
  <1>8. Shape(r)
    BY <1>2, <1>5, <1>6, <1>7 DEF Shape
  <1>9. \A c : Owned(s, c) => Owned(r, c)
    BY <1>2 DEF Owned, n
  <1> QED
    BY <1>2, <1>8, <1>9
----------------------------------------------------------------------------
(* What a step may do to the stack: pop, replace the top frame, push.      *)

CallsInv == StateOnTop /\ SavedBelow /\ ConnectInnermost /\ YieldBelow /\ YieldOnTop

(* YieldOnTop, of a top frame, a client state and a result.                *)
TopAgrees(f, c, r) ==
  f.op = "yield" =>
    /\ c = "CONNECTED_YIELD_IN_PROGRESS" =>
         /\ f.pc \notin {"handler", "reconnect"}
         /\ f.pc \in {"check", "exit"} => f.rc \notin LeaveState
    /\ f.pc = "deliver" => r.rc \in DeliveryCodes

(* No connect is on top, as after every step but the start of one.         *)
NotConnecting(s) == s # <<>> => s[Len(s)].op # "connect"

LEMMA CallsInvNow ==
  ASSUME StackInv
  PROVE  /\ CallsInv /\ Shape(stack) /\ Owned(stack, clientState)
         /\ stack # <<>> => TopAgrees(Top, clientState, ret)
  BY ShapeIsStackInv DEF StackInv, CallsInv, YieldOnTop, TopAgrees

LEMMA CallsInvNext ==
  ASSUME Shape(stack'), Owned(stack', clientState'),
         stack' # <<>> => TopAgrees(stack'[Len(stack')], clientState', ret')
  PROVE  CallsInv'
  BY DEF CallsInv, StateOnTop, SavedBelow, ConnectInnermost, YieldBelow, YieldOnTop, Top,
         Shape, Owned, TopAgrees

LEMMA QuietAgrees == \A c : Quiet(c) => \A s : Owned(s, c)
  BY DEF Quiet, Owned

LEMMA Popped ==
  ASSUME TypeOK, StackInv, stack # <<>>, stack' = Pop,
         clientState' = Top.saved \/ Quiet(clientState'),
         Top.op = "deliver" => ret'.rc \in DeliveryCodes
  PROVE  CallsInv' /\ NotConnecting(stack')
  <1>1. stack \in Seq(Frames) /\ Shape(stack)
    BY CallsInvNow DEF TypeOK, CallsTypeOK
  <1>2. /\ Shape(stack')
        /\ Owned(stack', Top.saved)
        /\ stack' # <<>> =>
              /\ stack'[Len(stack')].op # "connect"
              /\ stack'[Len(stack')].op = "yield" =>
                   /\ Top.saved = "CONNECTED_YIELD_IN_PROGRESS" => stack'[Len(stack')].pc = "deliver"
                   /\ stack'[Len(stack')].pc = "deliver" => Top.op = "deliver"
    BY <1>1, PopShape DEF Pop, Top
  <1>3. Owned(stack', clientState')
    BY <1>2, QuietAgrees
  <1>4. clientState' = "CONNECTED_YIELD_IN_PROGRESS" => clientState' = Top.saved
    BY BusyStates DEF Quiet
  <1>5. stack' # <<>> => TopAgrees(stack'[Len(stack')], clientState', ret')
    BY <1>2, <1>4 DEF TopAgrees
  <1> QED
    BY <1>2, <1>3, <1>5, CallsInvNext DEF NotConnecting

LEMMA Replaced ==
  ASSUME TypeOK, StackInv, stack # <<>>, Top.op # "connect",
         NEW f \in Frames, f.op = Top.op, f.saved = Top.saved, stack' = SetTop(f),
         Owned(stack, clientState'), TopAgrees(f, clientState', ret')
  PROVE  CallsInv' /\ NotConnecting(stack')
  <1>1. stack \in Seq(Frames) /\ Shape(stack)
    BY CallsInvNow DEF TypeOK, CallsTypeOK
  <1>2. /\ Shape(stack') /\ Owned(stack', clientState')
        /\ stack' # <<>> /\ stack'[Len(stack')] = f
    <2>1. stack' = [stack EXCEPT ![Len(stack)] = f]
      BY DEF SetTop
    <2>2. f.op = stack[Len(stack)].op /\ f.saved = stack[Len(stack)].saved
      BY DEF Top
    <2> QED
      BY <1>1, <2>1, <2>2, ReplaceShape
  <1> QED
    BY <1>2, CallsInvNext DEF NotConnecting

LEMMA Kept ==
  ASSUME StackInv, stack' = stack, NotConnecting(stack),
         clientState' = clientState \/ Quiet(clientState'),
         At("yield", "deliver") => ret' = ret
  PROVE  CallsInv' /\ NotConnecting(stack')
  <1>1. Shape(stack) /\ Owned(stack, clientState) /\ (stack # <<>> => TopAgrees(Top, clientState, ret))
    BY CallsInvNow
  <1>2. Owned(stack', clientState')
    BY <1>1, QuietAgrees
  <1>3. clientState' = "CONNECTED_YIELD_IN_PROGRESS" => clientState' = clientState
    BY BusyStates DEF Quiet
  <1>4. stack # <<>> => TopAgrees(Top, clientState', ret')
    BY <1>1, <1>3 DEF TopAgrees, At
  <1> QED
    BY <1>1, <1>2, <1>4, CallsInvNext DEF NotConnecting, Top

LEMMA Pushed ==
  ASSUME NEW s \in Seq(Frames), Shape(s), NEW f \in Frames, Fits(s, f), stack' = Append(s, f),
         Owned(stack', clientState'), TopAgrees(f, clientState', ret')
  PROVE  CallsInv' /\ stack' # <<>> /\ stack'[Len(stack')] = f
  <1>1. Shape(stack')
    BY PushShape
  <1>2. stack' # <<>> /\ stack'[Len(stack')] = f
    BY PushStack
  <1> QED
    BY <1>1, <1>2, CallsInvNext

LEMMA PushedOwn ==
  ASSUME NEW s \in Seq(Frames), NEW f \in Frames, NEW c,
         (c = InProgress[f.op] /\ f.op \in BusyOps) \/ Quiet(c)
  PROVE  Owned(Append(s, f), c)
  <1>1. Append(s, f) # <<>> /\ Append(s, f)[Len(Append(s, f))] = f
    BY PushStack
  <1> QED
    BY <1>1, BusyStates DEF Owned, Quiet
----------------------------------------------------------------------------
(* What a step may do to the connection.                                   *)

LiveStates == ConnectedStates \cup {"CONNECTING"}

LEMMA NotLive == \A c \in ValidForConnect : c \notin LiveStates
  BY DEF ValidForConnect, LiveStates, ConnectedStates

LEMMA OpenOrClosed ==
  ASSUME CallsInv', NotConnecting(stack'),
         socket' = "closed" => toClient' = <<>> /\ clientState' \notin LiveStates
  PROVE  StackInv'
  BY DEF StackInv, CallsInv, ConnackFirst, ConnectedHasSocket, NotConnecting, Top, LiveStates

LEMMA LinkNow ==
  ASSUME StackInv
  PROVE  /\ socket = "closed" => toClient = <<>> /\ clientState \notin LiveStates
         /\ \A op \in BusyOps : clientState = InProgress[op] => socket # "closed"
  BY DEF StackInv, ConnackFirst, ConnectedHasSocket, LiveStates, ConnectedStates,
         BusyOps, Requests, InProgress

LEMMA SocketKept ==
  ASSUME StackInv, NEW p,
         (Consume /\ toClient # <<>>) \/ (ConsumeAndSend(p) /\ toClient # <<>>)
           \/ Send(p) \/ SendFails \/ UNCHANGED netVars
  PROVE  socket' = socket /\ (socket = "closed" => toClient' = <<>>)
  BY LinkNow DEF Consume, ConsumeAndSend, Send, SendFails, netVars

LEMMA SocketClosed ==
  ASSUME CloseConnection
  PROVE  socket' = "closed" /\ toClient' = <<>>
  BY DEF CloseConnection, ResetChannels

(* The end of a request or of a delivery.                                  *)
LEMMA StateGivenBack ==
  ASSUME TypeOK, StackInv, stack # <<>>, Top.op \in Requests \cup {"deliver"},
         Cas(InProgress[Top.op], Top.saved)
  PROVE  /\ clientState' = Top.saved \/ Quiet(clientState')
         /\ socket = "closed" => clientState' \notin LiveStates
  <1>1. Top.op \in BusyOps
    BY BusyStates
  <1>2. clientState # InProgress[Top.op] => Quiet(clientState)
    BY <1>1, CallsInvNow DEF CallsInv, StateOnTop, Quiet
  <1> QED
    BY <1>1, <1>2, LinkNow DEF Cas

----------------------------------------------------------------------------
(* Calls.                                                                  *)

(* A stack on which application code, or a reconnection, may make a call.  *)
CallSite(s) ==
  /\ s \in Seq(Frames) /\ Shape(s) /\ NotConnecting(s)
  /\ s # <<>> /\ s[Len(s)].op = "yield" => s[Len(s)].pc # "deliver"

LEMMA MayCallSite ==
  ASSUME TypeOK, StackInv, NEW op, MayCall(op)
  PROVE  CallSite(stack) /\ NotConnecting(stack) /\ ~At("yield", "deliver")
  BY CallsInvNow DEF MayCall, At, CallSite, NotConnecting, Top, TypeOK, CallsTypeOK

LEMMA QuietPushed ==
  ASSUME NEW s, CallSite(s), NEW f \in Frames, Quiet(f.saved)
  PROVE  Fits(s, f)
  <1>1. f.saved # "CONNECTED_YIELD_IN_PROGRESS"
    BY BusyStates DEF Quiet
  <1> QED
    BY <1>1, QuietAgrees DEF CallSite, Fits, NotConnecting

LEMMA ReconnectSite ==
  ASSUME NEW s, CallSite(s)
  PROVE  CallSite(Append(s, Frame("reconnect", "connect")))
  <1> DEFINE f == Frame("reconnect", "connect")
  <1>1. f \in Frames /\ f.op = "reconnect" /\ f.saved = "CONNECTED_IDLE"
    BY FrameTyped DEF Ops, Frame
  <1> HIDE DEF f
  <1>2. Fits(s, f)
    BY <1>1, QuietPushed, QuietStates
  <1>3. Shape(Append(s, f)) /\ Append(s, f) \in Seq(Frames)
    BY <1>1, <1>2, PushShape, PushStack DEF CallSite
  <1>4. Append(s, f)[Len(Append(s, f))] = f
    BY <1>1, PushStack DEF CallSite
  <1>5. CallSite(Append(s, f))
    BY <1>1, <1>3, <1>4 DEF CallSite, NotConnecting
  <1> QED
    BY <1>5 DEF f

LEMMA StartConnectKeeps ==
  ASSUME NEW below, CallSite(below), StartConnect(below)
  PROVE  StackInv'
  <1>1. CASE /\ OpenConnection
             /\ clientState' = "CONNECTING"
             /\ stack' = Append(below, Frame("connect", "wait"))
             /\ ret' = NoResult
    <2> DEFINE f == Frame("connect", "wait")
    <2>1. f \in Frames /\ f.op = "connect" /\ f.saved = "CONNECTED_IDLE"
      BY FrameTyped DEF Ops, Frame
    <2>2. stack' = Append(below, f)
      BY <1>1
    <2> HIDE DEF f
    <2>3. Fits(below, f)
      BY <2>1, QuietPushed, QuietStates
    <2>4. Owned(stack', clientState')
      BY <1>1, <2>1, <2>2, PushedOwn, BusyStates DEF CallSite
    <2>5. CallsInv' /\ stack' # <<>> /\ stack'[Len(stack')] = f
      BY <2>1, <2>2, <2>3, <2>4, Pushed DEF CallSite, TopAgrees
    <2>6. socket' = "up" /\ toClient' = <<>> /\ session' = FALSE
      BY <1>1 DEF OpenConnection, ResetChannels
    <2> QED
      BY <1>1, <2>5, <2>6 DEF StackInv, CallsInv, ConnackFirst, ConnectedHasSocket
  <1>2. CASE /\ CloseConnection
             /\ clientState' = "DISCONNECTED_ERROR"
             /\ stack' = below
             /\ ret' = Result("connect", "TCP_CONNECTION_ERROR")
    <2>1. Quiet(clientState') /\ clientState' \notin LiveStates
      BY <1>2, QuietStates, NotLive DEF ValidForConnect
    <2>2. clientState' # "CONNECTED_YIELD_IN_PROGRESS"
      BY <1>2
    <2>3. CallsInv'
      BY <1>2, <2>1, <2>2, QuietAgrees, CallsInvNext DEF CallSite, TopAgrees
    <2> QED
      BY <1>2, <2>1, <2>3, SocketClosed, OpenOrClosed DEF CallSite
  <1> QED
    BY <1>1, <1>2 DEF StartConnect

LEMMA SendRequestKeeps ==
  ASSUME StackInv, NEW op \in Requests, NEW p, NEW f \in Frames,
         f.op = op, f.saved = clientState,
         clientState \in {"CONNECTED_IDLE", "CONNECTED_WAIT_FOR_CB_RETURN"},
         NEW below, CallSite(below), Owned(below, clientState),
         SendRequest(op, p, f, below)
  PROVE  StackInv'
  <1>0. clientState # "CONNECTED_YIELD_IN_PROGRESS" /\ f.op \in BusyOps /\ f.op \notin {"connect", "yield"}
    BY BusyStates DEF Requests
  <1>1. CASE Send(p) /\ clientState' = InProgress[op] /\ stack' = Append(below, f) /\ ret' = NoResult
    <2>1. Fits(below, f)
      BY <1>0 DEF CallSite, Fits, NotConnecting
    <2>2. Owned(stack', clientState')
      BY <1>0, <1>1, PushedOwn DEF CallSite
    <2>3. CallsInv' /\ stack' # <<>> /\ stack'[Len(stack')] = f
      BY <1>0, <1>1, <2>1, <2>2, Pushed DEF CallSite, TopAgrees
    <2>4. socket' # "closed"
      BY <1>1 DEF Send, CanSend
    <2> QED
      BY <1>0, <2>3, <2>4, OpenOrClosed DEF NotConnecting
  <1>2. CASE SendFails /\ ret' = Result(op, "MQTT_FAILURE") /\ stack' = below /\ UNCHANGED clientState
    <2>1. CallsInv'
      BY <1>0, <1>2, CallsInvNext DEF CallSite, TopAgrees
    <2>2. socket' = "closed" => toClient' = <<>> /\ clientState' \notin LiveStates
      BY <1>2, LinkNow DEF SendFails, netVars
    <2> QED
      BY <1>2, <2>1, <2>2, OpenOrClosed DEF CallSite
  <1> QED
    BY <1>1, <1>2 DEF SendRequest
----------------------------------------------------------------------------
(* Each action keeps StackInv.                                             *)

LEMMA RefuseKeeps ==
  ASSUME TypeOK, StackInv, NEW op, MayCall(op), NEW code, NEW rc, Refuse(code, rc)
  PROVE  StackInv'
  <1>1. stack' = stack /\ clientState' = clientState /\ socket' = socket /\ toClient' = toClient
    BY DEF Refuse, netVars
  <1>2. CallsInv' /\ NotConnecting(stack')
    BY <1>1, MayCallSite, Kept
  <1> QED
    BY <1>1, <1>2, LinkNow, OpenOrClosed

LEMMA ConnectingKeeps ==
  ASSUME TypeOK, StackInv, Connect \/ AttemptReconnect
  PROVE  StackInv'
  <1>1. CASE Connect
    BY <1>1, MayCallSite, StartConnectKeeps, RefuseKeeps DEF Connect
  <1>2. CASE AttemptReconnect
    BY <1>2, MayCallSite, ReconnectSite, StartConnectKeeps, RefuseKeeps DEF AttemptReconnect
  <1> QED
    BY <1>1, <1>2

LEMMA StartResubscribeKeeps ==
  ASSUME TypeOK, StackInv, clientState = "CONNECTED_IDLE",
         NEW below, CallSite(below), StartResubscribe(below)
  PROVE  StackInv'
  <1>0. Quiet(clientState) /\ Owned(below, clientState)
    BY QuietStates, QuietAgrees
  <1>1. PICK n \in 0..NumHandlers :
          \/ /\ n = 0
             /\ ret' = Result("resubscribe", "MQTT_SUCCESS")
             /\ stack' = below
             /\ UNCHANGED <<netVars, clientState, nextPacketId>>
          \/ /\ n > 0
             /\ nextPacketId' = NextId
             /\ SendRequest("resubscribe", Packet("SUBSCRIBE", messageHandlers[1], NextId),
                            Saving("resubscribe", "wait", NoTopic, 1, n, NextId), below)
    BY DEF StartResubscribe
  <1>2. CASE stack' = below /\ UNCHANGED <<netVars, clientState>>
    <2>1. CallsInv'
      BY <1>0, <1>2, CallsInvNext DEF CallSite, TopAgrees
    <2>2. socket' = socket /\ toClient' = toClient
      BY <1>2 DEF netVars
    <2> QED
      BY <1>2, <2>1, <2>2, LinkNow, OpenOrClosed DEF CallSite
  <1>3. CASE SendRequest("resubscribe", Packet("SUBSCRIBE", messageHandlers[1], NextId),
                         Saving("resubscribe", "wait", NoTopic, 1, n, NextId), below)
    <2> DEFINE f == Saving("resubscribe", "wait", NoTopic, 1, n, NextId)
    <2>1. 1 \in 0..NumHandlers /\ NextId \in PacketIds
      BY NextIdTyped, ClientAssumption DEF TypeOK, ClientAssumption
    <2>2. f \in Frames
      BY <2>1, SavingTyped DEF TypeOK, CallsTypeOK, Ops
    <2>3. f.op = "resubscribe" /\ f.saved = clientState
      BY DEF Saving
    <2> HIDE DEF f
    <2>4. SendRequest("resubscribe", Packet("SUBSCRIBE", messageHandlers[1], NextId), f, below)
      BY <1>3 DEF f
    <2> QED
      BY <1>0, <2>2, <2>3, <2>4, SendRequestKeeps DEF Requests
  <1> QED
    BY <1>1, <1>2, <1>3

LEMMA RequestKeeps ==
  ASSUME TypeOK, StackInv, NEW op \in Requests, MayCall(op), MayRequest, NEW p,
         NEW t \in Topics \cup {NoTopic}, NEW s \in 0..NumHandlers,
         SendRequest(op, p, Saving(op, "wait", t, s, 0, NextId), stack)
  PROVE  StackInv'
  <1> DEFINE f == Saving(op, "wait", t, s, 0, NextId)
  <1>1. f \in Frames
    BY NextIdTyped, ZeroTyped, SavingTyped DEF TypeOK, CallsTypeOK, Ops, Requests
  <1>2. f.op = op /\ f.saved = clientState
    BY DEF Saving
  <1>3. Owned(stack, clientState) /\ CallSite(stack)
    BY CallsInvNow, MayCallSite
  <1> HIDE DEF f
  <1>4. SendRequest(op, p, f, stack)
    BY DEF f
  <1> QED
    BY <1>1, <1>2, <1>3, <1>4, SendRequestKeeps DEF MayRequest

LEMMA ApiKeeps ==
  ASSUME TypeOK, StackInv,
         Resubscribe \/ Disconnect \/ SetAutoReconnect \/ Publish \/ Subscribe \/ Unsubscribe \/ Yield
  PROVE  StackInv'
  <1>1. CASE Resubscribe
    BY <1>1, MayCallSite, StartResubscribeKeeps, RefuseKeeps DEF Resubscribe
  <1>2. CASE Disconnect
    <2>0. MayCall("disconnect")
      BY <1>2 DEF Disconnect
    <2>1. CASE CloseConnection /\ clientState' = "DISCONNECTED_MANUALLY" /\ UNCHANGED stack
      <3>1. Quiet(clientState') /\ clientState' \notin LiveStates
        BY <2>1, QuietStates, NotLive DEF ValidForConnect
      <3>2. CallsInv' /\ NotConnecting(stack')
        BY <2>0, <2>1, <3>1, MayCallSite, Kept
      <3> QED
        BY <2>1, <3>1, <3>2, SocketClosed, OpenOrClosed
    <2> QED
      BY <1>2, <2>0, <2>1, RefuseKeeps DEF Disconnect
  <1>3. CASE SetAutoReconnect
    <2>1. /\ MayCall("set_autoreconnect") /\ stack' = stack /\ clientState' = clientState
          /\ socket' = socket /\ toClient' = toClient
      BY <1>3 DEF SetAutoReconnect, netVars, calls
    <2>2. CallsInv' /\ NotConnecting(stack')
      BY <2>1, MayCallSite, Kept
    <2> QED
      BY <2>1, <2>2, LinkNow, OpenOrClosed
  <1>4. CASE Publish
    <2>0. MayCall("publish")
      BY <1>4 DEF Publish
    <2>1. CASE /\ \E p : Send(p) \/ SendFails
               /\ UNCHANGED <<clientState, stack>>
      <3>1. socket' = socket /\ (socket = "closed" => toClient' = <<>>)
        BY <2>1, SocketKept
      <3>2. CallsInv' /\ NotConnecting(stack')
        BY <2>0, <2>1, MayCallSite, Kept
      <3> QED
        BY <2>1, <3>1, <3>2, LinkNow, OpenOrClosed
    <2>2. CASE MayRequest /\ SendRequest("publish", Packet("PUBLISH", NoTopic, NextId),
                       Saving("publish", "wait", NoTopic, 0, 0, NextId), stack)
      BY <2>0, <2>2, ZeroTyped, RequestKeeps DEF Requests
    <2> QED
      BY <1>4, <2>0, <2>1, <2>2, RefuseKeeps DEF Publish, RefuseRequest
  <1>5. CASE Subscribe
    <2>0. MayCall("subscribe")
      BY <1>5 DEF Subscribe
    <2>1. CASE UNCHANGED <<netVars, clientState, stack>>
      <3>1. socket' = socket /\ toClient' = toClient
        BY <2>1 DEF netVars
      <3>2. CallsInv' /\ NotConnecting(stack')
        BY <2>0, <2>1, MayCallSite, Kept
      <3> QED
        BY <2>1, <3>1, <3>2, LinkNow, OpenOrClosed
    <2>2. ASSUME NEW s \in Slots, NEW t \in Topics, MayRequest,
                 SendRequest("subscribe", Packet("SUBSCRIBE", t, NextId),
                             Saving("subscribe", "wait", t, s, 0, NextId), stack)
          PROVE  StackInv'
      BY <2>0, <2>2, ZeroTyped, RequestKeeps DEF Requests
    <2> QED
      BY <1>5, <2>0, <2>1, <2>2, RefuseKeeps DEF Subscribe, RefuseRequest
  <1>6. CASE Unsubscribe
    <2>0. MayCall("unsubscribe")
      BY <1>6 DEF Unsubscribe
    <2>1. ASSUME NEW t \in Registered, MayRequest,
                 SendRequest("unsubscribe", Packet("UNSUBSCRIBE", t, NextId),
                             Saving("unsubscribe", "wait", t, 0, 0, NextId), stack)
          PROVE  StackInv'
      <3>1. t \in Topics \cup {NoTopic}
        BY DEF Registered, TypeOK, DataTypeOK
      <3> QED
        BY <2>0, <2>1, <3>1, ZeroTyped, RequestKeeps DEF Requests
    <2> QED
      BY <1>6, <2>0, <2>1, RefuseKeeps DEF Unsubscribe, RefuseRequest
  <1>7. CASE Yield
    <2>0. MayCall("yield")
      BY <1>7 DEF Yield
    <2>1. CASE /\ clientState \in {"CONNECTED_IDLE", "PENDING_RECONNECT"}
               /\ Cas("CONNECTED_IDLE", "CONNECTED_YIELD_IN_PROGRESS")
               /\ stack' = Append(stack, Frame("yield", "loop"))
               /\ UNCHANGED netVars
      <3> DEFINE f == Frame("yield", "loop")
      <3>1. /\ f \in Frames /\ f.op = "yield" /\ f.saved = "CONNECTED_IDLE"
            /\ f.pc = "loop"
        BY FrameTyped DEF Ops, Frame
      <3>2. stack' = Append(stack, f)
        BY <2>1
      <3> HIDE DEF f
      <3>3. Fits(stack, f)
        BY <2>0, <3>1, MayCallSite, QuietPushed, QuietStates
      <3>4. clientState' = InProgress["yield"] \/ Quiet(clientState')
        BY <2>1, BusyStates, QuietStates DEF Cas, ValidForConnect
      <3>5. stack \in Seq(Frames) /\ Shape(stack)
        BY CallsInvNow DEF TypeOK, CallsTypeOK
      <3>6. Owned(stack', clientState')
        BY <3>1, <3>2, <3>4, <3>5, PushedOwn, BusyStates
      <3>7. CallsInv' /\ stack' # <<>> /\ stack'[Len(stack')] = f
        BY <3>1, <3>2, <3>3, <3>5, <3>6, Pushed DEF TopAgrees
      <3>8. socket' = "closed" => toClient' = <<>> /\ clientState' \notin LiveStates
        BY <2>1, LinkNow DEF Cas, LiveStates, ConnectedStates, netVars
      <3> QED
        BY <3>1, <3>7, <3>8, OpenOrClosed DEF NotConnecting
    <2> QED
      BY <1>7, <2>0, <2>1, RefuseKeeps DEF Yield, ValidForYield
  <1> QED
    BY <1>1, <1>2, <1>3, <1>4, <1>5, <1>6, <1>7
LEMMA TopNotConnect ==
  ASSUME stack # <<>>, Top.op # "connect"
  PROVE  NotConnecting(stack)
  BY DEF NotConnecting, Top

LEMMA FailConnectKeeps ==
  ASSUME TypeOK, StackInv, stack # <<>>, Top.op = "connect", NEW rc, FailConnect(rc)
  PROVE  StackInv'
  <1>1. clientState' = "DISCONNECTED_ERROR"
    BY DEF FailConnect, Cas, StackInv, ConnackFirst
  <1>2. Quiet(clientState') /\ clientState' \notin LiveStates
    BY <1>1, QuietStates, NotLive DEF ValidForConnect
  <1>3. CallsInv' /\ NotConnecting(stack')
    BY <1>2, Popped DEF FailConnect
  <1> QED
    BY <1>2, <1>3, SocketClosed, OpenOrClosed DEF FailConnect

LEMMA EndRequestKeeps ==
  ASSUME TypeOK, StackInv, stack # <<>>, Top.op \in Requests, NEW rc, EndRequest(rc),
         UNCHANGED netVars \/ (Consume /\ toClient # <<>>)
  PROVE  StackInv'
  <1>1. /\ clientState' = Top.saved \/ Quiet(clientState')
        /\ socket = "closed" => clientState' \notin LiveStates
    BY StateGivenBack DEF EndRequest
  <1>2. CallsInv' /\ NotConnecting(stack')
    BY <1>1, Popped DEF EndRequest, Requests
  <1>3. socket' = socket /\ (socket = "closed" => toClient' = <<>>)
    BY SocketKept
  <1> QED
    BY <1>1, <1>2, <1>3, OpenOrClosed

LEMMA ConnectEndsKeeps ==
  ASSUME TypeOK, StackInv,
         ReadConnack \/ ReconnectFailed \/ ReconnectResubscribed \/ ReconnectConnected
  PROVE  StackInv'
  <1>1. CASE ReadConnack
    <2>0. stack # <<>> /\ Top.op = "connect" /\ toClient # <<>>
      BY <1>1 DEF ReadConnack, At, Arrived
    <2>1. CASE Consume /\ Cas("CONNECTING", "CONNECTED_IDLE") /\ stack' = Pop
      <3>1. clientState = "CONNECTING" /\ clientState' = "CONNECTED_IDLE"
        BY <2>0, <2>1 DEF Cas, StackInv, ConnackFirst
      <3>2. CallsInv' /\ NotConnecting(stack')
        BY <2>0, <2>1, <3>1, QuietStates, Popped
      <3>3. socket' # "closed"
        BY <2>0, <2>1, LinkNow DEF Consume
      <3> QED
        BY <3>2, <3>3, OpenOrClosed
    <2> QED
      BY <1>1, <2>0, <2>1, FailConnectKeeps DEF ReadConnack
  <1>2. ASSUME At("reconnect", "connect") \/ At("reconnect", "resubscribe")
        PROVE  /\ stack # <<>> /\ Top.op = "reconnect" /\ Quiet(clientState)
    <2>1. stack # <<>> /\ Top.op = "reconnect"
      BY <1>2 DEF At
    <2>2. Quiet(clientState)
      BY <2>1, CallsInvNow DEF CallsInv, StateOnTop, Quiet, BusyOps, Requests
    <2> QED
      BY <2>1, <2>2
  <1>3. CASE ReconnectFailed
    <2>1. stack # <<>> /\ Top.op = "reconnect" /\ Quiet(clientState)
      BY <1>2, <1>3 DEF ReconnectFailed
    <2>2. /\ clientState' = clientState \/ clientState' = "PENDING_RECONNECT"
          /\ stack' = Pop /\ socket' = socket /\ toClient' = toClient
      BY <1>3 DEF ReconnectFailed, Cas, netVars
    <2>3. CallsInv' /\ NotConnecting(stack')
      BY <2>1, <2>2, QuietStates, Popped DEF ValidForConnect
    <2> QED
      BY <2>2, <2>3, LinkNow, NotLive, OpenOrClosed DEF ValidForConnect
  <1>4. CASE ReconnectResubscribed
    <2>1. stack # <<>> /\ Top.op = "reconnect" /\ Quiet(clientState)
      BY <1>2, <1>4 DEF ReconnectResubscribed
    <2>2. clientState' = clientState /\ stack' = Pop /\ socket' = socket /\ toClient' = toClient
      BY <1>4 DEF ReconnectResubscribed, netVars
    <2>3. CallsInv' /\ NotConnecting(stack')
      BY <2>1, <2>2, Popped
    <2> QED
      BY <2>2, <2>3, LinkNow, OpenOrClosed
  <1>5. CASE ReconnectConnected
    <2>1. stack # <<>> /\ Top.op = "reconnect"
      BY <1>2, <1>5 DEF ReconnectConnected
    <2> DEFINE f == [Top EXCEPT !.pc = "resubscribe"]
    <2>2. f \in Frames /\ f.op = "reconnect" /\ f.saved = Top.saved
      BY <2>1, TopTyped DEF TypeOK, Frames
    <2> HIDE DEF f
    <2>3. stack \in Seq(Frames) /\ Shape(stack)
      BY CallsInvNow DEF TypeOK, CallsTypeOK
    <2>4. /\ Shape(SetTop(f)) /\ SetTop(f) \in Seq(Frames) /\ SetTop(f) # <<>>
          /\ SetTop(f)[Len(SetTop(f))] = f
      BY <2>1, <2>2, <2>3, ReplaceShape DEF SetTop, Top
    <2>5. CallSite(SetTop(f))
      BY <2>2, <2>4 DEF CallSite, NotConnecting
    <2> QED
      BY <1>5, <2>5, StartResubscribeKeeps DEF ReconnectConnected, f
  <1> QED
    BY <1>1, <1>3, <1>4, <1>5

LEMMA AnswerKeeps ==
  ASSUME TypeOK, StackInv, ReadResuback \/ ReadPuback \/ ReadSuback \/ ReadUnsuback \/ WaitTimeout
  PROVE  StackInv'
  <1>1. CASE ReadResuback
    <2>0. stack # <<>> /\ Top.op = "resubscribe" /\ toClient # <<>> /\ Top.op \in Requests
      BY <1>1 DEF ReadResuback, At, Arrived, Requests
    <2>1. \A rc : Consume /\ EndRequest(rc) => StackInv'
      BY <2>0, EndRequestKeeps
    <2>2. CASE /\ Top.slot < Top.last
               /\ ConsumeAndSend(Packet("SUBSCRIBE", messageHandlers[Top.slot + 1], NextId))
               /\ stack' = SetTop([Top EXCEPT !.slot = @ + 1, !.id = NextId])
               /\ UNCHANGED <<clientState, ret>>
      <3>1. Top.slot + 1 \in 0..NumHandlers
        BY <2>0, <2>2, TopCall, ClientAssumption DEF TypeOK, ClientAssumption
      <3>2. NextId \in PacketIds
        BY NextIdTyped DEF TypeOK
      <3> DEFINE f == [Top EXCEPT !.slot = @ + 1, !.id = NextId]
      <3>3. f \in Frames /\ f.op = Top.op /\ f.saved = Top.saved
        BY <2>0, <3>1, <3>2, TopTyped DEF TypeOK, Frames
      <3>4. stack' = SetTop(f)
        BY <2>2
      <3> HIDE DEF f
      <3>5. CallsInv' /\ NotConnecting(stack')
        BY <2>0, <2>2, <3>3, <3>4, CallsInvNow, Replaced DEF TopAgrees
      <3>6. socket' = socket /\ (socket = "closed" => toClient' = <<>>)
        BY <2>0, <2>2, SocketKept
      <3> QED
        BY <2>2, <3>5, <3>6, LinkNow, OpenOrClosed
    <2> QED
      BY <1>1, <2>1, <2>2 DEF ReadResuback
  <1>2. CASE ReadPuback \/ ReadSuback \/ ReadUnsuback
    <2>1. stack # <<>> /\ Top.op \in Requests /\ toClient # <<>>
      BY <1>2 DEF ReadPuback, ReadSuback, ReadUnsuback, At, Arrived, Requests
    <2> QED
      BY <1>2, <2>1, EndRequestKeeps DEF ReadPuback, ReadSuback, ReadUnsuback
  <1>3. CASE WaitTimeout
    BY <1>3, FailConnectKeeps, EndRequestKeeps DEF WaitTimeout, Waiting
  <1> QED
    BY <1>1, <1>2, <1>3

LEMMA YieldToKeeps ==
  ASSUME TypeOK, StackInv, stack # <<>>, Top.op = "yield",
         NEW rc \in ResultCodes,
         NEW pc \in {"loop", "alive", "lost", "handler", "check", "exit"},
         YieldTo(pc, rc),
         Owned(stack, clientState'),
         clientState' = "CONNECTED_YIELD_IN_PROGRESS" =>
            pc # "handler" /\ (pc \in {"check", "exit"} => rc \notin LeaveState)
  PROVE  CallsInv' /\ NotConnecting(stack')
  <1> DEFINE f == [Top EXCEPT !.pc = pc, !.rc = rc]
  <1>1. f \in Frames /\ f.op = "yield" /\ f.saved = Top.saved /\ f.pc = pc /\ f.rc = rc
    BY TopTyped DEF TypeOK, Frames
  <1>2. stack' = SetTop(f)
    BY DEF YieldTo
  <1> HIDE DEF f
  <1>3. TopAgrees(f, clientState', ret')
    BY <1>1 DEF TopAgrees
  <1> QED
    BY <1>1, <1>2, <1>3, Replaced

LEMMA AfterReadKeeps ==
  ASSUME TypeOK, StackInv, stack # <<>>, Top.op # "connect", Top.pc # "deliver" \/ Top.op # "yield",
         NEW rc \in ResultCodes \ LeaveState, AfterRead(rc), clientState' = clientState
  PROVE  CallsInv' /\ NotConnecting(stack')
  <1>1. CASE Top.op = "yield"
    BY <1>1, CallsInvNow, YieldToKeeps DEF AfterRead
  <1>2. CASE Top.op # "yield"
    BY <1>2, TopNotConnect, Kept DEF AfterRead, At
  <1> QED
    BY <1>1, <1>2

LEMMA OtherReadKeeps ==
  ASSUME TypeOK, StackInv,
         ReadOther \/ ReadPingresp \/ ReadOversize \/ ReadNothing \/ ReadTorn \/ ReadError
  PROVE  StackInv'
  <1>0. {"MQTT_SUCCESS", "MQTT_RX_BUFFER_TOO_SHORT_ERROR", "NETWORK_SSL_NOTHING_TO_READ",
         "MQTT_FAILURE"} \subseteq ResultCodes \ LeaveState
    BY DEF ResultCodes, LeaveState
  <1>1. stack # <<>> /\ (Top.pc # "deliver" \/ Top.op # "yield")
    BY DEF ReadOther, ReadPingresp, ReadOversize, ReadNothing, ReadTorn, ReadError, Reading, Waiting, At
  <1>2. Top.op = "connect" => toClient = <<>> \/ Arrived("CONNACK")
    BY <1>1 DEF StackInv, ConnackFirst
  <1>3. ASSUME Consume /\ toClient # <<>>, Top.op # "connect", clientState' = clientState,
               NEW rc \in ResultCodes \ LeaveState, AfterRead(rc)
        PROVE  StackInv'
    <2>1. CallsInv' /\ NotConnecting(stack')
      BY <1>1, <1>3, AfterReadKeeps
    <2>2. socket' = socket /\ (socket = "closed" => toClient' = <<>>)
      BY <1>3, SocketKept
    <2> QED
      BY <1>3, <2>1, <2>2, LinkNow, OpenOrClosed
  <1>4. CASE ReadOther
    <2>1. toClient # <<>> /\ Top.op # "connect"
      BY <1>2, <1>4 DEF ReadOther, Arrived, AnswerTo
    <2> QED
      BY <1>0, <1>3, <1>4, <2>1 DEF ReadOther
  <1>5. CASE ReadPingresp
    <2>1. toClient # <<>> /\ Top.op # "connect"
      BY <1>2, <1>5 DEF ReadPingresp, Arrived
    <2> QED
      BY <1>0, <1>3, <1>5, <2>1 DEF ReadPingresp
  <1>6. CASE ReadOversize
    <2>1. toClient # <<>> /\ Top.op # "connect"
      BY <1>2, <1>6 DEF ReadOversize, Arrived
    <2> QED
      BY <1>0, <1>3, <1>6, <2>1 DEF ReadOversize
  <1>7. CASE ReadNothing \/ ReadError
    <2>1. /\ Top.op = "yield" /\ UNCHANGED <<netVars, clientState>>
          /\ YieldTo("alive", "MQTT_SUCCESS") \/ YieldTo("lost", "MQTT_SUCCESS")
      BY <1>7 DEF ReadNothing, ReadError, At
    <2>2. CallsInv' /\ NotConnecting(stack')
      BY <1>0, <1>1, <2>1, CallsInvNow, YieldToKeeps
    <2>3. socket' = socket /\ toClient' = toClient
      BY <2>1 DEF netVars
    <2> QED
      BY <2>1, <2>2, <2>3, LinkNow, OpenOrClosed
  <1>8. CASE ReadTorn
    <2>1. socket' # "closed" /\ UNCHANGED <<toClient, session, clientState, ret>>
      BY <1>8 DEF ReadTorn
    <2>2. PICK rc \in ResultCodes \ LeaveState : AfterRead(rc)
      BY <1>0, <1>8 DEF ReadTorn
    <2>3. CASE Top.op # "connect"
      <3>1. CallsInv' /\ NotConnecting(stack')
        BY <1>1, <2>1, <2>2, <2>3, AfterReadKeeps
      <3> QED
        BY <2>1, <3>1, OpenOrClosed
    <2>4. CASE Top.op = "connect"
      <3>1. UNCHANGED stack
        BY <2>2, <2>4 DEF AfterRead
      <3> QED
        BY <2>1, <3>1
        DEF StackInv, StateOnTop, SavedBelow, ConnectInnermost, YieldBelow, YieldOnTop,
            ConnackFirst, ConnectedHasSocket, Top, Arrived
    <2> QED
      BY <2>3, <2>4
  <1> QED
    BY <1>4, <1>5, <1>6, <1>7, <1>8

LEMMA ReadPublishKeeps ==
  ASSUME TypeOK, StackInv, ReadPublish
  PROVE  StackInv'
  <1>0. /\ stack # <<>> /\ toClient # <<>> /\ Top.op # "connect"
        /\ Top.pc \in {"wait", "loop"}
    <2>1. stack # <<>> /\ Arrived("PUBLISH") /\ (Top.pc = "wait" \/ Top.pc = "loop")
      BY DEF ReadPublish, Reading, Waiting, At
    <2>2. toClient # <<>> /\ ~Arrived("CONNACK")
      BY <2>1 DEF Arrived
    <2>3. Top.op # "connect"
      BY <2>1, <2>2 DEF StackInv, ConnackFirst
    <2> QED
      BY <2>1, <2>2, <2>3
  <1>1. stack \in Seq(Frames) /\ Shape(stack) /\ Owned(stack, clientState) /\ Top \in Frames
    BY <1>0, CallsInvNow, TopTyped DEF TypeOK, CallsTypeOK
  <1> DEFINE below == IF Top.op = "yield" THEN SetTop([Top EXCEPT !.pc = "deliver"]) ELSE stack
             f == Saving("deliver", "scan", NoTopic, 0, 0, Head(toClient).id)
             g == [Top EXCEPT !.pc = "deliver"]
  <1>2. stack' = Append(below, f) /\ clientState' = "CONNECTED_WAIT_FOR_CB_RETURN" /\ Consume
    BY DEF ReadPublish
  <1>3. f \in Frames
    <2>1. Head(toClient) \in Packets
      BY <1>0, ChannelsTyped DEF TypeOK
    <2> QED
      BY <2>1, ZeroTyped, SavingTyped DEF TypeOK, CallsTypeOK, Packets
  <1>4. f.op = "deliver" /\ f.saved = clientState
    BY DEF Saving
  <1>5. g \in Frames /\ g.op = Top.op /\ g.saved = Top.saved /\ g.pc = "deliver"
    BY <1>1 DEF Frames
  <1>6. below = (IF Top.op = "yield" THEN [stack EXCEPT ![Len(stack)] = g] ELSE stack)
    BY DEF SetTop
  <1> HIDE DEF f, g, below
  <1>7. below \in Seq(Frames) /\ Shape(below) /\ Fits(below, f)
    <2>1. CASE Top.op = "yield"
      <3>1. /\ Shape(below) /\ Owned(below, clientState) /\ below \in Seq(Frames)
            /\ below # <<>> /\ below[Len(below)] = g
        <4>1. below = SetTop(g)
          BY <2>1 DEF below, g
        <4>2. stack # <<>> /\ stack \in Seq(Frames) /\ Shape(stack)
          BY <1>0, <1>1
        <4>3. g \in Frames /\ g.op = Top.op /\ g.saved = Top.saved
          BY <1>5
        <4>4. /\ Shape(SetTop(g)) /\ SetTop(g) \in Seq(Frames) /\ SetTop(g) # <<>>
              /\ SetTop(g)[Len(SetTop(g))] = g
          BY <4>2, <4>3, ReplaceShape DEF SetTop, Top
        <4>5. Owned(SetTop(g), clientState)
          BY <1>1, <4>3, <4>4 DEF Owned, Top
        <4> QED
          BY <4>1, <4>4, <4>5
      <3> QED
        BY <1>0, <1>4, <1>5, <2>1, <3>1 DEF Fits
    <2>2. CASE Top.op # "yield"
      BY <1>0, <1>1, <1>4, <1>6, <2>2 DEF Fits, Top
    <2> QED
      BY <2>1, <2>2
  <1>8. Owned(stack', clientState')
    BY <1>2, <1>3, <1>4, <1>7, PushedOwn, BusyStates
  <1>9. CallsInv' /\ stack' # <<>> /\ stack'[Len(stack')] = f
    BY <1>2, <1>3, <1>4, <1>7, <1>8, Pushed DEF TopAgrees
  <1>10. socket' # "closed"
    BY <1>0, <1>2, LinkNow DEF Consume
  <1> QED
    BY <1>4, <1>9, <1>10, OpenOrClosed DEF NotConnecting
LEMMA DeliveryKeeps ==
  ASSUME TypeOK, StackInv, Deliver \/ CallbackReturns \/ EndDelivery
  PROVE  StackInv'
  <1>0. stack # <<>> /\ Top.op = "deliver"
    BY DEF Deliver, CallbackReturns, EndDelivery, At
  <1>1. ASSUME NEW f \in Frames, f.op = Top.op, f.saved = Top.saved, stack' = SetTop(f),
               UNCHANGED <<netVars, clientState>>
        PROVE  StackInv'
    <2>1. CallsInv' /\ NotConnecting(stack')
      BY <1>0, <1>1, CallsInvNow, Replaced DEF TopAgrees
    <2>2. socket' = socket /\ toClient' = toClient
      BY <1>1 DEF netVars
    <2> QED
      BY <1>1, <2>1, <2>2, LinkNow, OpenOrClosed
  <1>2. Top \in Frames
    BY <1>0, TopTyped DEF TypeOK
  <1>3. CASE Deliver
    <2>1. PICK s \in Slots : stack' = SetTop([Top EXCEPT !.pc = "callback", !.slot = s])
      BY <1>3 DEF Deliver
    <2> DEFINE f == [Top EXCEPT !.pc = "callback", !.slot = s]
    <2>2. f \in Frames /\ f.op = Top.op /\ f.saved = Top.saved
      BY <1>2, ZeroTyped DEF Frames
    <2> HIDE DEF f
    <2> QED
      BY <1>1, <1>3, <2>1, <2>2 DEF Deliver, f
  <1>4. CASE CallbackReturns
    <2> DEFINE f == [Top EXCEPT !.pc = "scan"]
    <2>1. f \in Frames /\ f.op = Top.op /\ f.saved = Top.saved
      BY <1>2 DEF Frames
    <2> HIDE DEF f
    <2> QED
      BY <1>1, <1>4, <2>1 DEF CallbackReturns, f
  <1>5. CASE EndDelivery
    <2>1. /\ clientState' = Top.saved \/ Quiet(clientState')
          /\ socket = "closed" => clientState' \notin LiveStates
      BY <1>0, <1>5, BusyStates, StateGivenBack DEF EndDelivery
    <2>2. ret'.rc \in DeliveryCodes
      BY <1>5 DEF EndDelivery, Result, CasRc, DeliveryCodes
    <2>3. CallsInv' /\ NotConnecting(stack')
      BY <1>0, <1>5, <2>1, <2>2, Popped DEF EndDelivery
    <2>4. socket' = socket /\ (socket = "closed" => toClient' = <<>>)
      BY <1>5, SocketKept DEF EndDelivery
    <2> QED
      BY <2>1, <2>3, <2>4, OpenOrClosed
  <1> QED
    BY <1>3, <1>4, <1>5

LEMMA YieldStepKeeps ==
  ASSUME TypeOK, StackInv,
         YieldAfterDelivery \/ KeepAliveCheck \/ HandleDisconnect \/ HandlerReturns \/ YieldAgain
  PROVE  StackInv'
  <1>0. stack # <<>> /\ Top.op = "yield" /\ Owned(stack, clientState)
    BY CallsInvNow DEF YieldAfterDelivery, KeepAliveCheck, HandleDisconnect, HandlerReturns, YieldAgain, At
  <1>1. {"MQTT_SUCCESS", "NETWORK_ATTEMPTING_RECONNECT", "NETWORK_DISCONNECTED_ERROR"} \subseteq ResultCodes
        /\ "MQTT_SUCCESS" \notin LeaveState
    BY DEF ResultCodes, LeaveState
  <1>2. ASSUME NEW pc \in {"loop", "alive", "lost", "handler", "check", "exit"},
               NEW rc \in ResultCodes, YieldTo(pc, rc),
               \/ UNCHANGED clientState /\ rc \notin LeaveState /\ pc # "handler"
               \/ clientState' \in ValidForConnect
        PROVE  CallsInv' /\ NotConnecting(stack')
    <2>1. Owned(stack, clientState')
      BY <1>0, <1>2, QuietStates, QuietAgrees
    <2>2. clientState' = "CONNECTED_YIELD_IN_PROGRESS" => rc \notin LeaveState /\ pc # "handler"
      BY <1>2 DEF ValidForConnect
    <2> QED
      BY <1>0, <1>2, <2>1, <2>2, YieldToKeeps
  <1>3. CASE YieldAfterDelivery
    <2>1. ret.rc \in DeliveryCodes
      BY <1>0, <1>3, CallsInvNow DEF YieldAfterDelivery, At, TopAgrees
    <2>2. ret.rc \in ResultCodes /\ ret.rc \notin LeaveState
      BY <2>1 DEF DeliveryCodes, LeaveState, ResultCodes
    <2>3. YieldTo("alive", ret.rc) \/ YieldTo("exit", ret.rc)
      BY <1>0, <1>3 DEF YieldAfterDelivery, AfterRead
    <2>4. CallsInv' /\ NotConnecting(stack')
      BY <1>2, <1>3, <2>2, <2>3 DEF YieldAfterDelivery
    <2>5. UNCHANGED <<socket, toClient, clientState>>
      BY <1>3 DEF YieldAfterDelivery, netVars
    <2> QED
      BY <2>4, <2>5, LinkNow, OpenOrClosed
  <1>4. CASE KeepAliveCheck
    <2>1. (YieldTo("check", "MQTT_SUCCESS") \/ YieldTo("lost", "MQTT_SUCCESS")) /\ UNCHANGED clientState
      BY <1>4 DEF KeepAliveCheck
    <2>2. CallsInv' /\ NotConnecting(stack')
      BY <1>1, <1>2, <2>1
    <2>3. socket' = socket /\ (socket = "closed" => toClient' = <<>>)
      BY <1>4, SocketKept DEF KeepAliveCheck
    <2> QED
      BY <2>1, <2>2, <2>3, LinkNow, OpenOrClosed
  <1>5. CASE HandleDisconnect
    <2>1. clientState' \in ValidForConnect /\ YieldTo("handler", "MQTT_SUCCESS") /\ CloseConnection
      BY <1>5 DEF HandleDisconnect, ValidForConnect
    <2>2. CallsInv' /\ NotConnecting(stack')
      BY <1>1, <1>2, <2>1
    <2> QED
      BY <2>1, <2>2, NotLive, SocketClosed, OpenOrClosed
  <1>6. CASE HandlerReturns
    <2>1. /\ clientState' \in ValidForConnect /\ UNCHANGED netVars
          /\ \/ YieldTo("check", "NETWORK_ATTEMPTING_RECONNECT")
             \/ YieldTo("exit", "NETWORK_DISCONNECTED_ERROR")
      BY <1>6 DEF HandlerReturns, ValidForConnect
    <2>2. CallsInv' /\ NotConnecting(stack')
      BY <1>1, <1>2, <2>1
    <2>3. socket' = "closed" => toClient' = <<>>
      BY <2>1, LinkNow DEF netVars
    <2> QED
      BY <2>1, <2>2, <2>3, NotLive, OpenOrClosed
  <1>7. CASE YieldAgain
    <2>1. YieldTo("loop", "MQTT_SUCCESS") /\ UNCHANGED <<socket, toClient, clientState>>
      BY <1>7 DEF YieldAgain, netVars
    <2>2. CallsInv' /\ NotConnecting(stack')
      BY <1>1, <1>2, <2>1
    <2> QED
      BY <2>1, <2>2, LinkNow, OpenOrClosed
  <1> QED
    BY <1>3, <1>4, <1>5, <1>6, <1>7
LEMMA ReconnectKeeps ==
  ASSUME TypeOK, StackInv, HandleReconnect \/ YieldAfterReconnect
  PROVE  StackInv'
  <1>0. stack # <<>> /\ Top.op = "yield" /\ Owned(stack, clientState)
    BY CallsInvNow DEF HandleReconnect, YieldAfterReconnect, At
  <1>1. {"NETWORK_ATTEMPTING_RECONNECT", "NETWORK_RECONNECT_TIMED_OUT_ERROR",
         "NETWORK_MANUALLY_DISCONNECTED", "NETWORK_RECONNECTED",
         "MQTT_UNEXPECTED_CLIENT_STATE_ERROR"} \subseteq ResultCodes
        /\ {"NETWORK_RECONNECTED", "MQTT_UNEXPECTED_CLIENT_STATE_ERROR"} \cap LeaveState = {}
    BY DEF ResultCodes, LeaveState
  <1>2. ASSUME NEW pc \in {"check", "exit"}, NEW rc \in ResultCodes, YieldTo(pc, rc),
               clientState # "CONNECTED_YIELD_IN_PROGRESS", UNCHANGED <<netVars, clientState>>
        PROVE  StackInv'
    <2>1. CallsInv' /\ NotConnecting(stack')
      BY <1>0, <1>2, YieldToKeeps
    <2>2. socket' = socket /\ toClient' = toClient
      BY <1>2 DEF netVars
    <2> QED
      BY <1>2, <2>1, <2>2, LinkNow, OpenOrClosed
  <1>3. \A rc : BackOff(rc) => \/ YieldTo("check", "NETWORK_RECONNECT_TIMED_OUT_ERROR")
                               \/ YieldTo("check", rc)
    BY DEF BackOff
  <1>4. CASE HandleReconnect
    <2>0. clientState # "CONNECTED_YIELD_IN_PROGRESS"
      BY <1>4 DEF HandleReconnect
    <2>1. CASE StartConnect(Append(SetTop([Top EXCEPT !.pc = "reconnect"]), Frame("reconnect", "connect")))
      <3> DEFINE f == [Top EXCEPT !.pc = "reconnect"]
      <3>1. f \in Frames /\ f.op = "yield" /\ f.saved = Top.saved /\ f.pc = "reconnect"
        BY <1>0, TopTyped DEF TypeOK, Frames
      <3>2. StartConnect(Append(SetTop(f), Frame("reconnect", "connect")))
        BY <2>1
      <3> HIDE DEF f
      <3>3. stack \in Seq(Frames) /\ Shape(stack)
        BY CallsInvNow DEF TypeOK, CallsTypeOK
      <3>4. /\ Shape(SetTop(f)) /\ SetTop(f) \in Seq(Frames) /\ SetTop(f) # <<>>
            /\ SetTop(f)[Len(SetTop(f))] = f
        BY <1>0, <3>1, <3>3, ReplaceShape DEF SetTop, Top
      <3>5. CallSite(SetTop(f))
        BY <3>1, <3>4 DEF CallSite, NotConnecting
      <3> QED
        BY <3>2, <3>5, ReconnectSite, StartConnectKeeps
    <2> QED
      BY <1>1, <1>2, <1>3, <1>4, <2>0, <2>1 DEF HandleReconnect
  <1>5. CASE YieldAfterReconnect
    <2>0. clientState # "CONNECTED_YIELD_IN_PROGRESS"
      BY <1>0, <1>5, CallsInvNow DEF YieldAfterReconnect, At, TopAgrees
    <2>1. CASE BackOff(ret.rc) /\ UNCHANGED <<netVars, clientState>>
      <3>1. ret.rc \in ResultCodes
        BY DEF TypeOK, CallsTypeOK, Results
      <3> QED
        BY <1>1, <1>2, <1>3, <2>0, <2>1, <3>1
    <2>2. CASE /\ Cas("CONNECTED_IDLE", "CONNECTED_YIELD_IN_PROGRESS")
               /\ YieldTo("check", IF clientState = "CONNECTED_IDLE" THEN "NETWORK_RECONNECTED"
                                   ELSE "MQTT_UNEXPECTED_CLIENT_STATE_ERROR")
               /\ UNCHANGED netVars
      <3>1. PICK rc \in ResultCodes \ LeaveState : YieldTo("check", rc)
        BY <1>1, <2>2
      <3>2. clientState' = clientState \/ clientState' = InProgress["yield"]
        BY <2>2, BusyStates DEF Cas
      <3>3. Owned(stack, clientState')
        <4>1. Owned(stack, InProgress["yield"])
          <5>1. \A op \in BusyOps : InProgress["yield"] = InProgress[op] => op = "yield"
            BY BusyStates
          <5> QED
            BY <1>0, <5>1 DEF Owned, Top
        <4> QED
          BY <1>0, <3>2, <4>1
      <3>4. CallsInv' /\ NotConnecting(stack')
        BY <1>0, <3>1, <3>3, YieldToKeeps
      <3>5. socket' = "closed" => toClient' = <<>> /\ clientState' \notin LiveStates
        BY <2>2, LinkNow DEF Cas, LiveStates, ConnectedStates, netVars
      <3> QED
        BY <3>4, <3>5, OpenOrClosed
    <2> QED
      BY <1>5, <2>1, <2>2 DEF YieldAfterReconnect
  <1> QED
    BY <1>4, <1>5

LEMMA YieldReturnsKeeps ==
  ASSUME TypeOK, StackInv, YieldReturns
  PROVE  StackInv'
  <1>0. stack # <<>> /\ Top.op = "yield" /\ Top.pc \in {"check", "exit"} /\ stack' = Pop
    BY DEF YieldReturns, At
  <1>1. clientState # "CONNECTED_YIELD_IN_PROGRESS" => Quiet(clientState)
    BY <1>0, CallsInvNow, BusyStates DEF CallsInv, StateOnTop, Quiet
  <1>2. Top.rc \in LeaveState => clientState # "CONNECTED_YIELD_IN_PROGRESS"
    BY <1>0, CallsInvNow DEF TopAgrees
  <1>3. Quiet(clientState') /\ (clientState' = clientState \/ clientState = "CONNECTED_YIELD_IN_PROGRESS")
    BY <1>1, <1>2, QuietStates DEF YieldReturns, Cas
  <1>4. CallsInv' /\ NotConnecting(stack')
    BY <1>0, <1>3, Popped
  <1>5. socket' = "closed" => toClient' = <<>> /\ clientState' \notin LiveStates
    BY <1>3, LinkNow DEF YieldReturns, netVars, LiveStates, ConnectedStates
  <1> QED
    BY <1>4, <1>5, OpenOrClosed

LEMMA AppendHead ==
  ASSUME NEW S, NEW s \in Seq(S), NEW p
  PROVE  /\ Append(s, p) # <<>>
         /\ s # <<>> => Head(Append(s, p)) = Head(s)
         /\ s = <<>> => Head(Append(s, p)) = p
  OBVIOUS

LEMMA CallsUntouched ==
  ASSUME StackInv, UNCHANGED calls, ConnackFirst', ConnectedHasSocket'
  PROVE  StackInv'
  BY DEF StackInv, StateOnTop, SavedBelow, ConnectInnermost, YieldBelow, YieldOnTop, Top, calls

LEMMA WorldKeeps ==
  ASSUME TypeOK, StackInv, World \/ PingTimerExpires \/ DelayTimerExpires \/ UNCHANGED vars
  PROVE  StackInv'
  <1>0. /\ stack # <<>> /\ Top.op = "connect" =>
             clientState = "CONNECTING" /\ ((toClient = <<>> /\ ~session) \/ Arrived("CONNACK"))
        /\ socket = "closed" => toClient = <<>>
        /\ clientState \in ConnectedStates \cup {"CONNECTING"} => socket # "closed"
    BY DEF StackInv, ConnackFirst, ConnectedHasSocket
  <1>1. UNCHANGED calls
    BY DEF World, PingTimerExpires, DelayTimerExpires, vars, clientVars
  <1>2. toClient \in Seq(Packets) /\ toBroker \in Seq(Packets)
    BY DEF TypeOK, NetTypeOK
  <1>3. ASSUME socket' = "closed" => socket = "closed" /\ toClient' = toClient,
               \/ toClient' = toClient /\ session' = session
               \/ toClient' = <<>> /\ session' = FALSE
               \/ toClient # <<>> /\ toClient' # <<>> /\ Head(toClient') = Head(toClient)
               \/ toClient = <<>> /\ toClient' # <<>> /\ (session \/ Head(toClient').type = "CONNACK")
        PROVE  StackInv'
    <2>1. stack' = stack /\ clientState' = clientState
      BY <1>1 DEF calls
    <2>2. ConnackFirst'
      BY <1>0, <1>3, <2>1 DEF ConnackFirst, Top, Arrived
    <2>3. ConnectedHasSocket'
      BY <1>0, <1>3, <2>1 DEF ConnectedHasSocket
    <2> QED
      BY <1>1, <2>2, <2>3, CallsUntouched
  <1>4. \A p : /\ Append(toClient, p) # <<>>
               /\ toClient # <<>> => Head(Append(toClient, p)) = Head(toClient)
               /\ toClient = <<>> => Head(Append(toClient, p)) = p
    BY <1>2, AppendHead
  <1>5. CASE BrokerAnswers
    <2>1. PICK a \in Answer(Head(toBroker)) : toClient' = Append(toClient, a)
      BY <1>5 DEF BrokerAnswers
    <2>2. session \/ a.type = "CONNACK"
      <3>1. session \/ Head(toBroker).type = "CONNECT"
        BY <1>5 DEF BrokerAnswers
      <3> QED
        BY <2>1, <3>1 DEF Answer, Simple, Packet
    <2>3. socket' = "up"
      BY <1>5 DEF BrokerAnswers
    <2> QED
      BY <1>3, <1>4, <2>1, <2>2, <2>3
  <1>6. CASE BrokerIgnores
    BY <1>3, <1>6 DEF BrokerIgnores
  <1>7. CASE BrokerPublishes
    <2>1. socket' = "up" /\ session
      BY <1>7 DEF BrokerPublishes
    <2>2. PICK p : toClient' = Append(toClient, p)
      BY <1>7 DEF BrokerPublishes
    <2> QED
      BY <1>3, <1>4, <2>1, <2>2
  <1>8. CASE WifiChanges
    BY <1>3, <1>8 DEF WifiChanges
  <1>9. CASE LosePeer
    <2>1. socket' # "closed" /\ session' = FALSE
      BY <1>9 DEF LosePeer
    <2>2. PICK n \in 0..Len(toClient) : toClient' = SubSeq(toClient, 1, n)
      BY <1>9 DEF LosePeer
    <2>3. n = 0 => toClient' = <<>>
      BY <1>2, <2>2
    <2>4. n > 0 => toClient # <<>> /\ toClient' # <<>> /\ Head(toClient') = Head(toClient)
      BY <1>2, <2>2
    <2>5. n = 0 \/ n > 0
      OBVIOUS
    <2> QED
      BY <1>3, <2>1, <2>3, <2>4, <2>5
  <1>10. CASE ResetPeer
    BY <1>3, <1>10 DEF ResetPeer, ResetChannels
  <1>11. CASE UNCHANGED netVars
    BY <1>3, <1>11 DEF netVars
  <1> QED
    BY <1>5, <1>6, <1>7, <1>8, <1>9, <1>10, <1>11
    DEF World, Broker, Outages, PingTimerExpires, DelayTimerExpires, vars

LEMMA InitStack == Init => StackInv
  <1> SUFFICES ASSUME Init PROVE StackInv
    OBVIOUS
  <1>1. stack = <<>> /\ Len(stack) = 0 /\ clientState = "INITIALIZED" /\ toClient = <<>>
    BY DEF Init, NetInit
  <1>2. Quiet(clientState) /\ clientState \notin LiveStates
    BY <1>1, QuietStates, NotLive DEF ValidForConnect
  <1> QED
    BY <1>1, <1>2
    DEF StackInv, StateOnTop, SavedBelow, ConnectInnermost, YieldBelow, YieldOnTop, ConnackFirst,
        ConnectedHasSocket, Quiet, LiveStates

LEMMA NextStack ==
  ASSUME TypeOK, StackInv, [Next]_vars
  PROVE  StackInv'
  <1>1. CASE ApiCall
    BY <1>1, ConnectingKeeps, ApiKeeps DEF ApiCall
  <1>2. CASE ReadStep
    BY <1>2, ConnectEndsKeeps, AnswerKeeps, OtherReadKeeps, ReadPublishKeeps DEF ReadStep
  <1>3. CASE ClientStep
    BY <1>3, ConnectEndsKeeps, DeliveryKeeps, YieldStepKeeps, ReconnectKeeps DEF ClientStep
  <1>4. CASE WaitTimeout \/ CallbackReturns \/ HandlerReturns \/ YieldAgain \/ YieldReturns
    BY <1>4, AnswerKeeps, DeliveryKeeps, YieldStepKeeps, YieldReturnsKeeps
  <1>5. CASE PingTimerExpires \/ DelayTimerExpires \/ World \/ UNCHANGED vars
    BY <1>5, WorldKeeps
  <1> QED
    BY <1>1, <1>2, <1>3, <1>4, <1>5 DEF Next

(* The client state and the stack of calls stay in step, whatever the      *)
(* callbacks and the disconnect handler call.                              *)
THEOREM StackCorrect == Spec => []StackInv
  <1>1. TypeOK /\ StackInv /\ [Next]_vars => StackInv'
    BY NextStack
  <1> QED
    BY <1>1, InitStack, TypeCorrect, PTL DEF Spec

(* No call of mqtt_client*.c returns and leaves behind a state that would  *)
(* refuse every later request.                                             *)
THEOREM NoBusyStateLeft == Spec => []StateOnTop
  <1>1. StackInv => StateOnTop
    BY DEF StackInv
  <1> QED
    BY <1>1, StackCorrect, PTL

(* A client that believes it is connected has a socket: nothing a callback *)
(* does inside a call in progress takes it away unnoticed.                 *)
THEOREM LiveClientHasSocket == Spec => []ConnectedHasSocket
  <1>1. StackInv => ConnectedHasSocket
    BY DEF StackInv
  <1> QED
    BY <1>1, StackCorrect, PTL

----------------------------------------------------------------------------
(* Calls inside a callback.  While a message is being delivered, the calls *)
(* above are requests and other deliveries, and the client is, or will be  *)
(* put back, in one of their states, or in the one in which a callback     *)
(* left it by disconnecting.  mqtt_yield accepts none of these.            *)

(* Callbacks do not connect again what one of them has disconnected.       *)
NoReopening == "disconnect" \notin CallbackOps \/ CallbackOps \cap {"connect", "reconnect"} = {}

(* The state that a callback may leave the calls below it in.              *)
Left == IF "disconnect" \in CallbackOps THEN {"DISCONNECTED_MANUALLY"} ELSE {}

Inner == Requests \cup {"deliver"}

CallbackStates == {InProgress[op] : op \in Inner} \cup Left

Delivers(s) == \E i \in 1..Len(s) : s[i].op = "deliver"

AboveDelivery(s) ==
  \A i, k \in 1..Len(s) : k < i /\ s[k].op = "deliver" =>
    s[i].op \in Inner /\ s[i].saved \in CallbackStates

CallbackInv ==
  /\ AboveDelivery(stack)
  /\ Delivers(stack) => clientState \in CallbackStates

LEMMA CallbackState ==
  ASSUME NEW c \in CallbackStates
  PROVE  /\ c \notin {"CONNECTED_IDLE", "PENDING_RECONNECT"}
         /\ c \in ValidForConnect \/ c \notin ConnectedStates =>
              c = "DISCONNECTED_MANUALLY" /\ "disconnect" \in CallbackOps
  BY DEF CallbackStates, Left, Inner, Requests, InProgress, ValidForConnect, ConnectedStates

LEMMA BusyInside == \A op \in Inner : InProgress[op] \in CallbackStates
  BY DEF CallbackStates

LEMMA AbovePush ==
  ASSUME NEW s \in Seq(Frames), NEW f \in Frames, AboveDelivery(s),
         Delivers(s) => f.op \in Inner /\ f.saved \in CallbackStates
  PROVE  /\ AboveDelivery(Append(s, f))
         /\ Delivers(Append(s, f)) => Delivers(s) \/ f.op = "deliver"
  <1> DEFINE r == Append(s, f)
             n == Len(s)
  <1>1. n \in Nat /\ Len(r) = n + 1 /\ r[n+1] = f /\ \A i \in 1..n : r[i] = s[i]
    BY PushStack
  <1> HIDE DEF r
  <1>2. \A i \in 1..Len(r) : i = n + 1 \/ i \in 1..n
    BY <1>1
  <1>3. \A i, k \in 1..Len(r) : k < i => k \in 1..n
    BY <1>1
  <1>4. AboveDelivery(r)
    <2> SUFFICES ASSUME NEW i \in 1..Len(r), NEW k \in 1..Len(r), k < i, r[k].op = "deliver"
                 PROVE  r[i].op \in Inner /\ r[i].saved \in CallbackStates
      BY DEF AboveDelivery
    <2>1. k \in 1..n /\ s[k].op = "deliver"
      BY <1>1, <1>3
    <2>2. CASE i = n + 1
      BY <1>1, <2>1, <2>2 DEF Delivers
    <2>3. CASE i \in 1..n
      BY <1>1, <2>1, <2>3 DEF AboveDelivery
    <2> QED BY <1>2, <2>2, <2>3
  <1>5. Delivers(r) => Delivers(s) \/ f.op = "deliver"
    BY <1>1, <1>2 DEF Delivers
  <1> QED BY <1>4, <1>5 DEF r

LEMMA AbovePop ==
  ASSUME NEW s \in Seq(Frames), s # <<>>, AboveDelivery(s), NEW p, p = SubSeq(s, 1, Len(s) - 1)
  PROVE  /\ AboveDelivery(p)
         /\ Delivers(p) => Delivers(s) /\ s[Len(s)].saved \in CallbackStates
  <1> DEFINE n == Len(s)
  <1>1. n \in Nat \ {0}
    OBVIOUS
  <1>2. Len(p) = n - 1 /\ \A i \in 1..(n-1) : p[i] = s[i]
    BY PopStack
  <1> HIDE DEF n
  <1>3. \A i \in 1..(n-1) : i \in 1..n /\ i < n
    BY <1>1
  <1>4. AboveDelivery(p)
    BY <1>2, <1>3 DEF AboveDelivery, n
  <1>5. ASSUME Delivers(p)
        PROVE  Delivers(s) /\ s[n].saved \in CallbackStates
    <2>1. PICK k \in 1..(n-1) : s[k].op = "deliver"
      BY <1>2, <1>5 DEF Delivers
    <2>2. n \in 1..n /\ k \in 1..n /\ k < n
      BY <1>1, <1>3
    <2> QED BY <2>1, <2>2 DEF Delivers, AboveDelivery, n
  <1> QED BY <1>4, <1>5 DEF n

LEMMA AboveReplace ==
  ASSUME NEW s \in Seq(Frames), s # <<>>, AboveDelivery(s), NEW f \in Frames,
         f.op = s[Len(s)].op, f.saved = s[Len(s)].saved,
         NEW r, r = [s EXCEPT ![Len(s)] = f]
  PROVE  AboveDelivery(r) /\ (Delivers(r) => Delivers(s)) /\ r \in Seq(Frames)
  <1> DEFINE n == Len(s)
  <1>1. n \in Nat \ {0}
    OBVIOUS
  <1>2. r \in Seq(Frames) /\ Len(r) = n /\ r[n] = f /\ \A i \in 1..(n-1) : r[i] = s[i]
    BY ReplaceTop
  <1>3. f.op = s[n].op /\ f.saved = s[n].saved
    OBVIOUS
  <1> HIDE DEF n
  <1>4. \A i \in 1..n : i = n \/ i \in 1..(n-1)
    BY <1>1
  <1>5. \A i \in 1..n : r[i].op = s[i].op /\ r[i].saved = s[i].saved
    BY <1>2, <1>3, <1>4
  <1>6. AboveDelivery(r)
    <2>1. \A i, k \in 1..n : k < i /\ s[k].op = "deliver" =>
            s[i].op \in Inner /\ s[i].saved \in CallbackStates
      BY DEF AboveDelivery, n
    <2> SUFFICES ASSUME NEW i \in 1..n, NEW k \in 1..n, k < i, r[k].op = "deliver"
                 PROVE  r[i].op \in Inner /\ r[i].saved \in CallbackStates
      BY <1>2 DEF AboveDelivery
    <2>2. s[k].op = "deliver"
      BY <1>5
    <2> QED BY <1>5, <2>1, <2>2
  <1>7. Delivers(r) => Delivers(s)
    <2>1. Delivers(r) => \E i \in 1..n : r[i].op = "deliver"
      BY <1>2 DEF Delivers
    <2>2. (\E i \in 1..n : s[i].op = "deliver") => Delivers(s)
      BY DEF Delivers, n
    <2> QED BY <1>5, <2>1, <2>2
  <1> QED BY <1>2, <1>6, <1>7

(* What a step may do: stay, pop, replace the top frame, or push one.      *)
LEMMA CallbackStays ==
  ASSUME CallbackInv, stack' = stack, clientState' \in {clientState} \cup CallbackStates
  PROVE  CallbackInv'
  BY DEF CallbackInv

LEMMA CallbackPops ==
  ASSUME TypeOK, CallbackInv, stack # <<>>, stack' = Pop,
         clientState' \in {clientState, Top.saved} \/ ~Delivers(stack)
  PROVE  CallbackInv'
  <1>1. AboveDelivery(stack') /\ (Delivers(stack') => Delivers(stack) /\ Top.saved \in CallbackStates)
    BY AbovePop DEF TypeOK, CallsTypeOK, CallbackInv, Pop, Top
  <1> QED BY <1>1 DEF CallbackInv

LEMMA CallbackReplaces ==
  ASSUME TypeOK, CallbackInv, stack # <<>>, NEW f \in Frames, f.op = Top.op, f.saved = Top.saved,
         stack' = SetTop(f), clientState' \in {clientState} \/ ~Delivers(stack)
  PROVE  CallbackInv'
  <1>1. AboveDelivery(stack') /\ (Delivers(stack') => Delivers(stack))
    BY AboveReplace DEF TypeOK, CallsTypeOK, CallbackInv, SetTop, Top
  <1> QED BY <1>1 DEF CallbackInv

LEMMA Outside ==
  ASSUME TypeOK, CallbackInv, stack # <<>>, Top.op \notin Inner
  PROVE  ~Delivers(stack)
  <1> SUFFICES ASSUME NEW k \in 1..Len(stack), stack[k].op = "deliver"
               PROVE  FALSE
    BY DEF Delivers
  <1> DEFINE n == Len(stack)
  <1>1. n \in Nat /\ k \in 1..n
    BY DEF TypeOK, CallsTypeOK
  <1>2. n \in 1..n /\ (k = n \/ k < n)
    BY <1>1
  <1> QED BY <1>2 DEF CallbackInv, AboveDelivery, Top, Inner

(* Where no message is being delivered, anything but a delivery may start. *)
LEMMA OutsidePush ==
  ASSUME NEW s \in Seq(Frames), ~Delivers(s), NEW f \in Frames, f.op # "deliver"
  PROVE  ~Delivers(Append(s, f))
  BY AbovePush DEF Delivers, AboveDelivery

LEMMA OutsideHolds ==
  ASSUME ~Delivers(stack')
  PROVE  CallbackInv'
  BY DEF CallbackInv, AboveDelivery, Delivers

LEMMA OutsideReplaced ==
  ASSUME TypeOK, stack # <<>>, ~Delivers(stack), NEW f \in Frames, f.op = Top.op, f.saved = Top.saved
  PROVE  SetTop(f) \in Seq(Frames) /\ ~Delivers(SetTop(f))
  <1>1. AboveDelivery(stack)
    BY DEF AboveDelivery, Delivers
  <1> QED BY <1>1, AboveReplace DEF TypeOK, CallsTypeOK, SetTop, Top

LEMMA OutsideConnect ==
  ASSUME NEW below \in Seq(Frames), ~Delivers(below), StartConnect(below)
  PROVE  CallbackInv'
  <1> DEFINE f == Frame("connect", "wait")
  <1>1. f \in Frames /\ f.op # "deliver"
    BY FrameTyped DEF Ops, Frame
  <1>2. stack' = Append(below, f) \/ stack' = below
    BY DEF StartConnect
  <1> HIDE DEF f
  <1> QED BY <1>1, <1>2, OutsidePush, OutsideHolds

LEMMA OutsideReconnect ==
  ASSUME NEW s \in Seq(Frames), ~Delivers(s), StartConnect(Append(s, Frame("reconnect", "connect")))
  PROVE  CallbackInv'
  <1> DEFINE f == Frame("reconnect", "connect")
  <1>1. f \in Frames /\ f.op # "deliver"
    BY FrameTyped DEF Ops, Frame
  <1>2. StartConnect(Append(s, f))
    OBVIOUS
  <1> HIDE DEF f
  <1>3. Append(s, f) \in Seq(Frames) /\ ~Delivers(Append(s, f))
    BY <1>1, OutsidePush, PushStack
  <1> QED BY <1>2, <1>3, OutsideConnect

LEMMA OutsideResubscribe ==
  ASSUME TypeOK, NEW below \in Seq(Frames), ~Delivers(below), StartResubscribe(below)
  PROVE  CallbackInv'
  <1>1. CASE stack' = below
    BY <1>1, OutsideHolds
  <1>2. ASSUME NEW n \in 0..NumHandlers,
               stack' = Append(below, Saving("resubscribe", "wait", NoTopic, 1, n, NextId))
        PROVE  CallbackInv'
    <2> DEFINE f == Saving("resubscribe", "wait", NoTopic, 1, n, NextId)
    <2>1. f \in Frames
      <3>1. NextId \in PacketIds /\ clientState \in ClientStates
        BY NextIdTyped DEF TypeOK, CallsTypeOK
      <3>2. 1 \in 0..NumHandlers
        BY ClientAssumption DEF ClientAssumption
      <3> QED BY <3>1, <3>2, SavingTyped DEF Ops
    <2>2. f.op = "resubscribe"
      BY DEF Saving
    <2>3. stack' = Append(below, f)
      BY <1>2
    <2> HIDE DEF f
    <2> QED BY <2>1, <2>2, <2>3, OutsidePush, OutsideHolds
  <1> QED BY <1>1, <1>2 DEF StartResubscribe, SendRequest

LEMMA DeliverySite ==
  ASSUME TypeOK, CallbackInv, NEW op, MayCall(op), Delivers(stack)
  PROVE  op \in CallbackOps /\ clientState \in CallbackStates
  <1>1. stack # <<>>
    BY DEF Delivers
  <1>2. ~At("yield", "handler")
    BY Outside DEF At, Inner, Requests
  <1> QED BY <1>1, <1>2 DEF MayCall, CallbackInv

LEMMA CallbackRequest ==
  ASSUME TypeOK, CallbackInv, NEW op \in Requests, NEW p, NEW f \in Frames,
         f.op = op, f.saved = clientState, SendRequest(op, p, f, stack)
  PROVE  CallbackInv'
  <1>1. CASE stack' = Append(stack, f) /\ clientState' = InProgress[op]
    <2>1. AboveDelivery(stack')
      BY <1>1, AbovePush DEF TypeOK, CallsTypeOK, CallbackInv, Inner
    <2> QED BY <1>1, <2>1, BusyInside DEF CallbackInv, Inner
  <1>2. CASE stack' = stack /\ clientState' = clientState
    BY <1>2, CallbackStays
  <1> QED BY <1>1, <1>2 DEF SendRequest

LEMMA CallbackApi ==
  ASSUME NoReopening, TypeOK, CallbackInv, ApiCall
  PROVE  CallbackInv'
  <1>0. stack \in Seq(Frames) /\ clientState \in ClientStates /\ NextId \in PacketIds
    BY NextIdTyped DEF TypeOK, CallsTypeOK
  <1>1. ASSUME NEW op, NEW rc, Refuse(op, rc)
        PROVE  CallbackInv'
    BY <1>1, CallbackStays DEF Refuse
  <1>2. CASE Connect
    <2>1. CASE clientState \in ValidForConnect /\ StartConnect(stack)
      <3>1. ~Delivers(stack)
        BY <1>2, <2>1, DeliverySite, CallbackState DEF Connect, NoReopening
      <3> QED BY <1>0, <2>1, <3>1, OutsideConnect
    <2> QED BY <1>1, <1>2, <2>1 DEF Connect
  <1>3. CASE AttemptReconnect
    <2>1. CASE ~IsConnected /\ StartConnect(Append(stack, Frame("reconnect", "connect")))
      <3>1. ~Delivers(stack)
        BY <1>3, <2>1, DeliverySite, CallbackState DEF AttemptReconnect, NoReopening, IsConnected
      <3> QED BY <1>0, <2>1, <3>1, OutsideReconnect
    <2> QED BY <1>1, <1>3, <2>1 DEF AttemptReconnect
  <1>4. CASE Resubscribe
    <2>1. CASE clientState = "CONNECTED_IDLE" /\ StartResubscribe(stack)
      <3>1. ~Delivers(stack)
        BY <1>4, <2>1, DeliverySite, CallbackState DEF Resubscribe
      <3> QED BY <1>0, <2>1, <3>1, OutsideResubscribe
    <2> QED BY <1>1, <1>4, <2>1 DEF Resubscribe
  <1>5. CASE Disconnect
    <2>1. CASE clientState' = "DISCONNECTED_MANUALLY" /\ stack' = stack
      <3>1. Delivers(stack) => clientState' \in CallbackStates
        BY <1>5, <2>1, DeliverySite DEF Disconnect, CallbackStates, Left
      <3> QED BY <2>1, <3>1 DEF CallbackInv
    <2> QED BY <1>1, <1>5, <2>1 DEF Disconnect
  <1>6. CASE SetAutoReconnect
    BY <1>6, CallbackStays DEF SetAutoReconnect, calls
  <1>7. CASE Publish
    <2> DEFINE f == Saving("publish", "wait", NoTopic, 0, 0, NextId)
    <2>1. f \in Frames
      BY <1>0, ZeroTyped, SavingTyped DEF Ops
    <2>2. f.op = "publish" /\ f.saved = clientState
      BY DEF Saving
    <2>3. ASSUME SendRequest("publish", Packet("PUBLISH", NoTopic, NextId), f, stack)
          PROVE  CallbackInv'
      <3> HIDE DEF f
      <3> QED BY <2>1, <2>2, <2>3, CallbackRequest DEF Requests
    <2> QED BY <1>1, <1>7, <2>3, CallbackStays DEF Publish, RefuseRequest
  <1>8. CASE Subscribe
    <2>1. ASSUME NEW s \in Slots, NEW t \in Topics,
                 SendRequest("subscribe", Packet("SUBSCRIBE", t, NextId),
                             Saving("subscribe", "wait", t, s, 0, NextId), stack)
          PROVE  CallbackInv'
      <3> DEFINE f == Saving("subscribe", "wait", t, s, 0, NextId)
      <3>1. f \in Frames
        BY <1>0, <2>1, ZeroTyped, SavingTyped DEF Ops
      <3>2. f.op = "subscribe" /\ f.saved = clientState
        BY DEF Saving
      <3>3. SendRequest("subscribe", Packet("SUBSCRIBE", t, NextId), f, stack)
        BY <2>1
      <3> HIDE DEF f
      <3> QED BY <3>1, <3>2, <3>3, CallbackRequest DEF Requests
    <2> QED BY <1>1, <1>8, <2>1, CallbackStays DEF Subscribe, RefuseRequest
  <1>9. CASE Unsubscribe
    <2>1. ASSUME NEW t \in Registered,
                 SendRequest("unsubscribe", Packet("UNSUBSCRIBE", t, NextId),
                             Saving("unsubscribe", "wait", t, 0, 0, NextId), stack)
          PROVE  CallbackInv'
      <3> DEFINE f == Saving("unsubscribe", "wait", t, 0, 0, NextId)
      <3>1. t \in Topics
        BY <2>1 DEF Registered, TypeOK, DataTypeOK
      <3>2. f \in Frames
        BY <1>0, <3>1, ZeroTyped, SavingTyped DEF Ops
      <3>3. f.op = "unsubscribe" /\ f.saved = clientState
        BY DEF Saving
      <3>4. SendRequest("unsubscribe", Packet("UNSUBSCRIBE", t, NextId), f, stack)
        BY <2>1
      <3> HIDE DEF f
      <3> QED BY <3>2, <3>3, <3>4, CallbackRequest DEF Requests
    <2> QED BY <1>1, <1>9, <2>1 DEF Unsubscribe, RefuseRequest
  <1>10. CASE Yield
    <2>1. CASE clientState \in ValidForYield /\ stack' = Append(stack, Frame("yield", "loop"))
      <3> DEFINE f == Frame("yield", "loop")
      <3>1. ~Delivers(stack)
        BY <1>10, <2>1, DeliverySite, CallbackState DEF Yield, ValidForYield
      <3>2. f \in Frames /\ f.op # "deliver" /\ stack' = Append(stack, f)
        BY <2>1, FrameTyped DEF Ops, Frame
      <3> HIDE DEF f
      <3> QED BY <1>0, <3>1, <3>2, OutsidePush, OutsideHolds
    <2> QED BY <1>1, <1>10, <2>1 DEF Yield
  <1> QED BY <1>2, <1>3, <1>4, <1>5, <1>6, <1>7, <1>8, <1>9, <1>10 DEF ApiCall

LEMMA CallbackEndRequest ==
  ASSUME TypeOK, CallbackInv, stack # <<>>, NEW rc, EndRequest(rc)
  PROVE  CallbackInv'
  BY CallbackPops DEF EndRequest, Cas

LEMMA CallbackFailConnect ==
  ASSUME TypeOK, CallbackInv, stack # <<>>, Top.op = "connect", NEW rc, FailConnect(rc)
  PROVE  CallbackInv'
  BY Outside, CallbackPops DEF FailConnect, Inner, Requests

LEMMA CallbackAnswers ==
  ASSUME TypeOK, CallbackInv,
         ReadConnack \/ ReadResuback \/ ReadPuback \/ ReadSuback \/ ReadUnsuback \/ WaitTimeout
  PROVE  CallbackInv'
  <1>1. CASE ReadConnack
    <2>1. stack # <<>> /\ Top.op = "connect" /\ ~Delivers(stack)
      BY <1>1, Outside DEF ReadConnack, At, Inner, Requests
    <2> QED BY <1>1, <2>1, CallbackPops, CallbackFailConnect DEF ReadConnack
  <1>2. CASE ReadResuback
    <2>1. stack # <<>> /\ Top \in Frames
      BY <1>2, TopTyped DEF ReadResuback, At, TypeOK
    <2>2. ASSUME Top.slot < Top.last, stack' = SetTop([Top EXCEPT !.slot = @ + 1, !.id = NextId]),
                 UNCHANGED clientState
          PROVE  CallbackInv'
      <3> DEFINE f == [Top EXCEPT !.slot = @ + 1, !.id = NextId]
      <3>1. Top.slot \in 0..NumHandlers /\ Top.last \in 0..NumHandlers /\ NextId \in PacketIds
        BY <2>1, TopCall, NextIdTyped DEF TypeOK
      <3>2. Top.slot + 1 \in 0..NumHandlers
        BY <2>2, <3>1, ClientAssumption DEF ClientAssumption
      <3>3. f \in Frames /\ f.op = Top.op /\ f.saved = Top.saved
        BY <2>1, <3>1, <3>2 DEF Frames
      <3>4. stack' = SetTop(f)
        BY <2>2
      <3> HIDE DEF f
      <3> QED BY <2>1, <2>2, <3>3, <3>4, CallbackReplaces
    <2> QED BY <1>2, <2>1, <2>2, CallbackEndRequest DEF ReadResuback
  <1>3. CASE ReadPuback \/ ReadSuback \/ ReadUnsuback
    BY <1>3, CallbackEndRequest DEF ReadPuback, ReadSuback, ReadUnsuback, At
  <1>4. CASE WaitTimeout
    BY <1>4, CallbackEndRequest, CallbackFailConnect DEF WaitTimeout, Waiting
  <1> QED BY <1>1, <1>2, <1>3, <1>4

LEMMA CallbackYieldTo ==
  ASSUME TypeOK, CallbackInv, stack # <<>>, Top.op = "yield",
         NEW pc \in {"loop", "alive", "lost", "handler", "check", "exit"}, NEW rc \in ResultCodes,
         YieldTo(pc, rc)
  PROVE  CallbackInv'
  <1> DEFINE f == [Top EXCEPT !.pc = pc, !.rc = rc]
  <1>1. Top \in Frames /\ ~Delivers(stack)
    BY TopTyped, Outside DEF TypeOK, Inner, Requests
  <1>2. f \in Frames /\ f.op = Top.op /\ f.saved = Top.saved
    BY <1>1 DEF Frames
  <1>3. stack' = SetTop(f)
    BY DEF YieldTo
  <1> HIDE DEF f
  <1> QED BY <1>1, <1>2, <1>3, CallbackReplaces

LEMMA CallbackAfterRead ==
  ASSUME TypeOK, CallbackInv, stack # <<>>, NEW rc \in ResultCodes, AfterRead(rc),
         UNCHANGED clientState
  PROVE  CallbackInv'
  <1>1. CASE Top.op = "yield"
    BY <1>1, CallbackYieldTo DEF AfterRead
  <1>2. CASE Top.op # "yield"
    BY <1>2, CallbackStays DEF AfterRead
  <1> QED BY <1>1, <1>2

LEMMA CallbackOtherReads ==
  ASSUME TypeOK, CallbackInv,
         ReadOther \/ ReadPingresp \/ ReadOversize \/ ReadNothing \/ ReadTorn \/ ReadError
  PROVE  CallbackInv'
  <1>1. stack # <<>> /\ clientState' = clientState
    BY DEF ReadOther, ReadPingresp, ReadOversize, ReadNothing, ReadTorn, ReadError,
           Reading, Waiting, At
  <1>2. CASE ReadNothing \/ ReadError
    BY <1>1, <1>2, CallbackYieldTo DEF ReadNothing, ReadError, At, ResultCodes
  <1>3. ASSUME AfterRead("MQTT_SUCCESS") \/ AfterRead("MQTT_RX_BUFFER_TOO_SHORT_ERROR")
                 \/ AfterRead("NETWORK_SSL_NOTHING_TO_READ") \/ AfterRead("MQTT_FAILURE")
        PROVE  CallbackInv'
    BY <1>1, <1>3, CallbackAfterRead DEF ResultCodes
  <1> QED BY <1>2, <1>3 DEF ReadOther, ReadPingresp, ReadOversize, ReadTorn

LEMMA CallbackReadPublish ==
  ASSUME TypeOK, CallbackInv, ReadPublish
  PROVE  CallbackInv'
  <1>0. stack # <<>> /\ toClient # <<>>
    BY DEF ReadPublish, Reading, Waiting, At, Arrived
  <1>1. Top \in Frames /\ stack \in Seq(Frames)
    BY <1>0, TopTyped DEF TypeOK, CallsTypeOK
  <1> DEFINE below == IF Top.op = "yield" THEN SetTop([Top EXCEPT !.pc = "deliver"]) ELSE stack
             f == Saving("deliver", "scan", NoTopic, 0, 0, Head(toClient).id)
  <1>2. stack' = Append(below, f) /\ clientState' = InProgress["deliver"]
    BY DEF ReadPublish, InProgress
  <1>3. f \in Frames
    <2>1. Head(toClient) \in Packets
      BY <1>0, ChannelsTyped DEF TypeOK
    <2> QED BY <2>1, ZeroTyped, SavingTyped DEF TypeOK, CallsTypeOK, Packets
  <1>4. f.op = "deliver" /\ f.saved = clientState
    BY DEF Saving
  <1>5. below \in Seq(Frames) /\ AboveDelivery(below)
        /\ (Delivers(below) => clientState \in CallbackStates)
    <2>1. CASE Top.op = "yield"
      <3> DEFINE g == [Top EXCEPT !.pc = "deliver"]
      <3>1. g \in Frames /\ g.op = Top.op /\ g.saved = Top.saved
        BY <1>1 DEF Frames
      <3>2. ~Delivers(stack)
        BY <1>0, <2>1, Outside DEF Inner, Requests
      <3>3. below = SetTop(g)
        BY <2>1
      <3> HIDE DEF g
      <3> QED BY <1>0, <3>1, <3>2, <3>3, OutsideReplaced DEF AboveDelivery, Delivers
    <2>2. CASE Top.op # "yield"
      BY <1>1, <2>2 DEF CallbackInv
    <2> QED BY <2>1, <2>2
  <1> HIDE DEF below, f
  <1>6. AboveDelivery(stack')
    BY <1>2, <1>3, <1>4, <1>5, AbovePush DEF Inner
  <1> QED BY <1>2, <1>6, BusyInside DEF CallbackInv, Inner

LEMMA CallbackDelivery ==
  ASSUME TypeOK, CallbackInv, Deliver \/ CallbackReturns \/ EndDelivery
  PROVE  CallbackInv'
  <1>0. stack # <<>>
    BY DEF Deliver, CallbackReturns, EndDelivery, At
  <1>1. Top \in Frames
    BY <1>0, TopTyped DEF TypeOK
  <1>2. CASE Deliver
    <2>1. PICK s \in Slots : stack' = SetTop([Top EXCEPT !.pc = "callback", !.slot = s])
      BY <1>2 DEF Deliver
    <2> DEFINE f == [Top EXCEPT !.pc = "callback", !.slot = s]
    <2>2. f \in Frames /\ f.op = Top.op /\ f.saved = Top.saved
      BY <1>1, ZeroTyped DEF Frames
    <2> HIDE DEF f
    <2> QED BY <1>0, <1>2, <2>1, <2>2, CallbackReplaces DEF Deliver, f
  <1>3. CASE CallbackReturns
    <2> DEFINE f == [Top EXCEPT !.pc = "scan"]
    <2>1. f \in Frames /\ f.op = Top.op /\ f.saved = Top.saved
      BY <1>1 DEF Frames
    <2> HIDE DEF f
    <2> QED BY <1>0, <1>3, <2>1, CallbackReplaces DEF CallbackReturns, f
  <1>4. CASE EndDelivery
    BY <1>0, <1>4, CallbackPops DEF EndDelivery, Cas
  <1> QED BY <1>2, <1>3, <1>4

LEMMA CallbackYield ==
  ASSUME TypeOK, CallbackInv,
         \/ YieldAfterDelivery \/ KeepAliveCheck \/ HandleDisconnect \/ HandlerReturns
         \/ HandleReconnect \/ YieldAfterReconnect \/ YieldAgain \/ YieldReturns
  PROVE  CallbackInv'
  <1>1. stack # <<>> /\ Top.op = "yield"
    BY DEF YieldAfterDelivery, KeepAliveCheck, HandleDisconnect, HandlerReturns,
           HandleReconnect, YieldAfterReconnect, YieldAgain, YieldReturns, At
  <1>2. Top \in Frames /\ ~Delivers(stack) /\ ret.rc \in ResultCodes
    BY <1>1, TopTyped, Outside DEF TypeOK, CallsTypeOK, Results, Inner, Requests
  <1>3. ASSUME NEW pc \in {"loop", "alive", "lost", "handler", "check", "exit"},
               NEW rc \in ResultCodes, YieldTo(pc, rc)
        PROVE  CallbackInv'
    BY <1>1, <1>3, CallbackYieldTo
  <1>4. CASE YieldAfterDelivery
    BY <1>1, <1>2, <1>3, <1>4 DEF YieldAfterDelivery, AfterRead
  <1>5. CASE KeepAliveCheck \/ HandleDisconnect \/ HandlerReturns \/ YieldAgain
    BY <1>3, <1>5 DEF KeepAliveCheck, HandleDisconnect, HandlerReturns, YieldAgain, ResultCodes
  <1>6. CASE HandleReconnect
    <2>1. ASSUME StartConnect(Append(SetTop([Top EXCEPT !.pc = "reconnect"]),
                                     Frame("reconnect", "connect")))
          PROVE  CallbackInv'
      <3> DEFINE g == [Top EXCEPT !.pc = "reconnect"]
      <3>1. g \in Frames /\ g.op = Top.op /\ g.saved = Top.saved
        BY <1>2 DEF Frames
      <3>2. StartConnect(Append(SetTop(g), Frame("reconnect", "connect")))
        BY <2>1
      <3> HIDE DEF g
      <3> QED BY <1>1, <1>2, <3>1, <3>2, OutsideReplaced, OutsideReconnect
    <2> QED BY <1>3, <1>6, <2>1 DEF HandleReconnect, BackOff, ResultCodes
  <1>7. CASE YieldAfterReconnect
    BY <1>2, <1>3, <1>7 DEF YieldAfterReconnect, BackOff, ResultCodes
  <1>8. CASE YieldReturns
    BY <1>1, <1>2, <1>8, CallbackPops DEF YieldReturns
  <1> QED BY <1>4, <1>5, <1>6, <1>7, <1>8

LEMMA CallbackReconnect ==
  ASSUME TypeOK, CallbackInv, ReconnectFailed \/ ReconnectConnected \/ ReconnectResubscribed
  PROVE  CallbackInv'
  <1>1. stack # <<>> /\ Top.op = "reconnect"
    BY DEF ReconnectFailed, ReconnectConnected, ReconnectResubscribed, At
  <1>2. Top \in Frames /\ ~Delivers(stack)
    BY <1>1, TopTyped, Outside DEF TypeOK, Inner, Requests
  <1>3. CASE ReconnectFailed \/ ReconnectResubscribed
    BY <1>1, <1>2, <1>3, CallbackPops DEF ReconnectFailed, ReconnectResubscribed
  <1>4. CASE ReconnectConnected
    <2> DEFINE g == [Top EXCEPT !.pc = "resubscribe"]
    <2>1. g \in Frames /\ g.op = Top.op /\ g.saved = Top.saved
      BY <1>2 DEF Frames
    <2>2. StartResubscribe(SetTop(g))
      BY <1>4 DEF ReconnectConnected
    <2> HIDE DEF g
    <2> QED BY <1>1, <1>2, <2>1, <2>2, OutsideReplaced, OutsideResubscribe
  <1> QED BY <1>3, <1>4

LEMMA CallbackCorrect ==
  ASSUME NoReopening
  PROVE  Spec => []CallbackInv
  <1>1. Init => CallbackInv
    BY OutsideHolds DEF Init, CallbackInv, AboveDelivery, Delivers
  <1>2. TypeOK /\ CallbackInv /\ [Next]_vars => CallbackInv'
    <2> SUFFICES ASSUME TypeOK, CallbackInv, [Next]_vars
                 PROVE  CallbackInv'
      OBVIOUS
    <2>1. CASE ApiCall
      BY <2>1, CallbackApi
    <2>2. CASE ReadStep \/ WaitTimeout
      BY <2>2, CallbackAnswers, CallbackOtherReads, CallbackReadPublish DEF ReadStep
    <2>3. CASE ClientStep \/ CallbackReturns \/ HandlerReturns \/ YieldAgain \/ YieldReturns
      BY <2>3, CallbackReconnect, CallbackDelivery, CallbackYield DEF ClientStep
    <2>4. CASE PingTimerExpires \/ DelayTimerExpires \/ World \/ UNCHANGED vars
      BY <2>4, CallbackStays DEF PingTimerExpires, DelayTimerExpires, World, vars, clientVars, calls
    <2> QED BY <2>1, <2>2, <2>3, <2>4 DEF Next
  <1> QED BY <1>1, <1>2, TypeCorrect, PTL DEF Spec

(* mqtt_yield is not re-entered from a subscription callback, at any depth, *)
(* when callbacks do not connect again what one of them has disconnected:  *)
(* deliver_message keeps the client out of the states mqtt_yield accepts,  *)
(* and a call made there gives back a state of which the same is true.     *)
THEOREM YieldNotReentered ==
  ASSUME NoReopening
  PROVE  Spec => []YieldNotInCallback
  <1>1. CallbackInv => YieldNotInCallback
    BY DEF CallbackInv, AboveDelivery, YieldNotInCallback, Inner, Requests
  <1> QED BY <1>1, CallbackCorrect, PTL
=============================================================================
