-------------------------- MODULE MqttSessionProofs --------------------------
(* The connection and its descriptor, for every nesting of calls and       *)
(* callbacks: no open descriptor is forgotten, and MqttClient implements   *)
(* Session.                                                                *)
EXTENDS MqttSession, MqttStackProofs

----------------------------------------------------------------------------
(* The descriptor.  A disconnect handler that connects is the one way to   *)
(* lose one: its connection is overwritten with DISCONNECTED_ERROR.        *)

NoConnectInHandler == HandlerOps \cap {"connect", "reconnect"} = {}

InHandler(f) == f.op = "yield" /\ f.pc = "handler"

(* What a frame gives back is a connected state, and the disconnect        *)
(* handler is running in none but the last, or in none at all.             *)
Calm(s) == \A i \in 1..Len(s) : s[i].saved \in ConnectedStates /\ ~InHandler(s[i])

Tame(s) == /\ \A i \in 1..Len(s) : s[i].saved \in ConnectedStates
           /\ \A i \in 1..(Len(s) - 1) : ~InHandler(s[i])

(* OpenSocketOwned made inductive: the state a handler finds, and          *)
(* mqtt_yield overwrites after it, is that of a closed connection.         *)
OwnInv ==
  /\ OpenSocketOwned
  /\ Tame(stack)
  /\ At("yield", "handler") => clientState \in {"DISCONNECTED_MANUALLY", "DISCONNECTED_ERROR"}

LEMMA CalmPush ==
  ASSUME NEW s \in Seq(Frames), Calm(s), NEW f \in Frames,
         f.saved \in ConnectedStates, ~InHandler(f)
  PROVE  Calm(Append(s, f))
  <1> DEFINE r == Append(s, f)
  <1>1. /\ Len(s) \in Nat /\ Len(r) = Len(s) + 1 /\ r[Len(s) + 1] = f
        /\ \A i \in 1..Len(s) : r[i] = s[i]
    BY PushStack
  <1> HIDE DEF r
  <1>2. \A i \in 1..Len(r) : i = Len(s) + 1 \/ i \in 1..Len(s)
    BY <1>1
  <1>3. Calm(r)
    BY <1>1, <1>2 DEF Calm
  <1> QED BY <1>3 DEF r

LEMMA PopNow ==
  ASSUME TypeOK, stack # <<>>
  PROVE  /\ Pop \in Seq(Frames) /\ Len(Pop) = Len(stack) - 1
         /\ \A i \in 1..(Len(stack) - 1) : Pop[i] = stack[i]
  <1>1. stack \in Seq(Frames)
    BY DEF TypeOK, CallsTypeOK
  <1>2. Pop = SubSeq(stack, 1, Len(stack) - 1)
    BY DEF Pop
  <1> HIDE DEF Pop
  <1> QED BY <1>1, <1>2, PopStack

LEMMA CalmPop ==
  ASSUME TypeOK, stack # <<>>, Tame(stack)
  PROVE  Calm(Pop) /\ Pop \in Seq(Frames)
  <1>1. stack \in Seq(Frames) /\ Len(stack) \in Nat \ {0}
    BY TopFrame DEF TypeOK, CallsTypeOK
  <1> DEFINE r == Pop
  <1>2. r \in Seq(Frames) /\ Len(r) = Len(stack) - 1 /\ \A i \in 1..(Len(stack) - 1) : r[i] = stack[i]
    BY PopNow
  <1> HIDE DEF r
  <1>3. \A i \in 1..(Len(stack) - 1) : i \in 1..Len(stack)
    BY <1>1
  <1>4. Calm(r)
    BY <1>2, <1>3 DEF Calm, Tame
  <1> QED BY <1>2, <1>4 DEF r

LEMMA TameReplace ==
  ASSUME TypeOK, stack # <<>>, Tame(stack), NEW f \in Frames, f.saved = Top.saved
  PROVE  /\ SetTop(f) \in Seq(Frames) /\ Tame(SetTop(f))
         /\ ~InHandler(f) => Calm(SetTop(f))
  <1> DEFINE r == SetTop(f)
             n == Len(stack)
  <1>1. stack \in Seq(Frames) /\ n \in Nat \ {0}
    BY TopFrame DEF TypeOK, CallsTypeOK
  <1>2. r \in Seq(Frames) /\ Len(r) = n /\ r[n] = f /\ \A i \in 1..(n - 1) : r[i] = stack[i]
    BY <1>1, ReplaceTop DEF SetTop
  <1>3. n \in 1..n /\ f.saved = stack[n].saved /\ \A i \in 1..n : i = n \/ i \in 1..(n - 1)
    BY <1>1 DEF Top
  <1> HIDE DEF r, n
  <1>4. \A i \in 1..n : r[i].saved \in ConnectedStates
    BY <1>2, <1>3 DEF Tame, n
  <1>5. \A i \in 1..(n - 1) : ~InHandler(r[i])
    BY <1>2 DEF Tame, n
  <1>6. Tame(r) /\ (~InHandler(f) => Calm(r))
    BY <1>2, <1>3, <1>4, <1>5 DEF Tame, Calm
  <1> QED BY <1>2, <1>6 DEF r

LEMMA CalmIsTame ==
  ASSUME NEW s \in Seq(Frames)
  PROVE  Calm(s) => Tame(s) /\ (s # <<>> => ~InHandler(s[Len(s)]))
  BY DEF Calm, Tame

LEMMA CalmNow ==
  ASSUME TypeOK, OwnInv, ~At("yield", "handler")
  PROVE  Calm(stack)
  <1>1. Len(stack) \in Nat /\ (stack = <<>> <=> Len(stack) = 0)
    BY EmptyStack DEF TypeOK, CallsTypeOK
  <1>2. \A i \in 1..Len(stack) : i = Len(stack) \/ i \in 1..(Len(stack) - 1)
    BY <1>1
  <1>3. stack # <<>> => ~InHandler(stack[Len(stack)])
    BY DEF At, InHandler, Top
  <1> QED BY <1>1, <1>2, <1>3 DEF OwnInv, Tame, Calm

(* What the steps do to the descriptor and to the client state.            *)
LEMMA OwnedNext ==
  ASSUME stack' \in Seq(Frames), Calm(stack'), OpenSocketOwned'
  PROVE  OwnInv'
  BY CalmIsTame DEF OwnInv, At, Top, InHandler

LEMMA StaysOwned ==
  ASSUME OpenSocketOwned, socket' # "closed" => socket # "closed",
         clientState' \in LiveStates \/ clientState' = clientState
  PROVE  OpenSocketOwned'
  BY DEF OpenSocketOwned, LiveStates

LEMMA ClosedOwned == CloseConnection => OpenSocketOwned'
  BY DEF CloseConnection, OpenSocketOwned

LEMMA ConnectOwned ==
  ASSUME NEW below \in Seq(Frames), Calm(below), StartConnect(below)
  PROVE  OwnInv'
  <1> DEFINE f == Frame("connect", "wait")
  <1>1. f \in Frames /\ f.saved \in ConnectedStates /\ ~InHandler(f)
    BY FrameTyped DEF Ops, Frame, ConnectedStates, InHandler
  <1>2. stack' = below \/ stack' = Append(below, f)
    BY DEF StartConnect
  <1> HIDE DEF f
  <1>3. Append(below, f) \in Seq(Frames) /\ Calm(Append(below, f))
    BY <1>1, CalmPush, PushStack
  <1>4. OpenSocketOwned'
    BY ClosedOwned DEF StartConnect, OpenSocketOwned
  <1> QED BY <1>2, <1>3, <1>4, OwnedNext

LEMMA SendRequestOwned ==
  ASSUME OwnInv, NEW below \in Seq(Frames), Calm(below), NEW op \in Requests, NEW p, NEW f \in Frames,
         f.op = op, f.saved \in ConnectedStates, SendRequest(op, p, f, below)
  PROVE  OwnInv'
  <1>1. ~InHandler(f)
    BY DEF InHandler, Requests
  <1>2. Append(below, f) \in Seq(Frames) /\ Calm(Append(below, f))
    BY <1>1, CalmPush, PushStack
  <1>3. clientState' \in LiveStates \/ clientState' = clientState
    BY DEF SendRequest, LiveStates, ConnectedStates, Requests, InProgress
  <1>4. socket' = socket
    BY DEF SendRequest, Send, SendFails, netVars
  <1>5. stack' = below \/ stack' = Append(below, f)
    BY DEF SendRequest
  <1> QED BY <1>2, <1>3, <1>4, <1>5, StaysOwned, OwnedNext DEF OwnInv

LEMMA ResubscribeOwned ==
  ASSUME TypeOK, OwnInv, clientState = "CONNECTED_IDLE",
         NEW below \in Seq(Frames), Calm(below), StartResubscribe(below)
  PROVE  OwnInv'
  <1>1. PICK n \in 0..NumHandlers :
          \/ stack' = below /\ UNCHANGED <<netVars, clientState>>
          \/ SendRequest("resubscribe", Packet("SUBSCRIBE", messageHandlers[1], NextId),
                         Saving("resubscribe", "wait", NoTopic, 1, n, NextId), below)
    BY DEF StartResubscribe
  <1> DEFINE f == Saving("resubscribe", "wait", NoTopic, 1, n, NextId)
  <1>2. 1 \in 0..NumHandlers /\ NextId \in PacketIds
    BY NextIdTyped, ClientAssumption DEF TypeOK, ClientAssumption
  <1>3. f \in Frames
    BY <1>2, SavingTyped DEF TypeOK, CallsTypeOK, Ops
  <1>4. f.op = "resubscribe" /\ f.saved = "CONNECTED_IDLE"
    BY DEF Saving
  <1>5. CASE stack' = below /\ UNCHANGED <<netVars, clientState>>
    BY <1>5, StaysOwned, OwnedNext DEF OwnInv, netVars
  <1>6. CASE SendRequest("resubscribe", Packet("SUBSCRIBE", messageHandlers[1], NextId), f, below)
    <2> HIDE DEF f
    <2> QED BY <1>3, <1>4, <1>6, SendRequestOwned DEF Requests, ConnectedStates
  <1> QED BY <1>1, <1>5, <1>6

(* A step that keeps the stack and the state, and closes nothing.          *)
LEMMA UnchangedOwned ==
  ASSUME OwnInv, UNCHANGED <<stack, clientState>>, socket' # "closed" => socket # "closed"
  PROVE  OwnInv'
  BY StaysOwned DEF OwnInv, At, Top

LEMMA CallOwned ==
  ASSUME TypeOK, StackInv, OwnInv, NoConnectInHandler, ApiCall
  PROVE  OwnInv'
<1>0. stack \in Seq(Frames) /\ clientState \in ClientStates /\ NextId \in PacketIds
  BY NextIdTyped DEF TypeOK, CallsTypeOK
<1>1. \A op, rc : Refuse(op, rc) => OwnInv'
  BY UnchangedOwned DEF Refuse, netVars
<1>2. IsConnected \/ clientState = "PENDING_RECONNECT" => Calm(stack)
  BY CalmNow DEF OwnInv, IsConnected, ConnectedStates
<1>3. CASE Connect
  <2>1. MayCall("connect") => ~At("yield", "handler")
    BY DEF MayCall, At, NoConnectInHandler
  <2> QED BY <1>0, <1>1, <1>3, <2>1, CalmNow, ConnectOwned DEF Connect
<1>4. CASE AttemptReconnect
  <2> DEFINE f == Frame("reconnect", "connect")
  <2>1. MayCall("reconnect") => ~At("yield", "handler")
    BY DEF MayCall, At, NoConnectInHandler
  <2>2. f \in Frames /\ f.saved \in ConnectedStates /\ ~InHandler(f)
    BY FrameTyped DEF Ops, Frame, ConnectedStates, InHandler
  <2>3. Refuse("reconnect", "NETWORK_ALREADY_CONNECTED_ERROR") \/ StartConnect(Append(stack, f))
    BY <1>4 DEF AttemptReconnect
  <2> HIDE DEF f
  <2>4. Append(stack, f) \in Seq(Frames) /\ Calm(Append(stack, f))
    BY <1>0, <1>4, <2>1, <2>2, CalmNow, CalmPush, PushStack DEF AttemptReconnect
  <2> QED BY <1>1, <2>3, <2>4, ConnectOwned
<1>5. CASE Resubscribe
  BY <1>0, <1>1, <1>2, <1>5, ResubscribeOwned DEF Resubscribe, IsConnected, ConnectedStates
<1>6. CASE Disconnect
  <2>1. CASE IsConnected /\ CloseConnection /\ stack' = stack
    BY <1>0, <1>2, <2>1, ClosedOwned, OwnedNext
  <2> QED BY <1>1, <1>6, <2>1 DEF Disconnect
<1>7. CASE SetAutoReconnect
  BY <1>7, UnchangedOwned DEF SetAutoReconnect, calls, netVars
<1>8. ASSUME NEW op \in Requests, NEW p, NEW t \in Topics \cup {NoTopic}, NEW s \in 0..NumHandlers,
             MayRequest, SendRequest(op, p, Saving(op, "wait", t, s, 0, NextId), stack)
      PROVE  OwnInv'
  <2> DEFINE f == Saving(op, "wait", t, s, 0, NextId)
  <2>1. f \in Frames
    BY <1>0, ZeroTyped, SavingTyped DEF Ops, Requests
  <2>2. f.op = op /\ f.saved \in ConnectedStates /\ IsConnected
    BY <1>8 DEF Saving, MayRequest, ConnectedStates, IsConnected
  <2>3. SendRequest(op, p, f, stack)
    BY <1>8
  <2> HIDE DEF f
  <2> QED BY <1>0, <1>2, <2>1, <2>2, <2>3, SendRequestOwned
<1>9. \A op : RefuseRequest(op) => OwnInv'
  BY <1>1 DEF RefuseRequest
<1>10. CASE Publish
  <2>1. CASE UNCHANGED <<stack, clientState>> /\ (Send(Simple("PUBLISH")) \/ SendFails)
    BY <2>1, UnchangedOwned DEF Send, SendFails, netVars
  <2> QED BY <1>8, <1>9, <1>10, <2>1, ZeroTyped DEF Publish, Requests
<1>11. CASE Subscribe
  <2>1. CASE UNCHANGED <<netVars, clientState, stack>>
    BY <2>1, UnchangedOwned DEF netVars
  <2> QED BY <1>8, <1>9, <1>11, <2>1, ZeroTyped DEF Subscribe, Requests
<1>12. CASE Unsubscribe
  <2>1. \A t \in Registered : t \in Topics \cup {NoTopic}
    BY DEF Registered, TypeOK, DataTypeOK
  <2> QED BY <1>1, <1>8, <1>9, <1>12, <2>1, ZeroTyped DEF Unsubscribe, Requests
<1>13. CASE Yield
  <2>1. CASE clientState \in ValidForYield /\ UNCHANGED netVars
             /\ Cas("CONNECTED_IDLE", "CONNECTED_YIELD_IN_PROGRESS")
             /\ stack' = Append(stack, Frame("yield", "loop"))
    <3> DEFINE f == Frame("yield", "loop")
    <3>1. f \in Frames /\ f.saved \in ConnectedStates /\ ~InHandler(f)
      BY FrameTyped DEF Ops, Frame, ConnectedStates, InHandler
    <3>2. Calm(stack)
      BY <1>2, <2>1 DEF ValidForYield, IsConnected, ConnectedStates
    <3>3. stack' = Append(stack, f)
      BY <2>1
    <3> HIDE DEF f
    <3>4. stack' \in Seq(Frames) /\ Calm(stack')
      BY <1>0, <3>1, <3>2, <3>3, CalmPush, PushStack
    <3>5. OpenSocketOwned'
      BY <2>1, StaysOwned DEF OwnInv, Cas, LiveStates, ConnectedStates, netVars
    <3> QED BY <3>4, <3>5, OwnedNext
  <2> QED BY <1>1, <1>13, <2>1 DEF Yield
<1> QED BY <1>3, <1>4, <1>5, <1>6, <1>7, <1>10, <1>11, <1>12, <1>13 DEF ApiCall

(* A call ends, and gives back a connected state or closes the descriptor. *)
LEMMA EndOwned ==
  ASSUME TypeOK, StackInv, OwnInv,
         \/ ReadConnack \/ WaitTimeout \/ ReadPuback \/ ReadSuback \/ ReadUnsuback \/ EndDelivery
         \/ ReconnectFailed \/ ReconnectResubscribed \/ YieldReturns
  PROVE  OwnInv'
<1>0. stack # <<>> /\ stack \in Seq(Frames)
  BY DEF TypeOK, CallsTypeOK, ReadConnack, WaitTimeout, Waiting, ReadPuback, ReadSuback, ReadUnsuback,
         EndDelivery, ReconnectFailed, ReconnectResubscribed, YieldReturns, At
<1>1. stack' = Pop
  BY DEF ReadConnack, FailConnect, WaitTimeout, ReadPuback, ReadSuback, ReadUnsuback, EndRequest,
         EndDelivery, ReconnectFailed, ReconnectResubscribed, YieldReturns
<1>2. stack' \in Seq(Frames) /\ Calm(stack')
  BY <1>0, <1>1, CalmPop DEF OwnInv
<1>3. Top.saved \in LiveStates
  BY <1>0, TopFrame DEF OwnInv, Tame, Top, LiveStates
<1>4. \A rc : FailConnect(rc) => OpenSocketOwned'
  BY ClosedOwned DEF FailConnect
<1>5. CASE socket' = socket /\ (clientState' \in LiveStates \/ clientState' = clientState)
  BY <1>2, <1>5, StaysOwned, OwnedNext DEF OwnInv
<1>6. CASE ReadConnack
  BY <1>2, <1>4, <1>5, <1>6, OwnedNext DEF ReadConnack, Consume, Cas, LiveStates, ConnectedStates
<1>7. CASE WaitTimeout
  BY <1>2, <1>3, <1>4, <1>5, <1>7, OwnedNext DEF WaitTimeout, EndRequest, Cas, netVars
<1>8. CASE ReadPuback \/ ReadSuback \/ ReadUnsuback
  BY <1>3, <1>5, <1>8 DEF ReadPuback, ReadSuback, ReadUnsuback, EndRequest, Consume, Cas
<1>9. CASE EndDelivery
  BY <1>3, <1>5, <1>9 DEF EndDelivery, Cas, Send, SendFails, netVars
<1>10. CASE ReconnectFailed
  <2>1. OpenSocketOwned'
    BY <1>10 DEF ReconnectFailed, Cas, OwnInv, OpenSocketOwned, ConnectedStates, netVars
  <2> QED BY <1>2, <2>1, OwnedNext
<1>11. CASE ReconnectResubscribed
  BY <1>5, <1>11 DEF ReconnectResubscribed, netVars
<1>12. CASE YieldReturns
  BY <1>5, <1>12 DEF YieldReturns, Cas, LiveStates, ConnectedStates, netVars
<1> QED BY <1>6, <1>7, <1>8, <1>9, <1>10, <1>11, <1>12

(* The innermost call goes on.                                             *)
LEMMA ReplaceOwned ==
  ASSUME TypeOK, OwnInv, stack # <<>>, NEW f \in Frames, f.saved = Top.saved, ~InHandler(f),
         stack' = SetTop(f), OpenSocketOwned'
  PROVE  OwnInv'
  BY TameReplace, OwnedNext DEF OwnInv

LEMMA YieldToOwned ==
  ASSUME TypeOK, OwnInv, stack # <<>>, NEW rc \in ResultCodes,
         NEW pc \in {"loop", "alive", "lost", "check", "exit"}, YieldTo(pc, rc), OpenSocketOwned'
  PROVE  OwnInv'
  <1> DEFINE f == [Top EXCEPT !.pc = pc, !.rc = rc]
  <1>1. f \in Frames /\ f.saved = Top.saved /\ ~InHandler(f) /\ stack' = SetTop(f)
    BY TopTyped DEF TypeOK, Frames, YieldTo, InHandler
  <1> HIDE DEF f
  <1> QED BY <1>1, ReplaceOwned

LEMMA AfterReadOwned ==
  ASSUME TypeOK, OwnInv, Reading \/ At("yield", "deliver"), NEW rc \in ResultCodes, AfterRead(rc),
         clientState' = clientState, socket' # "closed" => socket # "closed"
  PROVE  OwnInv'
  <1>0. stack # <<>> /\ OpenSocketOwned'
    BY StaysOwned DEF Reading, Waiting, At, OwnInv
  <1>1. CASE Top.op = "yield"
    BY <1>0, <1>1, YieldToOwned DEF AfterRead
  <1>2. CASE Top.op # "yield"
    BY <1>2, UnchangedOwned DEF AfterRead
  <1> QED BY <1>1, <1>2

LEMMA StepOwned ==
  ASSUME TypeOK, StackInv, OwnInv,
         \/ ReadResuback \/ ReadOther \/ ReadPingresp \/ ReadOversize \/ ReadPublish
         \/ ReadNothing \/ ReadTorn \/ ReadError \/ ReconnectConnected \/ Deliver \/ CallbackReturns
  PROVE  OwnInv'
<1>0. stack # <<>> /\ stack \in Seq(Frames) /\ Top \in Frames /\ CallsTypeOK
  BY TopTyped DEF TypeOK, CallsTypeOK, ReadResuback, ReadOther, ReadPingresp, ReadOversize, ReadPublish,
         ReadNothing, ReadTorn, ReadError, Reading, Waiting, ReconnectConnected, Deliver,
         CallbackReturns, At
<1>1. {"MQTT_SUCCESS", "MQTT_FAILURE", "MQTT_RX_BUFFER_TOO_SHORT_ERROR",
       "NETWORK_SSL_NOTHING_TO_READ"} \subseteq ResultCodes
  BY DEF ResultCodes
<1>2. CASE ReadResuback
  <2>1. CASE EndRequest("MQTT_SUCCESS") \/ EndRequest("MQTT_FAILURE")
    <3>1. Top.saved \in LiveStates
      BY <1>0, TopFrame DEF OwnInv, Tame, Top, LiveStates
    <3>2. socket' = socket /\ (clientState' \in LiveStates \/ clientState' = clientState) /\ stack' = Pop
      BY <1>2, <2>1, <3>1 DEF ReadResuback, Consume, ConsumeAndSend, EndRequest, Cas
    <3> QED BY <1>0, <3>2, CalmPop, StaysOwned, OwnedNext DEF OwnInv
  <2>2. CASE stack' = SetTop([Top EXCEPT !.slot = @ + 1, !.id = NextId]) /\ Top.slot < Top.last
             /\ clientState' = clientState
    <3> DEFINE f == [Top EXCEPT !.slot = @ + 1, !.id = NextId]
    <3>1. NextId \in PacketIds
      BY NextIdTyped DEF TypeOK
    <3>2. Top.slot + 1 \in 0..NumHandlers
      BY <1>0, <2>2, ClientAssumption DEF Frames, ClientAssumption
    <3>3. f \in Frames /\ f.op = "resubscribe" /\ f.saved = Top.saved
      BY <1>0, <1>2, <3>1, <3>2 DEF Frames, ReadResuback, At
    <3>4. OpenSocketOwned'
      BY <1>2, <2>2, StaysOwned DEF OwnInv, ReadResuback, Consume, ConsumeAndSend
    <3>5. stack' = SetTop(f)
      BY <2>2
    <3> HIDE DEF f
    <3>6. ~InHandler(f)
      BY <3>3 DEF InHandler
    <3> QED BY <1>0, <3>3, <3>4, <3>5, <3>6, ReplaceOwned
  <2> QED BY <1>2, <2>1, <2>2 DEF ReadResuback
<1>3. CASE ReadOther \/ ReadPingresp \/ ReadOversize \/ ReadTorn
  <2>1. PICK rc \in ResultCodes : AfterRead(rc)
    BY <1>1, <1>3 DEF ReadOther, ReadPingresp, ReadOversize, ReadTorn
  <2>2. Reading /\ clientState' = clientState /\ (socket' # "closed" => socket # "closed")
    BY <1>3 DEF ReadOther, ReadPingresp, ReadOversize, ReadTorn, Consume
  <2> QED BY <2>1, <2>2, AfterReadOwned
<1>4. CASE ReadNothing \/ ReadError
  <2>1. OpenSocketOwned'
    BY <1>4, StaysOwned DEF OwnInv, ReadNothing, ReadError, netVars
  <2> QED BY <1>0, <1>1, <1>4, <2>1, YieldToOwned DEF ReadNothing, ReadError
<1>5. CASE ReadPublish
  <2> DEFINE f == Saving("deliver", "scan", NoTopic, 0, 0, Head(toClient).id)
             g == [Top EXCEPT !.pc = "deliver"]
             below == IF Top.op = "yield" THEN SetTop(g) ELSE stack
  <2>1. Top.op # "connect" /\ socket # "closed"
    BY <1>0, <1>5 DEF StackInv, ConnackFirst, ReadPublish, Arrived
  <2>2. clientState \in ConnectedStates
    BY <2>1 DEF OwnInv, OpenSocketOwned, StackInv, StateOnTop, BusyOps, InProgress
  <2>3. Head(toClient) \in Packets
    BY <1>5, ChannelsTyped DEF TypeOK, ReadPublish, Arrived
  <2>4. f \in Frames /\ f.saved \in ConnectedStates /\ ~InHandler(f)
    BY <2>2, <2>3, ZeroTyped, SavingTyped DEF TypeOK, CallsTypeOK, Packets, Saving, InHandler
  <2>5. g \in Frames /\ g.saved = Top.saved /\ ~InHandler(g)
    BY <1>0 DEF Frames, InHandler
  <2>6. ~At("yield", "handler")
    BY <1>5 DEF ReadPublish, Reading, Waiting, At
  <2>7. stack' = Append(below, f) /\ socket' = socket /\ clientState' = "CONNECTED_WAIT_FOR_CB_RETURN"
    BY <1>5 DEF ReadPublish, Consume
  <2> HIDE DEF f, g
  <2>8. below \in Seq(Frames) /\ Calm(below)
    BY <1>0, <2>5, <2>6, CalmNow, TameReplace DEF OwnInv
  <2> HIDE DEF below
  <2>9. Append(below, f) \in Seq(Frames) /\ Calm(Append(below, f))
    BY <2>4, <2>8, CalmPush, PushStack
  <2>10. OpenSocketOwned'
    BY <2>7, StaysOwned DEF OwnInv, LiveStates, ConnectedStates
  <2> QED BY <2>7, <2>9, <2>10, OwnedNext
<1>6. CASE ReconnectConnected
  <2> DEFINE g == [Top EXCEPT !.pc = "resubscribe"]
  <2>1. g \in Frames /\ g.saved = Top.saved /\ ~InHandler(g)
    BY <1>0 DEF Frames, InHandler
  <2>2. StartResubscribe(SetTop(g)) /\ clientState = "CONNECTED_IDLE"
    BY <1>6 DEF ReconnectConnected
  <2> HIDE DEF g
  <2>3. SetTop(g) \in Seq(Frames) /\ Calm(SetTop(g))
    BY <1>0, <2>1, TameReplace DEF OwnInv
  <2> QED BY <2>2, <2>3, ResubscribeOwned
<1>7. CASE Deliver
  <2>1. PICK s \in Slots : stack' = SetTop([Top EXCEPT !.pc = "callback", !.slot = s])
    BY <1>7 DEF Deliver
  <2> DEFINE f == [Top EXCEPT !.pc = "callback", !.slot = s]
  <2>2. f \in Frames /\ f.saved = Top.saved /\ ~InHandler(f) /\ stack' = SetTop(f)
    BY <1>0, <2>1, ZeroTyped DEF Frames, InHandler
  <2>3. OpenSocketOwned'
    BY <1>7, StaysOwned DEF OwnInv, Deliver, netVars
  <2> HIDE DEF f
  <2> QED BY <1>0, <2>2, <2>3, ReplaceOwned
<1>8. CASE CallbackReturns
  <2> DEFINE f == [Top EXCEPT !.pc = "scan"]
  <2>1. f \in Frames /\ f.saved = Top.saved /\ ~InHandler(f) /\ stack' = SetTop(f)
    BY <1>0, <1>8 DEF Frames, InHandler, CallbackReturns
  <2>2. OpenSocketOwned'
    BY <1>8, StaysOwned DEF OwnInv, CallbackReturns, netVars
  <2> HIDE DEF f
  <2> QED BY <1>0, <2>1, <2>2, ReplaceOwned
<1> QED BY <1>2, <1>3, <1>4, <1>5, <1>6, <1>7, <1>8

(* A yield loses its connection, or makes a new one.                       *)
LEMMA YieldOwned ==
  ASSUME TypeOK, StackInv, OwnInv,
         \/ YieldAfterDelivery \/ KeepAliveCheck \/ HandleDisconnect \/ HandleReconnect
         \/ YieldAfterReconnect \/ HandlerReturns \/ YieldAgain
  PROVE  OwnInv'
<1>0. stack # <<>> /\ stack \in Seq(Frames) /\ Top \in Frames /\ CallsTypeOK /\ Top.op = "yield"
      /\ ret.rc \in ResultCodes
  BY TopTyped DEF TypeOK, CallsTypeOK, Results, YieldAfterDelivery, KeepAliveCheck, HandleDisconnect,
         HandleReconnect, YieldAfterReconnect, HandlerReturns, YieldAgain, At
<1>1. {"MQTT_SUCCESS", "NETWORK_ATTEMPTING_RECONNECT", "NETWORK_DISCONNECTED_ERROR",
       "NETWORK_RECONNECT_TIMED_OUT_ERROR", "NETWORK_MANUALLY_DISCONNECTED",
       "NETWORK_RECONNECTED", "MQTT_UNEXPECTED_CLIENT_STATE_ERROR"} \subseteq ResultCodes
  BY DEF ResultCodes
<1>2. \A rc \in ResultCodes : \A pc \in {"loop", "alive", "lost", "check", "exit"} :
        YieldTo(pc, rc) /\ OpenSocketOwned' => OwnInv'
  BY <1>0, YieldToOwned
<1>3. CASE YieldAfterDelivery
  BY <1>0, <1>3, AfterReadOwned DEF YieldAfterDelivery, netVars
<1>4. CASE KeepAliveCheck \/ YieldAgain
  <2>1. OpenSocketOwned'
    BY <1>4, StaysOwned DEF OwnInv, KeepAliveCheck, YieldAgain, Send, SendFails, netVars
  <2> QED BY <1>1, <1>2, <1>4, <2>1 DEF KeepAliveCheck, YieldAgain
<1>5. CASE HandleDisconnect
  <2> DEFINE f == [Top EXCEPT !.pc = "handler", !.rc = "MQTT_SUCCESS"]
  <2>1. f \in Frames /\ f.saved = Top.saved
    BY <1>0, <1>1 DEF Frames
  <2>2. stack' = SetTop(f)
    BY <1>5 DEF HandleDisconnect, YieldTo
  <2> HIDE DEF f
  <2>3. Tame(stack')
    BY <1>0, <2>1, <2>2, TameReplace DEF OwnInv
  <2>4. OpenSocketOwned' /\ clientState' \in {"DISCONNECTED_MANUALLY", "DISCONNECTED_ERROR"}
    BY <1>5, ClosedOwned DEF HandleDisconnect
  <2> QED BY <2>3, <2>4 DEF OwnInv
<1>6. CASE HandlerReturns
  <2>1. socket = "closed" /\ socket' = socket
    BY <1>6 DEF OwnInv, OpenSocketOwned, HandlerReturns, netVars, ConnectedStates
  <2>2. OpenSocketOwned'
    BY <2>1 DEF OpenSocketOwned
  <2> QED BY <1>1, <1>2, <1>6, <2>2 DEF HandlerReturns
<1>7. CASE HandleReconnect
  <2>1. CASE UNCHANGED <<netVars, clientState>>
    <3>1. OpenSocketOwned'
      BY <2>1, StaysOwned DEF OwnInv, netVars
    <3>2. \/ \E pc \in {"check", "exit"}, rc \in ResultCodes : YieldTo(pc, rc)
          \/ StartConnect(Append(SetTop([Top EXCEPT !.pc = "reconnect"]), Frame("reconnect", "connect")))
      BY <1>1, <1>7 DEF HandleReconnect, BackOff
    <3>3. ~StartConnect(Append(SetTop([Top EXCEPT !.pc = "reconnect"]), Frame("reconnect", "connect")))
      BY <1>7, <2>1 DEF StartConnect, HandleReconnect
    <3> QED BY <1>2, <3>1, <3>2, <3>3
  <2>2. CASE StartConnect(Append(SetTop([Top EXCEPT !.pc = "reconnect"]), Frame("reconnect", "connect")))
    <3> DEFINE g == [Top EXCEPT !.pc = "reconnect"]
               f == Frame("reconnect", "connect")
               below == Append(SetTop(g), f)
    <3>1. g \in Frames /\ g.saved = Top.saved /\ ~InHandler(g)
      BY <1>0 DEF Frames, InHandler
    <3>2. f \in Frames /\ f.saved \in ConnectedStates /\ ~InHandler(f)
      BY FrameTyped DEF Ops, Frame, ConnectedStates, InHandler
    <3>3. StartConnect(below)
      BY <2>2
    <3> HIDE DEF f, g
    <3>4. SetTop(g) \in Seq(Frames) /\ Calm(SetTop(g))
      BY <1>0, <3>1, TameReplace DEF OwnInv
    <3>5. below \in Seq(Frames) /\ Calm(below)
      BY <3>2, <3>4, CalmPush, PushStack
    <3> HIDE DEF below
    <3> QED BY <3>3, <3>5, ConnectOwned
  <2> QED BY <1>7, <2>1, <2>2 DEF HandleReconnect
<1>8. CASE YieldAfterReconnect
  <2>1. OpenSocketOwned'
    BY <1>8, StaysOwned DEF OwnInv, YieldAfterReconnect, Cas, LiveStates, ConnectedStates, netVars
  <2> QED BY <1>0, <1>1, <1>2, <1>8, <2>1 DEF YieldAfterReconnect, BackOff
<1> QED BY <1>3, <1>4, <1>5, <1>6, <1>7, <1>8

LEMMA OwnStep ==
  ASSUME TypeOK, StackInv, OwnInv, NoConnectInHandler, [Next]_vars
  PROVE  OwnInv'
<1>1. CASE PingTimerExpires \/ DelayTimerExpires \/ World \/ UNCHANGED vars
  <2>1. UNCHANGED <<stack, clientState>> /\ (socket' # "closed" => socket # "closed")
    BY <1>1 DEF PingTimerExpires, DelayTimerExpires, World, Broker, BrokerAnswers, BrokerIgnores,
         BrokerPublishes, Outages, WifiChanges, LosePeer, ResetPeer, vars, clientVars, calls, netVars
  <2> QED BY <2>1, UnchangedOwned
<1> QED
  BY <1>1, CallOwned, EndOwned, StepOwned, YieldOwned DEF Next, ReadStep, ClientStep

LEMMA Owning ==
  ASSUME NoConnectInHandler
  PROVE  Spec => []OwnInv
<1>1. Init => OwnInv
  <2>1. Init => stack = <<>> /\ Len(stack) = 0
    BY DEF Init
  <2> QED BY <2>1 DEF Init, NetInit, OwnInv, OpenSocketOwned, Tame, At
<1>2. TypeOK /\ StackInv /\ OwnInv /\ [Next]_vars => OwnInv'
  BY OwnStep
<1> QED BY <1>1, <1>2, TypeCorrect, StackCorrect, PTL DEF Spec

(* No descriptor is left open in a state that will not close it, whatever  *)
(* subscription callbacks do, as long as the disconnect handler does not   *)
(* connect.                                                                *)
THEOREM SocketsOwned ==
  ASSUME NoConnectInHandler
  PROVE  Spec => []OpenSocketOwned
<1>1. OwnInv => OpenSocketOwned
  BY DEF OwnInv
<1> QED BY <1>1, Owning, PTL

----------------------------------------------------------------------------
(* Who calls whom.  When callbacks do not connect what one of them has     *)
(* disconnected, a stack is a call of the application, and requests and    *)
(* deliveries on each other by turns; it tells for each call the state it  *)
(* gives back, and for the innermost one the state the client is in.       *)

NoDisconnectInCallback == "disconnect" \notin CallbackOps

LEMMA LeftIs == \A c \in Left : c = "DISCONNECTED_MANUALLY" /\ "disconnect" \in CallbackOps
BY DEF Left

LEMMA NothingLeft == NoDisconnectInCallback => Left = {} /\ NoReopening
BY DEF NoDisconnectInCallback, Left, NoReopening

Idle == "CONNECTED_IDLE"
Yielding == "CONNECTED_YIELD_IN_PROGRESS"
Delivering == "CONNECTED_WAIT_FOR_CB_RETURN"
Pending == "PENDING_RECONNECT"

(* A frame that application code outside callbacks may have pushed.        *)
Base(f) == \/ f.op \in {"connect", "reconnect", "yield"}
           \/ f.op \in Requests /\ f.saved = Idle

(* A frame f that may stand on b.                                          *)
Over(b, f) ==
  \/ f.op = "deliver" /\ b.op \in Requests /\ b.pc = "wait" /\ f.saved = InProgress[b.op]
  \/ f.op = "deliver" /\ b.op = "yield" /\ b.pc = "deliver" /\ f.saved \in {Idle, Yielding}
  \/ f.op \in Requests /\ b.op = "deliver" /\ b.pc = "callback" /\ f.saved = Delivering
  \/ f.op = "resubscribe" /\ b.op = "reconnect" /\ b.pc = "resubscribe" /\ f.saved = Idle
  \/ f.op = "connect" /\ b.op = "reconnect" /\ b.pc = "connect"
  \/ f.op = "reconnect" /\ b.op = "yield" /\ b.pc = "reconnect"

Linked(s) == /\ s # <<>> => Base(s[1])
             /\ \A i \in 2..Len(s) : Over(s[i-1], s[i])

(* A result code, on its way to the application, and the client state.     *)
StateCodes == {"NETWORK_RECONNECTED", "NETWORK_ATTEMPTING_RECONNECT", "NETWORK_DISCONNECTED_ERROR"}

Tells(code, c) ==
  /\ code = "NETWORK_RECONNECTED" => c \in {Idle, Yielding}
  /\ code = "NETWORK_ATTEMPTING_RECONNECT" => c = Pending
  /\ code # "NETWORK_DISCONNECTED_ERROR"

YieldStands(f, c, rc) ==
  \/ f.pc = "loop" /\ c \in {Idle, Yielding, Pending} \cup Left
  \/ f.pc \in {"alive", "lost"} /\ c \in {Idle, Yielding} \cup Left
  \/ f.pc = "deliver" /\ c \in {Idle, Yielding} \cup Left /\ rc \in DeliveryCodes
  \/ f.pc = "handler" /\ c \in {"DISCONNECTED_MANUALLY", "DISCONNECTED_ERROR"}
  \/ f.pc = "reconnect" /\ c \in {Idle, Pending} \cup Left /\ Tells(rc, c)
  \/ f.pc = "check" /\ c \in {Idle, Yielding, Pending} \cup Left /\ Tells(f.rc, c)
       /\ (f.rc = "NETWORK_RECONNECTED" => c = Yielding)
  \/ f.pc = "exit" /\ c = "DISCONNECTED_ERROR" /\ f.rc = "NETWORK_DISCONNECTED_ERROR"
  \/ f.pc = "exit" /\ c \in {Idle, Yielding, Pending} \cup Left /\ f.rc \notin StateCodes

(* The client state under the innermost call, and the result of the last.  *)
Stands(f, c, rc) ==
  \/ f.op \in Requests /\ f.pc = "wait" /\ c \in {InProgress[f.op]} \cup Left
  \/ f.op = "deliver" /\ f.pc \in {"scan", "callback"} /\ c \in {Delivering} \cup Left
  \/ f.op = "connect" /\ f.pc = "wait" /\ c = "CONNECTING"
  \/ f.op = "reconnect" /\ f.pc = "connect" /\ c \in {Idle, "DISCONNECTED_ERROR"}
  \/ f.op = "reconnect" /\ f.pc = "resubscribe" /\ c \in {Idle} \cup Left /\ rc \notin StateCodes
       /\ (c \in Left => rc # "MQTT_SUCCESS")
  \/ f.op = "yield" /\ YieldStands(f, c, rc)

LinkInv == Linked(stack) /\ (stack # <<>> => Stands(Top, clientState, ret.rc))

LEMMA LinkPush ==
  ASSUME NEW s \in Seq(Frames), Linked(s), NEW f \in Frames,
         IF s = <<>> THEN Base(f) ELSE Over(s[Len(s)], f)
  PROVE  Linked(Append(s, f))
  <1> DEFINE r == Append(s, f)
             n == Len(s)
  <1>1. n \in Nat /\ Len(r) = n + 1 /\ r[n + 1] = f /\ \A i \in 1..n : r[i] = s[i]
    BY PushStack
  <1>2. s = <<>> <=> n = 0
    BY EmptyStack
  <1>3. s # <<>> => Over(s[n], f)
    OBVIOUS
  <1>4. s = <<>> => Base(f)
    OBVIOUS
  <1>5. (s # <<>> => Base(s[1])) /\ \A i \in 2..n : Over(s[i-1], s[i])
    BY DEF Linked
  <1> HIDE DEF r, n
  <1>6. Base(r[1])
    <2>1. CASE n = 0
      BY <1>1, <1>2, <1>4, <2>1
    <2>2. CASE n # 0
      BY <1>1, <1>2, <1>5, <2>2
    <2> QED BY <2>1, <2>2
  <1>7. ASSUME NEW i \in 2..Len(r)
        PROVE  Over(r[i-1], r[i])
    <2>1. CASE i = n + 1
      <3>1. r[i] = f /\ r[i-1] = s[n] /\ n # 0
        BY <1>1, <2>1
      <3> QED BY <1>2, <1>3, <3>1
    <2>2. CASE i # n + 1
      <3>1. i \in 2..n /\ r[i] = s[i] /\ r[i-1] = s[i-1]
        BY <1>1, <2>2
      <3> QED BY <1>5, <3>1
    <2> QED BY <2>1, <2>2
  <1>8. Linked(r)
    BY <1>6, <1>7 DEF Linked
  <1> QED BY <1>8 DEF r

LEMMA LinkPop ==
  ASSUME TypeOK, LinkInv, stack # <<>>
  PROVE  /\ Linked(Pop) /\ Pop \in Seq(Frames)
         /\ Pop = <<>> => Base(Top)
         /\ Pop # <<>> => Over(Pop[Len(Pop)], Top) /\ Pop[Len(Pop)] \in Frames
  <1> DEFINE r == Pop
             n == Len(stack)
  <1>1. stack \in Seq(Frames) /\ n \in Nat \ {0}
    BY TopFrame DEF TypeOK, CallsTypeOK
  <1>2. r \in Seq(Frames) /\ Len(r) = n - 1 /\ \A i \in 1..(n - 1) : r[i] = stack[i]
    BY PopNow
  <1>3. Base(stack[1]) /\ Top = stack[n] /\ \A i \in 2..n : Over(stack[i-1], stack[i])
    BY DEF LinkInv, Linked, Top
  <1> HIDE DEF r, n
  <1>4. r = <<>> <=> n = 1
    BY <1>1, <1>2, EmptyStack
  <1>5. Linked(r)
    <2>1. r # <<>> => Base(r[1])
      BY <1>1, <1>2, <1>3, <1>4
    <2>2. ASSUME NEW i \in 2..Len(r)
          PROVE  Over(r[i-1], r[i])
      <3>1. i \in 2..n /\ r[i] = stack[i] /\ r[i-1] = stack[i-1]
        BY <1>1, <1>2
      <3> QED BY <1>3, <3>1
    <2> QED BY <2>1, <2>2 DEF Linked
  <1>6. r = <<>> => Base(Top)
    BY <1>3, <1>4
  <1>7. r # <<>> => Over(r[Len(r)], Top) /\ r[Len(r)] \in Frames
    <2> SUFFICES ASSUME r # <<>> PROVE Over(r[Len(r)], Top) /\ r[Len(r)] \in Frames
      OBVIOUS
    <2>1. n \in 2..n /\ r[n - 1] = stack[n - 1]
      BY <1>1, <1>2, <1>4
    <2> QED BY <1>2, <1>3, <2>1, TopFrame
  <1> QED BY <1>2, <1>5, <1>6, <1>7 DEF r

LEMMA LinkReplace ==
  ASSUME TypeOK, LinkInv, stack # <<>>, NEW f \in Frames, f.op = Top.op, f.saved = Top.saved
  PROVE  /\ Linked(SetTop(f)) /\ SetTop(f) \in Seq(Frames) /\ SetTop(f) # <<>>
         /\ SetTop(f)[Len(SetTop(f))] = f
  <1> DEFINE r == SetTop(f)
             n == Len(stack)
  <1>1. stack \in Seq(Frames) /\ n \in Nat \ {0}
    BY TopFrame DEF TypeOK, CallsTypeOK
  <1>2. r \in Seq(Frames) /\ r # <<>> /\ Len(r) = n /\ r[n] = f /\ \A i \in 1..(n - 1) : r[i] = stack[i]
    BY <1>1, ReplaceTop DEF SetTop
  <1>3. Base(stack[1]) /\ Top = stack[n] /\ \A i \in 2..n : Over(stack[i-1], stack[i])
    BY DEF LinkInv, Linked, Top
  <1> HIDE DEF r, n
  <1>4. (Base(Top) => Base(f)) /\ \A b : Over(b, Top) => Over(b, f)
    BY DEF Base, Over
  <1>5. Base(r[1])
    <2>1. CASE n = 1
      BY <1>2, <1>3, <1>4, <2>1
    <2>2. CASE n # 1
      BY <1>1, <1>2, <1>3, <2>2
    <2> QED BY <2>1, <2>2
  <1>6. ASSUME NEW i \in 2..n
        PROVE  Over(r[i-1], r[i])
    <2>1. r[i-1] = stack[i-1] /\ Over(stack[i-1], stack[i])
      BY <1>1, <1>2, <1>3
    <2>2. CASE i = n
      BY <1>2, <1>3, <1>4, <2>1, <2>2
    <2>3. CASE i # n
      BY <1>1, <1>2, <2>1, <2>3
    <2> QED BY <2>2, <2>3
  <1> QED BY <1>2, <1>5, <1>6 DEF r, Linked

(* The ways a step may change the stack.                                   *)
LEMMA Resumed ==
  ASSUME TypeOK, LinkInv, stack # <<>>, stack' = Pop,
         \A b \in Frames : Over(b, Top) => Stands(b, clientState', ret'.rc)
  PROVE  LinkInv'
  <1>1. Linked(stack') /\ (stack' # <<>> => Stands(stack'[Len(stack')], clientState', ret'.rc))
    BY LinkPop
  <1> QED BY <1>1 DEF LinkInv, Top

LEMMA Moved ==
  ASSUME TypeOK, LinkInv, stack # <<>>, NEW f \in Frames, f.op = Top.op, f.saved = Top.saved,
         stack' = SetTop(f), Stands(f, clientState', ret'.rc)
  PROVE  LinkInv'
  <1>1. Linked(stack') /\ Stands(stack'[Len(stack')], clientState', ret'.rc)
    BY LinkReplace
  <1> QED BY <1>1 DEF LinkInv, Top

LEMMA Entered ==
  ASSUME NEW s \in Seq(Frames), Linked(s), NEW f \in Frames,
         IF s = <<>> THEN Base(f) ELSE Over(s[Len(s)], f),
         stack' = Append(s, f), Stands(f, clientState', ret'.rc)
  PROVE  LinkInv'
  <1>1. Linked(stack')
    BY LinkPush
  <1>2. stack'[Len(stack')] = f
    BY PushStack
  <1> QED BY <1>1, <1>2 DEF LinkInv, Top

LEMMA Stayed ==
  ASSUME LinkInv, stack' = stack, stack # <<>> => Stands(Top, clientState', ret'.rc)
  PROVE  LinkInv'
  BY DEF LinkInv, Top

LEMMA ConnectLinked ==
  ASSUME NEW below \in Seq(Frames), Linked(below), StartConnect(below),
         below # <<>> => below[Len(below)].op = "reconnect" /\ below[Len(below)].pc = "connect"
  PROVE  LinkInv'
  <1> DEFINE f == Frame("connect", "wait")
  <1>1. f \in Frames /\ f.op = "connect" /\ f.pc = "wait"
    BY FrameTyped DEF Ops, Frame
  <1>2. \/ stack' = Append(below, f) /\ clientState' = "CONNECTING"
        \/ stack' = below /\ clientState' = "DISCONNECTED_ERROR"
    BY DEF StartConnect
  <1> HIDE DEF f
  <1>3. IF below = <<>> THEN Base(f) ELSE Over(below[Len(below)], f)
    BY <1>1 DEF Base, Over
  <1>4. CASE stack' = Append(below, f) /\ clientState' = "CONNECTING"
    <2>1. Stands(f, clientState', ret'.rc)
      BY <1>1, <1>4 DEF Stands
    <2> QED BY <1>1, <1>3, <1>4, <2>1, Entered
  <1>5. CASE stack' = below /\ clientState' = "DISCONNECTED_ERROR"
    <2>1. stack' # <<>> => Stands(stack'[Len(stack')], clientState', ret'.rc)
      BY <1>5 DEF Stands
    <2> QED BY <1>5, <2>1 DEF LinkInv, Top
  <1> QED BY <1>2, <1>4, <1>5

LEMMA SendRequestLinked ==
  ASSUME NEW below \in Seq(Frames), Linked(below), NEW op \in Requests, NEW p, NEW f \in Frames,
         f.op = op, f.pc = "wait", IF below = <<>> THEN Base(f) ELSE Over(below[Len(below)], f),
         below # <<>> => Stands(below[Len(below)], clientState, "MQTT_FAILURE"),
         SendRequest(op, p, f, below)
  PROVE  LinkInv'
  <1>1. CASE stack' = Append(below, f) /\ clientState' = InProgress[op]
    <2>1. Stands(f, clientState', ret'.rc)
      BY <1>1 DEF Stands
    <2> QED BY <1>1, <2>1, Entered
  <1>2. CASE stack' = below /\ clientState' = clientState /\ ret' = Result(op, "MQTT_FAILURE")
    <2>1. ret'.rc = "MQTT_FAILURE"
      BY <1>2 DEF Result
    <2> QED BY <1>2, <2>1 DEF LinkInv, Top
  <1> QED BY <1>1, <1>2 DEF SendRequest

USE DEF Idle, Yielding, Delivering, Pending

(* Application code that may call finds the client idle, delivering or     *)
(* disconnected.                                                           *)
LEMMA SiteState ==
  ASSUME TypeOK, StackInv, LinkInv, NEW op, MayCall(op)
  PROVE  \/ stack = <<>> /\ clientState \in ValidForConnect \cup {Idle}
         \/ At("deliver", "callback") /\ op \in CallbackOps /\ clientState \in {Delivering} \cup Left
         \/ At("yield", "handler") /\ op \in HandlerOps
              /\ clientState \in {"DISCONNECTED_MANUALLY", "DISCONNECTED_ERROR"}
<1>1. CASE stack = <<>>
  <2>1. clientState \in ValidForConnect \cup {Idle}
    BY <1>1 DEF StackInv, StateOnTop, TypeOK, CallsTypeOK, ClientStates, ConnectedStates, BusyOps,
                Requests, InProgress
  <2> QED BY <1>1, <2>1
<1>2. CASE At("deliver", "callback")
  BY <1>2 DEF LinkInv, Stands, At, Requests, MayCall
<1>3. CASE At("yield", "handler")
  BY <1>3 DEF LinkInv, Stands, YieldStands, At, Requests, MayCall
<1> QED BY <1>1, <1>2, <1>3 DEF MayCall

LEMMA SiteKeeps ==
  ASSUME TypeOK, StackInv, LinkInv, NEW op, MayCall(op), UNCHANGED <<stack, clientState>>
  PROVE  LinkInv'
  <1>1. stack # <<>> => \A rc : Stands(Top, clientState, rc)
    BY SiteState DEF Stands, YieldStands, At
  <1> QED BY <1>1, Stayed

LEMMA ResubscribeLinked ==
  ASSUME TypeOK, clientState = Idle, NEW below \in Seq(Frames), Linked(below),
         below # <<>> => below[Len(below)].op = "reconnect" /\ below[Len(below)].pc = "resubscribe",
         StartResubscribe(below)
  PROVE  LinkInv'
  <1>1. PICK n \in 0..NumHandlers :
          \/ stack' = below /\ UNCHANGED clientState /\ ret' = Result("resubscribe", "MQTT_SUCCESS")
          \/ SendRequest("resubscribe", Packet("SUBSCRIBE", messageHandlers[1], NextId),
                         Saving("resubscribe", "wait", NoTopic, 1, n, NextId), below)
    BY DEF StartResubscribe
  <1> DEFINE f == Saving("resubscribe", "wait", NoTopic, 1, n, NextId)
             p == Packet("SUBSCRIBE", messageHandlers[1], NextId)
  <1>2. 1 \in 0..NumHandlers /\ NextId \in PacketIds
    BY NextIdTyped, ClientAssumption DEF TypeOK, ClientAssumption
  <1>3. f \in Frames
    BY <1>2, SavingTyped DEF TypeOK, CallsTypeOK, Ops
  <1>4. f.op = "resubscribe" /\ f.pc = "wait" /\ f.saved = Idle
    BY DEF Saving
  <1>5. \A rc : rc \notin StateCodes /\ below # <<>> => Stands(below[Len(below)], Idle, rc)
    BY LeftIs DEF Stands
  <1>6. {"MQTT_SUCCESS", "MQTT_FAILURE"} \cap StateCodes = {}
    BY DEF StateCodes
  <1>7. CASE stack' = below /\ UNCHANGED clientState /\ ret' = Result("resubscribe", "MQTT_SUCCESS")
    <2>1. ret'.rc = "MQTT_SUCCESS"
      BY <1>7 DEF Result
    <2> QED BY <1>5, <1>6, <1>7, <2>1 DEF LinkInv, Top
  <1>8. CASE SendRequest("resubscribe", p, f, below)
    <2> HIDE DEF f, p
    <2>1. IF below = <<>> THEN Base(f) ELSE Over(below[Len(below)], f)
      BY <1>4 DEF Base, Over, Requests
    <2>2. below # <<>> => Stands(below[Len(below)], clientState, "MQTT_FAILURE")
      BY <1>5, <1>6
    <2> QED BY <1>3, <1>4, <1>8, <2>1, <2>2, SendRequestLinked DEF Requests
  <1> QED BY <1>1, <1>7, <1>8

LEMMA RequestLinked ==
  ASSUME TypeOK, StackInv, LinkInv, NEW op \in Requests, NEW p, NEW t \in Topics \cup {NoTopic},
         NEW s \in 0..NumHandlers, MayCall(op), MayRequest,
         SendRequest(op, p, Saving(op, "wait", t, s, 0, NextId), stack)
  PROVE  LinkInv'
  <1> DEFINE f == Saving(op, "wait", t, s, 0, NextId)
  <1>0. stack \in Seq(Frames) /\ clientState \in ClientStates /\ NextId \in PacketIds
    BY NextIdTyped DEF TypeOK, CallsTypeOK
  <1>1. f \in Frames
    BY <1>0, ZeroTyped, SavingTyped DEF Ops, Requests
  <1>2. f.op = op /\ f.pc = "wait" /\ f.saved = clientState
    BY DEF Saving
  <1>3. SendRequest(op, p, f, stack)
    OBVIOUS
  <1> HIDE DEF f
  <1>4. (stack = <<>> /\ clientState = Idle) \/ (At("deliver", "callback") /\ clientState = Delivering)
    BY SiteState, LeftIs DEF MayRequest, ValidForConnect
  <1>5. IF stack = <<>> THEN Base(f) ELSE Over(stack[Len(stack)], f)
    BY <1>2, <1>4 DEF Base, Over, At, Top
  <1>6. stack # <<>> => Stands(stack[Len(stack)], clientState, "MQTT_FAILURE")
    BY <1>4 DEF Stands, At, Top
  <1>7. Linked(stack)
    BY DEF LinkInv
  <1> QED BY <1>0, <1>1, <1>2, <1>3, <1>5, <1>6, <1>7, SendRequestLinked

LEMMA CallLinked ==
  ASSUME TypeOK, StackInv, LinkInv, NoConnectInHandler, NoReopening, ApiCall
  PROVE  LinkInv'
<1>0. stack \in Seq(Frames) /\ clientState \in ClientStates /\ Linked(stack) /\ <<>> \in Seq(Frames)
  BY DEF TypeOK, CallsTypeOK, LinkInv
<1>1. \A op, rc : MayCall(op) /\ Refuse(op, rc) => LinkInv'
  BY SiteKeeps DEF Refuse
<1>2. \A op : MayCall(op) /\ RefuseRequest(op) => LinkInv'
  BY <1>1 DEF RefuseRequest
<1>3. CASE Connect
  <2>1. CASE clientState \in ValidForConnect /\ StartConnect(stack)
    <3>1. stack = <<>>
      BY <1>3, <2>1, SiteState, LeftIs DEF Connect, ValidForConnect, NoConnectInHandler, NoReopening
    <3> QED BY <1>0, <2>1, <3>1, ConnectLinked
  <2> QED BY <1>1, <1>3, <2>1 DEF Connect
<1>4. CASE AttemptReconnect
  <2>1. CASE ~IsConnected /\ StartConnect(Append(stack, Frame("reconnect", "connect")))
    <3> DEFINE f == Frame("reconnect", "connect")
    <3>1. stack = <<>>
      BY <1>4, <2>1, SiteState, LeftIs DEF AttemptReconnect, IsConnected, ConnectedStates,
         NoConnectInHandler, NoReopening
    <3>2. f \in Frames /\ f.op = "reconnect" /\ f.pc = "connect" /\ Base(f)
      BY FrameTyped DEF Ops, Frame, Base
    <3>3. StartConnect(Append(stack, f))
      BY <2>1
    <3> HIDE DEF f
    <3>4. Linked(Append(stack, f))
      BY <1>0, <3>1, <3>2, LinkPush
    <3>5. Append(stack, f) \in Seq(Frames) /\ Append(stack, f)[Len(Append(stack, f))] = f
      BY <1>0, <3>2, PushStack
    <3> QED BY <3>2, <3>3, <3>4, <3>5, ConnectLinked
  <2> QED BY <1>1, <1>4, <2>1 DEF AttemptReconnect
<1>5. CASE Resubscribe
  <2>1. CASE clientState = Idle /\ StartResubscribe(stack)
    <3>1. stack = <<>>
      BY <1>5, <2>1, SiteState, LeftIs DEF Resubscribe
    <3> QED BY <1>0, <2>1, <3>1, ResubscribeLinked
  <2> QED BY <1>1, <1>5, <2>1 DEF Resubscribe
<1>6. CASE Disconnect
  <2>1. CASE IsConnected /\ stack' = stack /\ MayCall("disconnect")
             /\ clientState' = "DISCONNECTED_MANUALLY"
    <3>1. stack = <<>> \/ (At("deliver", "callback") /\ "disconnect" \in CallbackOps)
      BY <2>1, SiteState DEF IsConnected, ConnectedStates
    <3>2. stack # <<>> => Stands(Top, clientState', ret'.rc)
      BY <2>1, <3>1 DEF Left, Stands, At
    <3> QED BY <2>1, <3>2, Stayed
  <2> QED BY <1>1, <1>6, <2>1 DEF Disconnect
<1>7. CASE SetAutoReconnect
  BY <1>7, SiteKeeps DEF SetAutoReconnect, calls
<1>8. CASE Publish
  <2>1. CASE UNCHANGED <<stack, clientState>>
    BY <1>8, <2>1, SiteKeeps DEF Publish
  <2> QED BY <1>2, <1>8, <2>1, ZeroTyped, RequestLinked DEF Publish, Requests
<1>9. CASE Subscribe
  <2>1. CASE UNCHANGED <<stack, clientState>>
    BY <1>9, <2>1, SiteKeeps DEF Subscribe
  <2> QED BY <1>2, <1>9, <2>1, ZeroTyped, RequestLinked DEF Subscribe, Requests
<1>10. CASE Unsubscribe
  <2>1. \A t \in Registered : t \in Topics \cup {NoTopic}
    BY DEF Registered, TypeOK, DataTypeOK
  <2> QED BY <1>1, <1>2, <1>10, <2>1, ZeroTyped, RequestLinked DEF Unsubscribe, Requests
<1>11. CASE Yield
  <2>1. CASE clientState \in ValidForYield /\ stack' = Append(stack, Frame("yield", "loop"))
             /\ Cas("CONNECTED_IDLE", "CONNECTED_YIELD_IN_PROGRESS")
    <3> DEFINE f == Frame("yield", "loop")
    <3>1. stack = <<>>
      BY <1>11, <2>1, SiteState, LeftIs DEF Yield, ValidForYield
    <3>2. f \in Frames /\ f.op = "yield" /\ f.pc = "loop" /\ Base(f) /\ stack' = Append(stack, f)
      BY <2>1, FrameTyped DEF Ops, Frame, Base
    <3> HIDE DEF f
    <3>3. Stands(f, clientState', ret'.rc)
      BY <2>1, <3>2 DEF Stands, YieldStands, Cas, ValidForYield
    <3> QED BY <1>0, <3>1, <3>2, <3>3, Entered
  <2> QED BY <1>1, <1>11, <2>1 DEF Yield
<1> QED BY <1>3, <1>4, <1>5, <1>6, <1>7, <1>8, <1>9, <1>10, <1>11 DEF ApiCall

(* A request puts the state back, or finds that a callback has left.       *)
RequestCodes == {"MQTT_SUCCESS", "MQTT_FAILURE", "MQTT_REQUEST_TIMEOUT_ERROR"}

GivenBack(rc) ==
  \/ clientState' = Top.saved /\ ret'.rc = rc
  \/ clientState' \in Left /\ ret'.rc \notin StateCodes \cup {"MQTT_SUCCESS"}

LEMMA RequestGivesBack ==
  ASSUME Stands(Top, clientState, ret.rc), Top.op \in Requests, NEW rc \in RequestCodes, EndRequest(rc)
  PROVE  GivenBack(rc)
<1>1. clientState \in {InProgress[Top.op]} \cup Left
  BY DEF Stands, Requests
<1>2. \A op, code : Result(op, code).rc = code
  BY DEF Result
<1>3. CASE clientState = InProgress[Top.op]
  BY <1>2, <1>3 DEF EndRequest, Cas, CasRc, GivenBack
<1>4. CASE clientState # InProgress[Top.op]
  <2>1. clientState' = clientState
    BY <1>4 DEF EndRequest, Cas
  <2>2. ret'.rc = IF rc = "MQTT_SUCCESS" THEN "MQTT_UNEXPECTED_CLIENT_STATE_ERROR" ELSE rc
    BY <1>2, <1>4 DEF EndRequest, CasRc
  <2> QED BY <1>1, <1>4, <2>1, <2>2 DEF GivenBack, RequestCodes, StateCodes
<1> QED BY <1>3, <1>4

LEMMA RequestResumes ==
  ASSUME Top.op \in Requests, NEW rc \in RequestCodes, GivenBack(rc), NEW b, Over(b, Top)
  PROVE  Stands(b, clientState', ret'.rc)
<1>1. rc \notin StateCodes
  BY DEF RequestCodes, StateCodes
<1>2. CASE b.op = "deliver" /\ b.pc = "callback" /\ Top.saved = Delivering
  BY <1>2 DEF GivenBack, Stands
<1>3. CASE b.op = "reconnect" /\ b.pc = "resubscribe" /\ Top.saved = Idle
  BY <1>1, <1>3, LeftIs DEF GivenBack, Stands
<1> QED BY <1>2, <1>3 DEF Over, Requests

(* A call ends: the one under it finds its own state.                      *)
LEMMA EndLinked ==
  ASSUME TypeOK, StackInv, LinkInv,
         \/ ReadConnack \/ WaitTimeout \/ ReadPuback \/ ReadSuback \/ ReadUnsuback \/ EndDelivery
         \/ ReconnectFailed \/ ReconnectResubscribed \/ YieldReturns
  PROVE  LinkInv'
<1>0. stack # <<>> /\ Stands(Top, clientState, ret.rc)
  BY DEF LinkInv, ReadConnack, WaitTimeout, Waiting, ReadPuback, ReadSuback, ReadUnsuback,
         EndDelivery, ReconnectFailed, ReconnectResubscribed, YieldReturns, At
<1>1. stack' = Pop
  BY DEF ReadConnack, FailConnect, WaitTimeout, ReadPuback, ReadSuback, ReadUnsuback, EndRequest,
         EndDelivery, ReconnectFailed, ReconnectResubscribed, YieldReturns
<1> SUFFICES ASSUME NEW b \in Frames, Over(b, Top)
             PROVE  Stands(b, clientState', ret'.rc)
  BY <1>0, <1>1, Resumed
<1>2. \A op, rc : Result(op, rc).rc = rc
  BY DEF Result
<1>3. CASE Top.op = "connect" /\ clientState' \in {Idle, "DISCONNECTED_ERROR"}
  BY <1>3 DEF Over, Stands, Requests
<1>4. \A rc : FailConnect(rc) /\ Top.op = "connect" => clientState' = "DISCONNECTED_ERROR"
  BY <1>0 DEF Stands, FailConnect, Cas, Requests
<1>5. CASE ReadConnack
  BY <1>0, <1>3, <1>4, <1>5 DEF ReadConnack, At, Stands, Requests, Cas
<1>6. ASSUME NEW rc \in RequestCodes, Top.op \in Requests, EndRequest(rc)
      PROVE  Stands(b, clientState', ret'.rc)
  <2>1. GivenBack(rc)
    BY <1>0, <1>6, RequestGivesBack
  <2> QED BY <1>6, <2>1, RequestResumes
<1>7. CASE WaitTimeout
  BY <1>3, <1>4, <1>6, <1>7 DEF WaitTimeout, RequestCodes
<1>8. CASE ReadPuback \/ ReadSuback \/ ReadUnsuback
  BY <1>6, <1>8 DEF ReadPuback, ReadSuback, ReadUnsuback, At, Requests, RequestCodes
<1>9. CASE EndDelivery
  <2>1. Top.op = "deliver" /\ clientState' \in {Top.saved} \cup Left
    BY <1>0, <1>9 DEF EndDelivery, At, Stands, Requests, Cas
  <2>2. ret'.rc \in DeliveryCodes
    BY <1>2, <1>9 DEF EndDelivery, CasRc, DeliveryCodes
  <2> QED BY <2>1, <2>2 DEF Over, Stands, YieldStands, Requests
<1>10. CASE ReconnectFailed
  <2>1. Top.op = "reconnect" /\ clientState' = Pending /\ ret'.rc = "NETWORK_ATTEMPTING_RECONNECT"
    BY <1>0, <1>2, <1>10 DEF ReconnectFailed, At, Stands, Requests, Cas
  <2> QED BY <2>1 DEF Over, Stands, YieldStands, Tells, Requests
<1>11. CASE ReconnectResubscribed
  <2>1. Top.op = "reconnect" /\ clientState' \in {Idle} \cup Left /\ ret.rc \notin StateCodes
        /\ (clientState' \in Left => ret.rc # "MQTT_SUCCESS")
    BY <1>0, <1>11 DEF ReconnectResubscribed, At, Stands, Requests
  <2>2. ret'.rc = IF ret.rc = "MQTT_SUCCESS" THEN "NETWORK_RECONNECTED" ELSE ret.rc
    BY <1>2, <1>11 DEF ReconnectResubscribed
  <2>3. Tells(ret'.rc, clientState')
    BY <2>1, <2>2 DEF Tells, StateCodes
  <2> QED BY <2>1, <2>3 DEF Over, Stands, YieldStands, Requests
<1>12. CASE YieldReturns
  BY <1>12 DEF YieldReturns, At, Over, Requests
<1> QED BY <1>5, <1>7, <1>8, <1>9, <1>10, <1>11, <1>12

LEMMA YieldToLinked ==
  ASSUME TypeOK, LinkInv, stack # <<>>, Top.op = "yield", NEW rc \in ResultCodes,
         NEW pc \in {"loop", "alive", "lost", "handler", "check", "exit"}, YieldTo(pc, rc),
         \A f \in Frames : f.pc = pc /\ f.rc = rc => YieldStands(f, clientState', ret'.rc)
  PROVE  LinkInv'
  <1> DEFINE f == [Top EXCEPT !.pc = pc, !.rc = rc]
  <1>1. f \in Frames /\ f.op = "yield" /\ f.saved = Top.saved /\ f.pc = pc /\ f.rc = rc
        /\ stack' = SetTop(f)
    BY TopTyped DEF TypeOK, Frames, YieldTo
  <1> HIDE DEF f
  <1> QED BY <1>1, Moved DEF Stands

LEMMA AfterReadLinked ==
  ASSUME TypeOK, LinkInv, Reading, NEW rc \in ResultCodes, rc \notin StateCodes, AfterRead(rc),
         UNCHANGED <<clientState, ret>>
  PROVE  LinkInv'
  <1>0. stack # <<>> /\ Stands(Top, clientState, ret.rc)
    BY DEF LinkInv, Reading, Waiting, At
  <1>1. CASE Top.op = "yield"
    <2>1. clientState \in {Idle, Yielding} \cup Left
      BY <1>0, <1>1 DEF Reading, Waiting, At, Stands, YieldStands, Requests
    <2> QED BY <1>0, <1>1, <2>1, YieldToLinked DEF AfterRead, YieldStands
  <1>2. CASE Top.op # "yield"
    BY <1>0, <1>2, Stayed DEF AfterRead
  <1> QED BY <1>1, <1>2

LEMMA ReadLinked ==
  ASSUME TypeOK, StackInv, OwnInv, LinkInv,
         \/ ReadResuback \/ ReadOther \/ ReadPingresp \/ ReadOversize \/ ReadPublish
         \/ ReadNothing \/ ReadTorn \/ ReadError \/ ReconnectConnected \/ Deliver \/ CallbackReturns
  PROVE  LinkInv'
<1>0. stack # <<>> /\ stack \in Seq(Frames) /\ Top \in Frames /\ CallsTypeOK
      /\ Stands(Top, clientState, ret.rc)
  BY TopTyped DEF LinkInv, TypeOK, CallsTypeOK, ReadResuback, ReadOther, ReadPingresp, ReadOversize,
         ReadPublish, ReadNothing, ReadTorn, ReadError, Reading, Waiting, ReconnectConnected, Deliver,
         CallbackReturns, At
<1>1. LET plain == {"MQTT_SUCCESS", "MQTT_FAILURE", "MQTT_RX_BUFFER_TOO_SHORT_ERROR",
                    "NETWORK_SSL_NOTHING_TO_READ"}
      IN  plain \subseteq ResultCodes /\ plain \cap StateCodes = {}
  BY DEF ResultCodes, StateCodes
<1>2. CASE ReadResuback
  <2>1. ASSUME NEW rc \in {"MQTT_SUCCESS", "MQTT_FAILURE"}, EndRequest(rc)
        PROVE  LinkInv'
    <3>1. Top.op \in Requests /\ rc \in RequestCodes /\ stack' = Pop
      BY <1>2, <2>1 DEF ReadResuback, At, Requests, EndRequest, RequestCodes
    <3>2. GivenBack(rc)
      BY <1>0, <2>1, <3>1, RequestGivesBack
    <3>3. \A b \in Frames : Over(b, Top) => Stands(b, clientState', ret'.rc)
      BY <3>1, <3>2, RequestResumes
    <3> QED BY <1>0, <3>1, <3>3, Resumed
  <2>2. CASE stack' = SetTop([Top EXCEPT !.slot = @ + 1, !.id = NextId]) /\ Top.slot < Top.last
             /\ clientState' = clientState
    <3> DEFINE f == [Top EXCEPT !.slot = @ + 1, !.id = NextId]
    <3>1. NextId \in PacketIds
      BY NextIdTyped DEF TypeOK
    <3>2. Top.slot + 1 \in 0..NumHandlers
      BY <1>0, <2>2, ClientAssumption DEF Frames, ClientAssumption
    <3>3. f \in Frames /\ f.op = Top.op /\ f.pc = Top.pc /\ f.saved = Top.saved
      BY <1>0, <3>1, <3>2 DEF Frames
    <3>4. stack' = SetTop(f)
      BY <2>2
    <3> HIDE DEF f
    <3>5. Stands(f, clientState', ret'.rc)
      BY <1>0, <1>2, <2>2, <3>3 DEF ReadResuback, At, Stands, Requests
    <3> QED BY <1>0, <3>3, <3>4, <3>5, Moved
  <2> QED BY <1>2, <2>1, <2>2 DEF ReadResuback
<1>3. CASE ReadOther \/ ReadPingresp \/ ReadOversize \/ ReadTorn
  <2>1. PICK rc \in ResultCodes : rc \notin StateCodes /\ AfterRead(rc)
    BY <1>1, <1>3 DEF ReadOther, ReadPingresp, ReadOversize, ReadTorn
  <2>2. Reading /\ UNCHANGED <<clientState, ret>>
    BY <1>3 DEF ReadOther, ReadPingresp, ReadOversize, ReadTorn
  <2> QED BY <2>1, <2>2, AfterReadLinked
<1>4. CASE ReadNothing \/ ReadError
  <2>1. Top.op = "yield" /\ clientState' \in {Idle, Yielding} \cup Left
    BY <1>0, <1>4 DEF ReadNothing, ReadError, At, Stands, YieldStands, Requests
  <2> QED BY <1>0, <1>1, <1>4, <2>1, YieldToLinked DEF ReadNothing, ReadError, YieldStands
<1>5. CASE ReadPublish
  <2> DEFINE f == Saving("deliver", "scan", NoTopic, 0, 0, Head(toClient).id)
             g == [Top EXCEPT !.pc = "deliver"]
  <2>0. clientState \notin Left
    <3>1. socket # "closed"
      BY <1>5 DEF StackInv, ConnackFirst, ReadPublish, Arrived
    <3> QED BY <3>1, LeftIs DEF OwnInv, OpenSocketOwned, ConnectedStates
  <2>1. Top.op # "connect"
    BY <1>0, <1>5 DEF StackInv, ConnackFirst, ReadPublish, Arrived
  <2>2. Head(toClient) \in Packets
    BY <1>5, ChannelsTyped DEF TypeOK, ReadPublish, Arrived
  <2>3. f \in Frames /\ f.op = "deliver" /\ f.pc = "scan" /\ f.saved = clientState
    BY <2>2, ZeroTyped, SavingTyped DEF TypeOK, CallsTypeOK, Packets, Saving
  <2>4. g \in Frames /\ g.op = Top.op /\ g.saved = Top.saved /\ g.pc = "deliver"
    BY <1>0 DEF Frames
  <2>5. stack' = Append(IF Top.op = "yield" THEN SetTop(g) ELSE stack, f) /\ clientState' = Delivering
    BY <1>5 DEF ReadPublish
  <2> HIDE DEF f, g
  <2>6. Stands(f, clientState', ret'.rc)
    BY <2>3, <2>5 DEF Stands
  <2>7. CASE Top.op = "yield"
    <3>1. clientState \in {Idle, Yielding}
      BY <1>0, <1>5, <2>0, <2>7 DEF ReadPublish, Reading, Waiting, At, Stands, YieldStands, Requests
    <3>2. SetTop(g) \in Seq(Frames) /\ Linked(SetTop(g)) /\ SetTop(g) # <<>>
          /\ SetTop(g)[Len(SetTop(g))] = g
      BY <1>0, <2>4, LinkReplace
    <3>3. Over(g, f)
      BY <2>3, <2>4, <2>7, <3>1 DEF Over
    <3> QED BY <2>3, <2>5, <2>6, <2>7, <3>2, <3>3, Entered
  <2>8. CASE Top.op # "yield"
    <3>1. Over(Top, f)
      BY <1>0, <1>5, <2>0, <2>1, <2>3, <2>8 DEF ReadPublish, Reading, Waiting, At, Stands, Over, Requests
    <3> QED BY <1>0, <2>3, <2>5, <2>6, <2>8, <3>1, Entered DEF LinkInv, Top
  <2> QED BY <2>7, <2>8
<1>6. CASE ReconnectConnected
  <2> DEFINE g == [Top EXCEPT !.pc = "resubscribe"]
  <2>1. g \in Frames /\ g.op = Top.op /\ g.saved = Top.saved /\ g.pc = "resubscribe"
    BY <1>0 DEF Frames
  <2>2. StartResubscribe(SetTop(g)) /\ clientState = Idle /\ Top.op = "reconnect"
    BY <1>6 DEF ReconnectConnected, At
  <2> HIDE DEF g
  <2>3. SetTop(g) \in Seq(Frames) /\ Linked(SetTop(g)) /\ SetTop(g)[Len(SetTop(g))] = g
    BY <1>0, <2>1, LinkReplace
  <2> QED BY <2>1, <2>2, <2>3, ResubscribeLinked
<1>7. CASE Deliver
  <2>1. PICK s \in Slots : stack' = SetTop([Top EXCEPT !.pc = "callback", !.slot = s])
    BY <1>7 DEF Deliver
  <2> DEFINE f == [Top EXCEPT !.pc = "callback", !.slot = s]
  <2>2. f \in Frames /\ f.op = Top.op /\ f.saved = Top.saved /\ f.pc = "callback" /\ stack' = SetTop(f)
    BY <1>0, <2>1, ZeroTyped DEF Frames
  <2> HIDE DEF f
  <2>3. Stands(f, clientState', ret'.rc)
    BY <1>0, <1>7, <2>2 DEF Deliver, At, Stands, Requests
  <2> QED BY <1>0, <2>2, <2>3, Moved
<1>8. CASE CallbackReturns
  <2> DEFINE f == [Top EXCEPT !.pc = "scan"]
  <2>1. f \in Frames /\ f.op = Top.op /\ f.saved = Top.saved /\ f.pc = "scan" /\ stack' = SetTop(f)
    BY <1>0, <1>8 DEF Frames, CallbackReturns
  <2> HIDE DEF f
  <2>2. Stands(f, clientState', ret'.rc)
    BY <1>0, <1>8, <2>1 DEF CallbackReturns, At, Stands, Requests
  <2> QED BY <1>0, <2>1, <2>2, Moved
<1> QED BY <1>2, <1>3, <1>4, <1>5, <1>6, <1>7, <1>8

LEMMA YieldLinked ==
  ASSUME TypeOK, StackInv, LinkInv,
         \/ YieldAfterDelivery \/ KeepAliveCheck \/ HandleDisconnect \/ HandleReconnect
         \/ YieldAfterReconnect \/ HandlerReturns \/ YieldAgain
  PROVE  LinkInv'
<1>0. /\ stack # <<>> /\ stack \in Seq(Frames) /\ Top \in Frames /\ Top.op = "yield"
      /\ CallsTypeOK /\ ret.rc \in ResultCodes
  BY TopTyped DEF TypeOK, CallsTypeOK, Results, YieldAfterDelivery, KeepAliveCheck, HandleDisconnect,
         HandleReconnect, YieldAfterReconnect, HandlerReturns, YieldAgain, At
<1>1. YieldStands(Top, clientState, ret.rc)
  BY <1>0 DEF LinkInv, Stands, Requests
<1>2. {"MQTT_SUCCESS", "NETWORK_ATTEMPTING_RECONNECT", "NETWORK_DISCONNECTED_ERROR",
       "NETWORK_RECONNECT_TIMED_OUT_ERROR", "NETWORK_MANUALLY_DISCONNECTED",
       "NETWORK_RECONNECTED", "MQTT_UNEXPECTED_CLIENT_STATE_ERROR"} \subseteq ResultCodes
  BY DEF ResultCodes
<1>3. \A pc \in {"loop", "alive", "lost", "handler", "check", "exit"}, rc \in ResultCodes :
        /\ YieldTo(pc, rc)
        /\ \A f \in Frames : f.pc = pc /\ f.rc = rc => YieldStands(f, clientState', ret'.rc)
        => LinkInv'
  BY <1>0, YieldToLinked
<1>4. ASSUME NEW rc \in ResultCodes, BackOff(rc), clientState' = clientState,
             clientState \in {Idle, Pending} \cup Left, rc # "NETWORK_RECONNECTED",
             Tells(rc, clientState)
      PROVE  LinkInv'
  <2>1. \E r \in {rc, "NETWORK_RECONNECT_TIMED_OUT_ERROR"} : YieldTo("check", r)
    BY <1>4 DEF BackOff
  <2>2. \A r \in {rc, "NETWORK_RECONNECT_TIMED_OUT_ERROR"} :
          r \in ResultCodes /\ r # "NETWORK_RECONNECTED" /\ Tells(r, clientState)
    BY <1>2, <1>4 DEF Tells
  <2> QED BY <1>3, <1>4, <2>1, <2>2 DEF YieldStands
<1>5. CASE YieldAfterDelivery
  <2>1. clientState' \in {Idle, Yielding} \cup Left /\ ret.rc \in DeliveryCodes /\ ret.rc \notin StateCodes
    BY <1>1, <1>5 DEF YieldAfterDelivery, At, YieldStands, DeliveryCodes, StateCodes
  <2> QED BY <1>0, <1>3, <1>5, <2>1 DEF YieldAfterDelivery, AfterRead, YieldStands
<1>6. CASE KeepAliveCheck
  <2>1. clientState' \in {Idle, Yielding} \cup Left
    BY <1>1, <1>6 DEF KeepAliveCheck, At, YieldStands
  <2>2. \E pc \in {"check", "lost"} : YieldTo(pc, "MQTT_SUCCESS")
    BY <1>6 DEF KeepAliveCheck
  <2> QED BY <1>2, <1>3, <2>1, <2>2 DEF YieldStands, Tells
<1>7. CASE HandleDisconnect
  BY <1>2, <1>3, <1>7 DEF HandleDisconnect, YieldStands
<1>8. CASE HandlerReturns
  <2>1. \/ clientState' = Pending /\ YieldTo("check", "NETWORK_ATTEMPTING_RECONNECT")
        \/ clientState' = "DISCONNECTED_ERROR" /\ YieldTo("exit", "NETWORK_DISCONNECTED_ERROR")
    BY <1>8 DEF HandlerReturns
  <2> QED BY <1>2, <1>3, <2>1 DEF YieldStands, Tells
<1>9. CASE HandleReconnect
  <2>1. CASE clientState' = Pending /\ YieldTo("exit", "NETWORK_RECONNECT_TIMED_OUT_ERROR")
    BY <1>2, <1>3, <2>1 DEF YieldStands, StateCodes
  <2>2. CASE clientState' = Pending /\ YieldTo("check", "NETWORK_ATTEMPTING_RECONNECT")
    BY <1>2, <1>3, <2>2 DEF YieldStands, Tells
  <2>3. CASE UNCHANGED clientState /\ clientState = Pending /\ BackOff("NETWORK_MANUALLY_DISCONNECTED")
    BY <1>2, <1>4, <2>3 DEF Tells
  <2>4. CASE StartConnect(Append(SetTop([Top EXCEPT !.pc = "reconnect"]), Frame("reconnect", "connect")))
    <3> DEFINE g == [Top EXCEPT !.pc = "reconnect"]
               f == Frame("reconnect", "connect")
               below == Append(SetTop(g), f)
    <3>1. g \in Frames /\ g.op = Top.op /\ g.saved = Top.saved /\ g.pc = "reconnect"
      BY <1>0 DEF Frames
    <3>2. f \in Frames /\ f.op = "reconnect" /\ f.pc = "connect"
      BY FrameTyped DEF Ops, Frame
    <3>3. StartConnect(below)
      BY <2>4
    <3> HIDE DEF f, g
    <3>4. SetTop(g) \in Seq(Frames) /\ Linked(SetTop(g)) /\ SetTop(g) # <<>>
          /\ SetTop(g)[Len(SetTop(g))] = g
      BY <1>0, <3>1, LinkReplace
    <3>5. Over(g, f)
      BY <1>0, <3>1, <3>2 DEF Over
    <3>6. below \in Seq(Frames) /\ Linked(below) /\ below[Len(below)] = f
      BY <3>2, <3>4, <3>5, LinkPush, PushStack
    <3> HIDE DEF below
    <3> QED BY <3>2, <3>3, <3>6, ConnectLinked
  <2> QED BY <1>9, <2>1, <2>2, <2>3, <2>4 DEF HandleReconnect
<1>10. CASE YieldAfterReconnect
  <2>1. clientState \in {Idle, Pending} \cup Left /\ Tells(ret.rc, clientState)
    BY <1>1, <1>10 DEF YieldAfterReconnect, At, YieldStands
  <2>2. CASE ret.rc = "NETWORK_RECONNECTED"
    <3>1. clientState = Idle
      BY <2>1, <2>2, LeftIs DEF Tells
    <3>2. clientState' = Yielding /\ YieldTo("check", "NETWORK_RECONNECTED")
      BY <1>10, <2>2, <3>1 DEF YieldAfterReconnect, Cas
    <3> QED BY <1>2, <1>3, <3>2 DEF YieldStands, Tells
  <2>3. CASE ret.rc # "NETWORK_RECONNECTED"
    BY <1>0, <1>4, <1>10, <2>1, <2>3 DEF YieldAfterReconnect
  <2> QED BY <2>2, <2>3
<1>11. CASE YieldAgain
  <2>1. clientState' \in {Idle, Yielding, Pending} \cup Left
    BY <1>1, <1>11 DEF YieldAgain, At, YieldStands
  <2> QED BY <1>2, <1>3, <1>11, <2>1 DEF YieldAgain, YieldStands
<1> QED BY <1>5, <1>6, <1>7, <1>8, <1>9, <1>10, <1>11

LEMMA LinkStep ==
  ASSUME TypeOK, StackInv, OwnInv, LinkInv, NoConnectInHandler, NoReopening, [Next]_vars
  PROVE  LinkInv'
<1>1. CASE PingTimerExpires \/ DelayTimerExpires \/ World \/ UNCHANGED vars
  <2>1. UNCHANGED <<stack, clientState, ret>>
    BY <1>1 DEF PingTimerExpires, DelayTimerExpires, World, vars, clientVars, calls
  <2> QED BY <2>1 DEF LinkInv, Top
<1> QED
  BY <1>1, CallLinked, EndLinked, ReadLinked, YieldLinked DEF Next, ReadStep, ClientStep

LEMMA Linking ==
  ASSUME NoConnectInHandler, NoReopening
  PROVE  Spec => []LinkInv
<1>1. Init => LinkInv
  <2>1. Init => stack = <<>> /\ Len(stack) = 0
    BY DEF Init
  <2> QED BY <2>1 DEF LinkInv, Linked
<1>2. TypeOK /\ StackInv /\ OwnInv /\ LinkInv /\ [Next]_vars => LinkInv'
  BY LinkStep
<1> QED BY <1>1, <1>2, TypeCorrect, StackCorrect, Owning, PTL DEF Spec

(* A disconnect the application asked for is undone by the application     *)
(* only: when callbacks do not disconnect and the handler does not connect *)
(* no library call ever runs in DISCONNECTED_MANUALLY, save the one whose  *)
(* disconnect handler runs.                                                *)
THEOREM ManualDisconnectKept ==
  ASSUME NoConnectInHandler, NoDisconnectInCallback
  PROVE  Spec => ManualDisconnectSticks
<1>0. Left = {} /\ NoReopening
  BY NothingLeft
<1>1. LinkInv /\ clientState = "DISCONNECTED_MANUALLY" => AppLevel
  BY <1>0 DEF LinkInv, AppLevel, Stands, YieldStands, At, Requests, InProgress, Tells
<1>2. LinkInv /\ [Next]_vars =>
        [clientState = "DISCONNECTED_MANUALLY" /\ clientState' # clientState => AppLevel]_vars
  BY <1>1
<1>3. Spec => []LinkInv
  BY <1>0, Linking
<1> QED BY <1>2, <1>3, PTL DEF Spec, ManualDisconnectSticks

LEMMA PushedNotEmpty ==
  ASSUME NEW S, NEW s \in Seq(S), NEW f
  PROVE  Append(s, f) # <<>>
  <1> DEFINE T == S \cup {f}
  <1>1. s \in Seq(T) /\ f \in T
    OBVIOUS
  <1> HIDE DEF T
  <1> QED BY <1>1

LEMMA ReplacedNotEmpty ==
  ASSUME TypeOK, stack # <<>>, NEW f
  PROVE  SetTop(f) # <<>> /\ \A g : Append(SetTop(f), g) # <<>>
  <1> DEFINE T == Frames \cup {f}
  <1>1. stack \in Seq(T) /\ f \in T
    BY DEF TypeOK, CallsTypeOK
  <1> HIDE DEF T
  <1>2. SetTop(f) \in Seq(T) /\ SetTop(f) # <<>>
    BY <1>1, ReplaceTop DEF SetTop
  <1> QED BY <1>2, PushedNotEmpty

(* Only the end of a call makes the stack shorter.                         *)
LEMMA StillRunning ==
  ASSUME TypeOK, stack # <<>>,
         \/ ApiCall
         \/ ReadOther \/ ReadPingresp \/ ReadOversize \/ ReadPublish \/ ReadNothing \/ ReadTorn
         \/ ReadError \/ ReconnectConnected \/ Deliver \/ CallbackReturns
         \/ YieldAfterDelivery \/ KeepAliveCheck \/ HandleDisconnect \/ HandleReconnect
         \/ YieldAfterReconnect \/ HandlerReturns \/ YieldAgain
  PROVE  stack' # <<>>
<1>1. \A f : SetTop(f) # <<>> /\ Append(stack, f) # <<>> /\ \A g : Append(SetTop(f), g) # <<>>
  BY ReplacedNotEmpty, PushedNotEmpty DEF TypeOK, CallsTypeOK
<1>2. \A f : Append(stack, f) \in Seq(Frames) => \A g : Append(Append(stack, f), g) # <<>>
  BY PushedNotEmpty
<1>3. \A f \in Frames : Append(stack, f) \in Seq(Frames)
  BY PushStack DEF TypeOK, CallsTypeOK
<1>4. \A op, rc : Refuse(op, rc) \/ RefuseRequest(op) => stack' # <<>>
  BY DEF Refuse, RefuseRequest
<1>5. \A pc, rc : YieldTo(pc, rc) \/ AfterRead(rc) \/ BackOff(rc) => stack' # <<>>
  BY <1>1 DEF YieldTo, AfterRead, BackOff
<1>6. CASE ApiCall
  <2>1. Frame("reconnect", "connect") \in Frames
    BY FrameTyped DEF Ops
  <2>2. stack' = stack \/ \E f : stack' = Append(stack, f) \/ \E g \in Frames : stack' = Append(Append(stack, g), f)
    BY <1>6, <2>1 DEF ApiCall, Connect, AttemptReconnect, StartConnect, Resubscribe, StartResubscribe,
       SendRequest, Disconnect, SetAutoReconnect, calls, Publish, Subscribe, Unsubscribe, Yield, Refuse,
       RefuseRequest
  <2> QED BY <1>1, <1>2, <1>3, <2>2
<1>7. CASE ReadPublish \/ ReconnectConnected
  BY <1>1, <1>7 DEF ReadPublish, ReconnectConnected, StartResubscribe, SendRequest
<1>8. CASE HandleReconnect
  <2>1. CASE StartConnect(Append(SetTop([Top EXCEPT !.pc = "reconnect"]), Frame("reconnect", "connect")))
    <3>1. SetTop([Top EXCEPT !.pc = "reconnect"]) \in Seq(Frames)
      BY TopTyped, ReplaceTop DEF TypeOK, CallsTypeOK, Frames, SetTop
    <3>2. Append(SetTop([Top EXCEPT !.pc = "reconnect"]), Frame("reconnect", "connect")) \in Seq(Frames)
      BY <3>1, FrameTyped, PushStack DEF Ops
    <3> QED BY <1>1, <2>1, <3>2, PushedNotEmpty DEF StartConnect
  <2> QED BY <1>5, <1>8, <2>1 DEF HandleReconnect
<1>9. CASE Deliver \/ CallbackReturns
  BY <1>1, <1>9 DEF Deliver, CallbackReturns
<1> QED
  BY <1>5, <1>6, <1>7, <1>8, <1>9 DEF ReadOther, ReadPingresp, ReadOversize, ReadNothing, ReadTorn,
     ReadError, YieldAfterDelivery, KeepAliveCheck, HandleDisconnect, YieldAfterReconnect,
     HandlerReturns, YieldAgain

(* The code of the outermost call tells the client state.                  *)
LEMMA ResultTells ==
  ASSUME TypeOK, StackInv, LinkInv, stack # <<>>, stack' = <<>>,
         \/ ReadConnack \/ WaitTimeout \/ ReadPuback \/ ReadSuback \/ ReadUnsuback \/ EndDelivery
         \/ ReconnectFailed \/ ReconnectResubscribed \/ YieldReturns \/ ReadResuback
  PROVE  /\ ret'.rc \in {"MQTT_SUCCESS", "NETWORK_RECONNECTED"} => clientState' = "CONNECTED_IDLE"
         /\ ret'.rc = "NETWORK_ATTEMPTING_RECONNECT" => clientState' = "PENDING_RECONNECT"
         /\ ret'.rc = "NETWORK_DISCONNECTED_ERROR" => clientState' \notin ConnectedStates
<1>0. stack \in Seq(Frames) /\ Stands(Top, clientState, ret.rc) /\ \A op, rc : Result(op, rc).rc = rc
  BY DEF LinkInv, TypeOK, CallsTypeOK, Result
<1>1. stack' = Pop
  <2>1. \A f : stack' # SetTop(f)
    BY ReplacedNotEmpty
  <2> QED
    BY <2>1 DEF ReadConnack, FailConnect, WaitTimeout, ReadPuback, ReadSuback, ReadUnsuback, EndRequest,
       EndDelivery, ReconnectFailed, ReconnectResubscribed, YieldReturns, ReadResuback
<1>2. Base(Top)
  BY <1>1, LinkPop
<1>3. ASSUME NEW rc \in RequestCodes, Top.op \in Requests, EndRequest(rc)
      PROVE  \/ ret'.rc = rc /\ clientState' = Idle
             \/ ret'.rc \notin StateCodes \cup {"MQTT_SUCCESS"}
  BY <1>0, <1>2, <1>3, RequestGivesBack DEF Base, Requests, GivenBack
<1>4. CASE ReadConnack
  BY <1>0, <1>4 DEF ReadConnack, At, Stands, Requests, FailConnect, Cas
<1>5. CASE WaitTimeout
  BY <1>0, <1>3, <1>5 DEF WaitTimeout, FailConnect, RequestCodes, StateCodes
<1>6. CASE ReadPuback \/ ReadSuback \/ ReadUnsuback \/ ReadResuback
  <2>1. \E rc \in {"MQTT_SUCCESS", "MQTT_FAILURE"} : EndRequest(rc)
    BY <1>6, ReplacedNotEmpty DEF ReadPuback, ReadSuback, ReadUnsuback, ReadResuback
  <2> QED BY <1>3, <1>6, <2>1 DEF ReadPuback, ReadSuback, ReadUnsuback, ReadResuback, At, Requests,
          RequestCodes, StateCodes
<1>7. ~EndDelivery
  BY <1>2 DEF EndDelivery, At, Base, Requests
<1>8. CASE ReconnectFailed
  BY <1>0, <1>8 DEF ReconnectFailed, At, Stands, Requests, Cas
<1>9. CASE ReconnectResubscribed
  BY <1>0, <1>9 DEF ReconnectResubscribed, At, Stands, Requests, StateCodes
<1>10. CASE YieldReturns
  <2>1. Top.op = "yield" /\ Top.pc \in {"check", "exit"} /\ YieldStands(Top, clientState, ret.rc)
    BY <1>0, <1>10 DEF YieldReturns, At, Stands, Requests
  <2>2. CASE Top.rc \in LeaveState
    <3>1. clientState' = clientState /\ ret'.rc = Top.rc
      BY <1>0, <1>10, <2>2 DEF YieldReturns
    <3> QED BY <2>1, <2>2, <3>1, LeftIs DEF YieldStands, Tells, LeaveState, ConnectedStates, StateCodes
  <2>3. CASE Top.rc \notin LeaveState
    <3>1. /\ clientState' = IF clientState = Yielding THEN Idle ELSE clientState
          /\ ret'.rc = IF Top.rc = "MQTT_SUCCESS" THEN CasRc(Yielding) ELSE Top.rc
      BY <1>0, <1>10, <2>3 DEF YieldReturns, Cas
    <3>2. clientState = Yielding \/ ret'.rc \notin {"MQTT_SUCCESS", "NETWORK_RECONNECTED"}
      BY <2>1, <2>3, <3>1 DEF YieldStands, Tells, CasRc, StateCodes
    <3>3. ret'.rc \notin LeaveState
      BY <2>3, <3>1 DEF CasRc, LeaveState
    <3> QED BY <3>1, <3>2, <3>3 DEF LeaveState
  <2> QED BY <2>2, <2>3
<1> QED BY <1>4, <1>5, <1>6, <1>7, <1>8, <1>9, <1>10

(* The code the outermost call returns agrees with the state it leaves,    *)
(* whatever callbacks did meanwhile (mqtt_yield, mqtt_attempt_reconnect):  *)
(* they may disconnect, if none of them then connects again.               *)
THEOREM ResultsTellState ==
  ASSUME NoConnectInHandler, NoReopening
  PROVE  Spec => ResultTellsState
<1> DEFINE Tell == stack # <<>> /\ stack' = <<>> =>
       /\ ret'.rc \in {"MQTT_SUCCESS", "NETWORK_RECONNECTED"} => clientState' = "CONNECTED_IDLE"
       /\ ret'.rc = "NETWORK_ATTEMPTING_RECONNECT" => clientState' = "PENDING_RECONNECT"
       /\ ret'.rc = "NETWORK_DISCONNECTED_ERROR" => clientState' \notin ConnectedStates
<1>1. TypeOK /\ StackInv /\ LinkInv /\ [Next]_vars => [Tell]_vars
  <2> SUFFICES ASSUME TypeOK, StackInv, LinkInv, Next, stack # <<>>, stack' = <<>>
               PROVE  Tell
    OBVIOUS
  <2>1. ~(PingTimerExpires \/ DelayTimerExpires \/ World)
    BY DEF PingTimerExpires, DelayTimerExpires, World, clientVars, calls
  <2> HIDE DEF Tell
  <2>2. \/ ReadConnack \/ WaitTimeout \/ ReadPuback \/ ReadSuback \/ ReadUnsuback \/ EndDelivery
        \/ ReconnectFailed \/ ReconnectResubscribed \/ YieldReturns \/ ReadResuback
    BY <2>1, StillRunning DEF Next, ReadStep, ClientStep
  <2> QED BY <2>2, ResultTells DEF Tell
<1> QED BY <1>1, Linking, TypeCorrect, StackCorrect, PTL DEF Spec, ResultTellsState

----------------------------------------------------------------------------
(* MqttClient implements Session.                                          *)

Telling == At("yield", "handler")

Closed == {"DISCONNECTED_MANUALLY", "DISCONNECTED_ERROR"}

(* PhaseOf, by what a step tells apart.                                    *)
PhaseIs ==
  /\ Telling => PhaseOf = "lost" /\ clientState \in Closed
  /\ ~Telling =>
       /\ clientState = "INITIALIZED" => PhaseOf = "fresh"
       /\ clientState = "CONNECTING" => PhaseOf = "connecting"
       /\ clientState \in ConnectedStates => PhaseOf = "connected"
       /\ clientState = Pending => PhaseOf = "waiting"
       /\ clientState = "DISCONNECTED_ERROR" => PhaseOf = "failed"
       /\ clientState = "DISCONNECTED_MANUALLY" => PhaseOf = "manual"

(* All that the steps of the session rest on, before and after a step.     *)
SessionInv == clientState \in ClientStates /\ OpenSocketOwned /\ PhaseIs

LEMMA PhaseFound == TypeOK /\ OwnInv /\ LinkInv => SessionInv
<1> SUFFICES ASSUME TypeOK, OwnInv, LinkInv PROVE SessionInv
  OBVIOUS
<1>1. stack \in Seq(Frames) /\ Len(stack) \in Nat /\ (stack # <<>> <=> Len(stack) # 0)
  BY EmptyStack DEF TypeOK, CallsTypeOK
<1>2. TellingLoss <=> Telling
  <2>1. ASSUME NEW i \in 1..Len(stack), stack[i].op = "yield", stack[i].pc = "handler"
        PROVE  i = Len(stack)
    <3>1. CASE i \in 1..(Len(stack) - 1)
      BY <2>1, <3>1 DEF OwnInv, Tame, InHandler
    <3> QED BY <1>1, <2>1, <3>1
  <2> QED BY <1>1, <2>1 DEF TellingLoss, Telling, At, Top
<1>3. PhaseIs
  <2>1. Telling => clientState \in Closed
    BY DEF OwnInv, Telling, Closed
  <2>2. CASE Telling
    BY <1>2, <2>1, <2>2 DEF PhaseIs, PhaseOf
  <2>3. CASE ~Telling
    BY <1>2, <2>3 DEF PhaseIs, PhaseOf, IsConnected, ConnectedStates
  <2> QED BY <2>2, <2>3
<1> QED BY <1>3 DEF SessionInv, TypeOK, CallsTypeOK, OwnInv

LEMMA WhoRuns ==
  /\ AppLevel <=> ControlOf = "application"
  /\ ~AppLevel <=> ControlOf = "library"
  BY DEF ControlOf

(* The connection stays as it is, seen from Session.                       *)
LEMMA SameConnection ==
  ASSUME SessionInv, SessionInv', socket' = "closed" <=> socket = "closed",
         isAutoReconnectEnabled' = isAutoReconnectEnabled,
         \/ clientState' = clientState /\ (Telling' <=> Telling)
         \/ clientState' = clientState /\ clientState \notin Closed
         \/ clientState \in ConnectedStates /\ clientState' \in ConnectedStates
  PROVE  Lifecycle!SessionNext
<1>1. ControlOf' \in {"application", "library"}
  BY DEF ControlOf
<1>2. PhaseOf' = PhaseOf
  BY DEF SessionInv, PhaseIs, ClientStates, ConnectedStates, ValidForConnect, Closed
<1> QED BY <1>1, <1>2 DEF Lifecycle!SessionNext, Lifecycle!CallOrReturn, Lifecycle!Passes, Lifecycle!Actors

LEMMA AttemptMade ==
  ASSUME SessionInv, SessionInv', ~Telling, NEW below \in Seq(Frames), StartConnect(below),
         isAutoReconnectEnabled' = isAutoReconnectEnabled,
         (AppLevel /\ clientState \in ValidForConnect) \/ (~AppLevel /\ clientState = Pending),
         below # <<>> => below[Len(below)].op = "reconnect"
  PROVE  Lifecycle!SessionNext
<1>1. ControlOf' \in {"application", "library"}
  BY DEF ControlOf
<1>2. socket = "closed" /\ PhaseOf \in {"fresh", "waiting", "failed", "manual"}
      /\ (clientState = Pending => PhaseOf = "waiting")
  BY DEF SessionInv, OpenSocketOwned, PhaseIs, ConnectedStates, ValidForConnect
<1>3. CASE clientState' = "CONNECTING" /\ socket' # "closed"
  <2>1. PhaseOf' = "connecting"
    BY <1>3 DEF SessionInv, PhaseIs, Closed
  <2> QED BY <1>1, <1>2, <1>3, <2>1, WhoRuns
          DEF Lifecycle!SessionNext, Lifecycle!Attempt, Lifecycle!Passes, Lifecycle!Actors
<1>4. CASE clientState' = "DISCONNECTED_ERROR" /\ socket' = "closed" /\ stack' = below
  <2>1. ~Telling'
    BY <1>4 DEF Telling, At, Top
  <2>2. PhaseOf' = "failed"
    BY <1>4, <2>1 DEF SessionInv, PhaseIs
  <2> QED BY <1>1, <1>2, <1>4, <2>2, WhoRuns
          DEF Lifecycle!SessionNext, Lifecycle!Attempt, Lifecycle!Passes, Lifecycle!Actors
<1> QED BY <1>3, <1>4 DEF StartConnect, OpenConnection, CloseConnection

LEMMA CallAllowed ==
  ASSUME TypeOK, StackInv, LinkInv, SessionInv, SessionInv', NoConnectInHandler,
         NoDisconnectInCallback, ApiCall
  PROVE  Lifecycle!SessionNext
<1>0. stack \in Seq(Frames) /\ ControlOf' \in {"application", "library"} /\ Left = {}
  BY NothingLeft DEF TypeOK, CallsTypeOK, ControlOf
<1>1. stack = <<>> => AppLevel /\ ~Telling
  BY DEF AppLevel, Telling, At
<1>2. stack' = stack => (Telling' <=> Telling) /\ ControlOf' = ControlOf
  BY DEF Telling, At, Top, ControlOf, AppLevel
<1>3. ASSUME UNCHANGED <<stack, clientState, socket, isAutoReconnectEnabled>>
      PROVE  Lifecycle!SessionNext
  BY <1>2, <1>3, SameConnection
<1>4. \A op, rc : Refuse(op, rc) => Lifecycle!SessionNext
  BY <1>3 DEF Refuse, netVars, backoff
<1>5. \A op : RefuseRequest(op) => Lifecycle!SessionNext
  BY <1>4 DEF RefuseRequest
<1>6. CASE Connect
  <2>1. CASE clientState \in ValidForConnect /\ StartConnect(stack) /\ UNCHANGED backoff
    <3>1. stack = <<>>
      BY <1>0, <1>6, <2>1, SiteState DEF Connect, ValidForConnect, NoConnectInHandler
    <3> QED BY <1>0, <1>1, <2>1, <3>1, AttemptMade DEF backoff
  <2> QED BY <1>4, <1>6, <2>1 DEF Connect
<1>7. CASE AttemptReconnect
  <2>1. CASE ~IsConnected /\ StartConnect(Append(stack, Frame("reconnect", "connect"))) /\ UNCHANGED backoff
    <3> DEFINE f == Frame("reconnect", "connect")
    <3>1. stack = <<>> /\ clientState \in ValidForConnect
      BY <1>0, <1>7, <2>1, SiteState DEF AttemptReconnect, IsConnected, ConnectedStates, NoConnectInHandler
    <3>2. f \in Frames /\ f.op = "reconnect" /\ StartConnect(Append(stack, f))
      BY <2>1, FrameTyped DEF Ops, Frame
    <3> HIDE DEF f
    <3>3. Append(stack, f) \in Seq(Frames) /\ Append(stack, f)[Len(Append(stack, f))] = f
      BY <1>0, <3>2, PushStack
    <3> QED BY <1>1, <2>1, <3>1, <3>2, <3>3, AttemptMade DEF backoff
  <2> QED BY <1>4, <1>7, <2>1 DEF AttemptReconnect
<1>8. ASSUME clientState \in ConnectedStates, clientState' \in ConnectedStates,
             UNCHANGED <<socket, isAutoReconnectEnabled>>
      PROVE  Lifecycle!SessionNext
  BY <1>8, SameConnection
<1>9. \A op \in Requests : \A p, f, below :
        SendRequest(op, p, f, below) /\ clientState \in ConnectedStates =>
          clientState' \in ConnectedStates /\ socket' = socket
  BY DEF SendRequest, Send, SendFails, netVars, Requests, InProgress, ConnectedStates
<1>10. CASE Resubscribe
  BY <1>4, <1>8, <1>9, <1>10 DEF Resubscribe, StartResubscribe, netVars, backoff, Requests, ConnectedStates
<1>11. CASE Disconnect
  <2>1. CASE IsConnected /\ CloseConnection /\ clientState' = "DISCONNECTED_MANUALLY"
             /\ UNCHANGED <<backoff, stack>>
    <3>1. stack = <<>>
      BY <1>11, <2>1, SiteState DEF Disconnect, IsConnected, ConnectedStates, NoDisconnectInCallback
    <3>2. PhaseOf = "connected" /\ PhaseOf' = "manual"
      BY <1>1, <1>2, <2>1, <3>1 DEF SessionInv, PhaseIs, IsConnected
    <3>3. socket' = "closed" /\ ControlOf = "application"
      BY <1>1, <2>1, <3>1, WhoRuns DEF CloseConnection
    <3> QED BY <1>0, <2>1, <3>2, <3>3
            DEF Lifecycle!SessionNext, Lifecycle!Leave, Lifecycle!Passes, Lifecycle!Actors, backoff
  <2> QED BY <1>4, <1>11, <2>1 DEF Disconnect
<1>12. CASE SetAutoReconnect
  <2>1. UNCHANGED <<stack, clientState, socket>> /\ isAutoReconnectEnabled' = ~isAutoReconnectEnabled
    BY <1>12 DEF SetAutoReconnect, calls, netVars
  <2>2. ControlOf = "application"
    BY <1>12, WhoRuns DEF SetAutoReconnect, MayCall, AppLevel
  <2>3. PhaseOf' = PhaseOf
    BY <1>2, <2>1 DEF SessionInv, PhaseIs, ClientStates, ConnectedStates, ValidForConnect, Closed
  <2> QED BY <1>2, <2>1, <2>2, <2>3 DEF Lifecycle!SessionNext, Lifecycle!SetAuto
<1>13. CASE Publish \/ Subscribe \/ Unsubscribe
  <2>1. MayRequest => clientState \in ConnectedStates
    BY DEF MayRequest, ConnectedStates
  <2>2. Send(Simple("PUBLISH")) \/ SendFails => socket' = socket
    BY DEF Send, SendFails, netVars
  <2>3. {"publish", "subscribe", "unsubscribe"} \subseteq Requests
    BY DEF Requests
  <2>4. CASE Publish
    BY <1>5, <1>8, <1>9, <2>1, <2>2, <2>3, <2>4 DEF Publish, backoff
  <2>5. CASE Subscribe
    BY <1>5, <1>8, <1>9, <2>1, <2>3, <2>5 DEF Subscribe, backoff, netVars
  <2>6. CASE Unsubscribe
    BY <1>4, <1>5, <1>8, <1>9, <2>1, <2>3, <2>6 DEF Unsubscribe, backoff
  <2> QED BY <1>13, <2>4, <2>5, <2>6
<1>14. CASE Yield
  <2>1. CASE clientState \in ValidForYield /\ Cas("CONNECTED_IDLE", "CONNECTED_YIELD_IN_PROGRESS")
             /\ UNCHANGED <<netVars, backoff>>
    <3>1. CASE clientState = Idle
      BY <1>8, <2>1, <3>1 DEF Cas, ConnectedStates, netVars, backoff
    <3>2. CASE clientState = Pending
      BY <2>1, <3>2, SameConnection DEF Cas, Closed, netVars, backoff
    <3> QED BY <2>1, <3>1, <3>2 DEF ValidForYield
  <2> QED BY <1>4, <1>14, <2>1 DEF Yield
<1> QED BY <1>6, <1>7, <1>10, <1>11, <1>12, <1>13, <1>14 DEF ApiCall

LEMMA EndAllowed ==
  ASSUME Left = {}, TypeOK, StackInv, OwnInv, LinkInv, SessionInv, SessionInv',
         \/ ReadConnack \/ WaitTimeout \/ ReadPuback \/ ReadSuback \/ ReadUnsuback \/ EndDelivery
         \/ ReconnectFailed \/ ReconnectResubscribed \/ YieldReturns
  PROVE  Lifecycle!SessionNext
<1>0. stack # <<>> /\ Stands(Top, clientState, ret.rc)
  BY DEF LinkInv, ReadConnack, WaitTimeout, Waiting, ReadPuback, ReadSuback, ReadUnsuback,
         EndDelivery, ReconnectFailed, ReconnectResubscribed, YieldReturns, At
<1>1. stack' = Pop /\ isAutoReconnectEnabled' = isAutoReconnectEnabled
  BY DEF ReadConnack, FailConnect, WaitTimeout, ReadPuback, ReadSuback, ReadUnsuback, EndRequest,
         EndDelivery, ReconnectFailed, ReconnectResubscribed, YieldReturns, backoff
<1>2. ~Telling'
  <2>1. stack' # <<>> => Over(Top', Top)
    BY <1>0, <1>1, LinkPop DEF Top
  <2> QED BY <2>1 DEF Telling, At, Over, Requests
<1>3. ControlOf' \in {"application", "library"}
  BY DEF ControlOf
<1>4. Top.saved \in ConnectedStates
  BY <1>0, TopFrame DEF OwnInv, Tame, Top
<1>5. CASE /\ clientState \in ConnectedStates /\ clientState' \in ConnectedStates
           /\ socket' = socket
  BY <1>1, <1>5, SameConnection
<1>6. ASSUME Top.op = "connect", Top.pc = "wait"
      PROVE  clientState = "CONNECTING" /\ PhaseOf = "connecting" /\ ControlOf = "library"
  <2>1. clientState = "CONNECTING" /\ ~Telling /\ ~AppLevel
    BY <1>0, <1>6 DEF Stands, Requests, Telling, At, AppLevel
  <2> QED BY <2>1, WhoRuns DEF SessionInv, PhaseIs
<1>7. ASSUME NEW rc, FailConnect(rc), Top.op = "connect", Top.pc = "wait"
      PROVE  Lifecycle!SessionNext
  <2>1. clientState' = "DISCONNECTED_ERROR" /\ socket' = "closed"
    BY <1>6, <1>7 DEF FailConnect, Cas, CloseConnection
  <2>2. PhaseOf' = "failed"
    BY <1>2, <2>1 DEF SessionInv, PhaseIs
  <2> QED BY <1>1, <1>3, <1>6, <1>7, <2>1, <2>2
          DEF Lifecycle!SessionNext, Lifecycle!Fail, Lifecycle!Passes, Lifecycle!Actors
<1>8. CASE ReadConnack
  <2>1. CASE Consume /\ Cas("CONNECTING", "CONNECTED_IDLE")
    <3>1. clientState' = Idle /\ socket' = socket
      BY <1>6, <1>8, <2>1 DEF ReadConnack, At, Cas, Consume
    <3>2. PhaseOf' = "connected"
      BY <1>2, <3>1 DEF SessionInv, PhaseIs, ConnectedStates
    <3> QED BY <1>1, <1>3, <1>6, <1>8, <3>1, <3>2
            DEF ReadConnack, At, Lifecycle!SessionNext, Lifecycle!Establish, Lifecycle!Passes, Lifecycle!Actors
  <2> QED BY <1>7, <1>8, <2>1 DEF ReadConnack, At
<1>9. ASSUME NEW rc, EndRequest(rc), Top.op \in Requests, socket' = socket
      PROVE  Lifecycle!SessionNext
  BY <1>0, <1>4, <1>5, <1>9 DEF EndRequest, Cas, Stands, Requests, InProgress, ConnectedStates
<1>10. CASE WaitTimeout
  BY <1>7, <1>9, <1>10 DEF WaitTimeout, Waiting, netVars
<1>11. CASE ReadPuback \/ ReadSuback \/ ReadUnsuback
  BY <1>9, <1>11 DEF ReadPuback, ReadSuback, ReadUnsuback, At, Requests, Consume
<1>12. CASE EndDelivery
  <2>1. socket' = socket
    BY <1>12 DEF EndDelivery, Send, SendFails, netVars
  <2>2. clientState = Delivering /\ clientState' = Top.saved
    BY <1>0, <1>12 DEF EndDelivery, At, Stands, Requests, Cas
  <2> QED BY <1>4, <1>5, <2>1, <2>2 DEF ConnectedStates
<1>13. CASE ReconnectFailed
  <2>1. clientState = "DISCONNECTED_ERROR" /\ clientState' = Pending /\ socket' = socket
        /\ ~Telling /\ ~AppLevel
    BY <1>0, <1>13 DEF ReconnectFailed, At, Stands, Requests, Cas, netVars, Telling, AppLevel
  <2>2. PhaseOf = "failed" /\ PhaseOf' = "waiting"
    BY <1>2, <2>1 DEF SessionInv, PhaseIs
  <2> QED BY <1>1, <1>3, <2>1, <2>2, WhoRuns
          DEF Lifecycle!SessionNext, Lifecycle!TryLater, Lifecycle!Passes, Lifecycle!Actors
<1>14. CASE ReconnectResubscribed
  BY <1>0, <1>5, <1>14 DEF ReconnectResubscribed, At, Stands, Requests, ConnectedStates, netVars
<1>15. CASE YieldReturns
  <2>1. Top.op = "yield" /\ Top.pc \in {"check", "exit"} /\ socket' = socket
    BY <1>15 DEF YieldReturns, At, netVars
  <2>2. ~Telling
    BY <2>1 DEF Telling, At
  <2>3. clientState' = clientState \/ (clientState = Yielding /\ clientState' = Idle)
    BY <1>15 DEF YieldReturns, Cas
  <2> QED BY <1>1, <1>2, <1>5, <2>1, <2>2, <2>3, SameConnection DEF ConnectedStates
<1> QED BY <1>8, <1>10, <1>11, <1>12, <1>13, <1>14, <1>15

LEMMA ReadAllowed ==
  ASSUME Left = {}, TypeOK, StackInv, OwnInv, LinkInv, SessionInv, SessionInv',
         \/ ReadResuback \/ ReadOther \/ ReadPingresp \/ ReadOversize \/ ReadPublish
         \/ ReadNothing \/ ReadTorn \/ ReadError \/ ReconnectConnected \/ Deliver \/ CallbackReturns
         \/ YieldAfterDelivery \/ KeepAliveCheck \/ YieldAgain \/ YieldAfterReconnect
  PROVE  Lifecycle!SessionNext
<1>0. stack # <<>> /\ Stands(Top, clientState, ret.rc)
      /\ isAutoReconnectEnabled' = isAutoReconnectEnabled
  BY DEF LinkInv, ReadResuback, ReadOther, ReadPingresp, ReadOversize, ReadPublish, ReadNothing,
         ReadTorn, ReadError, Reading, Waiting, ReconnectConnected, Deliver, CallbackReturns, At,
         YieldAfterDelivery, KeepAliveCheck, YieldAgain, YieldAfterReconnect, BackOff, backoff
<1>1. socket' = "closed" <=> socket = "closed"
  BY DEF ReadResuback, ReadOther, ReadPingresp, ReadOversize, ReadPublish, ReadNothing, ReadTorn,
         ReadError, ReconnectConnected, StartResubscribe, SendRequest, Deliver, CallbackReturns,
         YieldAfterDelivery, KeepAliveCheck, YieldAgain, YieldAfterReconnect, Send, SendFails,
         Consume, ConsumeAndSend, netVars
<1>2. ASSUME clientState \in ConnectedStates, clientState' \in ConnectedStates
      PROVE  Lifecycle!SessionNext
  BY <1>0, <1>1, <1>2, SameConnection
<1>3. ASSUME clientState' = clientState, clientState \notin Closed
      PROVE  Lifecycle!SessionNext
  BY <1>0, <1>1, <1>3, SameConnection
<1>4. Reading => clientState \notin Closed
  BY <1>0 DEF Reading, Waiting, At, Stands, YieldStands, Requests, InProgress, Closed
<1>5. CASE ReadOther \/ ReadPingresp \/ ReadOversize \/ ReadTorn \/ ReadNothing \/ ReadError
  BY <1>3, <1>4, <1>5 DEF ReadOther, ReadPingresp, ReadOversize, ReadTorn, ReadNothing, ReadError, Reading
<1>6. CASE ReadResuback
  <2>1. Top.saved \in ConnectedStates
    BY <1>0, TopFrame DEF OwnInv, Tame, Top
  <2> QED BY <1>0, <1>2, <1>6, <2>1
          DEF ReadResuback, At, Stands, Requests, InProgress, EndRequest, Cas, ConnectedStates
<1>7. CASE ReadPublish
  <2>1. Top.op # "connect"
    BY <1>0, <1>7 DEF StackInv, ConnackFirst, ReadPublish, Arrived
  <2>2. clientState \in ConnectedStates
    BY <1>0, <1>7, <2>1 DEF ReadPublish, Reading, Waiting, At, Stands, YieldStands, Requests,
       InProgress, ConnectedStates
  <2> QED BY <1>2, <1>7, <2>2 DEF ReadPublish, ConnectedStates
<1>8. CASE ReconnectConnected
  BY <1>2, <1>8 DEF ReconnectConnected, StartResubscribe, SendRequest, InProgress, ConnectedStates
<1>9. CASE Deliver \/ CallbackReturns
  BY <1>0, <1>3, <1>9 DEF Deliver, CallbackReturns, At, Stands, Requests, Closed
<1>10. CASE YieldAfterDelivery \/ KeepAliveCheck \/ YieldAgain
  BY <1>0, <1>3, <1>10 DEF YieldAfterDelivery, KeepAliveCheck, YieldAgain, At, Stands, YieldStands,
     Requests, Closed
<1>11. CASE YieldAfterReconnect
  BY <1>0, <1>2, <1>3, <1>11 DEF YieldAfterReconnect, At, Stands, YieldStands, Requests, Cas, Closed,
     ConnectedStates
<1> QED BY <1>5, <1>6, <1>7, <1>8, <1>9, <1>10, <1>11

LEMMA LossAllowed ==
  ASSUME Left = {}, TypeOK, StackInv, OwnInv, LinkInv, SessionInv, SessionInv',
         HandleDisconnect \/ HandlerReturns \/ HandleReconnect
  PROVE  Lifecycle!SessionNext
<1>0. stack # <<>> /\ stack \in Seq(Frames) /\ Top \in Frames /\ Top.op = "yield"
      /\ Stands(Top, clientState, ret.rc) /\ ControlOf' \in {"application", "library"}
  BY TopTyped DEF LinkInv, TypeOK, CallsTypeOK, HandleDisconnect, HandlerReturns, HandleReconnect, At,
     ControlOf
<1>1. ASSUME NEW pc, NEW rc, YieldTo(pc, rc)
      PROVE  Telling' <=> pc = "handler"
  <2> DEFINE f == [Top EXCEPT !.pc = pc, !.rc = rc]
  <2>1. f.op = "yield" /\ f.pc = pc /\ stack' = SetTop(f)
    BY <1>0, <1>1 DEF YieldTo, Frames
  <2> HIDE DEF f
  <2>2. stack' # <<>> /\ Len(stack') = Len(stack) /\ stack'[Len(stack)] = f
    BY <1>0, <2>1, EmptyStack DEF SetTop
  <2> QED BY <2>1, <2>2 DEF Telling, At, Top
<1>2. CASE HandleDisconnect
  <2>1. clientState \in {Idle, Yielding} /\ ~Telling /\ ~AppLevel
    BY <1>0, <1>2 DEF HandleDisconnect, At, Stands, YieldStands, Requests, Telling, AppLevel
  <2>2. PhaseOf = "connected" /\ PhaseOf' = "lost"
    BY <1>1, <1>2, <2>1 DEF HandleDisconnect, SessionInv, PhaseIs, ConnectedStates
  <2>3. socket' = "closed" /\ isAutoReconnectEnabled' = isAutoReconnectEnabled
    BY <1>2 DEF HandleDisconnect, CloseConnection, backoff
  <2> QED BY <1>0, <2>1, <2>2, <2>3, WhoRuns
          DEF Lifecycle!SessionNext, Lifecycle!Lose, Lifecycle!Passes, Lifecycle!Actors
<1>3. CASE HandlerReturns
  <2>1. PhaseOf = "lost"
    BY <1>3 DEF HandlerReturns, Telling, SessionInv, PhaseIs
  <2>2. ~Telling' /\ clientState' = IF isAutoReconnectEnabled THEN Pending ELSE "DISCONNECTED_ERROR"
    BY <1>1, <1>3 DEF HandlerReturns
  <2>3. PhaseOf' = IF isAutoReconnectEnabled THEN "waiting" ELSE "failed"
    BY <2>2 DEF SessionInv, PhaseIs
  <2>4. socket' = socket /\ isAutoReconnectEnabled' = isAutoReconnectEnabled
    BY <1>3 DEF HandlerReturns, netVars
  <2> QED BY <1>0, <2>1, <2>3, <2>4
          DEF Lifecycle!SessionNext, Lifecycle!AfterLoss, Lifecycle!Passes, Lifecycle!Actors
<1>4. CASE HandleReconnect
  <2>1. isAutoReconnectEnabled' = isAutoReconnectEnabled /\ clientState = Pending /\ ~Telling /\ ~AppLevel
    BY <1>0, <1>4 DEF HandleReconnect, BackOff, backoff, At, Telling, AppLevel
  <2>2. CASE UNCHANGED <<netVars, clientState>>
    BY <2>1, <2>2, SameConnection DEF netVars, Closed
  <2>3. CASE StartConnect(Append(SetTop([Top EXCEPT !.pc = "reconnect"]), Frame("reconnect", "connect")))
    <3> DEFINE g == [Top EXCEPT !.pc = "reconnect"]
               f == Frame("reconnect", "connect")
    <3>1. g \in Frames /\ f \in Frames /\ f.op = "reconnect" /\ StartConnect(Append(SetTop(g), f))
      BY <1>0, <2>3, FrameTyped DEF Ops, Frame, Frames
    <3> HIDE DEF f, g
    <3>2. SetTop(g) \in Seq(Frames)
      BY <1>0, <3>1, ReplaceTop DEF SetTop
    <3>3. Append(SetTop(g), f) \in Seq(Frames) /\ Append(SetTop(g), f)[Len(Append(SetTop(g), f))] = f
      BY <3>1, <3>2, PushStack
    <3> QED BY <2>1, <3>1, <3>3, AttemptMade
  <2> QED BY <1>4, <2>2, <2>3 DEF HandleReconnect
<1> QED BY <1>2, <1>3, <1>4

LEMMA StepAllowed ==
  ASSUME TypeOK, StackInv, OwnInv, LinkInv, SessionInv, SessionInv', NoConnectInHandler,
         NoDisconnectInCallback, [Next]_vars
  PROVE  Lifecycle!SessionNext
<1>1. CASE PingTimerExpires \/ DelayTimerExpires \/ World \/ UNCHANGED vars
  <2>1. UNCHANGED <<stack, clientState, isAutoReconnectEnabled>> /\ (socket' = "closed" <=> socket = "closed")
    BY <1>1 DEF PingTimerExpires, DelayTimerExpires, World, Broker, BrokerAnswers, BrokerIgnores,
         BrokerPublishes, Outages, WifiChanges, LosePeer, ResetPeer, vars, clientVars, calls, backoff, netVars
  <2>2. Telling' <=> Telling
    BY <2>1 DEF Telling, At, Top
  <2> QED BY <2>1, <2>2, SameConnection
<1> QED
  BY <1>1, NothingLeft, CallAllowed, EndAllowed, ReadAllowed, LossAllowed DEF Next, ReadStep, ClientStep

(* Every run of the client is a run of Session, for every number of        *)
(* handlers, every depth of calls and every setting, when callbacks do not *)
(* disconnect and the disconnect handler does not connect: no descriptor   *)
(* is lost, no manual disconnect undone, no reconnection started against   *)
(* the setting or forgotten (mqtt_client_connect.c, mqtt_client_yield.c).  *)
THEOREM ClientImplementsSession ==
  ASSUME NoConnectInHandler, NoDisconnectInCallback
  PROVE  Spec => SessionImplemented
<1>1. Init => Lifecycle!SessionInit
  <2> SUFFICES ASSUME Init PROVE Lifecycle!SessionInit
    OBVIOUS
  <2>1. stack = <<>> /\ Len(stack) = 0 /\ clientState = "INITIALIZED" /\ socket = "closed"
    BY DEF Init, NetInit
  <2>2. ~TellingLoss /\ AppLevel
    BY <2>1 DEF TellingLoss, AppLevel
  <2>3. PhaseOf = "fresh" /\ ControlOf = "application"
    BY <2>1, <2>2 DEF PhaseOf, ControlOf, IsConnected, ConnectedStates
  <2>4. isAutoReconnectEnabled \in BOOLEAN
    BY ClientAssumption DEF Init, ClientAssumption
  <2> QED BY <2>1, <2>3, <2>4 DEF Lifecycle!SessionInit
<1>2. /\ TypeOK /\ StackInv /\ OwnInv /\ LinkInv /\ SessionInv /\ SessionInv' /\ [Next]_vars
      => [Lifecycle!SessionNext]_(Lifecycle!sessionVars)
  BY StepAllowed
<1>3. TypeOK /\ OwnInv /\ LinkInv => SessionInv
  BY PhaseFound
<1>4. Spec => []LinkInv
  BY NothingLeft, Linking
<1> QED
  BY <1>1, <1>2, <1>3, <1>4, Owning, TypeCorrect, StackCorrect, PTL
  DEF Spec, SessionImplemented, Lifecycle!SessionSpec
=============================================================================
