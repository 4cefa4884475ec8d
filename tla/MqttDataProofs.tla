--------------------------- MODULE MqttDataProofs ---------------------------
(* What becomes of the data of the client while calls are nested and       *)
(* connections come and go: the handler table, the outstanding ping, and   *)
(* the subscriptions that the broker holds for the handlers.               *)
EXTENDS MqttStackProofs

----------------------------------------------------------------------------
(* Handlers.  A subscribe chooses its slot before it waits and fills it    *)
(* afterwards.  As long as callbacks do not subscribe it is the outermost  *)
(* call, and nothing that runs inside it fills a slot.                     *)

NoSubscribeInside == "subscribe" \notin CallbackOps \cup HandlerOps

Alone(s, handlers) ==
  \A i \in 1..Len(s) : s[i].op = "subscribe" =>
    i = 1 /\ s[i].slot \in Slots /\ handlers[s[i].slot] = NoTopic

SlotKept == Alone(stack, messageHandlers)

LEMMA AlonePush ==
  ASSUME NEW s \in Seq(Frames), NEW h, Alone(s, h), NEW f \in Frames,
         f.op = "subscribe" => s = <<>> /\ f.slot \in Slots /\ h[f.slot] = NoTopic
  PROVE  Alone(Append(s, f), h)
  <1> DEFINE r == Append(s, f)
  <1>1. /\ Len(s) \in Nat /\ Len(r) = Len(s) + 1 /\ r[Len(s) + 1] = f
        /\ \A i \in 1..Len(s) : r[i] = s[i]
    BY PushStack
  <1>2. s = <<>> => Len(s) = 0
    OBVIOUS
  <1> HIDE DEF r
  <1>3. Alone(r, h)
    <2> SUFFICES ASSUME NEW i \in 1..Len(r), r[i].op = "subscribe"
                 PROVE  i = 1 /\ r[i].slot \in Slots /\ h[r[i].slot] = NoTopic
      BY DEF Alone
    <2>1. CASE i = Len(s) + 1
      BY <1>1, <1>2, <2>1
    <2>2. CASE i \in 1..Len(s)
      BY <1>1, <2>2 DEF Alone
    <2> QED BY <1>1, <2>1, <2>2
  <1> QED BY <1>3 DEF r

LEMMA AlonePop ==
  ASSUME CallsTypeOK, stack # <<>>, NEW h, Alone(stack, h)
  PROVE  Alone(Pop, h)
  <1>1. stack \in Seq(Frames)
    BY DEF CallsTypeOK
  <1>0. Len(stack) \in Nat \ {0}
    BY <1>1, TopFrame
  <1> DEFINE r == Pop
  <1>2. Len(r) = Len(stack) - 1 /\ \A i \in 1..(Len(stack) - 1) : r[i] = stack[i]
    BY <1>1, PopStack DEF Pop
  <1> HIDE DEF r
  <1>3. Alone(r, h)
    <2> SUFFICES ASSUME NEW i \in 1..Len(r), r[i].op = "subscribe"
                 PROVE  i = 1 /\ r[i].slot \in Slots /\ h[r[i].slot] = NoTopic
      BY DEF Alone
    <2>1. i \in 1..Len(stack) /\ r[i] = stack[i]
      BY <1>0, <1>2
    <2> QED BY <2>1 DEF Alone
  <1> QED BY <1>3 DEF r

LEMMA AloneReplace ==
  ASSUME CallsTypeOK, stack # <<>>, NEW h, Alone(stack, h), NEW f \in Frames,
         f.op = Top.op, f.op = "subscribe" => f.slot = Top.slot
  PROVE  Alone(SetTop(f), h)
  <1> DEFINE r == SetTop(f)
             n == Len(stack)
  <1>1. stack \in Seq(Frames)
    BY DEF CallsTypeOK
  <1>2. n \in Nat \ {0} /\ Len(r) = n /\ r[n] = f /\ \A i \in 1..(n - 1) : r[i] = stack[i]
    BY <1>1, ReplaceTop, TopFrame DEF SetTop
  <1>3. n \in 1..n /\ Top = stack[n]
    BY <1>2 DEF Top
  <1> HIDE DEF r
  <1>4. Alone(r, h)
    <2> SUFFICES ASSUME NEW i \in 1..n, r[i].op = "subscribe"
                 PROVE  i = 1 /\ r[i].slot \in Slots /\ h[r[i].slot] = NoTopic
      BY <1>2 DEF Alone
    <2>1. CASE i = n
      BY <1>2, <1>3, <2>1 DEF Alone
    <2>2. CASE i \in 1..(n - 1)
      BY <1>2, <2>2 DEF Alone
    <2> QED BY <1>2, <2>1, <2>2
  <1> QED BY <1>4 DEF r

(* A connection is started on a stack without a new subscribe on it.       *)
LEMMA AloneConnect ==
  ASSUME NEW below \in Seq(Frames), NEW h, Alone(below, h), StartConnect(below)
  PROVE  Alone(stack', h)
  <1>1. Frame("connect", "wait") \in Frames /\ Frame("connect", "wait").op = "connect"
    BY FrameTyped DEF Ops, Frame
  <1> QED BY <1>1, AlonePush DEF StartConnect

LEMMA AloneRequest ==
  ASSUME NEW below \in Seq(Frames), NEW h, Alone(below, h), NEW op, NEW p, NEW f \in Frames,
         f.op = "subscribe" => below = <<>> /\ f.slot \in Slots /\ h[f.slot] = NoTopic,
         SendRequest(op, p, f, below)
  PROVE  Alone(stack', h)
  BY AlonePush DEF SendRequest

LEMMA AloneResubscribe ==
  ASSUME TypeOK, NEW below \in Seq(Frames), NEW h, Alone(below, h), StartResubscribe(below)
  PROVE  Alone(stack', h)
  <1>1. PICK n \in 0..NumHandlers :
          \/ stack' = below
          \/ SendRequest("resubscribe", Packet("SUBSCRIBE", messageHandlers[1], NextId),
                         Saving("resubscribe", "wait", NoTopic, 1, n, NextId), below)
    BY DEF StartResubscribe
  <1> DEFINE f == Saving("resubscribe", "wait", NoTopic, 1, n, NextId)
  <1>2. 1 \in 0..NumHandlers /\ NextId \in PacketIds
    BY NextIdTyped, ClientAssumption DEF TypeOK, ClientAssumption
  <1>3. f \in Frames
    BY <1>2, SavingTyped DEF TypeOK, CallsTypeOK, Ops
  <1>4. f.op = "resubscribe"
    BY DEF Saving
  <1>5. CASE stack' = below
    BY <1>5
  <1>6. CASE SendRequest("resubscribe", Packet("SUBSCRIBE", messageHandlers[1], NextId), f, below)
    <2> HIDE DEF f
    <2> QED BY <1>3, <1>4, <1>6, AloneRequest
  <1> QED BY <1>1, <1>5, <1>6

LEMMA AloneYieldTo ==
  ASSUME CallsTypeOK, stack # <<>>, Top.op = "yield", NEW h, Alone(stack, h), NEW rc \in ResultCodes,
         NEW pc \in {"loop", "alive", "lost", "handler", "check", "exit"}, YieldTo(pc, rc)
  PROVE  Alone(stack', h)
  <1> DEFINE f == [Top EXCEPT !.pc = pc, !.rc = rc]
  <1>1. f \in Frames /\ f.op = "yield" /\ stack' = SetTop(f)
    BY TopTyped DEF Frames, YieldTo
  <1> HIDE DEF f
  <1> QED BY <1>1, AloneReplace

(* The calls.                                                              *)
LEMMA AloneCalls ==
  ASSUME TypeOK, SlotKept, NoSubscribeInside,
         \/ Connect \/ AttemptReconnect \/ Resubscribe \/ Disconnect \/ SetAutoReconnect
         \/ Publish \/ Subscribe \/ Unsubscribe \/ Yield
  PROVE  Alone(stack', messageHandlers) /\ messageHandlers' = messageHandlers
<1> DEFINE h == messageHandlers
<1>0. stack \in Seq(Frames) /\ Alone(stack, h)
  BY DEF TypeOK, CallsTypeOK, SlotKept
<1>1. NextId \in PacketIds /\ clientState \in ClientStates
  BY NextIdTyped DEF TypeOK, CallsTypeOK
<1>2. \A op, rc : Refuse(op, rc) => stack' = stack /\ messageHandlers' = messageHandlers
  BY DEF Refuse, subs
<1>3. CASE Connect
  BY <1>0, <1>2, <1>3, AloneConnect DEF Connect, subs
<1>4. CASE AttemptReconnect
  <2>1. Frame("reconnect", "connect") \in Frames /\ Frame("reconnect", "connect").op = "reconnect"
    BY FrameTyped DEF Ops, Frame
  <2>2. Append(stack, Frame("reconnect", "connect")) \in Seq(Frames)
        /\ Alone(Append(stack, Frame("reconnect", "connect")), h)
    BY <1>0, <2>1, AlonePush, PushStack
  <2> QED BY <1>0, <1>2, <1>4, <2>2, AloneConnect DEF AttemptReconnect, subs
<1>5. CASE Resubscribe
  BY <1>0, <1>2, <1>5, AloneResubscribe DEF Resubscribe
<1>6. CASE Disconnect
  BY <1>0, <1>2, <1>6 DEF Disconnect, subs
<1>7. CASE SetAutoReconnect
  BY <1>0, <1>7 DEF SetAutoReconnect, subs, calls
<1>8. CASE Publish
  <2>1. ASSUME SendRequest("publish", Packet("PUBLISH", NoTopic, NextId),
                           Saving("publish", "wait", NoTopic, 0, 0, NextId), stack)
        PROVE  Alone(stack', h)
    <3>1. Saving("publish", "wait", NoTopic, 0, 0, NextId) \in Frames
          /\ Saving("publish", "wait", NoTopic, 0, 0, NextId).op = "publish"
      BY <1>1, ZeroTyped, SavingTyped DEF Ops, Saving
    <3> QED BY <1>0, <2>1, <3>1, AloneRequest
  <2> QED BY <1>0, <1>2, <1>8, <2>1 DEF Publish, RefuseRequest, subs
<1>9. CASE Subscribe
  <2>1. CASE RefuseRequest("subscribe") \/ UNCHANGED <<stack, messageHandlers>>
    BY <1>0, <1>2, <2>1 DEF RefuseRequest
  <2>2. ASSUME NEW s \in Slots, NEW t \in Topics, FirstFree(s), MayCall("subscribe"),
               SendRequest("subscribe", Packet("SUBSCRIBE", t, NextId),
                           Saving("subscribe", "wait", t, s, 0, NextId), stack),
               UNCHANGED messageHandlers
        PROVE  Alone(stack', h) /\ messageHandlers' = messageHandlers
    <3> DEFINE f == Saving("subscribe", "wait", t, s, 0, NextId)
    <3>1. f \in Frames
      BY <1>1, ZeroTyped, SavingTyped DEF Ops
    <3>2. f.op = "subscribe" /\ f.slot = s
      BY DEF Saving
    <3>3. stack = <<>> /\ h[s] = NoTopic
      BY <2>2 DEF MayCall, NoSubscribeInside, FirstFree
    <3>4. SendRequest("subscribe", Packet("SUBSCRIBE", t, NextId), f, stack)
      BY <2>2
    <3> HIDE DEF f
    <3> QED BY <1>0, <2>2, <3>1, <3>2, <3>3, <3>4, AloneRequest
  <2> QED BY <1>9, <2>1, <2>2 DEF Subscribe
<1>10. CASE Unsubscribe
  <2>1. ASSUME NEW t \in Registered,
               SendRequest("unsubscribe", Packet("UNSUBSCRIBE", t, NextId),
                           Saving("unsubscribe", "wait", t, 0, 0, NextId), stack)
        PROVE  Alone(stack', h)
    <3>1. t \in Topics \cup {NoTopic}
      BY DEF Registered, TypeOK, DataTypeOK
    <3>2. Saving("unsubscribe", "wait", t, 0, 0, NextId) \in Frames
          /\ Saving("unsubscribe", "wait", t, 0, 0, NextId).op = "unsubscribe"
      BY <1>1, <3>1, ZeroTyped, SavingTyped DEF Ops, Saving
    <3> QED BY <1>0, <2>1, <3>2, AloneRequest
  <2> QED BY <1>0, <1>2, <1>10, <2>1 DEF Unsubscribe, RefuseRequest
<1>11. CASE Yield
  <2>1. Frame("yield", "loop") \in Frames /\ Frame("yield", "loop").op = "yield"
    BY FrameTyped DEF Ops, Frame
  <2> QED BY <1>0, <1>2, <1>11, <2>1, AlonePush DEF Yield, subs
<1> QED BY <1>3, <1>4, <1>5, <1>6, <1>7, <1>8, <1>9, <1>10, <1>11

(* What is read, and what runs out of time.                                *)
LEMMA AloneEmptied ==
  ASSUME NEW s, NEW h, NEW g, Alone(s, h), \A t \in Slots : g[t] \in {h[t], NoTopic}
  PROVE  Alone(s, g)
  BY DEF Alone

LEMMA AloneReads ==
  ASSUME TypeOK, SlotKept,
         \/ ReadConnack \/ ReadResuback \/ ReadPuback \/ ReadSuback \/ ReadUnsuback \/ WaitTimeout
         \/ ReconnectFailed \/ ReconnectResubscribed \/ EndDelivery \/ YieldReturns
  PROVE  SlotKept' /\ \A s \in Slots : messageHandlers[s] # NoTopic =>
                       messageHandlers'[s] \in {messageHandlers[s], NoTopic}
<1> DEFINE h == messageHandlers
<1>0. CallsTypeOK /\ stack # <<>> /\ stack \in Seq(Frames) /\ Alone(stack, h)
  BY DEF TypeOK, CallsTypeOK, SlotKept, ReadConnack, ReadResuback, ReadPuback, ReadSuback, ReadUnsuback,
         WaitTimeout, Waiting, ReconnectFailed, ReconnectResubscribed, EndDelivery, YieldReturns, At
<1>1. Alone(Pop, h)
  BY <1>0, AlonePop
<1>2. CASE stack' = Pop /\ messageHandlers' = h
  BY <1>1, <1>2 DEF SlotKept
<1>3. CASE ReadResuback
  <2>1. CASE stack' = SetTop([Top EXCEPT !.slot = @ + 1, !.id = NextId]) /\ Top.slot < Top.last
             /\ messageHandlers' = h
    <3> DEFINE f == [Top EXCEPT !.slot = @ + 1, !.id = NextId]
    <3>1. Top \in Frames /\ NextId \in PacketIds
      BY <1>0, TopTyped, NextIdTyped DEF TypeOK
    <3>2. Top.slot + 1 \in 0..NumHandlers
      BY <2>1, <3>1, ClientAssumption DEF Frames, ClientAssumption
    <3>3. f \in Frames /\ f.op = "resubscribe" /\ Top.op = "resubscribe"
      BY <1>3, <3>1, <3>2 DEF Frames, ReadResuback, At
    <3> HIDE DEF f
    <3> QED BY <1>0, <2>1, <3>3, AloneReplace DEF SlotKept, f
  <2> QED BY <1>2, <1>3, <2>1 DEF ReadResuback, EndRequest
<1>4. CASE ReadSuback
  <2>1. Len(stack) \in 1..Len(stack) /\ Top = stack[Len(stack)] /\ Top.op = "subscribe"
    BY <1>0, <1>4, TopFrame DEF Top, ReadSuback, At
  <2>2. Len(stack) = 1 /\ Top.slot \in Slots /\ h[Top.slot] = NoTopic
    BY <1>0, <2>1 DEF Alone
  <2>3. Pop \in Seq(Frames) /\ Len(Pop) = 0
    BY <1>0, <2>2, PopStack DEF Pop
  <2>4. stack' = Pop /\ messageHandlers' = [h EXCEPT ![Top.slot] = Top.topic]
    BY <1>4 DEF ReadSuback, EndRequest
  <2>5. SlotKept'
    BY <2>3, <2>4 DEF SlotKept, Alone
  <2>6. \A s \in Slots : h[s] # NoTopic => messageHandlers'[s] = h[s]
    BY <2>2, <2>4 DEF TypeOK, DataTypeOK
  <2> QED BY <2>5, <2>6
<1>5. CASE ReadUnsuback
  <2>1. /\ stack' = Pop
        /\ \A s \in Slots : messageHandlers'[s] \in {h[s], NoTopic}
    BY <1>5 DEF ReadUnsuback, EndRequest
  <2> QED BY <1>1, <2>1, AloneEmptied DEF SlotKept
<1> QED
  BY <1>2, <1>3, <1>4, <1>5 DEF ReadConnack, FailConnect, ReadPuback, EndRequest, WaitTimeout,
       ReconnectFailed, ReconnectResubscribed, EndDelivery, YieldReturns, subs

(* What only moves the innermost call along.                               *)
LEMMA AloneReadOn ==
  ASSUME TypeOK, SlotKept, stack # <<>>, NEW rc \in ResultCodes, AfterRead(rc)
  PROVE  Alone(stack', messageHandlers)
  <1>1. CASE Top.op = "yield"
    BY <1>1, AloneYieldTo DEF AfterRead, TypeOK, SlotKept
  <1>2. CASE Top.op # "yield"
    BY <1>2 DEF AfterRead, SlotKept
  <1> QED BY <1>1, <1>2

LEMMA AloneMoves ==
  ASSUME TypeOK, SlotKept,
         \/ ReadOther \/ ReadPingresp \/ ReadOversize \/ ReadNothing \/ ReadTorn \/ ReadError
         \/ KeepAliveCheck \/ HandleDisconnect \/ HandlerReturns \/ YieldAfterReconnect
         \/ YieldAgain \/ YieldAfterDelivery
  PROVE  Alone(stack', messageHandlers) /\ messageHandlers' = messageHandlers
<1>0. CallsTypeOK /\ stack # <<>> /\ Alone(stack, messageHandlers) /\ ret.rc \in ResultCodes
  BY DEF TypeOK, CallsTypeOK, SlotKept, Results, ReadOther, ReadPingresp, ReadOversize, ReadNothing,
         ReadTorn, ReadError, Reading, Waiting, KeepAliveCheck, HandleDisconnect, HandlerReturns,
         YieldAfterReconnect, YieldAgain, YieldAfterDelivery, At
<1>1. {"MQTT_SUCCESS", "MQTT_RX_BUFFER_TOO_SHORT_ERROR", "MQTT_FAILURE", "NETWORK_SSL_NOTHING_TO_READ",
       "NETWORK_ATTEMPTING_RECONNECT", "NETWORK_DISCONNECTED_ERROR", "NETWORK_RECONNECT_TIMED_OUT_ERROR",
       "NETWORK_RECONNECTED", "MQTT_UNEXPECTED_CLIENT_STATE_ERROR"} \subseteq ResultCodes
  BY DEF ResultCodes
<1>2. \A rc \in ResultCodes : AfterRead(rc) => Alone(stack', messageHandlers)
  BY <1>0, AloneReadOn
<1>3. CASE ReadOther \/ ReadPingresp \/ ReadOversize \/ ReadTorn \/ YieldAfterDelivery
  BY <1>0, <1>1, <1>2, <1>3 DEF ReadOther, ReadPingresp, ReadOversize, ReadTorn, YieldAfterDelivery, subs
<1>4. \A rc \in ResultCodes : \A pc \in {"loop", "alive", "lost", "handler", "check", "exit"} :
        Top.op = "yield" /\ YieldTo(pc, rc) => Alone(stack', messageHandlers)
  BY <1>0, AloneYieldTo
<1>5. CASE ReadNothing \/ ReadError \/ KeepAliveCheck \/ HandleDisconnect \/ HandlerReturns \/ YieldAgain
  BY <1>1, <1>4, <1>5 DEF ReadNothing, ReadError, KeepAliveCheck, HandleDisconnect, HandlerReturns,
       YieldAgain, At, subs
<1>6. CASE YieldAfterReconnect
  BY <1>0, <1>1, <1>4, <1>6 DEF YieldAfterReconnect, BackOff, At, subs
<1> QED BY <1>3, <1>5, <1>6

(* What starts a call inside the innermost one.                            *)
LEMMA AloneInside ==
  ASSUME TypeOK, SlotKept,
         \/ ReadPublish \/ Deliver \/ CallbackReturns \/ HandleReconnect \/ ReconnectConnected
  PROVE  Alone(stack', messageHandlers) /\ messageHandlers' = messageHandlers
<1> DEFINE h == messageHandlers
<1>0. CallsTypeOK /\ stack # <<>> /\ stack \in Seq(Frames) /\ Alone(stack, h) /\ Top \in Frames
  BY TopTyped DEF TypeOK, CallsTypeOK, SlotKept, ReadPublish, Reading, Waiting, Deliver,
         CallbackReturns, HandleReconnect, ReconnectConnected, At
<1>1. ASSUME NEW pc \in {"deliver", "reconnect", "resubscribe", "scan"}, Top.op # "subscribe"
      PROVE  SetTop([Top EXCEPT !.pc = pc]) \in Seq(Frames) /\ Alone(SetTop([Top EXCEPT !.pc = pc]), h)
  <2> DEFINE f == [Top EXCEPT !.pc = pc]
  <2>1. f \in Frames /\ f.op = Top.op
    BY <1>0 DEF Frames
  <2> HIDE DEF f
  <2>2. SetTop(f) \in Seq(Frames) /\ Alone(SetTop(f), h)
    BY <1>0, <1>1, <2>1, TopTyped, AloneReplace
  <2> QED BY <2>2 DEF f
<1>2. CASE ReadPublish
  <2> DEFINE below == IF Top.op = "yield" THEN SetTop([Top EXCEPT !.pc = "deliver"]) ELSE stack
             f == Saving("deliver", "scan", NoTopic, 0, 0, Head(toClient).id)
  <2>1. Head(toClient) \in Packets
    BY <1>2, ChannelsTyped DEF TypeOK, ReadPublish, Arrived
  <2>2. f \in Frames /\ f.op = "deliver"
    BY <2>1, ZeroTyped, SavingTyped DEF TypeOK, CallsTypeOK, Packets, Saving
  <2>3. below \in Seq(Frames) /\ Alone(below, h)
    BY <1>0, <1>1
  <2>4. stack' = Append(below, f) /\ messageHandlers' = h
    BY <1>2 DEF ReadPublish
  <2> HIDE DEF f, below
  <2> QED BY <2>2, <2>3, <2>4, AlonePush
<1>3. CASE Deliver
  <2>1. PICK s \in Slots : stack' = SetTop([Top EXCEPT !.pc = "callback", !.slot = s])
    BY <1>3 DEF Deliver
  <2> DEFINE f == [Top EXCEPT !.pc = "callback", !.slot = s]
  <2>2. f \in Frames /\ f.op = Top.op /\ Top.op = "deliver"
    BY <1>0, <1>3, ZeroTyped DEF Frames, Deliver, At
  <2> HIDE DEF f
  <2>3. Alone(SetTop(f), h)
    BY <1>0, <2>2, AloneReplace
  <2> QED BY <1>3, <2>1, <2>3 DEF f, Deliver, subs
<1>4. CASE CallbackReturns
  BY <1>1, <1>4 DEF CallbackReturns, At, subs
<1>5. CASE HandleReconnect
  <2>1. Top.op = "yield"
    BY <1>5 DEF HandleReconnect, At
  <2>2. {"NETWORK_RECONNECT_TIMED_OUT_ERROR", "NETWORK_ATTEMPTING_RECONNECT",
         "NETWORK_MANUALLY_DISCONNECTED"} \subseteq ResultCodes
    BY DEF ResultCodes
  <2>3. \A rc \in ResultCodes : \A pc \in {"check", "exit"} : YieldTo(pc, rc) => Alone(stack', h)
    BY <1>0, <2>1, AloneYieldTo
  <2>4. ASSUME NEW r, r = Append(SetTop([Top EXCEPT !.pc = "reconnect"]), Frame("reconnect", "connect")),
               StartConnect(r)
        PROVE  Alone(stack', h)
    <3>1. Frame("reconnect", "connect") \in Frames /\ Frame("reconnect", "connect").op = "reconnect"
      BY FrameTyped DEF Ops, Frame
    <3>2. r \in Seq(Frames) /\ Alone(r, h)
      BY <1>1, <2>1, <2>4, <3>1, AlonePush, PushStack
    <3> QED BY <2>4, <3>2, AloneConnect
  <2> QED BY <1>5, <2>2, <2>3, <2>4 DEF HandleReconnect, BackOff, subs
<1>6. CASE ReconnectConnected
  <2>1. Top.op = "reconnect"
    BY <1>6 DEF ReconnectConnected, At
  <2> QED BY <1>1, <1>6, <2>1, AloneResubscribe DEF ReconnectConnected
<1> QED BY <1>2, <1>3, <1>4, <1>5, <1>6

LEMMA SlotStep ==
  ASSUME TypeOK, SlotKept, NoSubscribeInside, [Next]_vars
  PROVE  SlotKept' /\ \A s \in Slots : messageHandlers[s] # NoTopic =>
                       messageHandlers'[s] \in {messageHandlers[s], NoTopic}
<1>0. ASSUME Alone(stack', messageHandlers), messageHandlers' = messageHandlers
      PROVE  SlotKept' /\ \A s \in Slots : messageHandlers[s] # NoTopic =>
                           messageHandlers'[s] \in {messageHandlers[s], NoTopic}
  BY <1>0 DEF SlotKept
<1>1. CASE ApiCall
  BY <1>0, <1>1, AloneCalls DEF ApiCall
<1>2. CASE ReadStep
  BY <1>0, <1>2, AloneReads, AloneMoves, AloneInside DEF ReadStep
<1>3. CASE ClientStep
  BY <1>0, <1>3, AloneReads, AloneMoves, AloneInside DEF ClientStep
<1>4. CASE WaitTimeout \/ CallbackReturns \/ HandlerReturns \/ YieldAgain \/ YieldReturns
  BY <1>0, <1>4, AloneReads, AloneMoves, AloneInside
<1>5. CASE PingTimerExpires \/ DelayTimerExpires \/ World \/ UNCHANGED vars
  BY <1>0, <1>5 DEF PingTimerExpires, DelayTimerExpires, World, clientVars, vars, subs, calls, SlotKept
<1> QED BY <1>1, <1>2, <1>3, <1>4, <1>5 DEF Next

(* A handler slot in use is only ever emptied, never given to another      *)
(* subscription, as long as no callback subscribes: mqtt_subscribe fills   *)
(* after its wait the slot it chose before it.                             *)
THEOREM HandlersKeptCorrect ==
  ASSUME NoSubscribeInside
  PROVE  Spec => HandlersKept
<1>1. Init => SlotKept
  <2>1. Init => Len(stack) = 0
    BY DEF Init
  <2> QED BY <2>1 DEF SlotKept, Alone
<1>2. TypeOK /\ SlotKept /\ [Next]_vars => SlotKept'
  BY SlotStep
<1>3. TypeOK /\ SlotKept /\ [Next]_vars =>
        [\A s \in Slots : messageHandlers[s] # NoTopic =>
           messageHandlers'[s] \in {messageHandlers[s], NoTopic}]_vars
  BY SlotStep
<1> QED BY <1>1, <1>2, <1>3, TypeCorrect, PTL DEF Spec, HandlersKept

----------------------------------------------------------------------------
(* The outstanding ping.  What makes PingAnswerable inductive: on a        *)
(* connection that is up and past CONNECTING the broker has accepted the   *)
(* CONNECT, so that it ignores no PINGREQ, and the state the client is in  *)
(* does not matter.                                                        *)

PingAwaited ==
  \/ \E i \in 1..Len(toBroker) : toBroker[i].type = "PINGREQ"
  \/ \E i \in 1..Len(toClient) : toClient[i].type = "PINGRESP"

Accepted == \A i \in 1..Len(toClient) :
              toClient[i].type = "CONNACK" /\ toClient[i].kind = "plain" => session

PingInv ==
  socket = "up" =>
    /\ Accepted
    /\ clientState # "CONNECTING" => session /\ (isPingOutstanding => PingAwaited)

(* The two ends of a queue.                                                *)
LEMMA TailOf ==
  ASSUME NEW S, NEW q \in Seq(S), q # <<>>
  PROVE  /\ Len(q) \in Nat \ {0} /\ Len(Tail(q)) = Len(q) - 1 /\ Head(q) = q[1]
         /\ \A i \in 1..Len(Tail(q)) : i + 1 \in 1..Len(q) /\ Tail(q)[i] = q[i + 1]
         /\ \A i \in 1..Len(q) : i # 1 => i - 1 \in 1..Len(Tail(q)) /\ Tail(q)[i - 1] = q[i]
  OBVIOUS

LEMMA AppendTo ==
  ASSUME NEW S, NEW q \in Seq(S), NEW p
  PROVE  /\ Len(q) \in Nat /\ Len(Append(q, p)) = Len(q) + 1
         /\ Append(q, p)[Len(q) + 1] = p
         /\ \A i \in 1..Len(q) : i \in 1..Len(Append(q, p)) /\ Append(q, p)[i] = q[i]
  OBVIOUS

(* What happens to the packets: nothing, one is written, one is read, the  *)
(* last with another one written at once.                                  *)
Written == \E p : toBroker' = Append(toBroker, p)

LEMMA AwaitedWritten ==
  ASSUME NetTypeOK, toBroker' = toBroker \/ Written
  PROVE  \A i \in 1..Len(toBroker) : i \in 1..Len(toBroker') /\ toBroker'[i] = toBroker[i]
  <1>1. CASE toBroker' = toBroker
    BY <1>1
  <1>2. CASE Written
    BY <1>2, AppendTo DEF Written, NetTypeOK
  <1> QED BY <1>1, <1>2

LEMMA ReadKeepsPing ==
  ASSUME NetTypeOK, PingInv, toBroker' = toBroker \/ Written,
         \/ toClient' = toClient
         \/ toClient # <<>> /\ toClient' = Tail(toClient)
              /\ (Head(toClient).type = "PINGRESP" => ~isPingOutstanding'),
         socket' = "up" => socket = "up" /\ session' = session,
         isPingOutstanding' => isPingOutstanding,
         socket = "up" /\ clientState = "CONNECTING" /\ clientState' # "CONNECTING"
           => session /\ ~isPingOutstanding'
  PROVE  PingInv'
<1> SUFFICES ASSUME socket' = "up"
             PROVE  /\ Accepted'
                    /\ clientState' # "CONNECTING" =>
                         session' /\ (isPingOutstanding' => PingAwaited')
  BY DEF PingInv
<1>1. socket = "up" /\ session' = session /\ Accepted
  BY DEF PingInv
<1>2. Accepted'
  <2>1. CASE toClient' = toClient
    BY <1>1, <2>1 DEF Accepted
  <2>2. CASE toClient # <<>> /\ toClient' = Tail(toClient)
    BY <1>1, <2>2, TailOf DEF Accepted, NetTypeOK
  <2> QED BY <2>1, <2>2
<1>3. ASSUME PingAwaited, isPingOutstanding'
      PROVE  PingAwaited'
  <2>1. CASE \E i \in 1..Len(toBroker) : toBroker[i].type = "PINGREQ"
    BY <2>1, AwaitedWritten DEF PingAwaited
  <2>2. CASE \E i \in 1..Len(toClient) : toClient[i].type = "PINGRESP"
    <3>1. PICK i \in 1..Len(toClient) : toClient[i].type = "PINGRESP"
      BY <2>2
    <3>2. CASE toClient' = toClient
      BY <3>1, <3>2 DEF PingAwaited
    <3>3. CASE toClient # <<>> /\ toClient' = Tail(toClient) /\ Head(toClient).type # "PINGRESP"
      <4>1. Head(toClient) = toClient[1] /\ i # 1
        BY <3>1, <3>3, TailOf DEF NetTypeOK
      <4>2. i - 1 \in 1..Len(Tail(toClient)) /\ Tail(toClient)[i - 1] = toClient[i]
        BY <3>3, <4>1, TailOf DEF NetTypeOK
      <4> QED BY <3>1, <3>3, <4>2 DEF PingAwaited
    <3> QED BY <1>3, <3>2, <3>3
  <2> QED BY <1>3, <2>1, <2>2 DEF PingAwaited
<1> QED BY <1>1, <1>2, <1>3 DEF PingInv

(* Nothing is said of a connection that is closed or being made.           *)
LEMMA NewPing ==
  ASSUME CloseConnection \/ (\E below : StartConnect(below))
  PROVE  PingInv'
  <1>1. socket' = "up" => clientState' = "CONNECTING" /\ toClient' = <<>>
    BY DEF CloseConnection, StartConnect, OpenConnection, ResetChannels
  <1>2. toClient' = <<>> => Len(toClient') = 0
    OBVIOUS
  <1> QED BY <1>1, <1>2 DEF PingInv, Accepted

LEMMA SentPing ==
  ASSUME NetTypeOK, PingInv, (\E p : Send(p)) \/ UNCHANGED netVars,
         clientState # "CONNECTING" \/ clientState' = clientState,
         isPingOutstanding' = isPingOutstanding
  PROVE  PingInv'
  <1>1. toBroker' = toBroker \/ Written
    BY DEF Send, Written, netVars
  <1>2. toClient' = toClient /\ socket' = socket /\ session' = session
    BY DEF Send, netVars
  <1> QED BY <1>1, <1>2, ReadKeepsPing

LEMMA ReadPing ==
  ASSUME NetTypeOK, PingInv, toClient # <<>>, Consume \/ (\E p : ConsumeAndSend(p)),
         clientState # "CONNECTING" \/ clientState' = clientState,
         Head(toClient).type = "PINGRESP" => ~isPingOutstanding',
         isPingOutstanding' => isPingOutstanding
  PROVE  PingInv'
  <1>1. toBroker' = toBroker \/ Written
    BY DEF Consume, ConsumeAndSend, Written
  <1>2. toClient' = Tail(toClient) /\ socket' = socket /\ session' = session
    BY DEF Consume, ConsumeAndSend
  <1> QED BY <1>1, <1>2, ReadKeepsPing

LEMMA NotAtConnect ==
  ASSUME StackInv, stack = <<>> \/ Top.op # "connect"
  PROVE  clientState # "CONNECTING"
  BY DEF StackInv, StateOnTop, BusyOps, InProgress

LEMMA RequestPings ==
  ASSUME TypeOK, PingInv, clientState # "CONNECTING", isPingOutstanding' = isPingOutstanding,
         (\E op, p, f, below : SendRequest(op, p, f, below)) \/ (\E below : StartResubscribe(below))
  PROVE  PingInv'
  BY SentPing DEF SendRequest, SendFails, StartResubscribe, TypeOK

LEMMA CallPings ==
  ASSUME TypeOK, StackInv, PingInv, ApiCall
  PROVE  PingInv'
<1>0. clientState # "CONNECTING" /\ NetTypeOK
  BY NotAtConnect DEF TypeOK, ApiCall, Connect, AttemptReconnect, Resubscribe, Disconnect,
       SetAutoReconnect, Publish, Subscribe, Unsubscribe, Yield, MayCall, At
<1>1. \A op, rc : Refuse(op, rc) => PingInv'
  BY <1>0, SentPing DEF Refuse, ping
<1>2. CASE Connect \/ AttemptReconnect
  BY <1>1, <1>2, NewPing DEF Connect, AttemptReconnect
<1>3. CASE Resubscribe \/ Publish \/ Subscribe \/ Unsubscribe
  <2>1. \A op : RefuseRequest(op) => PingInv'
    BY <1>1 DEF RefuseRequest
  <2>2. CASE Resubscribe
    BY <1>0, <1>1, <2>2, RequestPings DEF Resubscribe, ping
  <2>3. CASE Publish
    BY <1>0, <1>1, <2>1, <2>3, RequestPings, SentPing DEF Publish, SendFails, ping
  <2>4. CASE Subscribe
    BY <1>0, <1>1, <2>1, <2>4, RequestPings, SentPing DEF Subscribe, ping
  <2>5. CASE Unsubscribe
    BY <1>0, <1>1, <2>1, <2>5, RequestPings DEF Unsubscribe, ping
  <2> QED BY <1>3, <2>2, <2>3, <2>4, <2>5
<1>4. CASE Disconnect
  BY <1>1, <1>4, NewPing DEF Disconnect
<1>5. CASE SetAutoReconnect \/ Yield
  BY <1>0, <1>1, <1>5, SentPing DEF SetAutoReconnect, Yield, ping
<1> QED BY <1>2, <1>3, <1>4, <1>5 DEF ApiCall

LEMMA ReadPings ==
  ASSUME TypeOK, StackInv, PingInv, ReadStep \/ WaitTimeout
  PROVE  PingInv'
<1>0. NetTypeOK
  BY DEF TypeOK
<1>1. CASE ReadConnack
  <2>1. CASE FailConnect("MQTT_CONNACK_REFUSED")
    BY <2>1, NewPing DEF FailConnect
  <2>2. CASE Consume /\ FreshPing /\ toClient # <<>> /\ Head(toClient).type = "CONNACK"
             /\ Head(toClient).kind = "plain"
    <3>1. socket = "up" => session
      BY <1>0, <2>2, TailOf DEF PingInv, Accepted, NetTypeOK
    <3>2. toClient' = Tail(toClient) /\ UNCHANGED <<toBroker, socket, session>> /\ ~isPingOutstanding'
      BY <2>2 DEF Consume, FreshPing
    <3> QED BY <1>0, <2>2, <3>1, <3>2, ReadKeepsPing
  <2> QED BY <1>1, <2>1, <2>2 DEF ReadConnack, Arrived
<1>2. CASE ReadResuback \/ ReadPuback \/ ReadSuback \/ ReadUnsuback
  <2>1. clientState # "CONNECTING"
    BY <1>2, NotAtConnect DEF ReadResuback, ReadPuback, ReadSuback, ReadUnsuback, At
  <2>2. /\ toClient # <<>> /\ Head(toClient).type # "PINGRESP"
        /\ Consume \/ (\E p : ConsumeAndSend(p))
        /\ isPingOutstanding' = isPingOutstanding
    BY <1>2 DEF ReadResuback, ReadPuback, ReadSuback, ReadUnsuback, Arrived, ping
  <2> QED BY <1>0, <2>1, <2>2, ReadPing
<1>3. CASE ReadOther \/ ReadOversize \/ ReadPingresp
  <2>1. /\ toClient # <<>> /\ Consume /\ clientState' = clientState
        /\ Head(toClient).type = "PINGRESP" => ~isPingOutstanding'
        /\ isPingOutstanding' => isPingOutstanding
    BY <1>3 DEF ReadOther, ReadOversize, ReadPingresp, Arrived, FreshPing, ping
  <2> QED BY <1>0, <2>1, ReadPing
<1>4. CASE ReadPublish
  <2>1. /\ toClient # <<>> /\ Consume /\ Head(toClient).type = "PUBLISH" /\ stack # <<>>
        /\ isPingOutstanding' = isPingOutstanding
    BY <1>4 DEF ReadPublish, Arrived, Reading, Waiting, At, ping
  <2>2. Top.op # "connect"
    BY <2>1 DEF StackInv, ConnackFirst, Arrived
  <2>3. clientState # "CONNECTING"
    BY <2>2, NotAtConnect
  <2> QED BY <1>0, <2>1, <2>3, ReadPing
<1>5. CASE ReadNothing \/ ReadError
  BY <1>0, <1>5, SentPing DEF ReadNothing, ReadError, ping
<1>6. CASE ReadTorn
  BY <1>6 DEF ReadTorn, PingInv
<1>7. CASE WaitTimeout
  <2>1. CASE Top.op = "connect"
    BY <1>7, <2>1, NewPing DEF WaitTimeout, FailConnect, Requests
  <2>2. CASE Top.op # "connect"
    BY <1>0, <1>7, <2>2, NotAtConnect, SentPing DEF WaitTimeout, ping
  <2> QED BY <2>1, <2>2
<1> QED BY <1>1, <1>2, <1>3, <1>4, <1>5, <1>6, <1>7 DEF ReadStep

LEMMA YieldPings ==
  ASSUME TypeOK, StackInv, PingInv,
         ClientStep \/ CallbackReturns \/ HandlerReturns \/ YieldAgain \/ YieldReturns
  PROVE  PingInv'
<1>0. NetTypeOK
  BY DEF TypeOK
<1>1. clientState # "CONNECTING"
  BY NotAtConnect DEF ClientStep, ReconnectFailed, ReconnectConnected, ReconnectResubscribed,
       Deliver, EndDelivery, YieldAfterDelivery, KeepAliveCheck, HandleDisconnect, HandleReconnect,
       YieldAfterReconnect, CallbackReturns, HandlerReturns, YieldAgain, YieldReturns, At
<1>2. CASE ReconnectFailed \/ ReconnectResubscribed \/ Deliver \/ EndDelivery \/ YieldAfterDelivery
           \/ YieldAfterReconnect \/ CallbackReturns \/ HandlerReturns \/ YieldAgain \/ YieldReturns
  <2>1. isPingOutstanding' = isPingOutstanding /\ ((\E p : Send(p)) \/ UNCHANGED netVars)
    BY <1>2 DEF ReconnectFailed, ReconnectResubscribed, Deliver, EndDelivery, SendFails,
         YieldAfterDelivery, YieldAfterReconnect, CallbackReturns, HandlerReturns, YieldAgain,
         YieldReturns, ping
  <2> QED BY <1>0, <1>1, <2>1, SentPing
<1>3. CASE ReconnectConnected
  BY <1>1, <1>3, RequestPings DEF ReconnectConnected, ping
<1>4. CASE HandleDisconnect
  BY <1>4, NewPing DEF HandleDisconnect
<1>5. CASE HandleReconnect
  <2>1. \/ UNCHANGED netVars
        \/ \E below : StartConnect(below)
    BY <1>5 DEF HandleReconnect
  <2> QED BY <1>0, <1>1, <1>5, <2>1, NewPing, SentPing DEF HandleReconnect, ping
<1>6. CASE KeepAliveCheck
  <2>1. CASE Send(Simple("PINGREQ")) /\ isPingOutstanding' = TRUE
    <3>1. SUFFICES ASSUME socket' = "up"
                   PROVE  Accepted' /\ session' /\ PingAwaited'
      BY DEF PingInv
    <3>2. socket = "up" /\ UNCHANGED <<session, toClient>> /\ session /\ Accepted
          /\ toBroker' = Append(toBroker, Simple("PINGREQ"))
      BY <1>1, <2>1, <3>1 DEF Send, PingInv
    <3>3. /\ Len(toBroker) + 1 \in 1..Len(toBroker')
          /\ toBroker'[Len(toBroker) + 1].type = "PINGREQ"
      BY <1>0, <3>2, AppendTo DEF NetTypeOK, Simple, Packet
    <3> QED BY <3>2, <3>3 DEF Accepted, PingAwaited
  <2>2. CASE isPingOutstanding' = isPingOutstanding /\ UNCHANGED netVars
    BY <1>0, <1>1, <2>2, SentPing
  <2> QED BY <1>6, <2>1, <2>2 DEF KeepAliveCheck, SendFails, ping
<1> QED BY <1>2, <1>3, <1>4, <1>5, <1>6 DEF ClientStep

(* The broker answers a PINGREQ that reaches it, and drops none of a       *)
(* connection it accepted.                                                 *)
LEMMA WorldPings ==
  ASSUME TypeOK, PingInv, World
  PROVE  PingInv'
<1>0. NetTypeOK /\ UNCHANGED <<clientState, isPingOutstanding>>
  BY DEF TypeOK, World, clientVars, calls, ping
<1>1. CASE BrokerAnswers
  <2> DEFINE p == Head(toBroker)
  <2>1. PICK a \in Answer(p) :
          /\ toClient' = Append(toClient, a)
          /\ session' = (session \/ a.kind = "plain")
    BY <1>1 DEF BrokerAnswers
  <2>2. socket = "up" /\ toBroker # <<>> /\ toBroker' = Tail(toBroker) /\ socket' = "up"
    BY <1>1 DEF BrokerAnswers
  <2>3. Len(toClient') = Len(toClient) + 1 /\ toClient'[Len(toClient) + 1] = a
        /\ Len(toClient) \in Nat /\ \A i \in 1..Len(toClient) : toClient'[i] = toClient[i]
    BY <1>0, <2>1, AppendTo DEF NetTypeOK
  <2>4. (session => session') /\ (a.kind = "plain" => session')
    BY <2>1
  <2>5. Accepted'
    <3> SUFFICES ASSUME NEW i \in 1..Len(toClient'),
                        toClient'[i].type = "CONNACK", toClient'[i].kind = "plain"
                 PROVE  session'
      BY DEF Accepted
    <3>1. i \in 1..Len(toClient) => session
      BY <2>2, <2>3 DEF Accepted, PingInv
    <3>2. i \notin 1..Len(toClient) => a.kind = "plain"
      BY <2>3
    <3> QED BY <2>4, <3>1, <3>2
  <2>6. ASSUME clientState # "CONNECTING", isPingOutstanding
        PROVE  PingAwaited'
    <3>1. PingAwaited
      BY <2>2, <2>6 DEF PingInv
    <3>2. p.type = "PINGREQ" => a.type = "PINGRESP"
      BY DEF Answer, Simple, Packet
    <3>3. CASE \E i \in 1..Len(toClient) : toClient[i].type = "PINGRESP"
      BY <2>3, <3>3 DEF PingAwaited
    <3>4. CASE \E i \in 1..Len(toBroker) : toBroker[i].type = "PINGREQ"
      <4>1. PICK i \in 1..Len(toBroker) : toBroker[i].type = "PINGREQ"
        BY <3>4
      <4>2. CASE i = 1
        <5>1. a.type = "PINGRESP"
          BY <1>0, <2>2, <3>2, <4>1, <4>2, TailOf DEF NetTypeOK
        <5> QED BY <2>3, <5>1 DEF PingAwaited
      <4>3. CASE i # 1
        <5>1. i - 1 \in 1..Len(Tail(toBroker)) /\ Tail(toBroker)[i - 1] = toBroker[i]
          BY <1>0, <2>2, <4>1, <4>3, TailOf DEF NetTypeOK
        <5> QED BY <2>2, <4>1, <5>1 DEF PingAwaited
      <4> QED BY <4>2, <4>3
    <3> QED BY <3>1, <3>3, <3>4 DEF PingAwaited
  <2>7. clientState # "CONNECTING" => session'
    BY <2>2, <2>4 DEF PingInv
  <2> QED BY <1>0, <2>5, <2>6, <2>7 DEF PingInv
<1>2. CASE BrokerIgnores
  <2> DEFINE p == Head(toBroker)
  <2>1. /\ socket = "up" /\ toBroker # <<>> /\ toBroker' = Tail(toBroker)
        /\ Answer(p) = {} \/ (~session /\ p.type # "CONNECT")
        /\ UNCHANGED <<socket, toClient, session>>
    BY <1>2 DEF BrokerIgnores
  <2>2. p.type = "PINGREQ" => Answer(p) # {}
    BY DEF Answer
  <2>3. ASSUME clientState # "CONNECTING", isPingOutstanding
        PROVE  PingAwaited'
    <3>1. session /\ PingAwaited /\ p.type # "PINGREQ" /\ p = toBroker[1]
      BY <1>0, <2>1, <2>2, <2>3, TailOf DEF PingInv, NetTypeOK
    <3>2. CASE \E i \in 1..Len(toClient) : toClient[i].type = "PINGRESP"
      BY <2>1, <3>2 DEF PingAwaited
    <3>3. CASE \E i \in 1..Len(toBroker) : toBroker[i].type = "PINGREQ"
      <4>1. PICK i \in 1..Len(toBroker) : toBroker[i].type = "PINGREQ"
        BY <3>3
      <4>2. i # 1
        BY <3>1, <4>1
      <4>3. i - 1 \in 1..Len(Tail(toBroker)) /\ Tail(toBroker)[i - 1] = toBroker[i]
        BY <1>0, <2>1, <4>1, <4>2, TailOf DEF NetTypeOK
      <4> QED BY <2>1, <4>1, <4>3 DEF PingAwaited
    <3> QED BY <3>1, <3>2, <3>3 DEF PingAwaited
  <2> QED BY <1>0, <2>1, <2>3 DEF PingInv, Accepted
<1>3. CASE BrokerPublishes
  <2>1. PICK a : toClient' = Append(toClient, a)
    BY <1>3 DEF BrokerPublishes
  <2>2. socket = "up" /\ session /\ UNCHANGED <<socket, toBroker, session>>
    BY <1>3 DEF BrokerPublishes
  <2>3. Len(toClient') = Len(toClient) + 1 /\ Len(toClient) \in Nat
        /\ \A i \in 1..Len(toClient) : toClient'[i] = toClient[i]
    BY <1>0, <2>1, AppendTo DEF NetTypeOK
  <2>4. PingAwaited => PingAwaited'
    BY <2>2, <2>3 DEF PingAwaited
  <2> QED BY <1>0, <2>2, <2>4 DEF PingInv, Accepted
<1>4. CASE WifiChanges
  BY <1>0, <1>4 DEF WifiChanges, PingInv, Accepted, PingAwaited
<1>5. CASE LosePeer \/ ResetPeer
  BY <1>5 DEF LosePeer, ResetPeer, PingInv
<1> QED BY <1>1, <1>2, <1>3, <1>4, <1>5 DEF World, Broker, Outages

LEMMA PingStep ==
  ASSUME TypeOK, StackInv, PingInv, [Next]_vars
  PROVE  PingInv'
<1>1. CASE PingTimerExpires \/ DelayTimerExpires \/ UNCHANGED vars
  <2>1. UNCHANGED <<netVars, clientState, isPingOutstanding>>
    BY <1>1 DEF PingTimerExpires, DelayTimerExpires, vars, clientVars, calls, ping
  <2> QED BY <2>1, SentPing DEF TypeOK
<1> QED BY <1>1, CallPings, ReadPings, YieldPings, WorldPings DEF Next

(* Keep alive never takes a healthy link for a dead one: while the client  *)
(* waits for a PINGRESP on a connection that is up, its PINGREQ or the     *)
(* PINGRESP is on the way, whatever callbacks connect and disconnect.      *)
THEOREM PingsAnswered == Spec => []PingAnswerable
<1>1. Init => PingInv
  BY DEF Init, NetInit, PingInv
<1>2. TypeOK /\ StackInv /\ PingInv /\ [Next]_vars => PingInv'
  BY PingStep
<1>3. StackInv /\ PingInv => PingAnswerable
  <2>1. IsConnected => clientState # "CONNECTING"
    BY DEF IsConnected, ConnectedStates
  <2> QED BY <2>1 DEF PingInv, PingAnswerable, PingAwaited
<1> QED BY <1>1, <1>2, <1>3, TypeCorrect, StackCorrect, PTL DEF Spec

----------------------------------------------------------------------------
(* Resubscription.  A handler keeps its topic as long as nobody            *)
(* unsubscribes.  What a subscribe or a resubscription has sent SUBSCRIBE  *)
(* for is asked for as long as the connection is the same one, and it is   *)
(* while every frame above that call will give the state of the one below  *)
(* back: a callback that disconnects and connects leaves a state that      *)
(* makes the call fail.                                                    *)

(* On a connection that is up; nothing is claimed of another one.          *)
Asked ==
  IF socket = "up"
  THEN brokerSubs \cup {t \in Topics : \E i \in 1..Len(toBroker) :
                          toBroker[i].type = "SUBSCRIBE" /\ toBroker[i].topic = t}
  ELSE Topics

Takes(op, c) == op \in BusyOps /\ c = InProgress[op]

(* With c for its state the client is still in call j of s, and all that   *)
(* runs inside of it will give its state back.                             *)
Held(s, j, c) ==
  /\ Takes(s[Len(s)].op, c)
  /\ \A k \in (j + 1)..Len(s) : Takes(s[k - 1].op, s[k].saved)

(* What call f of the client has sent SUBSCRIBE for.  A resubscription     *)
(* does not go on to the handlers that callbacks add meanwhile.            *)
Due(f, h) ==
  IF f.op = "subscribe" THEN {f.topic}
  ELSE IF f.op = "resubscribe"
  THEN {t \in Topics : \E r \in Slots : (r <= f.slot \/ r > f.last) /\ h[r] = t}
  ELSE {}

Claims(s, c, h, asked) == \A j \in 1..Len(s) : Held(s, j, c) => Due(s[j], h) \subseteq asked

Filled(h) == \A r, s \in Slots : r < s /\ h[s] # NoTopic => h[r] # NoTopic

FrameKept(f, h) ==
  /\ f.op # "unsubscribe"
  /\ f.op = "subscribe" => /\ f.slot \in Slots /\ f.topic \in Topics
                           /\ \A r \in Slots : r < f.slot => h[r] # NoTopic
  /\ f.op \in {"connect", "reconnect", "yield"} => Quiet(f.saved)
  /\ f.op = "reconnect" => f.pc \in {"connect", "resubscribe"}

(* What a reconnection runs, and what it does with its result.             *)
Inside(f) == IF f.pc = "connect" THEN "connect" ELSE "resubscribe"

Resolved(s, r, h, asked) ==
  s # <<>> /\ s[Len(s)].op = "reconnect" /\ s[Len(s)].pc = "resubscribe" =>
    /\ r.rc # "NETWORK_RECONNECTED"
    /\ r.rc = "MQTT_SUCCESS" => {h[i] : i \in Slots} \ {NoTopic} \subseteq asked

CallsKept(s, h) ==
  /\ \A i \in 1..Len(s) : FrameKept(s[i], h)
  /\ \A i \in 1..(Len(s) - 1) : s[i].op = "reconnect" => s[i + 1].op = Inside(s[i])

Subscribed(s, c, r, h, asked) ==
  CallsKept(s, h) /\ Claims(s, c, h, asked) /\ Resolved(s, r, h, asked)

(* The broker takes a SUBSCRIBE for what it is.                            *)
Orderly ==
  \A i \in 1..Len(toBroker) :
    /\ toBroker[i].type # "UNSUBSCRIBE"
    /\ toBroker[i].type = "SUBSCRIBE" /\ socket = "up" => session

SubscribedInv ==
  /\ Filled(messageHandlers)
  /\ Subscribed(stack, clientState, ret, messageHandlers, Asked)
  /\ Orderly

NothingLost == "unsubscribe" \notin AppOps \cup CallbackOps \cup HandlerOps /\ "SUBSCRIBE" \notin MayRefuse

(* A frame is pushed.                                                      *)
LEMMA SubscribedPush ==
  ASSUME NEW s \in Seq(Frames), NEW f \in Frames, NEW c, NEW c1, NEW r, NEW r1, NEW h, NEW asked,
         Subscribed(s, c, r, h, asked), FrameKept(f, h), f.saved = c \/ Quiet(f.saved),
         s # <<>> /\ s[Len(s)].op = "reconnect" => f.op = Inside(s[Len(s)]),
         Takes(f.op, c1) => Due(f, h) \subseteq asked,
         f.op = "reconnect" => f.pc = "connect"
  PROVE  Subscribed(Append(s, f), c1, r1, h, asked)
  <1> DEFINE t == Append(s, f)
             n == Len(s)
  <1>1. n \in Nat /\ t # <<>> /\ Len(t) = n + 1 /\ t[n + 1] = f /\ \A i \in 1..n : t[i] = s[i]
    BY PushStack
  <1>2. n # 0 => s # <<>>
    OBVIOUS
  <1> HIDE DEF t, n
  <1>3. CallsKept(t, h)
    <2>1. ASSUME NEW i \in 1..Len(t)
          PROVE  FrameKept(t[i], h)
      BY <1>1, <2>1 DEF Subscribed, CallsKept, n
    <2>2. ASSUME NEW i \in 1..(Len(t) - 1), t[i].op = "reconnect"
          PROVE  t[i + 1].op = Inside(t[i])
      <3>1. CASE i = n
        BY <1>1, <1>2, <2>2, <3>1 DEF n
      <3>2. CASE i # n
        <4>1. i \in 1..n /\ i + 1 \in 1..n /\ i \in 1..(n - 1)
          BY <1>1, <3>2
        <4> QED BY <1>1, <2>2, <4>1 DEF Subscribed, CallsKept, n
      <3> QED BY <3>1, <3>2
    <2> QED BY <2>1, <2>2 DEF CallsKept
  <1>4. Claims(t, c1, h, asked)
    <2> SUFFICES ASSUME NEW j \in 1..Len(t), Held(t, j, c1)
                 PROVE  Due(t[j], h) \subseteq asked
      BY DEF Claims
    <2>1. CASE j = n + 1
      BY <1>1, <2>1 DEF Held
    <2>2. CASE j \in 1..n
      <3>1. Takes(s[n].op, f.saved)
        <4>1. n + 1 \in (j + 1)..Len(t) /\ n \in 1..n /\ (n + 1) - 1 = n
          BY <1>1, <2>2
        <4> QED BY <1>1, <4>1 DEF Held
      <3>2. f.saved = c
        BY <3>1 DEF Takes, Quiet
      <3>3. \A k \in (j + 1)..n : Takes(s[k - 1].op, s[k].saved)
        <4> SUFFICES ASSUME NEW k \in (j + 1)..n
                     PROVE  Takes(s[k - 1].op, s[k].saved)
          OBVIOUS
        <4>1. k \in (j + 1)..Len(t) /\ k \in 1..n /\ k - 1 \in 1..n
          BY <1>1, <2>2
        <4>2. Takes(t[k - 1].op, t[k].saved)
          BY <4>1 DEF Held
        <4> QED BY <1>1, <4>1, <4>2
      <3>4. Held(s, j, c)
        BY <3>1, <3>2, <3>3 DEF Held, n
      <3> QED BY <1>1, <2>2, <3>4 DEF Subscribed, Claims, n
    <2> QED BY <1>1, <2>1, <2>2
  <1>5. Resolved(t, r1, h, asked)
    BY <1>1 DEF Resolved
  <1> QED BY <1>3, <1>4, <1>5 DEF Subscribed, t

(* The innermost frame is popped, and its state given back if it is still  *)
(* there.                                                                  *)
LEMMA SubscribedPop ==
  ASSUME NEW s \in Seq(Frames), s # <<>>, NEW p, p = SubSeq(s, 1, Len(s) - 1),
         NEW c, NEW c1, NEW r, NEW r1, NEW h, NEW asked, Subscribed(s, c, r, h, asked),
         (Takes(s[Len(s)].op, c) /\ c1 = s[Len(s)].saved) \/ Quiet(c1),
         s[Len(s)].op = "resubscribe" =>
           /\ r1.rc # "NETWORK_RECONNECTED"
           /\ r1.rc = "MQTT_SUCCESS" => {h[i] : i \in Slots} \ {NoTopic} \subseteq asked
  PROVE  Subscribed(p, c1, r1, h, asked)
  <1> DEFINE n == Len(s)
  <1>0. n \in Nat \ {0}
    BY TopFrame
  <1>1. n \in Nat \ {0} /\ p \in Seq(Frames) /\ Len(p) = n - 1 /\ \A i \in 1..(n - 1) : p[i] = s[i]
    BY <1>0, PopStack
  <1>2. p # <<>> => n - 1 \in 1..(n - 1) /\ n - 1 \in 1..(Len(s) - 1)
    BY <1>1, EmptyStack
  <1> HIDE DEF n
  <1>3. CallsKept(p, h)
    <2>1. ASSUME NEW i \in 1..Len(p)
          PROVE  FrameKept(p[i], h)
      <3>1. i \in 1..(n - 1) /\ i \in 1..n
        BY <1>1
      <3> QED BY <1>1, <3>1 DEF Subscribed, CallsKept, n
    <2>2. ASSUME NEW i \in 1..(Len(p) - 1), p[i].op = "reconnect"
          PROVE  p[i + 1].op = Inside(p[i])
      <3>1. i \in 1..(n - 1) /\ i + 1 \in 1..(n - 1)
        BY <1>1
      <3> QED BY <1>1, <2>2, <3>1 DEF Subscribed, CallsKept, n
    <2> QED BY <2>1, <2>2 DEF CallsKept
  <1>4. Claims(p, c1, h, asked)
    <2> SUFFICES ASSUME NEW j \in 1..Len(p), Held(p, j, c1)
                 PROVE  Due(p[j], h) \subseteq asked
      BY DEF Claims
    <2>0. j \in 1..(n - 1) /\ n - 1 \in 1..(n - 1) /\ j \in 1..n
      BY <1>1
    <2>1. Takes(s[n - 1].op, c1)
      BY <1>1, <2>0 DEF Held
    <2>2. Takes(s[n].op, c) /\ c1 = s[n].saved
      BY <2>1 DEF Takes, Quiet, n
    <2>3. \A k \in (j + 1)..n : Takes(s[k - 1].op, s[k].saved)
      <3> SUFFICES ASSUME NEW k \in (j + 1)..n
                   PROVE  Takes(s[k - 1].op, s[k].saved)
        OBVIOUS
      <3>1. CASE k = n
        BY <2>1, <2>2, <3>1
      <3>2. CASE k # n
        <4>1. k \in (j + 1)..Len(p) /\ k \in 1..(n - 1) /\ k - 1 \in 1..(n - 1)
          BY <1>1, <2>0, <3>2
        <4>2. Takes(p[k - 1].op, p[k].saved)
          BY <4>1 DEF Held
        <4> QED BY <1>1, <4>1, <4>2
      <3> QED BY <3>1, <3>2
    <2>4. Held(s, j, c)
      BY <2>2, <2>3 DEF Held, n
    <2> QED BY <1>1, <2>0, <2>4 DEF Subscribed, Claims, n
  <1>5. Resolved(p, r1, h, asked)
    <2> SUFFICES ASSUME p # <<>>, p[Len(p)].op = "reconnect", p[Len(p)].pc = "resubscribe"
                 PROVE  s[n].op = "resubscribe"
      BY DEF Resolved, n
    <2>1. s[n - 1].op = "reconnect" /\ s[n - 1].pc = "resubscribe"
      BY <1>1, <1>2
    <2>2. s[(n - 1) + 1].op = Inside(s[n - 1])
      BY <1>2, <2>1 DEF Subscribed, CallsKept
    <2>3. (n - 1) + 1 = n
      BY <1>1
    <2> QED BY <2>1, <2>2, <2>3 DEF Inside
  <1> QED BY <1>3, <1>4, <1>5 DEF Subscribed

(* The innermost frame is replaced.                                        *)
LEMMA SubscribedReplace ==
  ASSUME NEW s \in Seq(Frames), s # <<>>, NEW f \in Frames, NEW t, t = [s EXCEPT ![Len(s)] = f],
         NEW c, NEW c1, NEW r, NEW r1, NEW h, NEW asked, Subscribed(s, c, r, h, asked),
         f.op = s[Len(s)].op, f.saved = s[Len(s)].saved, FrameKept(f, h),
         c1 = c \/ Quiet(c1) \/ Quiet(f.saved),
         Takes(f.op, c1) => Due(f, h) \subseteq asked,
         f.op = "reconnect" /\ f.pc = "resubscribe" =>
           /\ r1.rc # "NETWORK_RECONNECTED"
           /\ r1.rc = "MQTT_SUCCESS" => {h[i] : i \in Slots} \ {NoTopic} \subseteq asked
  PROVE  Subscribed(t, c1, r1, h, asked)
  <1> DEFINE n == Len(s)
  <1>1. n \in Nat \ {0} /\ t # <<>> /\ Len(t) = n /\ t[n] = f /\ \A i \in 1..(n - 1) : t[i] = s[i]
    BY ReplaceTop, TopFrame
  <1> HIDE DEF n
  <1>2. t[n].op = s[n].op /\ t[n].saved = s[n].saved
    BY <1>1 DEF n
  <1>3. CallsKept(t, h)
    <2>1. ASSUME NEW i \in 1..Len(t)
          PROVE  FrameKept(t[i], h)
      <3>1. i = n \/ (i \in 1..(n - 1) /\ i \in 1..Len(s))
        <4>1. i \in 1..n /\ Len(s) = n
          BY <1>1, <2>1 DEF n
        <4> QED BY <1>1, <4>1
      <3> QED BY <1>1, <3>1 DEF Subscribed, CallsKept
    <2>2. ASSUME NEW i \in 1..(Len(t) - 1), t[i].op = "reconnect"
          PROVE  t[i + 1].op = Inside(t[i])
      <3>1. i \in 1..(n - 1) /\ (i + 1 = n \/ i + 1 \in 1..(n - 1))
        BY <1>1
      <3>4. i \in 1..(Len(s) - 1)
        BY <3>1 DEF n
      <3>2. t[i + 1].op = s[i + 1].op
        BY <1>1, <1>2, <3>1
      <3> QED BY <1>1, <2>2, <3>1, <3>2, <3>4 DEF Subscribed, CallsKept
    <2> QED BY <2>1, <2>2 DEF CallsKept
  <1>4. Claims(t, c1, h, asked)
    <2> SUFFICES ASSUME NEW j \in 1..Len(t), Held(t, j, c1)
                 PROVE  Due(t[j], h) \subseteq asked
      BY DEF Claims
    <2>1. CASE j = n
      BY <1>1, <2>1 DEF Held
    <2>2. CASE j \in 1..(n - 1)
      <3>0. n \in (j + 1)..Len(t) /\ n - 1 \in 1..(n - 1)
        BY <1>1, <2>2
      <3>1. c1 = c
        BY <1>1, <1>2, <3>0 DEF Held, Takes, Quiet
      <3>2. \A k \in (j + 1)..n : Takes(s[k - 1].op, s[k].saved)
        <4> SUFFICES ASSUME NEW k \in (j + 1)..n
                     PROVE  Takes(s[k - 1].op, s[k].saved)
          OBVIOUS
        <4>1. k \in (j + 1)..Len(t) /\ (k = n \/ k \in 1..(n - 1)) /\ k - 1 \in 1..(n - 1)
          BY <1>1, <2>2
        <4>2. Takes(t[k - 1].op, t[k].saved)
          BY <4>1 DEF Held
        <4> QED BY <1>1, <1>2, <4>1, <4>2
      <3>3. Held(s, j, c)
        BY <1>1, <1>2, <3>1, <3>2 DEF Held, n
      <3>4. j \in 1..Len(s)
        BY <1>1, <2>2 DEF n
      <3> QED BY <1>1, <2>2, <3>3, <3>4 DEF Subscribed, Claims
    <2> QED BY <1>1, <2>1, <2>2
  <1>5. Resolved(t, r1, h, asked)
    BY <1>1 DEF Resolved
  <1> QED BY <1>3, <1>4, <1>5 DEF Subscribed

(* The stack stays as it is.                                               *)
LEMMA SubscribedStays ==
  ASSUME NEW s, NEW c, NEW c1, NEW r, NEW r1, NEW h, NEW asked, Subscribed(s, c, r, h, asked),
         NEW more, asked \subseteq more, c1 = c \/ Quiet(c1),
         r1 = r \/ s = <<>> \/ s[Len(s)].op # "reconnect" \/ r1.rc = "MQTT_FAILURE"
  PROVE  Subscribed(s, c1, r1, h, more)
  <1>1. Claims(s, c1, h, more)
    <2>1. CASE c1 = c
      BY <2>1 DEF Subscribed, Claims
    <2>2. CASE Quiet(c1)
      BY <2>2 DEF Claims, Held, Takes, Quiet
    <2> QED BY <2>1, <2>2
  <1>2. Resolved(s, r1, h, more)
    BY DEF Subscribed, Resolved
  <1> QED BY <1>1, <1>2 DEF Subscribed

(* A new connection, or a state that no call takes: nothing is claimed.    *)
LEMMA SubscribedAnew ==
  ASSUME NEW s, NEW c, NEW c1, NEW r, NEW r1, NEW h, NEW asked, Subscribed(s, c, r, h, asked),
         NEW other, Quiet(c1),
         s # <<>> /\ s[Len(s)].op = "reconnect" => s[Len(s)].pc # "resubscribe"
  PROVE  Subscribed(s, c1, r1, h, other)
  <1>1. Claims(s, c1, h, other)
    BY DEF Claims, Held, Takes, Quiet
  <1>2. Resolved(s, r1, h, other)
    BY DEF Resolved
  <1> QED BY <1>1, <1>2 DEF Subscribed

----------------------------------------------------------------------------
(* What has been asked for while packets travel.                           *)

AskedKept == Asked \subseteq Asked' /\ Orderly'

LEMMA AskedTopics ==
  ASSUME NetTypeOK
  PROVE  Asked \subseteq Topics
  BY DEF Asked, NetTypeOK

LEMMA AskedSent ==
  ASSUME NetTypeOK, Orderly, NEW p, p.type # "UNSUBSCRIBE",
         p.type = "SUBSCRIBE" /\ socket = "up" => session,
         Send(p) \/ SendFails \/ UNCHANGED netVars \/ Consume \/ ConsumeAndSend(p)
  PROVE  /\ AskedKept
         /\ (Send(p) \/ ConsumeAndSend(p)) /\ p.type = "SUBSCRIBE" /\ p.topic \in Topics => p.topic \in Asked'
  <1>1. UNCHANGED <<socket, session, brokerSubs>>
    BY DEF Send, SendFails, netVars, Consume, ConsumeAndSend
  <1>2. CASE toBroker' = toBroker /\ (socket = "up" => ~Send(p) /\ ~ConsumeAndSend(p))
    BY <1>1, <1>2 DEF AskedKept, Asked, Orderly
  <1>3. CASE toBroker' = Append(toBroker, p) /\ socket = "up"
    <2>1. /\ Len(toBroker) \in Nat /\ Len(toBroker') = Len(toBroker) + 1
          /\ toBroker'[Len(toBroker) + 1] = p
          /\ \A i \in 1..Len(toBroker) : i \in 1..Len(toBroker') /\ toBroker'[i] = toBroker[i]
      BY <1>3, AppendTo DEF NetTypeOK
    <2>2. Orderly'
      <3> SUFFICES ASSUME NEW i \in 1..Len(toBroker')
                   PROVE  /\ toBroker'[i].type # "UNSUBSCRIBE"
                          /\ toBroker'[i].type = "SUBSCRIBE" /\ socket' = "up" => session'
        BY DEF Orderly
      <3>1. CASE i \in 1..Len(toBroker)
        BY <1>1, <2>1, <3>1 DEF Orderly
      <3>2. CASE i = Len(toBroker) + 1
        BY <1>1, <2>1, <3>2
      <3> QED BY <2>1, <3>1, <3>2
    <2>3. Len(toBroker) + 1 \in 1..Len(toBroker')
      BY <2>1
    <2>4. Asked \subseteq Asked'
      BY <1>1, <1>3, <2>1 DEF Asked
    <2>5. p.type = "SUBSCRIBE" /\ p.topic \in Topics => p.topic \in Asked'
      BY <1>1, <1>3, <2>1, <2>3 DEF Asked
    <2> QED BY <2>2, <2>4, <2>5 DEF AskedKept
  <1>4. CASE toBroker' = toBroker /\ socket # "up"
    BY <1>1, <1>4 DEF AskedKept, Asked, Orderly
  <1>5. \/ toBroker' = toBroker /\ (~Send(p) /\ ~ConsumeAndSend(p))
        \/ toBroker' = Append(toBroker, p) /\ socket = "up"
        \/ toBroker' = toBroker /\ socket # "up"
    BY DEF Send, SendFails, netVars, Consume, ConsumeAndSend
  <1> QED BY <1>2, <1>3, <1>4, <1>5

LEMMA AskedStill ==
  ASSUME NetTypeOK, Orderly, SendFails \/ UNCHANGED netVars \/ Consume
  PROVE  AskedKept
  <1>1. Simple("PINGREQ").type # "UNSUBSCRIBE" /\ Simple("PINGREQ").type # "SUBSCRIBE"
    BY DEF Simple, Packet
  <1> DEFINE p == Simple("PINGREQ")
  <1> HIDE DEF p
  <1>2. p.type # "UNSUBSCRIBE" /\ p.type # "SUBSCRIBE"
    BY <1>1 DEF p
  <1> QED BY <1>2, AskedSent

LEMMA AskedClosed ==
  ASSUME NetTypeOK, CloseConnection
  PROVE  AskedKept
  <1>1. socket' # "up" /\ Len(toBroker') = 0
    BY DEF CloseConnection, ResetChannels
  <1> QED BY <1>1, AskedTopics DEF AskedKept, Asked, Orderly

LEMMA AskedOpened ==
  ASSUME OpenConnection
  PROVE  Orderly'
  <1>1. Len(toBroker') = 1 /\ toBroker'[1] = Simple("CONNECT")
    BY DEF OpenConnection, ResetChannels
  <1>2. Simple("CONNECT").type = "CONNECT"
    BY DEF Simple, Packet
  <1> QED BY <1>1, <1>2 DEF Orderly

(* The broker grants what reaches it, in an accepted session, and          *)
(* unsubscribes from nothing.                                              *)
LEMMA AskedAnswered ==
  ASSUME NetTypeOK, Orderly, NothingLost, BrokerAnswers \/ BrokerIgnores
  PROVE  AskedKept
<1> DEFINE p == Head(toBroker)
<1>0. socket = "up" /\ socket' = "up" /\ toBroker # <<>> /\ toBroker' = Tail(toBroker)
  BY DEF BrokerAnswers, BrokerIgnores
<1>1. p = toBroker[1] /\ 1 \in 1..Len(toBroker)
      /\ (\A i \in 1..Len(toBroker') : i + 1 \in 1..Len(toBroker) /\ toBroker'[i] = toBroker[i + 1])
      /\ \A i \in 1..Len(toBroker) : i # 1 => i - 1 \in 1..Len(toBroker') /\ toBroker'[i - 1] = toBroker[i]
  BY <1>0, TailOf DEF NetTypeOK
<1> HIDE DEF p
<1>2. p.type # "UNSUBSCRIBE" /\ (p.type = "SUBSCRIBE" => session)
  BY <1>0, <1>1 DEF Orderly
<1>3. session => session'
  BY DEF BrokerAnswers, BrokerIgnores
<1>4. Orderly'
  BY <1>0, <1>1, <1>3 DEF Orderly
<1>5. brokerSubs \subseteq brokerSubs' /\ (p.type = "SUBSCRIBE" /\ p.topic \in Topics => p.topic \in brokerSubs')
  <2>1. CASE BrokerAnswers
    <3>1. PICK a \in Answer(p) :
            brokerSubs' = CASE a.type = "SUBACK" /\ a.kind = "plain" ->
                                 brokerSubs \cup ({p.topic} \cap Topics)
                            [] a.type = "UNSUBACK" -> brokerSubs \ {p.topic}
                            [] OTHER -> brokerSubs
      BY <2>1 DEF BrokerAnswers, p
    <3>2. a.type # "UNSUBACK"
      BY <1>2 DEF Answer, Simple, Packet
    <3>3. p.type = "SUBSCRIBE" => a.type = "SUBACK" /\ a.kind = "plain"
      BY DEF Answer, Packet, NothingLost
    <3> QED BY <3>1, <3>2, <3>3
  <2>2. CASE BrokerIgnores
    <3>1. p.type = "SUBSCRIBE" => Answer(p) # {}
      BY DEF Answer
    <3>2. p.type # "SUBSCRIBE"
      BY <1>2, <2>2, <3>1 DEF BrokerIgnores, p
    <3> QED BY <2>2, <3>2 DEF BrokerIgnores
  <2> QED BY <2>1, <2>2
<1>6. ASSUME NEW t \in Asked
      PROVE  t \in Asked'
  <2>1. CASE t \in brokerSubs
    BY <1>0, <1>5, <2>1 DEF Asked
  <2>2. CASE t \in Topics /\ \E i \in 1..Len(toBroker) : toBroker[i].type = "SUBSCRIBE" /\ toBroker[i].topic = t
    <3>1. PICK i \in 1..Len(toBroker) : toBroker[i].type = "SUBSCRIBE" /\ toBroker[i].topic = t
      BY <2>2
    <3>2. CASE i = 1
      BY <1>0, <1>1, <1>5, <2>2, <3>1, <3>2 DEF Asked
    <3>3. CASE i # 1
      <4>1. i - 1 \in 1..Len(toBroker') /\ toBroker'[i - 1].type = "SUBSCRIBE" /\ toBroker'[i - 1].topic = t
        BY <1>1, <3>1, <3>3
      <4> QED BY <1>0, <2>2, <4>1 DEF Asked
    <3> QED BY <3>2, <3>3
  <2> QED BY <1>0, <1>6, <2>1, <2>2 DEF Asked
<1> QED BY <1>4, <1>6 DEF AskedKept

LEMMA AskedInWorld ==
  ASSUME NetTypeOK, Orderly, NothingLost, Broker \/ Outages
  PROVE  AskedKept
<1>1. CASE BrokerAnswers \/ BrokerIgnores
  BY <1>1, AskedAnswered
<1>2. CASE BrokerPublishes \/ WifiChanges
  <2>1. UNCHANGED <<socket, toBroker, session, brokerSubs>>
    BY <1>2 DEF BrokerPublishes, WifiChanges
  <2> QED BY <2>1 DEF AskedKept, Asked, Orderly
<1>3. CASE LosePeer \/ ResetPeer
  <2>1. socket' # "up" /\ toBroker' = <<>>
    BY <1>3 DEF LosePeer, ResetPeer, ResetChannels
  <2>2. Len(toBroker') = 0
    BY <2>1
  <2> QED BY <2>1, <2>2, AskedTopics DEF AskedKept, Asked, Orderly
<1> QED BY <1>1, <1>2, <1>3 DEF Broker, Outages

----------------------------------------------------------------------------
(* The steps of the client.                                                *)

(* The innermost call has sent SUBSCRIBE for all that it claims.           *)
LEMMA TopAsked ==
  ASSUME CallsTypeOK, stack # <<>>, SubscribedInv, Takes(Top.op, clientState)
  PROVE  Due(Top, messageHandlers) \subseteq Asked
  <1> DEFINE n == Len(stack)
  <1>1. n \in Nat \ {0} /\ n \in 1..n
    BY TopFrame DEF CallsTypeOK
  <1>2. Held(stack, n, clientState)
    <2>1. \A k \in (n + 1)..n : FALSE
      BY <1>1
    <2> HIDE DEF n
    <2>2. Takes(stack[n].op, clientState)
      BY DEF Top, n
    <2> QED BY <2>1, <2>2 DEF Held, n
  <1> QED BY <1>1, <1>2 DEF SubscribedInv, Subscribed, Claims, Top

LEMMA TopKept ==
  ASSUME CallsTypeOK, stack # <<>>, SubscribedInv
  PROVE  FrameKept(Top, messageHandlers)
  <1>1. Len(stack) \in 1..Len(stack)
    BY TopFrame DEF CallsTypeOK
  <1> QED BY <1>1 DEF SubscribedInv, Subscribed, CallsKept, Top

(* A step that leaves the stack alone.                                     *)
LEMMA StackLeft ==
  ASSUME SubscribedInv, AskedKept, UNCHANGED <<stack, messageHandlers>>,
         clientState' = clientState \/ Quiet(clientState'),
         ret' = ret \/ stack = <<>> \/ Top.op # "reconnect"
  PROVE  SubscribedInv'
  <1>1. Subscribed(stack, clientState', ret', messageHandlers, Asked')
    BY SubscribedStays DEF SubscribedInv, AskedKept, Top
  <1> QED BY <1>1 DEF SubscribedInv, AskedKept

(* One that moves the innermost call along.                                *)
LEMMA TopMoved ==
  ASSUME CallsTypeOK, stack # <<>>, SubscribedInv, AskedKept, UNCHANGED messageHandlers,
         NEW f \in Frames, f.op = Top.op, f.saved = Top.saved, stack' = SetTop(f),
         FrameKept(f, messageHandlers),
         clientState' = clientState \/ Quiet(clientState') \/ Quiet(f.saved),
         Takes(f.op, clientState') => Due(f, messageHandlers) \subseteq Asked',
         f.op # "reconnect"
  PROVE  SubscribedInv'
  <1>1. Subscribed(stack, clientState, ret, messageHandlers, Asked')
    BY SubscribedStays DEF SubscribedInv, AskedKept
  <1>2. stack' = [stack EXCEPT ![Len(stack)] = f] /\ stack \in Seq(Frames)
        /\ f.op = stack[Len(stack)].op /\ f.saved = stack[Len(stack)].saved
    BY DEF SetTop, Top, CallsTypeOK
  <1>3. Subscribed(stack', clientState', ret', messageHandlers, Asked')
    BY <1>1, <1>2, SubscribedReplace
  <1> QED BY <1>3 DEF SubscribedInv, AskedKept

LEMMA YieldMoved ==
  ASSUME CallsTypeOK, stack # <<>>, Top.op = "yield", SubscribedInv, AskedKept,
         UNCHANGED messageHandlers, NEW rc \in ResultCodes,
         NEW pc \in {"loop", "alive", "lost", "handler", "check", "exit"}, YieldTo(pc, rc)
  PROVE  SubscribedInv'
  <1> DEFINE f == [Top EXCEPT !.pc = pc, !.rc = rc]
  <1>1. Top \in Frames /\ FrameKept(Top, messageHandlers)
    BY TopTyped, TopKept
  <1>2. f \in Frames /\ f.op = "yield" /\ f.saved = Top.saved /\ stack' = SetTop(f)
    BY <1>1 DEF Frames, YieldTo
  <1> HIDE DEF f
  <1>3. Quiet(f.saved) /\ FrameKept(f, messageHandlers) /\ Due(f, messageHandlers) = {}
    BY <1>1, <1>2 DEF FrameKept, Due
  <1> QED BY <1>2, <1>3, TopMoved

LEMMA ReadMoved ==
  ASSUME CallsTypeOK, stack # <<>>, SubscribedInv, AskedKept, UNCHANGED <<messageHandlers, clientState>>,
         NEW rc \in ResultCodes, AfterRead(rc), ret' = ret \/ Top.op # "reconnect"
  PROVE  SubscribedInv'
  BY YieldMoved, StackLeft DEF AfterRead

(* One that ends the innermost call.                                       *)
LEMMA TopEnded ==
  ASSUME CallsTypeOK, stack # <<>>, SubscribedInv, AskedKept, UNCHANGED messageHandlers, stack' = Pop,
         (Takes(Top.op, clientState) /\ clientState' = Top.saved) \/ Quiet(clientState'),
         Top.op = "resubscribe" =>
           /\ ret'.rc # "NETWORK_RECONNECTED"
           /\ ret'.rc = "MQTT_SUCCESS" => {messageHandlers[i] : i \in Slots} \ {NoTopic} \subseteq Asked'
  PROVE  SubscribedInv'
  <1>1. Subscribed(stack, clientState, ret, messageHandlers, Asked')
    BY SubscribedStays DEF SubscribedInv, AskedKept
  <1>2. stack' = SubSeq(stack, 1, Len(stack) - 1) /\ stack \in Seq(Frames)
    BY DEF Pop, CallsTypeOK
  <1>3. Subscribed(stack', clientState', ret', messageHandlers, Asked')
    BY <1>1, <1>2, SubscribedPop DEF Top
  <1> QED BY <1>3 DEF SubscribedInv, AskedKept

LEMMA NotTaken ==
  ASSUME StackInv, stack = <<>> \/ ~Takes(Top.op, clientState)
  PROVE  Quiet(clientState)
  BY DEF StackInv, StateOnTop, Quiet, Takes

LEMMA StateEnds ==
  ASSUME StackInv, stack # <<>>, Top.op \in BusyOps, Cas(InProgress[Top.op], Top.saved)
  PROVE  (Takes(Top.op, clientState) /\ clientState' = Top.saved) \/ Quiet(clientState')
  BY NotTaken DEF Cas, Takes

(* A request or a delivery that ends.                                      *)
LEMMA RequestEnded ==
  ASSUME TypeOK, StackInv, stack # <<>>, Top.op \in Requests, SubscribedInv, AskedKept,
         UNCHANGED messageHandlers, NEW rc, EndRequest(rc),
         rc \in {"MQTT_SUCCESS", "MQTT_FAILURE", "MQTT_REQUEST_TIMEOUT_ERROR"},
         Top.op = "resubscribe" /\ rc = "MQTT_SUCCESS" => Top.slot = Top.last
  PROVE  SubscribedInv'
  <1>0. CallsTypeOK /\ Top.op \in BusyOps /\ stack' = Pop /\ Cas(InProgress[Top.op], Top.saved)
    BY DEF TypeOK, BusyOps, EndRequest
  <1>1. (Takes(Top.op, clientState) /\ clientState' = Top.saved) \/ Quiet(clientState')
    BY <1>0, StateEnds
  <1>2. ret'.rc = IF rc = "MQTT_SUCCESS" THEN CasRc(InProgress[Top.op]) ELSE rc
    BY DEF EndRequest, Result
  <1>3. ret'.rc # "NETWORK_RECONNECTED"
    BY <1>2 DEF CasRc
  <1>4. ASSUME Top.op = "resubscribe", ret'.rc = "MQTT_SUCCESS"
        PROVE  {messageHandlers[i] : i \in Slots} \ {NoTopic} \subseteq Asked'
    <2>1. rc = "MQTT_SUCCESS" /\ Takes(Top.op, clientState) /\ Top.slot = Top.last
      BY <1>0, <1>2, <1>4 DEF CasRc, Takes
    <2>2. Due(Top, messageHandlers) \subseteq Asked
      BY <1>0, <2>1, TopAsked
    <2>3. Top.slot \in Nat /\ \A i \in Slots : i \in Nat
      BY <1>0, TopTyped, ClientAssumption DEF Frames, Slots, ClientAssumption
    <2>4. ASSUME NEW i \in Slots, messageHandlers[i] # NoTopic
          PROVE  messageHandlers[i] \in Due(Top, messageHandlers)
      <3>1. messageHandlers[i] \in Topics
        BY <2>4 DEF TypeOK, DataTypeOK
      <3>2. i <= Top.slot \/ i > Top.last
        BY <2>1, <2>3
      <3> QED BY <1>4, <3>1, <3>2 DEF Due
    <2> QED BY <2>2, <2>4 DEF AskedKept
  <1> QED BY <1>0, <1>1, <1>3, <1>4, TopEnded

(* A request that starts, on top of below.                                 *)
LEMMA RequestSubscribed ==
  ASSUME TypeOK, Filled(messageHandlers), Orderly, NEW below \in Seq(Frames), NEW r,
         Subscribed(below, clientState, r, messageHandlers, Asked),
         NEW op, NEW p, NEW f \in Frames, f.op = op, op \in Requests, f.saved = clientState,
         FrameKept(f, messageHandlers),
         below # <<>> /\ below[Len(below)].op = "reconnect" => op = Inside(below[Len(below)]),
         p.type # "UNSUBSCRIBE", p.type = "SUBSCRIBE" /\ socket = "up" => session,
         \A t \in Due(f, messageHandlers) :
           t \in Asked \/ (p.type = "SUBSCRIBE" /\ p.topic = t /\ t \in Topics),
         SendRequest(op, p, f, below), UNCHANGED messageHandlers
  PROVE  SubscribedInv'
  <1>0. NetTypeOK /\ f.op # "reconnect"
    BY DEF TypeOK, Requests
  <1>1. CASE Send(p) /\ stack' = Append(below, f)
    <2>1. AskedKept /\ (p.type = "SUBSCRIBE" /\ p.topic \in Topics => p.topic \in Asked')
      BY <1>0, <1>1, AskedSent
    <2>2. Due(f, messageHandlers) \subseteq Asked'
      BY <2>1 DEF AskedKept
    <2>3. Subscribed(below, clientState, r, messageHandlers, Asked')
      BY <2>1, SubscribedStays DEF AskedKept
    <2>4. Subscribed(stack', clientState', ret', messageHandlers, Asked')
      BY <1>0, <1>1, <2>2, <2>3, SubscribedPush
    <2> QED BY <2>1, <2>4 DEF SubscribedInv, AskedKept
  <1>2. CASE SendFails /\ ret' = Result(op, "MQTT_FAILURE") /\ stack' = below /\ UNCHANGED clientState
    <2>1. AskedKept
      BY <1>0, <1>2, AskedStill
    <2>2. ret'.rc = "MQTT_FAILURE"
      BY <1>2 DEF Result
    <2>3. Subscribed(below, clientState', ret', messageHandlers, Asked')
      BY <1>2, <2>1, <2>2, SubscribedStays DEF AskedKept
    <2> QED BY <1>2, <2>1, <2>3 DEF SubscribedInv, AskedKept
  <1> QED BY <1>1, <1>2 DEF SendRequest

LEMMA SavingKept ==
  ASSUME NEW op \in {"publish", "resubscribe", "deliver"}, NEW pc, NEW topic, NEW slot, NEW last, NEW id, NEW h
  PROVE  /\ FrameKept(Saving(op, pc, topic, slot, last, id), h)
         /\ Saving(op, pc, topic, slot, last, id).op = op
         /\ Saving(op, pc, topic, slot, last, id).saved = clientState
  BY DEF Saving, FrameKept

(* Handlers are in use from the first slot on.                             *)
LEMMA InUse ==
  ASSUME TypeOK, Filled(messageHandlers), NEW n \in 0..NumHandlers, HandlersInUse(n)
  PROVE  \A r \in Slots : r > n => messageHandlers[r] = NoTopic
  <1> SUFFICES ASSUME NEW r \in Slots, r > n
               PROVE  messageHandlers[r] = NoTopic
    OBVIOUS
  <1>1. NumHandlers \in Nat /\ r \in 1..NumHandlers /\ n \in Nat
    BY ClientAssumption DEF ClientAssumption, Slots
  <1>2. n + 1 \in Slots /\ messageHandlers[n + 1] = NoTopic
    BY <1>1 DEF HandlersInUse, FirstFree, Slots
  <1>3. r = n + 1 \/ n + 1 < r
    BY <1>1
  <1> QED BY <1>2, <1>3 DEF Filled

LEMMA ResubscribeSubscribed ==
  ASSUME TypeOK, PingInv, clientState = "CONNECTED_IDLE", Filled(messageHandlers), Orderly,
         NEW below \in Seq(Frames), NEW r, Subscribed(below, clientState, r, messageHandlers, Asked),
         below # <<>> /\ below[Len(below)].op = "reconnect" => below[Len(below)].pc = "resubscribe",
         StartResubscribe(below), UNCHANGED messageHandlers
  PROVE  SubscribedInv'
<1>0. NetTypeOK /\ (socket = "up" => session)
  BY DEF TypeOK, PingInv
<1>1. PICK n \in 0..NumHandlers :
        /\ HandlersInUse(n)
        /\ \/ /\ n = 0
              /\ ret' = Result("resubscribe", "MQTT_SUCCESS")
              /\ stack' = below
              /\ UNCHANGED <<netVars, clientState, nextPacketId>>
           \/ /\ n > 0
              /\ SendRequest("resubscribe", Packet("SUBSCRIBE", messageHandlers[1], NextId),
                             Saving("resubscribe", "wait", NoTopic, 1, n, NextId), below)
  BY DEF StartResubscribe
<1>2. \A i \in Slots : i > n => messageHandlers[i] = NoTopic
  BY <1>1, InUse
<1>3. NumHandlers \in Nat \ {0} /\ n \in Nat /\ \A i \in Slots : i \in Nat /\ i >= 1
  BY ClientAssumption DEF ClientAssumption, Slots
<1>4. CASE n = 0 /\ ret' = Result("resubscribe", "MQTT_SUCCESS") /\ stack' = below
           /\ UNCHANGED <<netVars, clientState>>
  <2>1. AskedKept
    BY <1>0, <1>4, AskedStill
  <2>2. \A i \in Slots : messageHandlers[i] = NoTopic
    BY <1>2, <1>3, <1>4
  <2>3. Resolved(below, ret', messageHandlers, Asked')
    BY <1>4, <2>2 DEF Resolved, Result
  <2>4. Subscribed(below, clientState, r, messageHandlers, Asked')
    BY <2>1, SubscribedStays DEF AskedKept
  <2> QED BY <1>4, <2>1, <2>3, <2>4 DEF SubscribedInv, Subscribed, AskedKept
<1>5. CASE SendRequest("resubscribe", Packet("SUBSCRIBE", messageHandlers[1], NextId),
                       Saving("resubscribe", "wait", NoTopic, 1, n, NextId), below)
  <2> DEFINE f == Saving("resubscribe", "wait", NoTopic, 1, n, NextId)
             p == Packet("SUBSCRIBE", messageHandlers[1], NextId)
  <2>1. 1 \in 0..NumHandlers /\ 1 \in Slots /\ NextId \in PacketIds
    BY <1>3, NextIdTyped DEF TypeOK, Slots
  <2>2. f \in Frames /\ f.slot = 1 /\ f.last = n /\ f.op = "resubscribe"
    <3>1. f \in Frames
      BY <2>1, SavingTyped DEF TypeOK, CallsTypeOK, Ops
    <3> QED BY <3>1 DEF Saving
  <2>3. FrameKept(f, messageHandlers) /\ f.saved = clientState
    BY SavingKept
  <2>4. p.type = "SUBSCRIBE" /\ p.topic = messageHandlers[1]
    BY DEF Packet
  <2>5. SendRequest("resubscribe", p, f, below)
    BY <1>5
  <2> HIDE DEF f, p
  <2>6. ASSUME NEW t \in Due(f, messageHandlers)
        PROVE  p.topic = t /\ t \in Topics
    <3>1. PICK i \in Slots : (i <= 1 \/ i > n) /\ messageHandlers[i] = t
      BY <2>2 DEF Due
    <3>2. t \in Topics /\ NoTopic \notin Topics
      BY <2>2, NetworkAssumption DEF Due, NetworkAssumption
    <3>3. i = 1
      BY <1>2, <1>3, <3>1, <3>2
    <3> QED BY <2>4, <3>1, <3>2, <3>3
  <2> QED BY <1>0, <2>2, <2>3, <2>4, <2>5, <2>6, RequestSubscribed DEF Inside, Requests
<1> QED BY <1>1, <1>4, <1>5

LEMMA ConnectSubscribed ==
  ASSUME NEW below \in Seq(Frames), NEW c, NEW r, NEW asked, NetTypeOK, Filled(messageHandlers),
         Subscribed(below, c, r, messageHandlers, asked),
         below # <<>> /\ below[Len(below)].op = "reconnect" => below[Len(below)].pc = "connect",
         StartConnect(below), UNCHANGED messageHandlers
  PROVE  SubscribedInv'
<1>1. Quiet("CONNECTED_IDLE") /\ Quiet("DISCONNECTED_ERROR")
  BY QuietStates DEF ValidForConnect
<1>2. CASE OpenConnection /\ clientState' = "CONNECTING" /\ stack' = Append(below, Frame("connect", "wait"))
  <2> DEFINE f == Frame("connect", "wait")
  <2>1. f \in Frames /\ f.op = "connect" /\ f.saved = "CONNECTED_IDLE"
    BY FrameTyped DEF Ops, Frame
  <2>2. stack' = Append(below, f)
    BY <1>2
  <2> HIDE DEF f
  <2>3. FrameKept(f, messageHandlers) /\ Due(f, messageHandlers) = {}
    BY <1>1, <2>1 DEF FrameKept, Due
  <2>4. Subscribed(below, "CONNECTED_IDLE", r, messageHandlers, Asked')
    BY <1>1, SubscribedAnew
  <2>5. Subscribed(stack', clientState', ret', messageHandlers, Asked')
    BY <2>1, <2>2, <2>3, <2>4, SubscribedPush DEF Inside
  <2> QED BY <1>2, <2>5, AskedOpened DEF SubscribedInv
<1>3. CASE CloseConnection /\ clientState' = "DISCONNECTED_ERROR" /\ stack' = below
  <2>1. Subscribed(stack', clientState', ret', messageHandlers, Asked')
    BY <1>1, <1>3, SubscribedAnew
  <2>2. Orderly'
    BY <1>3, AskedClosed DEF AskedKept
  <2> QED BY <2>1, <2>2 DEF SubscribedInv
<1> QED BY <1>2, <1>3 DEF StartConnect

(* The frame of a reconnection, which waits for a connect.                 *)
LEMMA ReconnectPushed ==
  ASSUME NEW s \in Seq(Frames), NEW c, NEW r, NEW h, NEW asked, Subscribed(s, c, r, h, asked),
         s # <<>> => s[Len(s)].op # "reconnect",
         NEW f, f = Frame("reconnect", "connect")
  PROVE  LET t == Append(s, f) IN
         /\ t \in Seq(Frames) /\ t # <<>> /\ t[Len(t)].op = "reconnect" /\ t[Len(t)].pc = "connect"
         /\ Subscribed(t, c, r, h, asked)
  <1>1. f \in Frames /\ f.op = "reconnect" /\ f.pc = "connect" /\ Quiet(f.saved)
    BY FrameTyped, QuietStates DEF Ops, Frame
  <1>2. FrameKept(f, h) /\ Due(f, h) = {}
    BY <1>1 DEF FrameKept, Due
  <1>3. Subscribed(Append(s, f), c, r, h, asked)
    BY <1>1, <1>2, SubscribedPush
  <1>4. /\ Append(s, f) \in Seq(Frames) /\ Append(s, f) # <<>>
        /\ Append(s, f)[Len(Append(s, f))] = f
    BY <1>1, PushStack
  <1> QED BY <1>1, <1>3, <1>4

LEMMA CallSubscribed ==
  ASSUME TypeOK, PingInv, StackInv, SubscribedInv, NothingLost, ApiCall
  PROVE  SubscribedInv'
<1>0. /\ NetTypeOK /\ CallsTypeOK /\ stack \in Seq(Frames) /\ NextId \in PacketIds
      /\ Filled(messageHandlers) /\ Orderly
      /\ Subscribed(stack, clientState, ret, messageHandlers, Asked)
  BY NextIdTyped DEF TypeOK, CallsTypeOK, SubscribedInv
<1>1. stack # <<>> => Top.op # "reconnect"
  BY DEF ApiCall, Connect, AttemptReconnect, Resubscribe, Disconnect, SetAutoReconnect, Publish,
         Subscribe, Unsubscribe, Yield, MayCall, At
<1>2. ASSUME NEW op, NEW rc, Refuse(op, rc)
      PROVE  SubscribedInv'
  <2>1. AskedKept
    BY <1>0, <1>2, AskedStill DEF Refuse
  <2> QED BY <1>1, <1>2, <2>1, StackLeft DEF Refuse, subs
<1>3. clientState # "CONNECTING" /\ (socket = "up" => session)
  <2>1. stack = <<>> \/ Top.op # "connect"
    BY DEF ApiCall, Connect, AttemptReconnect, Resubscribe, Disconnect, SetAutoReconnect, Publish,
           Subscribe, Unsubscribe, Yield, MayCall, At
  <2> QED BY <2>1, NotAtConnect DEF PingInv
<1>4. CASE Connect
  BY <1>0, <1>1, <1>2, <1>4, ConnectSubscribed DEF Connect, subs, Top
<1>5. CASE AttemptReconnect
  <2>1. ASSUME StartConnect(Append(stack, Frame("reconnect", "connect"))), UNCHANGED messageHandlers
        PROVE  SubscribedInv'
    <3> DEFINE f == Frame("reconnect", "connect")
    <3>1. f = Frame("reconnect", "connect") /\ StartConnect(Append(stack, f))
      BY <2>1
    <3> HIDE DEF f
    <3>2. LET t == Append(stack, f) IN
          /\ t \in Seq(Frames) /\ t # <<>> /\ t[Len(t)].op = "reconnect" /\ t[Len(t)].pc = "connect"
          /\ Subscribed(t, clientState, ret, messageHandlers, Asked)
      BY <1>0, <1>1, <3>1, ReconnectPushed DEF Top
    <3> QED BY <1>0, <2>1, <3>1, <3>2, ConnectSubscribed
  <2> QED BY <1>2, <1>5, <2>1 DEF AttemptReconnect, subs
<1>6. CASE Resubscribe
  BY <1>0, <1>1, <1>2, <1>6, ResubscribeSubscribed DEF Resubscribe, Top
<1>7. CASE Disconnect
  <2>1. ASSUME CloseConnection, clientState' = "DISCONNECTED_MANUALLY", UNCHANGED <<stack, messageHandlers>>
        PROVE  SubscribedInv'
    <3>1. AskedKept /\ Quiet(clientState')
      BY <1>0, <2>1, AskedClosed, QuietStates DEF ValidForConnect
    <3> QED BY <1>1, <2>1, <3>1, StackLeft
  <2> QED BY <1>2, <1>7, <2>1 DEF Disconnect, subs
<1>8. CASE SetAutoReconnect
  <2>1. AskedKept
    BY <1>0, <1>8, AskedStill DEF SetAutoReconnect
  <2> QED BY <1>8, <2>1, StackLeft DEF SetAutoReconnect, subs, calls
<1>9. CASE Publish
  <2>1. CASE RefuseRequest("publish")
    BY <1>2, <2>1 DEF RefuseRequest
  <2>2. CASE (Send(Simple("PUBLISH")) \/ SendFails) /\ UNCHANGED <<messageHandlers, clientState, stack>>
    <3>1. Simple("PUBLISH").type = "PUBLISH"
      BY DEF Simple, Packet
    <3> DEFINE p == Simple("PUBLISH")
    <3>2. p.type # "UNSUBSCRIBE" /\ p.type # "SUBSCRIBE" /\ (Send(p) \/ SendFails)
      BY <2>2, <3>1
    <3> HIDE DEF p
    <3>3. AskedKept
      BY <1>0, <3>2, AskedSent
    <3> QED BY <1>1, <2>2, <3>3, StackLeft
  <2>3. ASSUME SendRequest("publish", Packet("PUBLISH", NoTopic, NextId),
                           Saving("publish", "wait", NoTopic, 0, 0, NextId), stack),
               UNCHANGED messageHandlers
        PROVE  SubscribedInv'
    <3> DEFINE f == Saving("publish", "wait", NoTopic, 0, 0, NextId)
               p == Packet("PUBLISH", NoTopic, NextId)
    <3>1. f \in Frames
      BY <1>0, ZeroTyped, SavingTyped DEF CallsTypeOK, Ops
    <3>2. f.op = "publish" /\ f.saved = clientState /\ FrameKept(f, messageHandlers)
      BY SavingKept
    <3>3. p.type = "PUBLISH" /\ SendRequest("publish", p, f, stack)
      BY <2>3 DEF Packet
    <3> HIDE DEF f, p
    <3>4. Due(f, messageHandlers) = {}
      BY <3>2 DEF Due
    <3> QED BY <1>0, <1>1, <2>3, <3>1, <3>2, <3>3, <3>4, RequestSubscribed DEF Requests, Top
  <2> QED BY <1>9, <2>1, <2>2, <2>3 DEF Publish, subs
<1>10. CASE Subscribe
  <2>1. CASE RefuseRequest("subscribe")
    BY <1>2, <2>1 DEF RefuseRequest
  <2>2. CASE UNCHANGED <<netVars, clientState, stack, messageHandlers>>
    BY <1>0, <1>1, <2>2, AskedStill, StackLeft
  <2>3. ASSUME NEW s \in Slots, NEW t \in Topics, FirstFree(s),
               SendRequest("subscribe", Packet("SUBSCRIBE", t, NextId),
                           Saving("subscribe", "wait", t, s, 0, NextId), stack),
               UNCHANGED messageHandlers
        PROVE  SubscribedInv'
    <3> DEFINE f == Saving("subscribe", "wait", t, s, 0, NextId)
               p == Packet("SUBSCRIBE", t, NextId)
    <3>1. f \in Frames
      BY <1>0, ZeroTyped, SavingTyped DEF CallsTypeOK, Ops
    <3>2. f.op = "subscribe" /\ f.saved = clientState /\ f.topic = t /\ f.slot = s
      BY DEF Saving
    <3>3. p.type = "SUBSCRIBE" /\ p.topic = t /\ SendRequest("subscribe", p, f, stack)
      BY <2>3 DEF Packet
    <3> HIDE DEF f, p
    <3>4. FrameKept(f, messageHandlers)
      <4>1. \A i \in Slots : i < s => i \in 1..(s - 1)
        BY ClientAssumption DEF Slots, ClientAssumption
      <4> QED BY <2>3, <3>2, <4>1 DEF FrameKept, FirstFree
    <3>5. Due(f, messageHandlers) = {t}
      BY <3>2 DEF Due
    <3> QED BY <1>0, <1>1, <1>3, <2>3, <3>1, <3>2, <3>3, <3>4, <3>5, RequestSubscribed DEF Requests, Top
  <2> QED BY <1>10, <2>1, <2>2, <2>3 DEF Subscribe
<1>11. CASE Unsubscribe
  BY <1>11 DEF Unsubscribe, MayCall, NothingLost
<1>12. CASE Yield
  <2>1. ASSUME stack' = Append(stack, Frame("yield", "loop")), UNCHANGED <<netVars, messageHandlers>>
        PROVE  SubscribedInv'
    <3> DEFINE f == Frame("yield", "loop")
    <3>1. f \in Frames /\ f.op = "yield" /\ Quiet(f.saved)
      BY FrameTyped, QuietStates DEF Ops, Frame
    <3>2. stack' = Append(stack, f)
      BY <2>1
    <3> HIDE DEF f
    <3>3. FrameKept(f, messageHandlers) /\ Due(f, messageHandlers) = {}
      BY <3>1 DEF FrameKept, Due
    <3>4. AskedKept
      BY <1>0, <2>1, AskedStill
    <3>5. Subscribed(stack, clientState, ret, messageHandlers, Asked')
      BY <1>0, <3>4, SubscribedStays DEF AskedKept
    <3>6. Subscribed(stack', clientState', ret', messageHandlers, Asked')
      BY <1>0, <1>1, <3>1, <3>2, <3>3, <3>5, SubscribedPush DEF Top
    <3> QED BY <1>0, <2>1, <3>4, <3>6 DEF SubscribedInv, AskedKept
  <2> QED BY <1>2, <1>12, <2>1 DEF Yield, subs
<1> QED BY <1>4, <1>5, <1>6, <1>7, <1>8, <1>9, <1>10, <1>11, <1>12 DEF ApiCall

(* A handler takes the topic that its subscribe has asked for.             *)
LEMMA HandlerSet ==
  ASSUME TypeOK, StackInv, SubscribedInv, ReadSuback
  PROVE  SubscribedInv'
<1> DEFINE h == messageHandlers
           g == [messageHandlers EXCEPT ![Top.slot] = Top.topic]
<1>0. /\ NetTypeOK /\ CallsTypeOK /\ stack # <<>> /\ Top.op = "subscribe" /\ stack \in Seq(Frames)
      /\ messageHandlers' = g /\ stack' = Pop
      /\ Cas(InProgress[Top.op], Top.saved)
      /\ h \in [Slots -> Topics \cup {NoTopic}]
  BY DEF ReadSuback, At, TypeOK, DataTypeOK, CallsTypeOK, EndRequest
<1>1. AskedKept
  BY <1>0, AskedStill DEF ReadSuback, SubscribedInv
<1>2. /\ Top.slot \in Slots /\ Top.topic \in Topics
      /\ \A r \in Slots : r < Top.slot => h[r] # NoTopic
  BY <1>0, TopKept DEF FrameKept
<1>3. NoTopic \notin Topics
  BY NetworkAssumption DEF NetworkAssumption
<1>4. /\ g[Top.slot] = Top.topic /\ \A r \in Slots : r # Top.slot => g[r] = h[r]
      /\ \A r \in Slots : h[r] # NoTopic => g[r] # NoTopic
  BY <1>0, <1>2, <1>3
<1>5. (Takes(Top.op, clientState) /\ clientState' = Top.saved) \/ Quiet(clientState')
  BY <1>0, StateEnds DEF BusyOps, Requests
<1>6. Subscribed(Pop, clientState', ret', h, Asked')
  <2>1. Subscribed(stack, clientState, ret, h, Asked')
    BY <1>1, SubscribedStays DEF SubscribedInv, AskedKept
  <2>2. Pop = SubSeq(stack, 1, Len(stack) - 1)
    BY DEF Pop
  <2> QED BY <1>0, <1>5, <2>1, <2>2, SubscribedPop DEF Top
<1>7. Filled(g)
  <2> SUFFICES ASSUME NEW r \in Slots, NEW s \in Slots, r < s, g[s] # NoTopic
               PROVE  g[r] # NoTopic
    BY DEF Filled
  <2>1. Filled(h)
    BY DEF SubscribedInv
  <2>2. CASE s = Top.slot
    BY <1>2, <1>4, <2>2
  <2>3. CASE s # Top.slot
    BY <1>4, <2>1, <2>3 DEF Filled
  <2> QED BY <2>2, <2>3
<1>8. ASSUME NEW f, FrameKept(f, h)
      PROVE  FrameKept(f, g)
  BY <1>4, <1>8 DEF FrameKept
<1>9. ASSUME Takes(Top.op, clientState)
      PROVE  Top.topic \in Asked'
  <2>1. Due(Top, h) \subseteq Asked
    BY <1>0, <1>9, TopAsked
  <2> QED BY <1>0, <1>1, <2>1 DEF Due, AskedKept
<1>10. ASSUME NEW f
       PROVE  Due(f, g) \subseteq Due(f, h) \cup {Top.topic}
  BY <1>4 DEF Due
<1> HIDE DEF g, h
<1>11. CallsKept(Pop, g)
  BY <1>6, <1>8 DEF Subscribed, CallsKept
<1>12. Claims(Pop, clientState', g, Asked')
  <2>1. CASE Takes(Top.op, clientState)
    BY <1>6, <1>9, <1>10, <2>1 DEF Subscribed, Claims
  <2>2. CASE Quiet(clientState')
    BY <2>2 DEF Claims, Held, Takes, Quiet
  <2> QED BY <1>5, <2>1, <2>2
<1>13. Resolved(Pop, ret', g, Asked')
  <2>1. SUFFICES ASSUME Pop # <<>>, Pop[Len(Pop)].op = "reconnect", Pop[Len(Pop)].pc = "resubscribe"
                 PROVE  FALSE
    BY DEF Resolved
  <2> DEFINE n == Len(stack)
  <2>2. n \in Nat \ {0} /\ Len(Pop) = n - 1 /\ (\A i \in 1..(n - 1) : Pop[i] = stack[i])
        /\ Pop \in Seq(Frames)
    <3>1. n \in Nat \ {0}
      BY <1>0, TopFrame
    <3>2. Pop = SubSeq(stack, 1, Len(stack) - 1)
      BY DEF Pop
    <3>3. Pop \in Seq(Frames) /\ Len(Pop) = Len(stack) - 1 /\ \A i \in 1..(Len(stack) - 1) : Pop[i] = stack[i]
      BY <1>0, <3>2, PopStack
    <3> QED BY <3>1, <3>3
  <2>3. n - 1 \in 1..(n - 1)
    BY <2>1, <2>2, EmptyStack
  <2> HIDE DEF n
  <2>4. stack[n - 1].op = "reconnect" /\ stack[n - 1].pc = "resubscribe"
    BY <2>1, <2>2, <2>3
  <2>5. stack[(n - 1) + 1].op = Inside(stack[n - 1])
    BY <2>3, <2>4 DEF SubscribedInv, Subscribed, CallsKept, n
  <2>6. (n - 1) + 1 = n
    BY <2>2
  <2> QED BY <1>0, <2>4, <2>5, <2>6 DEF Inside, Top, n
<1> QED BY <1>0, <1>1, <1>7, <1>11, <1>12, <1>13 DEF SubscribedInv, Subscribed, AskedKept

(* On to the next handler.                                                 *)
LEMMA NextAsked ==
  ASSUME TypeOK, PingInv, StackInv, SubscribedInv, ReadResuback
  PROVE  SubscribedInv'
<1>0. /\ NetTypeOK /\ CallsTypeOK /\ stack # <<>> /\ Top.op = "resubscribe" /\ Top.op \in Requests
      /\ Orderly /\ Top \in Frames /\ NextId \in PacketIds /\ messageHandlers' = messageHandlers
  BY TopTyped, NextIdTyped DEF ReadResuback, At, TypeOK, SubscribedInv, Requests
<1>1. Consume => AskedKept
  BY <1>0, AskedStill
<1>2. CASE Consume /\ (EndRequest("MQTT_FAILURE") \/ (EndRequest("MQTT_SUCCESS") /\ Top.slot = Top.last))
  BY <1>0, <1>1, <1>2, RequestEnded
<1>3. CASE /\ Top.slot < Top.last
           /\ ConsumeAndSend(Packet("SUBSCRIBE", messageHandlers[Top.slot + 1], NextId))
           /\ stack' = SetTop([Top EXCEPT !.slot = @ + 1, !.id = NextId])
           /\ UNCHANGED <<clientState, ret>>
  <2> DEFINE p == Packet("SUBSCRIBE", messageHandlers[Top.slot + 1], NextId)
             f == [Top EXCEPT !.slot = @ + 1, !.id = NextId]
  <2>1. p.type = "SUBSCRIBE" /\ p.topic = messageHandlers[Top.slot + 1] /\ ConsumeAndSend(p)
    BY <1>3 DEF Packet
  <2>2. Top.slot \in 0..NumHandlers /\ Top.last \in 0..NumHandlers /\ NumHandlers \in Nat
    BY <1>0, ClientAssumption DEF Frames, ClientAssumption
  <2>3. Top.slot + 1 \in 0..NumHandlers /\ Top.slot + 1 \in Slots
    BY <1>3, <2>2 DEF Slots
  <2>4. /\ f \in Frames /\ f.op = "resubscribe" /\ f.saved = Top.saved
        /\ f.slot = Top.slot + 1 /\ f.last = Top.last /\ stack' = SetTop(f)
    <3>1. f \in Frames
      BY <1>0, <2>3 DEF Frames
    <3> QED BY <1>0, <1>3, <3>1 DEF Frames
  <2> HIDE DEF f, p
  <2>5. clientState # "CONNECTING" /\ (socket = "up" => session)
    BY <1>0, NotAtConnect DEF PingInv
  <2>6. AskedKept /\ (p.topic \in Topics => p.topic \in Asked')
    BY <1>0, <2>1, <2>5, AskedSent
  <2>7. FrameKept(f, messageHandlers)
    BY <2>4 DEF FrameKept
  <2>8. ASSUME Takes(f.op, clientState), NEW t \in Due(f, messageHandlers)
        PROVE  t \in Asked'
    <3>1. PICK i \in Slots : (i <= Top.slot + 1 \/ i > Top.last) /\ messageHandlers[i] = t
      BY <2>4, <2>8 DEF Due
    <3>2. t \in Topics
      BY <2>4, <2>8 DEF Due
    <3>3. CASE i = Top.slot + 1
      BY <2>1, <2>6, <3>1, <3>2, <3>3
    <3>4. CASE i # Top.slot + 1
      <4>1. i <= Top.slot \/ i > Top.last
        BY <2>2, <3>1, <3>4 DEF Slots
      <4>2. t \in Due(Top, messageHandlers)
        BY <1>0, <3>1, <3>2, <4>1 DEF Due
      <4>3. Due(Top, messageHandlers) \subseteq Asked
        BY <1>0, <2>4, <2>8, TopAsked
      <4> QED BY <2>6, <4>2, <4>3 DEF AskedKept
    <3> QED BY <3>3, <3>4
  <2> QED BY <1>0, <1>3, <2>4, <2>6, <2>7, <2>8, TopMoved
<1> QED BY <1>2, <1>3 DEF ReadResuback

(* A packet that begins a delivery.                                        *)
LEMMA DeliverySubscribed ==
  ASSUME TypeOK, StackInv, SubscribedInv, ReadPublish
  PROVE  SubscribedInv'
<1> DEFINE below == IF Top.op = "yield" THEN SetTop([Top EXCEPT !.pc = "deliver"]) ELSE stack
           f == Saving("deliver", "scan", NoTopic, 0, 0, Head(toClient).id)
<1>0. /\ NetTypeOK /\ CallsTypeOK /\ stack # <<>> /\ stack \in Seq(Frames) /\ Orderly
      /\ Top \in Frames /\ Top.pc \in {"wait", "loop"} /\ messageHandlers' = messageHandlers
      /\ stack' = Append(below, f)
  BY TopTyped DEF ReadPublish, Reading, Waiting, At, TypeOK, CallsTypeOK, SubscribedInv
<1>1. AskedKept
  BY <1>0, AskedStill DEF ReadPublish
<1>2. FrameKept(Top, messageHandlers)
  BY <1>0, TopKept
<1>3. Head(toClient) \in Packets
  BY <1>0, ChannelsTyped DEF ReadPublish, Arrived
<1>4. f \in Frames
  BY <1>3, ZeroTyped, SavingTyped DEF TypeOK, CallsTypeOK, Packets
<1>5. f.op = "deliver" /\ f.saved = clientState /\ FrameKept(f, messageHandlers)
  BY SavingKept
<1> HIDE DEF f
<1>6. Subscribed(stack, clientState, ret, messageHandlers, Asked')
  BY <1>1, SubscribedStays DEF SubscribedInv, AskedKept
<1>7. /\ below \in Seq(Frames) /\ Subscribed(below, clientState, ret, messageHandlers, Asked')
      /\ below # <<>> /\ below[Len(below)].op # "reconnect"
  <2>1. CASE Top.op = "yield"
    <3> DEFINE y == [Top EXCEPT !.pc = "deliver"]
    <3>1. y \in Frames /\ y.op = "yield" /\ y.saved = Top.saved
      BY <1>0, <2>1 DEF Frames
    <3>2. below = [stack EXCEPT ![Len(stack)] = y]
      BY <2>1 DEF SetTop
    <3> HIDE DEF y, below
    <3>3. FrameKept(y, messageHandlers) /\ Due(y, messageHandlers) = {}
      BY <1>2, <2>1, <3>1 DEF FrameKept, Due
    <3>4. y.op = stack[Len(stack)].op /\ y.saved = stack[Len(stack)].saved
      BY <2>1, <3>1 DEF Top
    <3>5. Subscribed(below, clientState, ret, messageHandlers, Asked')
      BY <1>0, <1>6, <3>1, <3>2, <3>3, <3>4, SubscribedReplace
    <3>6. below \in Seq(Frames) /\ below # <<>> /\ below[Len(below)] = y
      BY <1>0, <3>1, <3>2, ReplaceTop
    <3> QED BY <3>1, <3>5, <3>6
  <2>2. CASE Top.op # "yield"
    BY <1>0, <1>2, <1>6, <2>2 DEF FrameKept, Top
  <2> QED BY <2>1, <2>2
<1> HIDE DEF below
<1>8. Due(f, messageHandlers) = {}
  BY <1>5 DEF Due
<1>9. Subscribed(stack', clientState', ret', messageHandlers, Asked')
  BY <1>0, <1>4, <1>5, <1>7, <1>8, SubscribedPush
<1> QED BY <1>0, <1>1, <1>9 DEF SubscribedInv, AskedKept

LEMMA ReadSubscribed ==
  ASSUME TypeOK, PingInv, StackInv, SubscribedInv, ReadStep \/ WaitTimeout
  PROVE  SubscribedInv'
<1>0. NetTypeOK /\ CallsTypeOK /\ Orderly
  BY DEF TypeOK, SubscribedInv
<1>1. ASSUME stack # <<>>, Top.op = "connect", NEW rc, FailConnect(rc)
      PROVE  SubscribedInv'
  <2>1. clientState' = "DISCONNECTED_ERROR"
    BY <1>1 DEF FailConnect, Cas, StackInv, ConnackFirst
  <2>2. Quiet(clientState') /\ AskedKept
    BY <1>0, <1>1, <2>1, QuietStates, AskedClosed DEF ValidForConnect, FailConnect
  <2> QED BY <1>0, <1>1, <2>2, TopEnded DEF FailConnect, subs
<1>2. CASE ReadConnack
  <2>1. ASSUME Consume, Cas("CONNECTING", "CONNECTED_IDLE"), stack' = Pop, UNCHANGED messageHandlers,
               stack # <<>>, Top.op = "connect"
        PROVE  SubscribedInv'
    <3>1. clientState' = "CONNECTED_IDLE"
      BY <2>1 DEF Cas, StackInv, ConnackFirst
    <3>2. Quiet(clientState') /\ AskedKept
      BY <1>0, <2>1, <3>1, QuietStates, AskedStill
    <3> QED BY <1>0, <2>1, <3>2, TopEnded
  <2> QED BY <1>1, <1>2, <2>1 DEF ReadConnack, At, subs
<1>3. CASE ReadPuback
  <2>1. stack # <<>> /\ Top.op = "publish" /\ Consume /\ EndRequest("MQTT_SUCCESS") /\ messageHandlers' = messageHandlers
    BY <1>3 DEF ReadPuback, At, subs
  <2>2. AskedKept
    BY <1>0, <2>1, AskedStill
  <2> QED BY <2>1, <2>2, RequestEnded DEF Requests
<1>4. CASE ReadUnsuback
  BY <1>0, <1>4, TopKept DEF ReadUnsuback, At, FrameKept
<1>5. CASE ReadSuback \/ ReadResuback \/ ReadPublish
  BY <1>5, HandlerSet, NextAsked, DeliverySubscribed
<1>6. {"MQTT_SUCCESS", "MQTT_RX_BUFFER_TOO_SHORT_ERROR", "MQTT_FAILURE", "NETWORK_SSL_NOTHING_TO_READ"}
        \subseteq ResultCodes
  BY DEF ResultCodes
<1>7. CASE ReadOther \/ ReadPingresp \/ ReadOversize
  <2>1. stack # <<>> /\ Consume /\ UNCHANGED <<messageHandlers, clientState, ret>>
    BY <1>7 DEF ReadOther, ReadPingresp, ReadOversize, Reading, Waiting, At, subs
  <2>2. \E rc \in ResultCodes : AfterRead(rc)
    BY <1>6, <1>7 DEF ReadOther, ReadPingresp, ReadOversize
  <2>3. AskedKept
    BY <1>0, <2>1, AskedStill
  <2> QED BY <1>0, <2>1, <2>2, <2>3, ReadMoved
<1>8. CASE ReadTorn
  <2>1. stack # <<>> /\ UNCHANGED <<messageHandlers, clientState, ret>> /\ socket' # "up" /\ toBroker' = toBroker
    BY <1>8 DEF ReadTorn, Reading, Waiting, At
  <2>2. \E rc \in ResultCodes : AfterRead(rc)
    BY <1>6, <1>8 DEF ReadTorn
  <2>3. AskedKept
    BY <1>0, <2>1, AskedTopics DEF AskedKept, Asked, Orderly
  <2> QED BY <1>0, <2>1, <2>2, <2>3, ReadMoved
<1>9. CASE ReadNothing \/ ReadError
  <2>1. stack # <<>> /\ Top.op = "yield" /\ UNCHANGED <<netVars, messageHandlers>>
    BY <1>9 DEF ReadNothing, ReadError, At, subs
  <2>2. \E pc \in {"alive", "lost"} : YieldTo(pc, "MQTT_SUCCESS")
    BY <1>9 DEF ReadNothing, ReadError
  <2>3. AskedKept
    BY <1>0, <2>1, AskedStill
  <2> QED BY <1>0, <1>6, <2>1, <2>2, <2>3, YieldMoved
<1>10. CASE WaitTimeout
  <2>1. CASE Top.op = "connect" /\ FailConnect("MQTT_REQUEST_TIMEOUT_ERROR")
    BY <1>1, <1>10, <2>1 DEF WaitTimeout, Waiting
  <2>2. CASE Top.op \in Requests /\ EndRequest("MQTT_REQUEST_TIMEOUT_ERROR") /\ UNCHANGED <<netVars, messageHandlers>>
    <3>1. AskedKept
      BY <1>0, <2>2, AskedStill
    <3> QED BY <1>10, <2>2, <3>1, RequestEnded DEF WaitTimeout, Waiting
  <2> QED BY <1>10, <2>1, <2>2 DEF WaitTimeout, subs
<1> QED BY <1>2, <1>3, <1>4, <1>5, <1>7, <1>8, <1>9, <1>10 DEF ReadStep

LEMMA StepSubscribed ==
  ASSUME TypeOK, PingInv, StackInv, SubscribedInv,
         ClientStep \/ CallbackReturns \/ HandlerReturns \/ YieldAgain \/ YieldReturns
  PROVE  SubscribedInv'
<1>0. /\ NetTypeOK /\ CallsTypeOK /\ Orderly /\ stack # <<>> /\ stack \in Seq(Frames) /\ Top \in Frames
      /\ Filled(messageHandlers) /\ Subscribed(stack, clientState, ret, messageHandlers, Asked)
      /\ messageHandlers' = messageHandlers
  BY TopTyped DEF TypeOK, CallsTypeOK, SubscribedInv, ClientStep, ReconnectFailed, ReconnectConnected,
       ReconnectResubscribed, Deliver, EndDelivery, YieldAfterDelivery, KeepAliveCheck, HandleDisconnect,
       HandleReconnect, YieldAfterReconnect, CallbackReturns, HandlerReturns, YieldAgain, YieldReturns,
       At, subs
<1>1. UNCHANGED netVars \/ SendFails => AskedKept
  BY <1>0, AskedStill
<1>2. {"MQTT_SUCCESS", "NETWORK_ATTEMPTING_RECONNECT", "NETWORK_DISCONNECTED_ERROR",
       "NETWORK_RECONNECT_TIMED_OUT_ERROR", "NETWORK_RECONNECTED", "NETWORK_MANUALLY_DISCONNECTED",
       "MQTT_UNEXPECTED_CLIENT_STATE_ERROR"} \subseteq ResultCodes
  BY DEF ResultCodes
<1>3. ASSUME Top.op = "yield", AskedKept,
             \E rc \in ResultCodes, pc \in {"loop", "alive", "lost", "handler", "check", "exit"} : YieldTo(pc, rc)
      PROVE  SubscribedInv'
  BY <1>0, <1>3, YieldMoved
<1>4. CASE ReconnectFailed \/ ReconnectResubscribed
  <2>1. Top.op = "reconnect" /\ stack' = Pop /\ UNCHANGED netVars
        /\ (clientState' = clientState \/ clientState' = "PENDING_RECONNECT")
    BY <1>4 DEF ReconnectFailed, ReconnectResubscribed, At, Cas
  <2>2. Quiet(clientState) /\ Quiet("PENDING_RECONNECT")
    BY <2>1, NotTaken, QuietStates DEF Takes, BusyOps, Requests, ValidForConnect
  <2> QED BY <1>0, <1>1, <2>1, <2>2, TopEnded
<1>5. CASE ReconnectConnected
  <2> DEFINE f == [Top EXCEPT !.pc = "resubscribe"]
             failed == Result("resubscribe", "MQTT_FAILURE")
  <2>1. Top.op = "reconnect" /\ clientState = "CONNECTED_IDLE" /\ StartResubscribe(SetTop(f))
    BY <1>5 DEF ReconnectConnected, At
  <2>2. f \in Frames /\ f.op = "reconnect" /\ f.saved = Top.saved /\ f.pc = "resubscribe"
    BY <1>0, <2>1 DEF Frames
  <2>3. failed.rc = "MQTT_FAILURE"
    BY DEF Result
  <2>4. SetTop(f) = [stack EXCEPT ![Len(stack)] = f]
    BY DEF SetTop
  <2> HIDE DEF f, failed
  <2>5. FrameKept(f, messageHandlers) /\ Due(f, messageHandlers) = {}
    BY <1>0, <2>1, <2>2, TopKept DEF FrameKept, Due
  <2>6. f.op = stack[Len(stack)].op /\ f.saved = stack[Len(stack)].saved
    BY <2>1, <2>2 DEF Top
  <2>7. Subscribed(SetTop(f), clientState, failed, messageHandlers, Asked)
    BY <1>0, <2>2, <2>3, <2>4, <2>5, <2>6, SubscribedReplace
  <2>8. SetTop(f) \in Seq(Frames) /\ SetTop(f) # <<>> /\ SetTop(f)[Len(SetTop(f))] = f
    BY <1>0, <2>2, <2>4, ReplaceTop
  <2> QED BY <1>0, <2>1, <2>2, <2>7, <2>8, ResubscribeSubscribed
<1>6. CASE Deliver \/ CallbackReturns
  <2>1. Top.op = "deliver" /\ UNCHANGED <<netVars, clientState>>
    BY <1>6 DEF Deliver, CallbackReturns, At
  <2>2. PICK f \in Frames : f.op = Top.op /\ f.saved = Top.saved /\ stack' = SetTop(f)
    <3>1. CASE Deliver
      <4>1. PICK s \in Slots : stack' = SetTop([Top EXCEPT !.pc = "callback", !.slot = s])
        BY <3>1 DEF Deliver
      <4>2. s \in 0..NumHandlers
        BY ZeroTyped
      <4>3. [Top EXCEPT !.pc = "callback", !.slot = s] \in Frames
        BY <1>0, <4>2 DEF Frames
      <4> QED BY <1>0, <4>1, <4>3 DEF Frames
    <3>2. CASE CallbackReturns
      <4>1. [Top EXCEPT !.pc = "scan"] \in Frames
        BY <1>0 DEF Frames
      <4> QED BY <1>0, <3>2, <4>1 DEF CallbackReturns, Frames
    <3> QED BY <1>6, <3>1, <3>2
  <2>3. FrameKept(f, messageHandlers) /\ Due(f, messageHandlers) = {}
    BY <2>1, <2>2 DEF FrameKept, Due
  <2> QED BY <1>0, <1>1, <2>1, <2>2, <2>3, TopMoved
<1>7. CASE EndDelivery
  <2>1. Top.op = "deliver" /\ stack' = Pop /\ Cas("CONNECTED_WAIT_FOR_CB_RETURN", Top.saved)
    BY <1>7 DEF EndDelivery, At
  <2>2. (Takes(Top.op, clientState) /\ clientState' = Top.saved) \/ Quiet(clientState')
    BY <1>0, <2>1, StateEnds, BusyStates
  <2>3. AskedKept
    <3> DEFINE p == Packet("PUBACK", NoTopic, Top.id)
    <3>1. p.type = "PUBACK"
      BY DEF Packet
    <3>2. UNCHANGED netVars \/ Send(p) \/ SendFails
      BY <1>7 DEF EndDelivery
    <3> HIDE DEF p
    <3> QED BY <1>0, <3>1, <3>2, AskedSent
  <2> QED BY <1>0, <2>1, <2>2, <2>3, TopEnded
<1>8. CASE YieldAfterDelivery
  <2>1. Top.op = "yield" /\ ret.rc \in ResultCodes /\ UNCHANGED netVars
    BY <1>0, <1>8 DEF YieldAfterDelivery, At, CallsTypeOK, Results
  <2>2. \E pc \in {"alive", "exit"} : YieldTo(pc, ret.rc)
    BY <1>8, <2>1 DEF YieldAfterDelivery, AfterRead
  <2> QED BY <1>1, <1>3, <2>1, <2>2
<1>9. CASE KeepAliveCheck
  <2>1. Top.op = "yield" /\ \E pc \in {"check", "lost"} : YieldTo(pc, "MQTT_SUCCESS")
    BY <1>9 DEF KeepAliveCheck, At
  <2>2. AskedKept
    <3> DEFINE p == Simple("PINGREQ")
    <3>1. p.type = "PINGREQ"
      BY DEF Simple, Packet
    <3>2. UNCHANGED netVars \/ Send(p) \/ SendFails
      BY <1>9 DEF KeepAliveCheck
    <3> HIDE DEF p
    <3> QED BY <1>0, <3>1, <3>2, AskedSent
  <2> QED BY <1>2, <1>3, <2>1, <2>2
<1>10. CASE HandleDisconnect
  <2>1. Top.op = "yield" /\ CloseConnection /\ YieldTo("handler", "MQTT_SUCCESS")
    BY <1>10 DEF HandleDisconnect, At
  <2>2. AskedKept
    BY <1>0, <2>1, AskedClosed
  <2> QED BY <1>2, <1>3, <2>1, <2>2
<1>11. CASE HandlerReturns \/ YieldAgain
  <2>1. Top.op = "yield" /\ UNCHANGED netVars
    BY <1>11 DEF HandlerReturns, YieldAgain, At
  <2>2. \E rc \in ResultCodes, pc \in {"loop", "check", "exit"} : YieldTo(pc, rc)
    BY <1>2, <1>11 DEF HandlerReturns, YieldAgain
  <2> QED BY <1>1, <1>3, <2>1, <2>2
<1>12. CASE HandleReconnect
  <2>1. Top.op = "yield"
    BY <1>12 DEF HandleReconnect, At
  <2>2. CASE UNCHANGED netVars /\ \E rc \in ResultCodes, pc \in {"check", "exit"} : YieldTo(pc, rc)
    BY <1>1, <1>3, <2>1, <2>2
  <2>3. CASE StartConnect(Append(SetTop([Top EXCEPT !.pc = "reconnect"]), Frame("reconnect", "connect")))
    <3> DEFINE y == [Top EXCEPT !.pc = "reconnect"]
               f == Frame("reconnect", "connect")
    <3>1. y \in Frames /\ y.op = "yield" /\ y.saved = Top.saved
      BY <1>0, <2>1 DEF Frames
    <3>2. SetTop(y) = [stack EXCEPT ![Len(stack)] = y] /\ f = Frame("reconnect", "connect")
          /\ StartConnect(Append(SetTop(y), f))
      BY <2>3 DEF SetTop
    <3> HIDE DEF y, f
    <3>3. FrameKept(y, messageHandlers) /\ Due(y, messageHandlers) = {}
      BY <1>0, <2>1, <3>1, TopKept DEF FrameKept, Due
    <3>4. y.op = stack[Len(stack)].op /\ y.saved = stack[Len(stack)].saved
      BY <2>1, <3>1 DEF Top
    <3>5. Subscribed(SetTop(y), clientState, ret, messageHandlers, Asked)
      BY <1>0, <3>1, <3>2, <3>3, <3>4, SubscribedReplace
    <3>6. SetTop(y) \in Seq(Frames) /\ SetTop(y) # <<>> /\ SetTop(y)[Len(SetTop(y))] = y
      BY <1>0, <3>1, <3>2, ReplaceTop
    <3>7. LET t == Append(SetTop(y), f) IN
          /\ t \in Seq(Frames) /\ t # <<>> /\ t[Len(t)].op = "reconnect" /\ t[Len(t)].pc = "connect"
          /\ Subscribed(t, clientState, ret, messageHandlers, Asked)
      BY <3>1, <3>2, <3>5, <3>6, ReconnectPushed
    <3> QED BY <1>0, <3>2, <3>7, ConnectSubscribed
  <2> QED BY <1>2, <1>12, <2>2, <2>3 DEF HandleReconnect, BackOff
<1>13. CASE YieldAfterReconnect
  <2>1. Top.op = "yield" /\ UNCHANGED netVars /\ ret.rc \in ResultCodes
    BY <1>0, <1>13 DEF YieldAfterReconnect, At, CallsTypeOK, Results
  <2>2. \E rc \in ResultCodes : YieldTo("check", rc)
    BY <1>2, <1>13, <2>1 DEF YieldAfterReconnect, BackOff
  <2> QED BY <1>1, <1>3, <2>1, <2>2
<1>14. CASE YieldReturns
  <2>1. Top.op = "yield" /\ UNCHANGED netVars /\ stack' = Pop
    BY <1>14 DEF YieldReturns, At
  <2>2. Quiet(clientState')
    <3>1. CASE clientState' = "CONNECTED_IDLE"
      BY <3>1, QuietStates
    <3>2. CASE clientState' = clientState /\ clientState # "CONNECTED_YIELD_IN_PROGRESS"
      BY <2>1, <3>2, NotTaken, BusyStates DEF Takes
    <3>3. Top.rc \in LeaveState => clientState # "CONNECTED_YIELD_IN_PROGRESS"
      BY <1>0, <1>14, <2>1 DEF StackInv, YieldOnTop, YieldReturns, At
    <3> QED BY <1>14, <3>1, <3>2, <3>3 DEF YieldReturns, Cas
  <2> QED BY <1>0, <1>1, <2>1, <2>2, TopEnded
<1> QED BY <1>4, <1>5, <1>6, <1>7, <1>8, <1>9, <1>10, <1>11, <1>12, <1>13, <1>14 DEF ClientStep

LEMMA SubscribedStep ==
  ASSUME TypeOK, PingInv, StackInv, SubscribedInv, NothingLost, [Next]_vars
  PROVE  SubscribedInv'
<1>1. NetTypeOK /\ Orderly
  BY DEF TypeOK, SubscribedInv
<1>2. CASE PingTimerExpires \/ DelayTimerExpires \/ UNCHANGED vars
  <2>1. UNCHANGED <<netVars, calls, messageHandlers>>
    BY <1>2 DEF PingTimerExpires, DelayTimerExpires, vars, clientVars, subs
  <2>2. AskedKept
    BY <1>1, <2>1, AskedStill
  <2> QED BY <2>1, <2>2, StackLeft DEF calls
<1>3. CASE World
  <2>1. UNCHANGED <<calls, messageHandlers>> /\ AskedKept
    BY <1>1, <1>3, AskedInWorld DEF World, clientVars, subs
  <2> QED BY <2>1, StackLeft DEF calls
<1> QED BY <1>2, <1>3, CallSubscribed, ReadSubscribed, StepSubscribed DEF Next

(* What only a reconnection that found its handlers resubscribed returns.  *)
LEMMA ReconnectedResult ==
  ASSUME TypeOK, SubscribedInv, [Next]_vars, ReturnsWith("reconnect", "NETWORK_RECONNECTED")
  PROVE  Registered \subseteq Asked
<1>1. ReconnectResubscribed
  <2>1. ret'.op = "reconnect" /\ ret'.rc = "NETWORK_RECONNECTED" /\ ret' # ret
    BY DEF ReturnsWith, Result
  <2>2. \A op, rc : ret' = Result(op, rc) => op = "reconnect" /\ rc = "NETWORK_RECONNECTED"
    BY <2>1 DEF Result
  <2>3. ret' # NoResult
    BY <2>2 DEF NoResult
  <2>4. ~ApiCall
    <3>1. \A op, p, f, below : SendRequest(op, p, f, below) => op = "reconnect"
      BY <2>2, <2>3 DEF SendRequest
    <3>2. \A below : ~StartConnect(below)
      BY <2>2, <2>3 DEF StartConnect
    <3>3. \A below : ~StartResubscribe(below)
      BY <2>2, <3>1 DEF StartResubscribe
    <3>4. \A op, rc : Refuse(op, rc) => rc = "NETWORK_RECONNECTED"
      BY <2>2 DEF Refuse
    <3>5. \A op : ~RefuseRequest(op)
      BY <3>4 DEF RefuseRequest
    <3> QED BY <2>1, <2>2, <2>3, <3>1, <3>2, <3>3, <3>4, <3>5 DEF ApiCall, Connect, AttemptReconnect,
         Resubscribe, Disconnect, SetAutoReconnect, Publish, Subscribe, Unsubscribe, Yield, calls
  <2>5. \A rc : EndRequest(rc) => Top.op = "reconnect"
    BY <2>2 DEF EndRequest
  <2>6. \A rc : ~FailConnect(rc)
    BY <2>2 DEF FailConnect
  <2>7. ~ReadStep /\ ~WaitTimeout
    BY <2>1, <2>2, <2>3, <2>5, <2>6 DEF ReadStep, ReadConnack, ReadResuback, ReadPuback, ReadSuback,
         ReadUnsuback, ReadOther, ReadPingresp, ReadOversize, ReadPublish, ReadNothing, ReadTorn,
         ReadError, WaitTimeout, Requests, At
  <2>8. \A below : ~StartConnect(below) /\ ~StartResubscribe(below)
    BY <2>2, <2>3 DEF StartConnect, StartResubscribe, SendRequest
  <2>9. ClientStep => ReconnectResubscribed
    <3>1. ~ReconnectFailed
      BY <2>2 DEF ReconnectFailed
    <3>2. ~ReconnectConnected /\ ~HandleReconnect
      BY <2>1, <2>8 DEF ReconnectConnected, HandleReconnect
    <3>3. ~Deliver /\ ~KeepAliveCheck /\ ~HandleDisconnect
      BY <2>1 DEF Deliver, KeepAliveCheck, HandleDisconnect
    <3>4. ~EndDelivery
      BY <2>2 DEF EndDelivery
    <3>5. ~YieldAfterDelivery /\ ~YieldAfterReconnect
      BY <2>3 DEF YieldAfterDelivery, YieldAfterReconnect
    <3> QED BY <3>1, <3>2, <3>3, <3>4, <3>5 DEF ClientStep
  <2>10. ~(CallbackReturns \/ HandlerReturns \/ YieldAgain \/ YieldReturns \/ PingTimerExpires
           \/ DelayTimerExpires \/ World \/ UNCHANGED vars)
    BY <2>1, <2>2 DEF CallbackReturns, HandlerReturns, YieldAgain, YieldReturns, PingTimerExpires,
         DelayTimerExpires, World, clientVars, vars, calls
  <2> QED BY <2>4, <2>7, <2>9, <2>10 DEF Next
<1>2. ret.rc = "MQTT_SUCCESS" \/ ret.rc = "NETWORK_RECONNECTED"
  BY <1>1 DEF ReturnsWith, ReconnectResubscribed, Result
<1>3. Resolved(stack, ret, messageHandlers, Asked) /\ stack # <<>>
      /\ stack[Len(stack)].op = "reconnect" /\ stack[Len(stack)].pc = "resubscribe"
  BY <1>1 DEF SubscribedInv, Subscribed, ReconnectResubscribed, At, Top
<1> QED BY <1>2, <1>3 DEF Resolved, Registered

(* When mqtt_attempt_reconnect, called by the application, by a callback   *)
(* or by mqtt_yield, returns NETWORK_RECONNECTED, every topic that has a   *)
(* handler is subscribed to on the new connection or its SUBSCRIBE is on   *)
(* the way, whatever callbacks did meanwhile; if nobody unsubscribes, so   *)
(* that handlers fill the table from its start, and the broker grants what *)
(* it is asked for.                                                        *)
THEOREM ReconnectedSubscribed ==
  ASSUME NothingLost
  PROVE  Spec => ReconnectedMeansSubscribed
<1>1. Init => PingInv
  BY DEF Init, NetInit, PingInv
<1>2. Init => SubscribedInv
  <2> SUFFICES ASSUME Init
               PROVE  SubscribedInv
    OBVIOUS
  <2>1. Len(stack) = 0 /\ stack = <<>> /\ Len(toBroker) = 0 /\ Filled(messageHandlers)
    BY DEF Init, NetInit, Filled
  <2>2. \A i \in 1..(Len(stack) - 1) : FALSE
    BY <2>1
  <2> QED BY <2>1, <2>2 DEF SubscribedInv, Subscribed, CallsKept, Claims, Resolved, Orderly
<1>3. TypeOK /\ StackInv /\ PingInv /\ [Next]_vars => PingInv'
  BY PingStep
<1>4. TypeOK /\ StackInv /\ PingInv /\ SubscribedInv /\ [Next]_vars => SubscribedInv'
  BY SubscribedStep
<1>5. TypeOK /\ SubscribedInv /\ [Next]_vars =>
        [ReturnsWith("reconnect", "NETWORK_RECONNECTED") /\ socket = "up" =>
           \A t \in Registered :
             \/ t \in brokerSubs
             \/ \E i \in 1..Len(toBroker) : toBroker[i].type = "SUBSCRIBE" /\ toBroker[i].topic = t]_vars
  BY ReconnectedResult DEF Asked
<1> QED
  BY <1>1, <1>2, <1>3, <1>4, <1>5, TypeCorrect, StackCorrect, PTL DEF Spec, ReconnectedMeansSubscribed
=============================================================================
