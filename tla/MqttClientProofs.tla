-------------------------- MODULE MqttClientProofs --------------------------
(* Proofs about MqttClient for every number of topics, handlers, packet    *)
(* identifiers, queue lengths and every choice of application calls.       *)
EXTENDS MqttClient, SequenceTheorems, TLAPS


----------------------------------------------------------------------------
(* The stack: what pushing, popping and replacing the top frame do.        *)

LEMMA PushStack ==
  ASSUME NEW S, NEW s \in Seq(S), NEW f \in S
  PROVE  /\ Append(s, f) \in Seq(S) /\ Append(s, f) # <<>>
         /\ Len(Append(s, f)) = Len(s) + 1
         /\ Append(s, f)[Len(s) + 1] = f
         /\ \A i \in 1..Len(s) : Append(s, f)[i] = s[i]
  OBVIOUS

LEMMA PopStack ==
  ASSUME NEW S, NEW s \in Seq(S), s # <<>>, NEW p, p = SubSeq(s, 1, Len(s) - 1)
  PROVE  /\ p \in Seq(S)
         /\ Len(p) = Len(s) - 1
         /\ \A i \in 1..(Len(s) - 1) : p[i] = s[i]
  <1> DEFINE n == Len(s) - 1
  <1>1. n \in Nat /\ 1 \in Int /\ n \in Int
    OBVIOUS
  <1>2. \A i \in 1..n : s[i] \in S
    OBVIOUS
  <1>3. p = SubSeq(s, 1, n)
    OBVIOUS
  <1> HIDE DEF n
  <1>4. /\ p \in Seq(S)
        /\ Len(p) = IF 1 <= n THEN n - 1 + 1 ELSE 0
        /\ \A i \in 1..(n - 1 + 1) : p[i] = s[1 + i - 1]
    BY <1>1, <1>2, <1>3, SubSeqProperties, SMTT(30)
  <1>5. n - 1 + 1 = n /\ \A i \in 1..n : 1 + i - 1 = i
    BY <1>1
  <1>6. Len(p) = n
    BY <1>1, <1>4
  <1>7. \A i \in 1..n : p[i] = s[i]
    BY <1>4, <1>5
  <1> QED
    BY <1>4, <1>6, <1>7 DEF n

LEMMA ReplaceTop ==
  ASSUME NEW S, NEW s \in Seq(S), s # <<>>, NEW f \in S, NEW r, r = [s EXCEPT ![Len(s)] = f]
  PROVE  /\ r \in Seq(S) /\ r # <<>>
         /\ Len(r) = Len(s)
         /\ r[Len(s)] = f
         /\ \A i \in 1..(Len(s) - 1) : r[i] = s[i]
  OBVIOUS

LEMMA TopFrame ==
  ASSUME NEW S, NEW s \in Seq(S), s # <<>>
  PROVE  Len(s) \in Nat \ {0} /\ s[Len(s)] \in S
  OBVIOUS

----------------------------------------------------------------------------
(* The transport keeps its types.                                          *)

LEMMA PacketTyped ==
  ASSUME NEW type \in PacketTypes, NEW t \in Topics \cup {NoTopic}, NEW id \in PacketIds
  PROVE  Packet(type, t, id) \in Packets
  BY DEF Packet, Packets

LEMMA ChannelsTyped ==
  ASSUME NetTypeOK
  PROVE  /\ toClient # <<>> => Head(toClient) \in Packets /\ Tail(toClient) \in Seq(Packets)
         /\ toBroker # <<>> => Head(toBroker) \in Packets /\ Tail(toBroker) \in Seq(Packets)
  BY DEF NetTypeOK

LEMMA SimpleTyped == \A type \in PacketTypes : Simple(type) \in Packets
  BY PacketTyped, NetworkAssumption DEF Simple, PacketIds, NetworkAssumption

LEMMA SendTyped ==
  ASSUME NetTypeOK, NEW p \in Packets, Send(p)
  PROVE  NetTypeOK'
  BY DEF NetTypeOK, Send

LEMMA ConsumeTyped ==
  ASSUME NetTypeOK, toClient # <<>>, Consume
  PROVE  NetTypeOK'
  BY ChannelsTyped DEF NetTypeOK, Consume

LEMMA ConsumeAndSendTyped ==
  ASSUME NetTypeOK, NEW p \in Packets, toClient # <<>>, ConsumeAndSend(p)
  PROVE  NetTypeOK'
  BY ChannelsTyped DEF NetTypeOK, ConsumeAndSend

LEMMA ResetTyped ==
  ASSUME NEW sent \in Seq(Packets), ResetChannels(sent)
  PROVE  /\ toBroker' \in Seq(Packets) /\ toClient' \in Seq(Packets)
         /\ session' \in BOOLEAN /\ brokerSubs' \subseteq Topics
  <1>1. <<>> \in Seq(Packets) /\ {} \subseteq Topics
    OBVIOUS
  <1> QED
    BY <1>1 DEF ResetChannels

LEMMA EmptyChannel == <<>> \in Seq(Packets)
  OBVIOUS

LEMMA OpenTyped ==
  ASSUME NetTypeOK, OpenConnection
  PROVE  NetTypeOK'
  <1>1. <<Simple("CONNECT")>> \in Seq(Packets)
    BY SimpleTyped DEF PacketTypes
  <1> QED
    BY <1>1, ResetTyped DEF NetTypeOK, OpenConnection, Sockets

LEMMA CloseTyped ==
  ASSUME NetTypeOK, CloseConnection
  PROVE  NetTypeOK'
  BY EmptyChannel, ResetTyped DEF NetTypeOK, CloseConnection, Sockets

LEMMA AnswerTyped ==
  ASSUME NEW p \in Packets, NEW a \in Answer(p)
  PROVE  a \in Packets
  <1>1. Packets = [type : PacketTypes, topic : Topics \cup {NoTopic}, id : PacketIds,
                   kind : {"plain", "refused", "oversize"}]
    BY DEF Packets
  <1>2. p.id \in PacketIds
    BY <1>1
  <1>3. \A k \in {"plain", "refused"} : /\ [Simple("CONNACK") EXCEPT !.kind = k] \in Packets
                                       /\ [Packet("SUBACK", NoTopic, p.id) EXCEPT !.kind = k] \in Packets
    BY <1>1, <1>2, NetworkAssumption DEF Simple, Packet, PacketTypes, PacketIds, NetworkAssumption
  <1>4. /\ Packet("UNSUBACK", NoTopic, p.id) \in Packets
        /\ Packet("PUBACK", NoTopic, p.id) \in Packets
        /\ Simple("PINGRESP") \in Packets
    BY <1>2, PacketTyped, SimpleTyped DEF PacketTypes
  <1> QED
    BY <1>3, <1>4 DEF Answer

LEMMA WorldTyped ==
  ASSUME NetTypeOK, Broker \/ Outages
  PROVE  NetTypeOK'
  <1>1. CASE BrokerAnswers
    <2>1. toBroker # <<>> /\ Head(toBroker) \in Packets /\ Tail(toBroker) \in Seq(Packets)
      BY <1>1, ChannelsTyped DEF BrokerAnswers
    <2>2. PICK a \in Answer(Head(toBroker)) :
            /\ toClient' = Append(toClient, a)
            /\ session' = (session \/ a.kind = "plain")
            /\ brokerSubs' = CASE a.type = "SUBACK" /\ a.kind = "plain" ->
                                    brokerSubs \cup ({Head(toBroker).topic} \cap Topics)
                               [] a.type = "UNSUBACK" -> brokerSubs \ {Head(toBroker).topic}
                               [] OTHER -> brokerSubs
      BY <1>1 DEF BrokerAnswers
    <2>3. a \in Packets
      BY <2>1, <2>2, AnswerTyped
    <2>4. toClient' \in Seq(Packets) /\ session' \in BOOLEAN /\ brokerSubs' \subseteq Topics
      BY <2>2, <2>3 DEF NetTypeOK
    <2> QED
      BY <1>1, <2>1, <2>4 DEF NetTypeOK, BrokerAnswers
  <1>2. CASE BrokerIgnores
    BY <1>2, ChannelsTyped DEF NetTypeOK, BrokerIgnores
  <1>3. CASE BrokerPublishes
    <2>1. PICK t \in brokerSubs, what \in Inbound :
            toClient' = Append(toClient,
                     [Packet("PUBLISH", t, IF what = "QOS1" THEN 1 ELSE 0)
                        EXCEPT !.kind = IF what = "OVERSIZE" THEN "oversize" ELSE "plain"])
      BY <1>3 DEF BrokerPublishes
    <2>2. [Packet("PUBLISH", t, IF what = "QOS1" THEN 1 ELSE 0)
             EXCEPT !.kind = IF what = "OVERSIZE" THEN "oversize" ELSE "plain"] \in Packets
      <3> DEFINE p == Packet("PUBLISH", t, IF what = "QOS1" THEN 1 ELSE 0)
      <3>1. {0, 1} \subseteq PacketIds
        BY NetworkAssumption DEF NetworkAssumption, PacketIds
      <3>2. t \in Topics \cup {NoTopic}
        BY DEF NetTypeOK
      <3>3. p \in Packets
        BY <3>1, <3>2, PacketTyped DEF PacketTypes
      <3> HIDE DEF p
      <3>4. \A k \in {"plain", "oversize"} : [p EXCEPT !.kind = k] \in Packets
        BY <3>3 DEF Packets
      <3> QED BY <3>4 DEF p
    <2> QED
      BY <1>3, <2>1, <2>2 DEF NetTypeOK, BrokerPublishes
  <1>4. CASE WifiChanges
    BY <1>4 DEF NetTypeOK, WifiChanges
  <1>5. CASE LosePeer
    <2>1. PICK n \in 0..Len(toClient) : toClient' = SubSeq(toClient, 1, n)
      BY <1>5 DEF LosePeer
    <2>2. toClient' \in Seq(Packets)
      BY <2>1 DEF NetTypeOK
    <2> QED
      BY <1>5, <2>2, EmptyChannel DEF NetTypeOK, LosePeer, Sockets
  <1>6. CASE ResetPeer
    BY <1>6, EmptyChannel, ResetTyped DEF NetTypeOK, ResetPeer, Sockets
  <1> QED
    BY <1>1, <1>2, <1>3, <1>4, <1>5, <1>6 DEF Broker, Outages

----------------------------------------------------------------------------
(* The building blocks of the client's actions keep its types.             *)

LEMMA FrameTyped ==
  ASSUME NEW op \in Ops \cup {"deliver"},
         NEW pc \in {"wait", "connect", "scan", "loop"}
  PROVE  Frame(op, pc) \in Frames
  BY NetworkAssumption, ClientAssumption
  DEF Frame, Frames, ClientStates, ConnectedStates, PacketIds, ResultCodes,
      NetworkAssumption, ClientAssumption

LEMMA SavingTyped ==
  ASSUME clientState \in ClientStates, NEW op \in Ops \cup {"deliver"}, NEW pc \in {"wait", "scan"},
         NEW topic \in Topics \cup {NoTopic}, NEW slot \in 0..NumHandlers,
         NEW last \in 0..NumHandlers, NEW id \in PacketIds
  PROVE  Saving(op, pc, topic, slot, last, id) \in Frames
  BY DEF Saving, Frames, ResultCodes

LEMMA ZeroTyped == 0 \in 0..NumHandlers /\ 0 \in PacketIds /\ Slots \subseteq 0..NumHandlers
  BY NetworkAssumption, ClientAssumption DEF NetworkAssumption, ClientAssumption, PacketIds, Slots

LEMMA TopTyped ==
  ASSUME CallsTypeOK, stack # <<>>
  PROVE  /\ Top \in Frames
         /\ Pop \in Seq(Frames)
         /\ \A f \in Frames : SetTop(f) \in Seq(Frames)
         /\ \A f \in Frames : Append(SetTop(f), Top) \in Seq(Frames)
  <1>1. stack \in Seq(Frames)
    BY DEF CallsTypeOK
  <1>2. Top \in Frames
    BY <1>1, TopFrame DEF Top
  <1>3. Pop \in Seq(Frames)
    BY <1>1, PopStack DEF Pop
  <1>4. \A f \in Frames : SetTop(f) \in Seq(Frames)
    BY <1>1, ReplaceTop DEF SetTop
  <1> QED
    BY <1>2, <1>3, <1>4

LEMMA ResultTyped ==
  ASSUME NEW op \in Ops \cup {"deliver", "none"}, NEW rc \in ResultCodes
  PROVE  Result(op, rc) \in Results
  BY DEF Result, Results

LEMMA NoResultTyped == NoResult \in Results
  BY DEF NoResult, Result, Results, ResultCodes

LEMMA InProgressTyped == \A op \in BusyOps : InProgress[op] \in ClientStates
  BY DEF BusyOps, Requests, InProgress, ClientStates, ConnectedStates

LEMMA CasTyped ==
  ASSUME clientState \in ClientStates, NEW e, NEW n \in ClientStates, Cas(e, n)
  PROVE  clientState' \in ClientStates
  BY DEF Cas

LEMMA EndRequestTyped ==
  ASSUME CallsTypeOK, stack # <<>>, NEW rc \in ResultCodes, EndRequest(rc)
  PROVE  CallsTypeOK'
  <1>1. Top \in Frames /\ Pop \in Seq(Frames)
    BY TopTyped
  <1>2. Top.saved \in ClientStates /\ Top.op \in Ops \cup {"deliver", "none"}
    BY <1>1 DEF Frames
  <1>3. clientState' \in ClientStates
    BY <1>2 DEF EndRequest, Cas, CallsTypeOK
  <1>4. ret' \in Results
    BY <1>2 DEF EndRequest, Result, Results, ResultCodes, CasRc
  <1> QED
    BY <1>1, <1>3, <1>4 DEF EndRequest, CallsTypeOK

LEMMA SendRequestTyped ==
  ASSUME NetTypeOK, CallsTypeOK, NEW op \in Requests, NEW p \in Packets,
         NEW f \in Frames, NEW below \in Seq(Frames), SendRequest(op, p, f, below)
  PROVE  NetTypeOK' /\ CallsTypeOK'
  <1>1. CASE Send(p) /\ clientState' = InProgress[op] /\ stack' = Append(below, f) /\ ret' = NoResult
    BY <1>1, SendTyped, InProgressTyped, PushStack, NoResultTyped DEF CallsTypeOK, BusyOps
  <1>2. CASE SendFails /\ ret' = Result(op, "MQTT_FAILURE") /\ stack' = below /\ UNCHANGED clientState
    <2>1. NetTypeOK'
      BY <1>2 DEF SendFails, netVars, NetTypeOK
    <2>2. ret' \in Results
      BY <1>2, ResultTyped DEF Requests, Ops, ResultCodes
    <2> QED
      BY <1>2, <2>1, <2>2 DEF CallsTypeOK
  <1> QED
    BY <1>1, <1>2 DEF SendRequest

LEMMA StartConnectTyped ==
  ASSUME NetTypeOK, CallsTypeOK, NEW below \in Seq(Frames), StartConnect(below)
  PROVE  NetTypeOK' /\ CallsTypeOK'
  <1>1. Frame("connect", "wait") \in Frames
    BY FrameTyped DEF Ops
  <1>2. Append(below, Frame("connect", "wait")) \in Seq(Frames)
    BY <1>1
  <1>3. Result("connect", "TCP_CONNECTION_ERROR") \in Results
    BY ResultTyped DEF Ops, ResultCodes
  <1>4. {"CONNECTING", "DISCONNECTED_ERROR"} \subseteq ClientStates
    BY DEF ClientStates, ValidForConnect
  <1> QED
    BY <1>2, <1>3, <1>4, OpenTyped, CloseTyped, NoResultTyped DEF StartConnect, CallsTypeOK

LEMMA FailConnectTyped ==
  ASSUME TypeOK, stack # <<>>, NEW rc \in ResultCodes, FailConnect(rc)
  PROVE  TypeOK'
  <1>1. CallsTypeOK'
    <2>1. Result("connect", rc) \in Results
      BY ResultTyped DEF Ops
    <2>2. clientState' \in ClientStates
      BY CasTyped DEF FailConnect, TypeOK, CallsTypeOK, ClientStates, ValidForConnect
    <2> QED
      BY <2>1, <2>2, TopTyped DEF FailConnect, TypeOK, CallsTypeOK
  <1>2. NetTypeOK'
    BY CloseTyped DEF FailConnect, TypeOK
  <1>3. DataTypeOK'
    BY DEF FailConnect, TypeOK, DataTypeOK, ping, backoff, subs
  <1> QED
    BY <1>1, <1>2, <1>3 DEF TypeOK

LEMMA YieldToTyped ==
  ASSUME CallsTypeOK, stack # <<>>, NEW rc \in ResultCodes,
         NEW pc \in {"loop", "alive", "lost", "handler", "check", "exit"}
  PROVE  YieldTo(pc, rc) => stack' \in Seq(Frames)
  <1>1. [Top EXCEPT !.pc = pc, !.rc = rc] \in Frames
    BY TopTyped DEF Frames
  <1> QED
    BY <1>1, TopTyped DEF YieldTo

LEMMA AfterReadTyped ==
  ASSUME CallsTypeOK, stack # <<>>, NEW rc \in ResultCodes, AfterRead(rc)
  PROVE  stack' \in Seq(Frames)
  BY YieldToTyped DEF AfterRead, CallsTypeOK

LEMMA NextIdTyped == DataTypeOK => NextId \in 1..MaxPacketId /\ NextId \in PacketIds
  BY NetworkAssumption DEF DataTypeOK, NextId, PacketIds, NetworkAssumption

LEMMA RefuseTyped ==
  ASSUME TypeOK, NEW op \in Ops, NEW rc \in ResultCodes, Refuse(op, rc)
  PROVE  TypeOK'
  <1>1. NetTypeOK'
    BY DEF Refuse, TypeOK, NetTypeOK, netVars
  <1>2. DataTypeOK'
    BY DEF Refuse, TypeOK, DataTypeOK, ping, backoff, subs
  <1>3. CallsTypeOK'
    BY ResultTyped DEF Refuse, TypeOK, CallsTypeOK
  <1> QED
    BY <1>1, <1>2, <1>3 DEF TypeOK

LEMMA RefuseRequestTyped ==
  ASSUME TypeOK, NEW op \in Ops, RefuseRequest(op)
  PROVE  TypeOK'
  BY RefuseTyped DEF RefuseRequest, ResultCodes

LEMMA DataUnchanged ==
  ASSUME DataTypeOK, UNCHANGED <<ping, backoff, messageHandlers, rxTopic>>,
         nextPacketId' \in 1..MaxPacketId
  PROVE  DataTypeOK'
  BY DEF DataTypeOK, ping, backoff

LEMMA StartResubscribeTyped ==
  ASSUME TypeOK, NEW below \in Seq(Frames), StartResubscribe(below)
  PROVE  NetTypeOK' /\ CallsTypeOK' /\ nextPacketId' \in 1..MaxPacketId
  <1>1. PICK n \in 0..NumHandlers :
          /\ HandlersInUse(n)
          /\ \/ /\ n = 0
                /\ ret' = Result("resubscribe", "MQTT_SUCCESS")
                /\ stack' = below
                /\ UNCHANGED <<netVars, clientState, nextPacketId>>
             \/ /\ n > 0
                /\ nextPacketId' = NextId
                /\ SendRequest("resubscribe", Packet("SUBSCRIBE", messageHandlers[1], NextId),
                         Saving("resubscribe", "wait", NoTopic, 1, n, NextId),
                         below)
    BY DEF StartResubscribe
  <1>2. CASE n = 0 /\ ret' = Result("resubscribe", "MQTT_SUCCESS") /\ stack' = below
             /\ UNCHANGED <<netVars, clientState, nextPacketId>>
    <2>1. Result("resubscribe", "MQTT_SUCCESS") \in Results
      BY ResultTyped DEF Ops, ResultCodes
    <2> QED
      BY <1>2, <2>1 DEF TypeOK, NetTypeOK, DataTypeOK, CallsTypeOK, netVars
  <1>3. CASE n > 0 /\ nextPacketId' = NextId
             /\ SendRequest("resubscribe", Packet("SUBSCRIBE", messageHandlers[1], NextId),
                         Saving("resubscribe", "wait", NoTopic, 1, n, NextId),
                         below)
    <2>1. NextId \in 1..MaxPacketId /\ NextId \in PacketIds
      BY NextIdTyped DEF TypeOK
    <2>2. 1 \in Slots /\ 1 \in 0..NumHandlers
      BY ClientAssumption DEF Slots, ClientAssumption
    <2>3. Packet("SUBSCRIBE", messageHandlers[1], NextId) \in Packets
      BY <2>1, <2>2, PacketTyped DEF TypeOK, DataTypeOK, PacketTypes
    <2>4. Saving("resubscribe", "wait", NoTopic, 1, n, NextId) \in Frames
      BY <2>1, <2>2, ZeroTyped, SavingTyped DEF TypeOK, CallsTypeOK, Ops
    <2> QED
      BY <1>3, <2>1, <2>3, <2>4, SendRequestTyped DEF TypeOK, Requests
  <1> QED
    BY <1>1, <1>2, <1>3

----------------------------------------------------------------------------
(* Each action keeps every variable's type.                                *)

LEMMA ConnectingTyped ==
  ASSUME TypeOK, Connect \/ AttemptReconnect \/ ReadConnack \/ ReconnectFailed
                 \/ ReconnectResubscribed \/ ReconnectConnected
  PROVE  TypeOK'
  <1> USE DEF TypeOK
  <1>1. CASE Connect
    <2>1. CASE clientState \in ValidForConnect /\ StartConnect(stack) /\ UNCHANGED <<ping, backoff, subs>>
      BY <2>1, StartConnectTyped DEF CallsTypeOK, DataTypeOK, ping, backoff, subs
    <2>2. CASE Refuse("connect", "NETWORK_ALREADY_CONNECTED_ERROR")
      BY <2>2, RefuseTyped DEF Ops, ResultCodes
    <2> QED
      BY <1>1, <2>1, <2>2 DEF Connect
  <1>2. CASE AttemptReconnect
    <2>1. CASE StartConnect(Append(stack, Frame("reconnect", "connect"))) /\ UNCHANGED <<ping, backoff, subs>>
      <3>1. Append(stack, Frame("reconnect", "connect")) \in Seq(Frames)
        BY FrameTyped DEF CallsTypeOK, Ops
      <3> QED
        BY <2>1, <3>1, StartConnectTyped DEF DataTypeOK, ping, backoff, subs
    <2>2. CASE Refuse("reconnect", "NETWORK_ALREADY_CONNECTED_ERROR")
      BY <2>2, RefuseTyped DEF Ops, ResultCodes
    <2> QED
      BY <1>2, <2>1, <2>2 DEF AttemptReconnect
  <1>3. CASE ReadConnack
    <2>0. stack # <<>> /\ toClient # <<>>
      BY <1>3 DEF ReadConnack, At, Arrived
    <2>1. CASE FailConnect("MQTT_CONNACK_REFUSED")
      BY <2>0, <2>1, FailConnectTyped DEF ResultCodes
    <2>2. CASE /\ Consume
               /\ Cas("CONNECTING", "CONNECTED_IDLE")
               /\ isPingOutstanding' = FALSE /\ pingExpired' = FALSE
               /\ ret' = Result("connect", "MQTT_SUCCESS")
               /\ stack' = Pop
               /\ UNCHANGED <<backoff, subs>>
      <3>1. NetTypeOK'
        BY <2>0, <2>2, ConsumeTyped
      <3>2. DataTypeOK'
        BY <2>2 DEF DataTypeOK, backoff, subs
      <3>3. clientState' \in ClientStates
        BY <2>2, CasTyped DEF CallsTypeOK, ClientStates, ConnectedStates
      <3>4. ret' \in Results
        BY <2>2, ResultTyped DEF Ops, ResultCodes
      <3> QED
        BY <2>0, <2>2, <3>1, <3>2, <3>3, <3>4, TopTyped DEF CallsTypeOK
    <2> QED
      BY <1>3, <2>1, <2>2 DEF ReadConnack, FreshPing
  <1>4. CASE ReconnectFailed
    <2>1. stack # <<>>
      BY <1>4 DEF ReconnectFailed, At
    <2>2. clientState' \in ClientStates
      BY <1>4, CasTyped DEF ReconnectFailed, CallsTypeOK, ClientStates, ValidForConnect
    <2>3. ret' \in Results
      BY <1>4, ResultTyped DEF ReconnectFailed, Ops, ResultCodes
    <2> QED
      BY <1>4, <2>1, <2>2, <2>3, TopTyped
      DEF ReconnectFailed, CallsTypeOK, NetTypeOK, DataTypeOK, netVars, ping, backoff, subs
  <1>5. CASE ReconnectResubscribed
    <2>1. stack # <<>>
      BY <1>5 DEF ReconnectResubscribed, At
    <2>2. ret.rc \in ResultCodes
      BY DEF CallsTypeOK, Results
    <2>3. ret' \in Results
      BY <1>5, <2>2, ResultTyped DEF ReconnectResubscribed, Ops, ResultCodes
    <2> QED
      BY <1>5, <2>1, <2>3, TopTyped
      DEF ReconnectResubscribed, CallsTypeOK, NetTypeOK, DataTypeOK, netVars, ping, backoff, subs
  <1>6. CASE ReconnectConnected
    <2>1. stack # <<>>
      BY <1>6 DEF ReconnectConnected, At
    <2>2. [Top EXCEPT !.pc = "resubscribe"] \in Frames
      BY <2>1, TopTyped DEF Frames
    <2>3. SetTop([Top EXCEPT !.pc = "resubscribe"]) \in Seq(Frames)
      BY <2>1, <2>2, TopTyped
    <2>4. NetTypeOK' /\ CallsTypeOK' /\ nextPacketId' \in 1..MaxPacketId
      BY <1>6, <2>3, StartResubscribeTyped DEF ReconnectConnected
    <2> QED
      BY <1>6, <2>4, DataUnchanged DEF ReconnectConnected
  <1> QED
    BY <1>1, <1>2, <1>3, <1>4, <1>5, <1>6

LEMMA RequestTyped ==
  ASSUME NetTypeOK, DataTypeOK, CallsTypeOK, NEW op \in Requests, NEW p \in Packets,
         NEW f \in Frames, SendRequest(op, p, f, stack),
         nextPacketId' = NextId, UNCHANGED <<ping, backoff, messageHandlers, rxTopic>>
  PROVE  TypeOK'
  <1>1. NetTypeOK' /\ CallsTypeOK'
    BY SendRequestTyped DEF CallsTypeOK
  <1>2. DataTypeOK'
    BY NextIdTyped, DataUnchanged
  <1> QED
    BY <1>1, <1>2 DEF TypeOK

LEMMA ApiTyped ==
  ASSUME TypeOK, Resubscribe \/ Disconnect \/ SetAutoReconnect \/ Publish \/ Subscribe
                 \/ Unsubscribe \/ Yield
  PROVE  TypeOK'
  <1> USE DEF TypeOK
  <1>0. NextId \in 1..MaxPacketId /\ NextId \in PacketIds
    BY NextIdTyped
  <1>1. CASE Resubscribe
    <2>1. CASE StartResubscribe(stack) /\ UNCHANGED <<ping, backoff, messageHandlers, rxTopic>>
      <3>1. NetTypeOK' /\ CallsTypeOK' /\ nextPacketId' \in 1..MaxPacketId
        BY <2>1, StartResubscribeTyped DEF CallsTypeOK
      <3> QED
        BY <2>1, <3>1, DataUnchanged
    <2>2. CASE Refuse("resubscribe", IF IsConnected THEN "MQTT_CLIENT_NOT_IDLE_ERROR"
                                                    ELSE "NETWORK_DISCONNECTED_ERROR")
      BY <2>2, RefuseTyped DEF Ops, ResultCodes
    <2> QED
      BY <1>1, <2>1, <2>2 DEF Resubscribe
  <1>2. CASE Disconnect
    <2>1. CASE CloseConnection /\ clientState' = "DISCONNECTED_MANUALLY"
               /\ ret' = Result("disconnect", "MQTT_SUCCESS")
               /\ UNCHANGED <<ping, backoff, subs, stack>>
      <3>1. ret' \in Results
        BY <2>1, ResultTyped DEF Ops, ResultCodes
      <3> QED
        BY <2>1, <3>1, CloseTyped
        DEF CallsTypeOK, ClientStates, ValidForConnect, DataTypeOK, ping, backoff, subs
    <2>2. \A rc \in ResultCodes : Refuse("disconnect", rc) => TypeOK'
      BY RefuseTyped DEF Ops
    <2> QED
      BY <1>2, <2>1, <2>2 DEF Disconnect, ResultCodes
  <1>3. CASE SetAutoReconnect
    <2>1. isAutoReconnectEnabled' \in BOOLEAN
      BY <1>3 DEF SetAutoReconnect
    <2> QED
      BY <1>3, <2>1 DEF SetAutoReconnect, NetTypeOK, DataTypeOK, CallsTypeOK, netVars, ping, subs, calls
  <1>4. CASE Publish
    <2>1. CASE RefuseRequest("publish")
      BY <2>1, RefuseRequestTyped DEF Ops
    <2>2. CASE /\ \/ Send(Simple("PUBLISH")) /\ ret' = Result("publish", "MQTT_SUCCESS")
                  \/ SendFails /\ ret' = Result("publish", "MQTT_FAILURE")
               /\ UNCHANGED <<ping, backoff, subs, clientState, stack>>
      <3>1. Simple("PUBLISH") \in Packets
        BY SimpleTyped DEF PacketTypes
      <3>2. NetTypeOK'
        BY <2>2, <3>1, SendTyped DEF SendFails, NetTypeOK, netVars
      <3>3. ret' \in Results
        BY <2>2, ResultTyped DEF Ops, ResultCodes
      <3> QED
        BY <2>2, <3>2, <3>3 DEF CallsTypeOK, DataTypeOK, ping, backoff, subs
    <2>3. CASE /\ nextPacketId' = NextId
               /\ SendRequest("publish", Packet("PUBLISH", NoTopic, NextId),
                       Saving("publish", "wait", NoTopic, 0, 0, NextId),
                       stack)
               /\ UNCHANGED <<ping, backoff, messageHandlers, rxTopic>>
      <3>1. Packet("PUBLISH", NoTopic, NextId) \in Packets
        BY <1>0, PacketTyped DEF PacketTypes
      <3>2. Saving("publish", "wait", NoTopic, 0, 0, NextId) \in Frames
        BY <1>0, ZeroTyped, SavingTyped DEF CallsTypeOK, Ops
      <3> QED
        BY <2>3, <3>1, <3>2, RequestTyped DEF Requests
    <2> QED
      BY <1>4, <2>1, <2>2, <2>3 DEF Publish
  <1>5. CASE Subscribe
    <2>1. CASE RefuseRequest("subscribe")
      BY <2>1, RefuseRequestTyped DEF Ops
    <2>2. CASE /\ nextPacketId' = NextId
               /\ ret' = Result("subscribe", "MQTT_MAX_SUBSCRIPTIONS_REACHED_ERROR")
               /\ UNCHANGED <<netVars, clientState, stack>>
               /\ UNCHANGED <<ping, backoff, messageHandlers, rxTopic>>
      <3>1. ret' \in Results
        BY <2>2, ResultTyped DEF Ops, ResultCodes
      <3>2. DataTypeOK'
        BY <1>0, <2>2, DataUnchanged
      <3> QED
        BY <2>2, <3>1, <3>2 DEF CallsTypeOK, NetTypeOK, netVars
    <2>3. ASSUME NEW s \in Slots, NEW t \in Topics,
                 nextPacketId' = NextId,
                 SendRequest("subscribe", Packet("SUBSCRIBE", t, NextId),
                     Saving("subscribe", "wait", t, s, 0, NextId),
                     stack),
                 UNCHANGED <<ping, backoff, messageHandlers, rxTopic>>
          PROVE  TypeOK'
      <3>1. Packet("SUBSCRIBE", t, NextId) \in Packets
        BY <1>0, PacketTyped DEF PacketTypes
      <3>2. Saving("subscribe", "wait", t, s, 0, NextId) \in Frames
        BY <1>0, ZeroTyped, SavingTyped DEF CallsTypeOK, Ops
      <3> QED
        BY <2>3, <3>1, <3>2, RequestTyped DEF Requests
    <2> QED
      BY <1>5, <2>1, <2>2, <2>3 DEF Subscribe
  <1>6. CASE Unsubscribe
    <2>1. CASE RefuseRequest("unsubscribe")
      BY <2>1, RefuseRequestTyped DEF Ops
    <2>2. CASE Refuse("unsubscribe", "MQTT_FAILURE")
      BY <2>2, RefuseTyped DEF Ops, ResultCodes
    <2>3. ASSUME NEW t \in Registered,
                 nextPacketId' = NextId,
                 SendRequest("unsubscribe", Packet("UNSUBSCRIBE", t, NextId),
                     Saving("unsubscribe", "wait", t, 0, 0, NextId), stack),
                 UNCHANGED <<ping, backoff, messageHandlers, rxTopic>>
          PROVE  TypeOK'
      <3>0. t \in Topics
        BY DEF Registered, DataTypeOK
      <3>1. Packet("UNSUBSCRIBE", t, NextId) \in Packets
        BY <1>0, <3>0, PacketTyped DEF PacketTypes
      <3>2. Saving("unsubscribe", "wait", t, 0, 0, NextId) \in Frames
        BY <1>0, <3>0, ZeroTyped, SavingTyped DEF CallsTypeOK, Ops
      <3> QED
        BY <2>3, <3>1, <3>2, RequestTyped DEF Requests
    <2> QED
      BY <1>6, <2>1, <2>2, <2>3 DEF Unsubscribe
  <1>7. CASE Yield
    <2>1. \A rc \in ResultCodes : Refuse("yield", rc) => TypeOK'
      BY RefuseTyped DEF Ops
    <2>2. CASE /\ Cas("CONNECTED_IDLE", "CONNECTED_YIELD_IN_PROGRESS")
               /\ stack' = Append(stack, Frame("yield", "loop"))
               /\ ret' = NoResult
               /\ UNCHANGED <<netVars, ping, backoff, subs>>
      <3>1. clientState' \in ClientStates
        BY <2>2, CasTyped DEF CallsTypeOK, ClientStates, ConnectedStates
      <3>2. Frame("yield", "loop") \in Frames
        BY FrameTyped DEF Ops
      <3>3. stack' \in Seq(Frames)
        BY <2>2, <3>2 DEF CallsTypeOK
      <3> QED
        BY <2>2, <3>1, <3>3, NoResultTyped
        DEF CallsTypeOK, NetTypeOK, DataTypeOK, netVars, ping, backoff, subs
    <2> QED
      BY <1>7, <2>1, <2>2 DEF Yield, ResultCodes
  <1> QED
    BY <1>1, <1>2, <1>3, <1>4, <1>5, <1>6, <1>7
LEMMA TopCall ==
  ASSUME CallsTypeOK, stack # <<>>
  PROVE  /\ Top.saved \in ClientStates /\ Top.topic \in Topics \cup {NoTopic}
         /\ Top.slot \in 0..NumHandlers /\ Top.last \in 0..NumHandlers
         /\ Top.id \in PacketIds /\ Top.rc \in ResultCodes
  BY TopTyped DEF Frames

LEMMA AnswerReadTyped ==
  ASSUME TypeOK, ReadResuback \/ ReadPuback \/ ReadSuback \/ ReadUnsuback
  PROVE  TypeOK'
  <1> USE DEF TypeOK
  <1>0. stack # <<>> /\ toClient # <<>>
    BY DEF ReadResuback, ReadPuback, ReadSuback, ReadUnsuback, At, Arrived
  <1>1. {"MQTT_SUCCESS", "MQTT_FAILURE"} \subseteq ResultCodes
    BY DEF ResultCodes
  <1>2. CASE ReadResuback
    <2>1. rxTopic' \in Topics \cup {NoTopic}
      BY <1>2 DEF ReadResuback
    <2>2. CASE Consume /\ EndRequest("MQTT_SUCCESS") /\ UNCHANGED nextPacketId
      BY <1>0, <1>1, <1>2, <2>1, <2>2, ConsumeTyped, EndRequestTyped
      DEF ReadResuback, DataTypeOK, ping, backoff
    <2>3. CASE nextPacketId' = NextId /\ Consume /\ EndRequest("MQTT_FAILURE")
      BY <1>0, <1>1, <1>2, <2>1, <2>3, NextIdTyped, ConsumeTyped, EndRequestTyped
      DEF ReadResuback, DataTypeOK, ping, backoff
    <2>4. CASE /\ Top.slot < Top.last /\ nextPacketId' = NextId
               /\ ConsumeAndSend(Packet("SUBSCRIBE", messageHandlers[Top.slot + 1], NextId))
               /\ stack' = SetTop([Top EXCEPT !.slot = @ + 1, !.id = NextId])
               /\ UNCHANGED <<clientState, ret>>
      <3>1. Top.slot + 1 \in Slots /\ Top.slot + 1 \in 0..NumHandlers
        BY <1>0, <2>4, TopCall, ClientAssumption DEF Slots, ClientAssumption
      <3>2. NextId \in 1..MaxPacketId /\ NextId \in PacketIds
        BY NextIdTyped
      <3>3. Packet("SUBSCRIBE", messageHandlers[Top.slot + 1], NextId) \in Packets
        BY <3>1, <3>2, PacketTyped DEF DataTypeOK, PacketTypes
      <3>4. NetTypeOK'
        BY <1>0, <2>4, <3>3, ConsumeAndSendTyped
      <3>5. [Top EXCEPT !.slot = @ + 1, !.id = NextId] \in Frames
        BY <1>0, <3>1, <3>2, TopTyped DEF Frames
      <3>6. CallsTypeOK'
        BY <1>0, <2>4, <3>5, TopTyped DEF CallsTypeOK
      <3> QED
        BY <1>2, <2>1, <2>4, <3>2, <3>4, <3>6 DEF ReadResuback, DataTypeOK, ping, backoff
    <2> QED
      BY <1>2, <2>2, <2>3, <2>4 DEF ReadResuback
  <1>3. CASE ReadPuback
    BY <1>0, <1>1, <1>3, ConsumeTyped, EndRequestTyped DEF ReadPuback, DataTypeOK, ping, backoff, subs
  <1>4. CASE ReadSuback
    <2>1. messageHandlers' \in [Slots -> Topics \cup {NoTopic}] /\ rxTopic' \in Topics \cup {NoTopic}
      BY <1>0, <1>4, TopCall DEF ReadSuback, DataTypeOK
    <2> QED
      BY <1>0, <1>1, <1>4, <2>1, ConsumeTyped, EndRequestTyped DEF ReadSuback, DataTypeOK, ping, backoff
  <1>5. CASE ReadUnsuback
    <2>1. messageHandlers' \in [Slots -> Topics \cup {NoTopic}]
      BY <1>5 DEF ReadUnsuback, DataTypeOK
    <2> QED
      BY <1>0, <1>1, <1>5, <2>1, ConsumeTyped, EndRequestTyped DEF ReadUnsuback, DataTypeOK, ping, backoff
  <1> QED
    BY <1>2, <1>3, <1>4, <1>5

LEMMA OtherReadTyped ==
  ASSUME TypeOK, ReadOther \/ ReadPingresp \/ ReadOversize \/ ReadNothing \/ ReadTorn \/ ReadError
  PROVE  TypeOK'
  <1> USE DEF TypeOK
  <1>0. stack # <<>>
    BY DEF ReadOther, ReadPingresp, ReadOversize, ReadNothing, ReadTorn, ReadError, Reading, Waiting, At
  <1>1. {"MQTT_SUCCESS", "MQTT_FAILURE", "MQTT_RX_BUFFER_TOO_SHORT_ERROR",
         "NETWORK_SSL_NOTHING_TO_READ"} \subseteq ResultCodes
    BY DEF ResultCodes
  <1>2. CASE ReadOther
    <2>1. toClient # <<>> /\ rxTopic' \in Topics \cup {NoTopic}
      BY <1>2 DEF ReadOther, Arrived, DataTypeOK
    <2>2. stack' \in Seq(Frames)
      BY <1>0, <1>1, <1>2, AfterReadTyped DEF ReadOther
    <2> QED
      BY <1>2, <2>1, <2>2, ConsumeTyped DEF ReadOther, CallsTypeOK, DataTypeOK, ping, backoff
  <1>3. CASE ReadPingresp
    <2>1. toClient # <<>>
      BY <1>3 DEF ReadPingresp, Arrived
    <2>2. stack' \in Seq(Frames)
      BY <1>0, <1>1, <1>3, AfterReadTyped DEF ReadPingresp
    <2> QED
      BY <1>3, <2>1, <2>2, ConsumeTyped DEF ReadPingresp, FreshPing, CallsTypeOK, DataTypeOK, backoff, subs
  <1>4. CASE ReadOversize
    <2>1. toClient # <<>>
      BY <1>4 DEF ReadOversize, Arrived
    <2>2. stack' \in Seq(Frames)
      BY <1>0, <1>1, <1>4, AfterReadTyped DEF ReadOversize
    <2> QED
      BY <1>4, <2>1, <2>2, ConsumeTyped DEF ReadOversize, CallsTypeOK, DataTypeOK, ping, backoff
  <1>5. CASE ReadNothing
    <2>1. stack' \in Seq(Frames)
      BY <1>0, <1>1, <1>5, YieldToTyped DEF ReadNothing
    <2> QED
      BY <1>5, <2>1 DEF ReadNothing, CallsTypeOK, NetTypeOK, DataTypeOK, netVars, ping, backoff, subs
  <1>6. CASE ReadTorn
    <2>1. stack' \in Seq(Frames)
      BY <1>0, <1>1, <1>6, AfterReadTyped DEF ReadTorn
    <2> QED
      BY <1>6, <2>1 DEF ReadTorn, CallsTypeOK, NetTypeOK, Sockets, DataTypeOK, ping, backoff, subs
  <1>7. CASE ReadError
    <2>1. stack' \in Seq(Frames)
      BY <1>0, <1>1, <1>7, YieldToTyped DEF ReadError
    <2> QED
      BY <1>7, <2>1 DEF ReadError, CallsTypeOK, NetTypeOK, DataTypeOK, netVars, ping, backoff, subs
  <1> QED
    BY <1>2, <1>3, <1>4, <1>5, <1>6, <1>7

LEMMA DeliveryTyped ==
  ASSUME TypeOK, ReadPublish \/ Deliver \/ CallbackReturns \/ EndDelivery \/ YieldAfterDelivery
  PROVE  TypeOK'
  <1> USE DEF TypeOK
  <1>0. stack # <<>>
    BY DEF ReadPublish, Deliver, CallbackReturns, EndDelivery, YieldAfterDelivery, Reading, Waiting, At
  <1>1. CASE ReadPublish
    <2>1. toClient # <<>> /\ Head(toClient) \in Packets
      BY <1>1, ChannelsTyped DEF ReadPublish, Arrived
    <2>2. Head(toClient).topic \in Topics \cup {NoTopic} /\ Head(toClient).id \in PacketIds
      BY <2>1 DEF Packets
    <2>3. Saving("deliver", "scan", NoTopic, 0, 0, Head(toClient).id) \in Frames
      BY <2>2, ZeroTyped, SavingTyped DEF CallsTypeOK
    <2>4. [Top EXCEPT !.pc = "deliver"] \in Frames
      BY <1>0, TopTyped DEF Frames
    <2>5. (IF Top.op = "yield" THEN SetTop([Top EXCEPT !.pc = "deliver"]) ELSE stack) \in Seq(Frames)
      BY <1>0, <2>4, TopTyped DEF CallsTypeOK
    <2>6. stack' \in Seq(Frames)
      BY <1>1, <2>3, <2>5, PushStack DEF ReadPublish
    <2>7. CallsTypeOK'
      BY <1>1, <2>6, NoResultTyped DEF ReadPublish, CallsTypeOK, ClientStates, ConnectedStates
    <2> QED
      BY <1>1, <2>1, <2>2, <2>7, ConsumeTyped DEF ReadPublish, DataTypeOK, ping, backoff
  <1>2. CASE Deliver
    <2>1. PICK s \in Slots : stack' = SetTop([Top EXCEPT !.pc = "callback", !.slot = s])
      BY <1>2 DEF Deliver
    <2>2. [Top EXCEPT !.pc = "callback", !.slot = s] \in Frames
      BY <1>0, TopTyped, ZeroTyped DEF Frames
    <2>3. stack' \in Seq(Frames)
      BY <1>0, <2>1, <2>2, TopTyped
    <2> QED
      BY <1>2, <2>3 DEF Deliver, CallsTypeOK, NetTypeOK, DataTypeOK, netVars, ping, backoff, subs
  <1>3. CASE CallbackReturns
    <2>1. [Top EXCEPT !.pc = "scan"] \in Frames
      BY <1>0, TopTyped DEF Frames
    <2>2. stack' \in Seq(Frames)
      BY <1>0, <1>3, <2>1, TopTyped DEF CallbackReturns
    <2> QED
      BY <1>3, <2>2 DEF CallbackReturns, CallsTypeOK, NetTypeOK, DataTypeOK, netVars, ping, backoff, subs
  <1>4. CASE EndDelivery
    <2>1. NetTypeOK'
      <3>1. Packet("PUBACK", NoTopic, Top.id) \in Packets
        BY <1>0, TopCall, PacketTyped DEF PacketTypes
      <3> QED
        BY <1>4, <3>1, SendTyped DEF EndDelivery, SendFails, NetTypeOK, netVars
    <2>2. ret' \in Results
      <3>1. CasRc("CONNECTED_WAIT_FOR_CB_RETURN") \in ResultCodes
        BY DEF CasRc, ResultCodes
      <3> QED
        BY <1>4, <3>1, ResultTyped DEF EndDelivery, ResultCodes
    <2>3. clientState' \in ClientStates
      BY <1>0, <1>4, TopCall, CasTyped DEF EndDelivery, CallsTypeOK
    <2>4. rxTopic' \in Topics \cup {NoTopic}
      BY <1>4 DEF EndDelivery, DataTypeOK
    <2> QED
      BY <1>0, <1>4, <2>1, <2>2, <2>3, <2>4, TopTyped DEF EndDelivery, CallsTypeOK, DataTypeOK, ping, backoff
  <1>5. CASE YieldAfterDelivery
    <2>1. ret.rc \in ResultCodes
      BY DEF CallsTypeOK, Results
    <2>2. stack' \in Seq(Frames)
      BY <1>0, <1>5, <2>1, AfterReadTyped DEF YieldAfterDelivery
    <2> QED
      BY <1>5, <2>2, NoResultTyped
      DEF YieldAfterDelivery, CallsTypeOK, NetTypeOK, DataTypeOK, netVars, ping, backoff, subs
  <1> QED
    BY <1>1, <1>2, <1>3, <1>4, <1>5
LEMMA YieldTyped ==
  ASSUME TypeOK, KeepAliveCheck \/ HandleDisconnect \/ HandlerReturns \/ HandleReconnect
                 \/ YieldAfterReconnect \/ YieldAgain \/ YieldReturns
  PROVE  TypeOK'
  <1> USE DEF TypeOK
  <1>0. stack # <<>>
    BY DEF KeepAliveCheck, HandleDisconnect, HandlerReturns, HandleReconnect, YieldAfterReconnect,
           YieldAgain, YieldReturns, At
  <1>1. {"MQTT_SUCCESS", "NETWORK_ATTEMPTING_RECONNECT", "NETWORK_DISCONNECTED_ERROR",
         "NETWORK_RECONNECT_TIMED_OUT_ERROR", "NETWORK_MANUALLY_DISCONNECTED",
         "NETWORK_RECONNECTED", "MQTT_UNEXPECTED_CLIENT_STATE_ERROR"} \subseteq ResultCodes
    BY DEF ResultCodes
  <1>2. {"CONNECTED_IDLE", "CONNECTED_YIELD_IN_PROGRESS", "DISCONNECTED_MANUALLY",
         "DISCONNECTED_ERROR", "PENDING_RECONNECT"} \subseteq ClientStates
    BY DEF ClientStates, ConnectedStates, ValidForConnect
  <1>3. ASSUME NEW rc \in ResultCodes, BackOff(rc)
        PROVE  /\ stack' \in Seq(Frames)
               /\ currentReconnectWaitInterval' \in Nat
               /\ isAutoReconnectEnabled' \in BOOLEAN /\ delayExpired' \in BOOLEAN
    <2>1. \A code \in ResultCodes : YieldTo("check", code) => stack' \in Seq(Frames)
      BY <1>0, YieldToTyped
    <2>2. stack' \in Seq(Frames)
      BY <1>1, <1>3, <2>1 DEF BackOff
    <2>3. currentReconnectWaitInterval' \in Nat /\ isAutoReconnectEnabled' \in BOOLEAN
      BY <1>3 DEF BackOff, DataTypeOK
    <2>4. delayExpired' \in BOOLEAN
      BY <1>3 DEF BackOff, DataTypeOK
    <2> QED
      BY <2>2, <2>3, <2>4
  <1>4. CASE KeepAliveCheck
    <2>1. stack' \in Seq(Frames)
      BY <1>0, <1>1, <1>4, YieldToTyped DEF KeepAliveCheck
    <2>2. NetTypeOK'
      BY <1>4, SimpleTyped, SendTyped DEF KeepAliveCheck, PacketTypes, SendFails, NetTypeOK, netVars
    <2>3. DataTypeOK'
      BY <1>4 DEF KeepAliveCheck, DataTypeOK, ping, backoff, subs
    <2> QED
      BY <1>4, <2>1, <2>2, <2>3 DEF KeepAliveCheck, CallsTypeOK
  <1>5. CASE HandleDisconnect
    <2>1. stack' \in Seq(Frames)
      BY <1>0, <1>1, <1>5, YieldToTyped DEF HandleDisconnect
    <2> QED
      BY <1>2, <1>5, <2>1, CloseTyped DEF HandleDisconnect, CallsTypeOK, DataTypeOK, ping, backoff, subs
  <1>6. CASE HandlerReturns
    <2>1. stack' \in Seq(Frames)
      BY <1>0, <1>1, <1>6, YieldToTyped DEF HandlerReturns
    <2>2. clientState' \in ClientStates
      BY <1>2, <1>6 DEF HandlerReturns
    <2>3. DataTypeOK'
      BY <1>6, ClientAssumption DEF HandlerReturns, ClientAssumption, DataTypeOK, ping, subs
    <2> QED
      BY <1>6, <2>1, <2>2, <2>3 DEF HandlerReturns, CallsTypeOK, NetTypeOK, netVars
  <1>7. CASE HandleReconnect
    <2>1. CASE stack' \in Seq(Frames) /\ UNCHANGED <<netVars, backoff, clientState, ret>>
      BY <1>7, <2>1 DEF HandleReconnect, CallsTypeOK, NetTypeOK, DataTypeOK, netVars, ping, backoff, subs
    <2>2. CASE BackOff("NETWORK_MANUALLY_DISCONNECTED") /\ UNCHANGED <<netVars, clientState, ret>>
      BY <1>1, <1>3, <1>7, <2>2 DEF HandleReconnect, CallsTypeOK, NetTypeOK, DataTypeOK, netVars, ping, subs
    <2>3. CASE /\ StartConnect(Append(SetTop([Top EXCEPT !.pc = "reconnect"]),
                                      Frame("reconnect", "connect")))
               /\ UNCHANGED backoff
      <3>1. [Top EXCEPT !.pc = "reconnect"] \in Frames
        BY <1>0, TopTyped DEF Frames
      <3>2. SetTop([Top EXCEPT !.pc = "reconnect"]) \in Seq(Frames)
        BY <1>0, <3>1, TopTyped
      <3>3. Frame("reconnect", "connect") \in Frames
        BY FrameTyped DEF Ops
      <3>4. Append(SetTop([Top EXCEPT !.pc = "reconnect"]), Frame("reconnect", "connect")) \in Seq(Frames)
        BY <3>2, <3>3, PushStack
      <3>5. NetTypeOK' /\ CallsTypeOK'
        BY <2>3, <3>4, StartConnectTyped
      <3> QED
        BY <1>7, <2>3, <3>5 DEF HandleReconnect, DataTypeOK, ping, backoff, subs
    <2>4. \A pc \in {"check", "exit"}, rc \in ResultCodes : YieldTo(pc, rc) => stack' \in Seq(Frames)
      BY <1>0, YieldToTyped
    <2> QED
      BY <1>1, <1>7, <2>1, <2>2, <2>3, <2>4 DEF HandleReconnect
  <1>8. CASE YieldAfterReconnect
    <2>1. CASE /\ Cas("CONNECTED_IDLE", "CONNECTED_YIELD_IN_PROGRESS")
               /\ YieldTo("check", IF clientState = "CONNECTED_IDLE" THEN "NETWORK_RECONNECTED"
                                   ELSE "MQTT_UNEXPECTED_CLIENT_STATE_ERROR")
               /\ UNCHANGED backoff
      <3>1. stack' \in Seq(Frames)
        BY <1>0, <1>1, <2>1, YieldToTyped
      <3>2. clientState' \in ClientStates
        BY <1>2, <2>1, CasTyped DEF CallsTypeOK
      <3> QED
        BY <1>8, <2>1, <3>1, <3>2, NoResultTyped
        DEF YieldAfterReconnect, CallsTypeOK, NetTypeOK, DataTypeOK, netVars, ping, backoff, subs
    <2>2. CASE BackOff(ret.rc) /\ UNCHANGED clientState
      <3>1. ret.rc \in ResultCodes
        BY DEF CallsTypeOK, Results
      <3> QED
        BY <1>3, <1>8, <2>2, <3>1, NoResultTyped
        DEF YieldAfterReconnect, CallsTypeOK, NetTypeOK, DataTypeOK, netVars, ping, subs
    <2> QED
      BY <1>8, <2>1, <2>2 DEF YieldAfterReconnect
  <1>9. CASE YieldAgain
    <2>1. stack' \in Seq(Frames)
      BY <1>0, <1>1, <1>9, YieldToTyped DEF YieldAgain
    <2> QED
      BY <1>9, <2>1 DEF YieldAgain, CallsTypeOK, NetTypeOK, DataTypeOK, netVars, ping, backoff, subs
  <1>10. CASE YieldReturns
    <2>1. clientState' \in ClientStates
      BY <1>2, <1>10, CasTyped DEF YieldReturns, CallsTypeOK
    <2>2. ret' \in Results
      <3>1. Top.rc \in ResultCodes /\ CasRc("CONNECTED_YIELD_IN_PROGRESS") \in ResultCodes
        BY <1>0, TopCall DEF CasRc, ResultCodes
      <3>2. \A rc \in ResultCodes : Result("yield", rc) \in Results
        BY ResultTyped DEF Ops
      <3> QED
        BY <1>10, <3>1, <3>2 DEF YieldReturns
    <2> QED
      BY <1>0, <1>10, <2>1, <2>2, TopTyped
      DEF YieldReturns, CallsTypeOK, NetTypeOK, DataTypeOK, netVars, ping, backoff, subs
  <1> QED
    BY <1>4, <1>5, <1>6, <1>7, <1>8, <1>9, <1>10

LEMMA TimeoutTyped ==
  ASSUME TypeOK, WaitTimeout \/ PingTimerExpires \/ DelayTimerExpires
  PROVE  TypeOK'
  <1>1. "MQTT_REQUEST_TIMEOUT_ERROR" \in ResultCodes
    BY DEF ResultCodes
  <1>2. CASE WaitTimeout
    <2>1. stack # <<>>
      BY <1>2 DEF WaitTimeout, Waiting
    <2>2. CASE FailConnect("MQTT_REQUEST_TIMEOUT_ERROR")
      BY <1>1, <2>1, <2>2, FailConnectTyped
    <2>3. CASE /\ EndRequest("MQTT_REQUEST_TIMEOUT_ERROR")
               /\ UNCHANGED <<netVars, ping, backoff, subs>>
      BY <1>1, <2>1, <2>3, EndRequestTyped
      DEF TypeOK, NetTypeOK, DataTypeOK, netVars, ping, backoff, subs
    <2> QED
      BY <1>2, <2>2, <2>3 DEF WaitTimeout
  <1>3. CASE PingTimerExpires
    BY <1>3 DEF PingTimerExpires, TypeOK, NetTypeOK, DataTypeOK, CallsTypeOK, netVars, backoff, subs, calls
  <1>4. CASE DelayTimerExpires
    BY <1>4 DEF DelayTimerExpires, TypeOK, NetTypeOK, DataTypeOK, CallsTypeOK, netVars, ping, subs, calls
  <1> QED
    BY <1>2, <1>3, <1>4

LEMMA InitTyped == Init => TypeOK
  <1> SUFFICES ASSUME Init PROVE TypeOK
    OBVIOUS
  <1>1. NetTypeOK
    BY EmptyChannel DEF Init, NetInit, NetTypeOK, Sockets
  <1>2. DataTypeOK
    <2>1. isAutoReconnectEnabled \in BOOLEAN /\ currentReconnectWaitInterval \in Nat
      BY ClientAssumption DEF ClientAssumption, Init
    <2>2. nextPacketId \in 1..MaxPacketId
      BY NetworkAssumption DEF NetworkAssumption, Init
    <2>3. messageHandlers \in [Slots -> Topics \cup {NoTopic}]
      BY DEF Init
    <2> QED
      BY <2>1, <2>2, <2>3 DEF Init, DataTypeOK
  <1>3. CallsTypeOK
    <2>1. <<>> \in Seq(Frames)
      OBVIOUS
    <2> QED
      BY <2>1, NoResultTyped DEF Init, CallsTypeOK, ClientStates, ValidForConnect
  <1> QED
    BY <1>1, <1>2, <1>3 DEF TypeOK

LEMMA StutterTyped ==
  ASSUME TypeOK, UNCHANGED vars
  PROVE  TypeOK'
  BY DEF TypeOK, NetTypeOK, DataTypeOK, CallsTypeOK, vars, clientVars, netVars, ping, backoff, subs, calls

LEMMA NextTyped ==
  ASSUME TypeOK, [Next]_vars
  PROVE  TypeOK'
  <1>1. CASE ApiCall
    BY <1>1, ConnectingTyped, ApiTyped DEF ApiCall
  <1>2. CASE ReadStep
    BY <1>2, ConnectingTyped, AnswerReadTyped, OtherReadTyped, DeliveryTyped DEF ReadStep
  <1>3. CASE ClientStep
    BY <1>3, ConnectingTyped, DeliveryTyped, YieldTyped DEF ClientStep
  <1>4. CASE World
    BY <1>4, WorldTyped
    DEF World, TypeOK, DataTypeOK, CallsTypeOK, clientVars, ping, backoff, subs, calls
  <1>5. CASE WaitTimeout \/ PingTimerExpires \/ DelayTimerExpires
    BY <1>5, TimeoutTyped
  <1>6. CASE CallbackReturns \/ HandlerReturns \/ YieldAgain \/ YieldReturns
    BY <1>6, DeliveryTyped, YieldTyped
  <1>7. CASE UNCHANGED vars
    BY <1>7, StutterTyped
  <1> QED
    BY <1>1, <1>2, <1>3, <1>4, <1>5, <1>6, <1>7 DEF Next

(* The variables of the client and of its transport keep their types, for  *)
(* every choice of the constants and every behaviour of mqtt_client*.c.    *)
THEOREM TypeCorrect == Spec => []TypeOK
  BY InitTyped, NextTyped, PTL DEF Spec
=============================================================================
