------------------------------ MODULE Network ------------------------------
(* The transport of platform/network_platform.c and, outside the           *)
(* repository, the broker at its other end.  The client sees the transport *)
(* through six functions (connect, read, write, disconnect, isConnected,   *)
(* destroy); what they leave behind is one file descriptor, server_fd, and *)
(* the packets travelling over it.                                         *)
EXTENDS Naturals, Sequences

CONSTANTS
  Topics,       \* topic names
  NoTopic,      \* the NULL topic name of a free handler slot
  MaxPacketId,  \* packet identifiers are 1 .. MaxPacketId
  MaxQueue,     \* bound: packets in flight in one direction
  Inbound,      \* what the broker may publish: "QOS0", "QOS1", "OVERSIZE"
  MayRefuse     \* packets the broker may refuse: "CONNECT", "SUBSCRIBE"

ASSUME NetworkAssumption ==
  /\ NoTopic \notin Topics
  /\ MaxPacketId \in Nat \ {0}
  /\ MaxQueue \in Nat \ {0}

VARIABLES
  socket,      \* server_fd, and what the network made of the connection
  wifi,        \* link status reported by micoWlanGetLinkStatus
  toBroker,    \* packets written and not yet handled by the broker
  toClient,    \* packets sent by the broker and not yet read
  session,     \* the broker accepted the CONNECT of this connection
  brokerSubs   \* topics the broker holds for this (clean) session

netVars == <<socket, wifi, toBroker, toClient, session, brokerSubs>>

----------------------------------------------------------------------------
(* Packets.  An acknowledgement carries the identifier it answers; a       *)
(* CONNACK carries its return code and a SUBACK "refused" its 0x80 in kind. *)

PacketIds == 0..MaxPacketId            \* 0: a packet without identifier

PacketTypes == {"CONNECT", "CONNACK", "PUBLISH", "PUBACK", "SUBSCRIBE", "SUBACK",
                "UNSUBSCRIBE", "UNSUBACK", "PINGREQ", "PINGRESP"}

Packets == [type : PacketTypes, topic : Topics \cup {NoTopic}, id : PacketIds,
            kind : {"plain", "refused", "oversize"}]

Packet(type, topic, id) == [type |-> type, topic |-> topic, id |-> id, kind |-> "plain"]

Simple(type) == Packet(type, NoTopic, 0)

(* "closed": server_fd is -1.  "up": both ends are there.  "silent": the   *)
(* peer is gone without a word (or sent its FIN, which recv reports as 0   *)
(* bytes, forever).  "torn": silent in the middle of a packet.  "reset":   *)
(* recv reports an error.                                                  *)
Sockets == {"closed", "up", "silent", "torn", "reset"}

NetTypeOK ==
  /\ socket \in Sockets
  /\ wifi \in BOOLEAN
  /\ toBroker \in Seq(Packets)
  /\ toClient \in Seq(Packets)
  /\ session \in BOOLEAN
  /\ brokerSubs \subseteq Topics

NetInit ==
  /\ socket = "closed"
  /\ wifi = TRUE
  /\ toBroker = <<>>
  /\ toClient = <<>>
  /\ session = FALSE
  /\ brokerSubs = {}

----------------------------------------------------------------------------
(* What the client does to the transport.                                  *)

ResetChannels(sent) ==
  /\ toBroker' = sent
  /\ toClient' = <<>>
  /\ session' = FALSE
  /\ brokerSubs' = {}

(* iot_tls_connect and the CONNECT packet on it.  An older descriptor is   *)
(* overwritten, not closed.                                                *)
OpenConnection ==
  /\ wifi
  /\ socket' = "up"
  /\ ResetChannels(<<Simple("CONNECT")>>)
  /\ UNCHANGED wifi

(* iot_tls_disconnect, iot_tls_destroy.                                    *)
CloseConnection ==
  /\ socket' = "closed"
  /\ ResetChannels(<<>>)
  /\ UNCHANGED wifi

(* iot_tls_write writes the whole packet.  A peer that is gone still lets  *)
(* the kernel buffer it.                                                   *)
CanSend == \/ socket = "up" /\ Len(toBroker) < MaxQueue
           \/ socket \in {"silent", "torn"}

Send(p) ==
  /\ CanSend
  /\ toBroker' = IF socket = "up" THEN Append(toBroker, p) ELSE toBroker
  /\ UNCHANGED <<socket, wifi, toClient, session, brokerSubs>>

(* iot_tls_write reports an error, or the timer of the caller has run out  *)
(* before the first byte: possible at any time, on any connection.         *)
SendFails == UNCHANGED netVars

Arrived(type) == toClient # <<>> /\ Head(toClient).type = type

Consume ==
  /\ toClient' = Tail(toClient)
  /\ UNCHANGED <<socket, wifi, toBroker, session, brokerSubs>>

(* One packet read and the next one written, with nothing in between.      *)
ConsumeAndSend(p) ==
  /\ CanSend
  /\ toClient' = Tail(toClient)
  /\ toBroker' = IF socket = "up" THEN Append(toBroker, p) ELSE toBroker
  /\ UNCHANGED <<socket, wifi, session, brokerSubs>>

----------------------------------------------------------------------------
(* What the world does to the transport.                                   *)

WifiChanges ==
  /\ wifi' = ~wifi
  /\ UNCHANGED <<socket, toBroker, toClient, session, brokerSubs>>

(* The peer disappears.  What had arrived can still be read.               *)
LosePeer ==
  /\ socket = "up"
  /\ socket' \in {"silent", "torn"}
  /\ \E n \in 0..Len(toClient) : toClient' = SubSeq(toClient, 1, n)
  /\ toBroker' = <<>>
  /\ session' = FALSE
  /\ brokerSubs' = {}
  /\ UNCHANGED wifi

ResetPeer ==
  /\ socket \in {"up", "silent", "torn"}
  /\ socket' = "reset"
  /\ ResetChannels(<<>>)
  /\ UNCHANGED wifi

----------------------------------------------------------------------------
(* The broker (external): handles its packets in order, answers each, and  *)
(* ignores everything before a CONNECT it accepted.                        *)

Answer(p) ==
  CASE p.type = "CONNECT" ->
         {[Simple("CONNACK") EXCEPT !.kind = k] :
            k \in {"plain"} \cup (IF "CONNECT" \in MayRefuse THEN {"refused"} ELSE {})}
    [] p.type = "SUBSCRIBE" ->
         {[Packet("SUBACK", NoTopic, p.id) EXCEPT !.kind = k] :
            k \in {"plain"} \cup (IF "SUBSCRIBE" \in MayRefuse THEN {"refused"} ELSE {})}
    [] p.type = "UNSUBSCRIBE" -> {Packet("UNSUBACK", NoTopic, p.id)}
    [] p.type = "PUBLISH" /\ p.id # 0 -> {Packet("PUBACK", NoTopic, p.id)}
    [] p.type = "PINGREQ" -> {Simple("PINGRESP")}
    [] OTHER -> {}

BrokerAnswers ==
  LET p == Head(toBroker) IN
  /\ socket = "up" /\ toBroker # <<>>
  /\ session \/ p.type = "CONNECT"
  /\ Len(toClient) < MaxQueue
  /\ \E a \in Answer(p) :
       /\ toClient' = Append(toClient, a)
       /\ session' = (session \/ a.kind = "plain")
       /\ brokerSubs' = CASE a.type = "SUBACK" /\ a.kind = "plain" ->
                               brokerSubs \cup ({p.topic} \cap Topics)
                          [] a.type = "UNSUBACK" -> brokerSubs \ {p.topic}
                          [] OTHER -> brokerSubs
  /\ toBroker' = Tail(toBroker)
  /\ UNCHANGED <<socket, wifi>>

(* A packet that needs no answer: QoS0 PUBLISH, PUBACK, or one sent on a   *)
(* connection the broker has not accepted.                                 *)
BrokerIgnores ==
  LET p == Head(toBroker) IN
  /\ socket = "up" /\ toBroker # <<>>
  /\ Answer(p) = {} \/ (~session /\ p.type # "CONNECT")
  /\ toBroker' = Tail(toBroker)
  /\ UNCHANGED <<socket, wifi, toClient, session, brokerSubs>>

BrokerPublishes ==
  /\ socket = "up" /\ session
  /\ Len(toClient) < MaxQueue
  /\ \E t \in brokerSubs, what \in Inbound :
       toClient' = Append(toClient,
                     [Packet("PUBLISH", t, IF what = "QOS1" THEN 1 ELSE 0)
                        EXCEPT !.kind = IF what = "OVERSIZE" THEN "oversize" ELSE "plain"])
  /\ UNCHANGED <<socket, wifi, toBroker, session, brokerSubs>>

Broker == BrokerAnswers \/ BrokerIgnores \/ BrokerPublishes

Outages == WifiChanges \/ LosePeer \/ ResetPeer
=============================================================================
