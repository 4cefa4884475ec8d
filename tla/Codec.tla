------------------------------- MODULE Codec -------------------------------
(* Packets as bytes: what the serialisers put into writeBuf, what the      *)
(* deserialisers take out of readBuf, and which topic filters a name       *)
(* matches.  Radix stands for 128 and 2 * Radix for 256 in lengths and     *)
(* identifiers; header and flag bytes are as they are.  A string is known  *)
(* by its length, except the topic of a message that comes in.             *)
EXTENDS Lengths, SequencesExt

CONSTANTS
  TxBufLens,     \* values of writeBufSize, MQTT_TX_BUF_LEN
  RxBufLen,      \* MQTT_RX_BUF_LEN
  StrLens,       \* lengths of the strings the application passes
  PacketIds,     \* packet identifiers
  MaxName        \* bound: length of a topic name or filter

(* Identifiers and the lengths of strings are uint16_t; the buffers, of    *)
(* 2248 bytes in the code, are no longer than what the four bytes of a     *)
(* remaining length can say; an acknowledgement's length is one byte.      *)
ASSUME CodecAssumption ==
  /\ Radix >= 3
  /\ TxBufLens \subseteq 4..(Radix * Radix * Radix * Radix)
  /\ RxBufLen \in 5..(Radix * Radix * Radix * Radix)
  /\ StrLens \subseteq 1..(4 * Radix * Radix - 1)
  /\ PacketIds \subseteq 1..(4 * Radix * Radix - 1)
  /\ MaxName \in 1..(4 * Radix * Radix - 1)

VARIABLES
  out,      \* what the application asked for last, its packet, and what came of it
  readBuf,  \* with what earlier packets left behind the last one
  came,     \* the packet the broker sent last
  got,      \* what the client took it for
  ran       \* and the filters whose handlers it ran for it

vars == <<out, readBuf, came, got, ran>>

----------------------------------------------------------------------------
(* Pieces.                                                                 *)

CONNECT == 1
CONNACK == 2
PUBLISH == 3
PUBACK == 4
SUBSCRIBE == 8
SUBACK == 9
UNSUBSCRIBE == 10
UNSUBACK == 11
PINGREQ == 12
DISCONNECT == 14

Bit(b) == IF b THEN 1 ELSE 0

Header(type, qos, dup, retained) == 16 * type + 8 * dup + 2 * qos + retained

(* mqtt_internal_write_uint_16                                             *)
Uint16(n) == <<n \div (2 * Radix), n % (2 * Radix)>>

Text(n) == [i \in 1..n |-> i % (2 * Radix)]

(* mqtt_internal_write_utf8_string                                         *)
Utf8(n) == Uint16(n) \o Text(n)

If(b, bytes) == IF b THEN bytes ELSE <<>>

----------------------------------------------------------------------------
(* Serialisers.  p is what the application, or the library, asks for.      *)

Texts == [present : {TRUE}, len : StrLens] \cup [present : {FALSE}, len : {0}]

Requests ==
  [type : {CONNECT}, clientID : StrLens \cup {0}, will : Texts, user : Texts,
   password : Texts, retained : BOOLEAN]
  \cup [type : {PUBLISH}, topic : StrLens, payload : StrLens \cup {0}, qos : {0, 1}, id : PacketIds]
  \cup [type : {SUBSCRIBE}, topic : StrLens, qos : {0, 1}, id : PacketIds]
  \cup [type : {UNSUBSCRIBE}, topic : StrLens, id : PacketIds]
  \cup [type : {PUBACK}, id : PacketIds]
  \cup [type : {PINGREQ, DISCONNECT}]

KeepAlive == 2 * Radix + 1
Level == 4
ProtocolName == 4

(* Mutant: the length of the will's message is left out.                   *)
ConnectLengthWillTopic(p) ==
  10 + p.clientID + 2 + Bit(p.will.present) * (p.will.len + 2)
  + Bit(p.user.present) * (p.user.len + 2) + Bit(p.password.present) * (p.password.len + 2)

(* _mqtt_get_connect_packet_length.  Topic and message of a will have the  *)
(* same length here.                                                       *)
ConnectLength(p) ==
  10 + p.clientID + 2 + Bit(p.will.present) * (p.will.len + 2 + p.will.len + 2)
  + Bit(p.user.present) * (p.user.len + 2) + Bit(p.password.present) * (p.password.len + 2)

(* clean session, will, will QoS 1, will retained, password, user name     *)
ConnectFlags(p) ==
  2 + Bit(p.will.present) * (4 + 8 + 32 * Bit(p.retained))
  + 64 * Bit(p.password.present) + 128 * Bit(p.user.present)

RemLen(p) ==
  CASE p.type = CONNECT                -> ConnectLength(p)
    [] p.type = PUBLISH                -> p.topic + p.payload + 2 + (IF p.qos > 0 THEN 2 ELSE 0)
    [] p.type = SUBSCRIBE              -> 2 + p.topic + 2 + 1
    [] p.type = UNSUBSCRIBE            -> 2 + p.topic + 2
    [] p.type = PUBACK                 -> 2
    [] p.type \in {PINGREQ, DISCONNECT} -> 0

HeaderOf(p) ==
  CASE p.type = PUBLISH                    -> Header(PUBLISH, p.qos, 0, 0)
    [] p.type \in {SUBSCRIBE, UNSUBSCRIBE} -> Header(p.type, 1, 0, 0)
    [] OTHER                               -> Header(p.type, 0, 0, 0)

Body(p) ==
  CASE p.type = CONNECT ->
         Utf8(ProtocolName) \o <<Level, ConnectFlags(p)>> \o Uint16(KeepAlive)
         \o Utf8(p.clientID)
         \o If(p.will.present, Utf8(p.will.len) \o Utf8(p.will.len))
         \o If(p.user.present, Utf8(p.user.len)) \o If(p.password.present, Utf8(p.password.len))
    [] p.type = PUBLISH     -> Utf8(p.topic) \o If(p.qos > 0, Uint16(p.id)) \o Text(p.payload)
    [] p.type = SUBSCRIBE   -> Uint16(p.id) \o Utf8(p.topic) \o <<p.qos>>
    [] p.type = UNSUBSCRIBE -> Uint16(p.id) \o Utf8(p.topic)
    [] p.type = PUBACK      -> Uint16(p.id)
    [] p.type \in {PINGREQ, DISCONNECT} -> <<>>

(* The bytes from writeBuf to ptr; what lies behind them is not sent.      *)
Written(p) == <<HeaderOf(p)>> \o WriteLen[RemLen(p)] \o Body(p)

(* The test against txBufLen before anything is written.                   *)
TooShort(p, txBufLen) ==
  IF p.type \in {PUBACK, PINGREQ, DISCONNECT} THEN 4 > txBufLen
  ELSE FinalLength(RemLen(p)) > txBufLen

Unsent == [rc |-> "none"]

(* A bound: one request, before anything comes in.  A serialiser reads     *)
(* nothing of what is in writeBuf, and neither side touches the other's    *)
(* buffer.                                                                 *)
Serialize(p, txBufLen) ==
  /\ out.rc = "none" /\ came.type = 0
  /\ out' = IF TooShort(p, txBufLen)
            THEN [rc |-> "MQTT_TX_BUFFER_TOO_SHORT_ERROR", asked |-> p, writeBufSize |-> txBufLen]
            ELSE [rc |-> "serialized", asked |-> p, writeBufSize |-> txBufLen, bytes |-> Written(p)]
  /\ UNCHANGED <<readBuf, came, got, ran>>

(* The test at the head of mqtt_internal_send_packet.                      *)
SendPacket ==
  /\ out.rc = "serialized"
  /\ out' = [out EXCEPT !.rc = IF Len(out.bytes) >= out.writeBufSize
                               THEN "MQTT_TX_BUFFER_TOO_SHORT_ERROR" ELSE "sent"]
  /\ UNCHANGED <<readBuf, came, got, ran>>

----------------------------------------------------------------------------
(* The broker (external): well-formed packets that fit into readBuf.       *)

A == 1
Slash == 2
Plus == 3
Hash == 4

Names == UNION {[1..n -> {A, Slash}] : n \in 1..MaxName}

Incoming ==
  [type : {PUBLISH}, dup : {0, 1}, qos : {0, 1}, retained : {0, 1}, id : PacketIds,
   topic : Names, payload : {0, 1}]
  \cup [type : {CONNACK}, code : 0..6]
  \cup [type : {PUBACK, UNSUBACK}, id : PacketIds]
  \cup [type : {SUBACK}, id : PacketIds, codes : UNION {[1..n -> {1}] : n \in 1..4}]

BrokerBody(m) ==
  CASE m.type = PUBLISH -> Uint16(Len(m.topic)) \o m.topic \o If(m.qos > 0, Uint16(m.id)) \o Text(m.payload)
    [] m.type = CONNACK -> <<0, m.code>>
    [] m.type \in {PUBACK, UNSUBACK} -> Uint16(m.id)
    [] m.type = SUBACK  -> Uint16(m.id) \o m.codes

BrokerHeader(m) ==
  IF m.type = PUBLISH THEN Header(PUBLISH, m.qos, m.dup, m.retained) ELSE Header(m.type, 0, 0, 0)

Overwrite(buf, bytes) == bytes \o SubSeq(buf, Len(bytes) + 1, Len(buf))

(* read_packet: the header, the length, encoded again, and the data.       *)
Receive(m) ==
  /\ got.rc # "none"
  /\ PacketSize(Len(BrokerBody(m))) <= RxBufLen
  /\ readBuf' = Overwrite(readBuf, <<BrokerHeader(m)>> \o WriteLen[Len(BrokerBody(m))] \o BrokerBody(m))
  /\ came' = m /\ got' = [rc |-> "none"] /\ ran' = {}
  /\ out' = Unsent

----------------------------------------------------------------------------
(* Deserialisers.  They are given all of readBuf, not the packet in it.    *)

(* multiplier, at each of the length bytes                                 *)
Multiplier == <<1, Radix, Radix * Radix, Radix * Radix * Radix>>

(* mqtt_internal_decode_remaining_length_from_buffer, of at most MAX_NO_OF_ *)
(* REMAINING_LENGTH_BYTES bytes; a packet that was read has no more.       *)
LengthField(buf) ==
  LET n == CHOOSE i \in 1..4 : ~More(buf[1 + i]) /\ \A j \in 1..(i - 1) : More(buf[1 + j])
      value[i \in 0..4] == IF i = 0 THEN 0 ELSE value[i - 1] + Digit(buf[1 + i]) * Multiplier[i]
  IN  [value |-> value[n], bytes |-> n]

(* mqtt_internal_read_uint16_t                                             *)
Uint16At(buf, i) == buf[i] * (2 * Radix) + buf[i + 1]

(* curData of every deserialiser, past the fixed header, and endData.      *)
Start(buf) == 2 + LengthField(buf).bytes

(* Mutant: all that is in readBuf counts as data.                          *)
FinishBuffer(buf) == RxBufLen + 1

Finish(buf) == Start(buf) + LengthField(buf).value

TypeOf(buf) == buf[1] \div 16

Failure == [rc |-> "MQTT_FAILURE"]

(* mqtt_internal_deserialize_publish                                       *)
DeserializePublish(buf) ==
  LET at   == Start(buf)
      end  == Finish(buf)
      next == at + 2 + Uint16At(buf, at)
      qos  == (buf[1] \div 2) % 4
      data == IF qos # 0 THEN next + 2 ELSE next
  IN  IF end - at > 1 /\ next <= end
      THEN [rc |-> "MQTT_SUCCESS", type |-> PUBLISH, dup |-> (buf[1] \div 8) % 2, qos |-> qos,
            retained |-> buf[1] % 2, topic |-> SubSeq(buf, at + 2, next - 1),
            id |-> IF qos # 0 THEN Uint16At(buf, next) ELSE 0,
            payload |-> SubSeq(buf, data, end - 1)]
      ELSE Failure

(* mqtt_internal_deserialize_ack, _mqtt_deserialize_unsuback               *)
DeserializeAck(buf) ==
  IF Finish(buf) - Start(buf) >= 2
  THEN [rc |-> "MQTT_SUCCESS", type |-> TypeOf(buf), id |-> Uint16At(buf, Start(buf))]
  ELSE Failure

(* _mqtt_deserialize_connack; 6 is MQTT_CONNACK_UNKNOWN_ERROR.             *)
DeserializeConnack(buf) ==
  IF Finish(buf) - Start(buf) = 2
  THEN [rc |-> "MQTT_SUCCESS", type |-> CONNACK,
        code |-> IF buf[Start(buf) + 1] \in 0..5 THEN buf[Start(buf) + 1] ELSE 6]
  ELSE [rc |-> "MQTT_DECODE_REMAINING_LENGTH_ERROR"]

MaxExpectedQoSCount == 1
GrantedQoS == 3

(* Mutant: the count is not looked at.                                     *)
GrantedUnbounded(n) == n

(* How many of n return codes are stored before the loop ends or gives up. *)
Granted(n) == IF n > MaxExpectedQoSCount + 1 THEN MaxExpectedQoSCount + 1 ELSE n

(* _mqtt_deserialize_suback                                                *)
DeserializeSuback(buf) ==
  LET at    == Start(buf)
      n     == Finish(buf) - (at + 2)
      codes == SubSeq(buf, at + 2, at + 1 + Granted(n))
  IN  IF Granted(n) = n
      THEN [rc |-> "MQTT_SUCCESS", type |-> SUBACK, id |-> Uint16At(buf, at), codes |-> codes]
      ELSE [rc |-> "MQTT_FAILURE", codes |-> codes]

----------------------------------------------------------------------------
(* Topics.                                                                 *)

WellFormed(f) ==
  \A i \in 1..Len(f) :
    /\ f[i] = Hash => i = Len(f)
    /\ f[i] \in {Plus, Hash} =>
         (i = 1 \/ f[i - 1] = Slash) /\ (i = Len(f) \/ f[i + 1] = Slash)

Filters == {f \in UNION {[1..n -> {A, Slash, Plus, Hash}] : n \in 1..MaxName} : WellFormed(f)}

(* Mutant: a + takes the rest of the name.                                 *)
LevelEndLast(n, j) == Len(n) + 1

(* Where the level of n that goes on at j ends, at j + 1 at the earliest.  *)
LevelEnd(n, j) ==
  CHOOSE k \in (j + 1)..(Len(n) + 1) :
    /\ k = Len(n) + 1 \/ n[k] = Slash
    /\ \A i \in (j + 1)..(k - 1) : n[i] # Slash

(* _aws_iot_mqtt_internal_is_topic_matched, from curf = i and curn = j on  *)
IsTopicMatched(f, n) ==
  LET match[i \in 1..(Len(f) + 1)] ==
        [j \in 1..(Len(n) + 1) |->
          IF i > Len(f) \/ j > Len(n) THEN i > Len(f) /\ j > Len(n)
          ELSE IF f[i] # Slash /\ n[j] = Slash THEN FALSE
          ELSE CASE f[i] = Plus -> match[i + 1][LevelEnd(n, j)]
                 [] f[i] = Hash -> match[i + 1][Len(n) + 1]
                 [] OTHER       -> f[i] = n[j] /\ match[i + 1][j + 1]]
  IN  match[1][1]

(* _aws_iot_mqtt_internal_deliver_message: the filters whose handlers run. *)
Matching(n) == {f \in Filters : f = n \/ IsTopicMatched(f, n)}

Deserialize ==
  /\ got.rc = "none"
  /\ got' = CASE TypeOf(readBuf) = PUBLISH -> DeserializePublish(readBuf)
              [] TypeOf(readBuf) \in {PUBACK, UNSUBACK} -> DeserializeAck(readBuf)
              [] TypeOf(readBuf) = CONNACK -> DeserializeConnack(readBuf)
              [] TypeOf(readBuf) = SUBACK  -> DeserializeSuback(readBuf)
  /\ ran' = IF TypeOf(readBuf) = PUBLISH /\ got'.rc = "MQTT_SUCCESS" THEN Matching(got'.topic) ELSE {}
  /\ UNCHANGED <<out, readBuf, came>>

----------------------------------------------------------------------------
Init ==
  /\ out = Unsent
  /\ readBuf = [i \in 1..RxBufLen |-> 0]
  /\ came = [type |-> 0] /\ got = Failure /\ ran = {}

Next ==
  \/ \E p \in Requests, txBufLen \in TxBufLens : Serialize(p, txBufLen)
  \/ SendPacket
  \/ \E m \in Incoming : Receive(m)
  \/ Deserialize

Spec == Init /\ [][Next]_vars

----------------------------------------------------------------------------
(* What MQTT 3.1.1 says of the same bytes (external), for comparison.      *)

(* The strings that follow one another in bytes; what is left over when    *)
(* the next one does not fit counts as one.                                *)
Strings(bytes) ==
  LET from[i \in 1..(Len(bytes) + 1)] ==
        IF i > Len(bytes) THEN <<>>
        ELSE IF i = Len(bytes) \/ i + 1 + Uint16At(bytes, i) > Len(bytes)
        THEN <<SubSeq(bytes, i, Len(bytes))>>
        ELSE <<SubSeq(bytes, i + 2, i + 1 + Uint16At(bytes, i))>> \o from[i + 2 + Uint16At(bytes, i)]
  IN  from[1]

(* The broker's view of the data behind a header.                          *)
View(header, data) ==
  LET type == header \div 16 IN
  CASE type = CONNECT ->
         <<Strings(SubSeq(data, 1, 6)), SubSeq(data, 7, 10), Strings(SubSeq(data, 11, Len(data)))>>
    [] type = PUBLISH ->
         LET n == Uint16At(data, 1)
             k == IF (header \div 2) % 4 = 0 THEN 0 ELSE 2
         IN  <<SubSeq(data, 3, n + 2), SubSeq(data, n + 3, n + 2 + k), SubSeq(data, n + 3 + k, Len(data))>>
    [] type = SUBSCRIBE ->
         <<SubSeq(data, 1, 2), Strings(SubSeq(data, 3, Len(data) - 1)), data[Len(data)]>>
    [] type = UNSUBSCRIBE -> <<SubSeq(data, 1, 2), Strings(SubSeq(data, 3, Len(data)))>>
    [] OTHER -> data

(* Of a whole packet the remaining length must be exact.                   *)
BrokerReads(bytes) ==
  LET data == SubSeq(bytes, Start(bytes), Len(bytes)) IN
  [header |-> bytes[1], exact |-> LengthField(bytes).value = Len(data), view |-> View(bytes[1], data)]

Fixed(p) == CASE p.type = PUBLISH -> 48 + 2 * p.qos
              [] p.type \in {SUBSCRIBE, UNSUBSCRIBE} -> 16 * p.type + 2
              [] OTHER -> 16 * p.type

Bytes2(n) == <<n \div (2 * Radix), n % (2 * Radix)>>

Said(t, times) == IF t.present THEN [i \in 1..times |-> Text(t.len)] ELSE <<>>

(* What the broker must read of p.                                         *)
MeantView(p) ==
  CASE p.type = CONNECT ->
         <<<<Text(4)>>,
           <<4, 2 + (IF p.will.present THEN (IF p.retained THEN 44 ELSE 12) ELSE 0)
                  + (IF p.password.present THEN 64 ELSE 0)
                  + (IF p.user.present THEN 128 ELSE 0)>> \o Bytes2(KeepAlive),
           <<Text(p.clientID)>> \o Said(p.will, 2) \o Said(p.user, 1) \o Said(p.password, 1)>>
    [] p.type = PUBLISH ->
         <<Text(p.topic), IF p.qos = 0 THEN <<>> ELSE Bytes2(p.id), Text(p.payload)>>
    [] p.type = SUBSCRIBE -> <<Bytes2(p.id), <<Text(p.topic)>>, p.qos>>
    [] p.type = UNSUBSCRIBE -> <<Bytes2(p.id), <<Text(p.topic)>>>>
    [] p.type = PUBACK -> Bytes2(p.id)
    [] p.type \in {PINGREQ, DISCONNECT} -> <<>>

Meant(p) == [header |-> Fixed(p), exact |-> TRUE, view |-> MeantView(p)]

(* Where the level that starts at i ends: at a slash, or behind s.         *)
Cut(s, i) == Min({k \in i..(Len(s) + 1) : k = Len(s) + 1 \/ s[k] = Slash})

(* The levels of a topic, and the filters that match a name by levels.     *)
Levels(s) ==
  LET from[i \in 1..(Len(s) + 1)] ==
        IF Cut(s, i) > Len(s) THEN <<SubSeq(s, i, Len(s))>>
        ELSE <<SubSeq(s, i, Cut(s, i) - 1)>> \o from[Cut(s, i) + 1]
  IN  from[1]

MatchesByLevels(f, n) ==
  LET F == Levels(f)
      N == Levels(n)
      tail == F[Len(F)] = <<Hash>>
      head == IF tail THEN Len(F) - 1 ELSE Len(F)
  IN  /\ IF tail THEN Len(N) >= head ELSE Len(N) = head
      /\ \A k \in 1..head : F[k] \in {<<Plus>>, N[k]}

----------------------------------------------------------------------------
(* Correctness.                                                            *)

(* No buffer is written past its end: writeBuf, readBuf and the array of   *)
(* granted QoS that a SUBACK fills, whatever count of codes the broker     *)
(* sends.                                                                  *)
BuffersHold ==
  /\ out.rc \in {"serialized", "sent"} => Len(out.bytes) <= out.writeBufSize
  /\ Len(readBuf) = RxBufLen
  /\ "codes" \in DOMAIN got => Len(got.codes) <= GrantedQoS

(* A broker that goes by the standard reads from the bytes what was asked  *)
(* for: the remaining length, computed before the fields are written, is   *)
(* that of the fields, and each field is where the flags say.              *)
WrittenAsAsked ==
  out.rc \in {"serialized", "sent"} => BrokerReads(out.bytes) = Meant(out.asked)

(* Of the two tests for a packet that is too long, the estimate before     *)
(* writing and the one before sending, none refuses a packet shorter than  *)
(* writeBuf, and no other gets through.                                    *)
RefusedIfTooLong ==
  /\ out.rc = "MQTT_TX_BUFFER_TOO_SHORT_ERROR" => Len(Written(out.asked)) >= out.writeBufSize
  /\ out.rc = "sent" => Len(out.bytes) < out.writeBufSize

(* Whatever earlier packets left in readBuf, and although no deserialiser  *)
(* is told where the packet ends, what it returns is what was sent.        *)
ReceivedAsSent ==
  got.rc = "MQTT_SUCCESS" =>
    /\ got.type = came.type
    /\ got.type = PUBLISH =>
         /\ got.dup = came.dup /\ got.qos = came.qos /\ got.retained = came.retained
         /\ got.topic = came.topic /\ got.payload = Text(came.payload)
         /\ got.qos # 0 => got.id = came.id
    /\ got.type \in {PUBACK, UNSUBACK, SUBACK} => got.id = came.id
    /\ got.type = SUBACK => got.codes = came.codes
    /\ got.type = CONNACK => got.code = came.code

(* A message goes to the filters that match it level by level.  Names with *)
(* an empty level, and the parent of a filter that ends in /#, are matched *)
(* by fewer filters than MQTT says, never by more.                         *)
DeliveredByLevels ==
  got.rc = "MQTT_SUCCESS" /\ got.type = PUBLISH =>
    \A f \in Filters :
      /\ f \in ran => MatchesByLevels(f, got.topic)
      /\ /\ MatchesByLevels(f, got.topic)
         /\ <<>> \notin Range(Levels(got.topic))
         /\ Len(Levels(f)) <= Len(Levels(got.topic))
         => f \in ran
=============================================================================
