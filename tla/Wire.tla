-------------------------------- MODULE Wire --------------------------------
(* The client between packets and bytes: read_packet over iot_tls_read,    *)
(* and send_packet over iot_tls_write, on one connection.  The one thread  *)
(* does one of them at a time.  Bytes arrive when they like, the socket    *)
(* takes as many as it likes, and either timer may run out at any moment.  *)
EXTENDS Lengths

CONSTANTS
  ReadBufSize,  \* readBufSize, MQTT_RX_BUF_LEN
  WordSize,     \* 2^32: arithmetic on size_t wraps there
  RemLens,      \* remaining lengths of the packets the broker sends
  TxLens,       \* sizes of the packets the client sends
  MaxQueue      \* bound: packets sent by the broker and not yet begun to be read

ASSUME WireAssumption ==
  /\ ReadBufSize \in Nat \ {0}
  /\ WordSize \in Nat \ {0}
  /\ RemLens \subseteq 0..(WordSize - 1)
  /\ TxLens \subseteq Nat \ {0}
  /\ MaxQueue \in Nat

VARIABLES
  \* the bytes on their way to the client
  queue,            \* remaining lengths of the packets no byte of which was taken
  part,             \* what comes next: "header", "length" or "data"
  digits,           \* "length": what the length bytes to come stand for
  size,             \* data bytes to come of the packet begun
  \* mqtt_internal_read_packet, _decode_packet_remaining_len, iot_tls_read
  pc,
  remLen, multiplier,
  left,             \* bytes of the packet still to be read: rem_len - total_bytes_read
  want,             \* bytes this call of iot_tls_read still has to read
  \* mqtt_internal_send_packet, iot_tls_write
  txLen, written,   \* length, written_so_far
  ret,              \* what socket_send returned last
  onWire,           \* bytes of the packet the socket took
  \* both
  callerExpired, packetExpired, \* has_timer_expired(pTimer), (packetTimer)
  cut,              \* a packet begun was left half read on this connection
  rc                \* return code of the last read_packet or send_packet

stream == <<queue, part, digits, size>>
reader == <<remLen, multiplier, left, want>>
writer == <<txLen, written, ret, onWire>>
timers == <<callerExpired, packetExpired>>
vars == <<stream, reader, writer, timers, pc, cut, rc>>

----------------------------------------------------------------------------
(* The stream (external).  A packet of MQTT is a header byte, the length   *)
(* bytes and as many bytes of data as these say.                           *)

BrokerSends ==
  /\ Len(queue) < MaxQueue
  /\ \E n \in RemLens : queue' = Append(queue, n)
  /\ UNCHANGED <<part, digits, size, reader, writer, timers, pc, cut, rc>>

HeaderNext == part = "header" /\ queue # <<>>

(* One byte is taken from the stream; b is its value where that is known:  *)
(* header and data bytes may be anything.                                  *)
TakeByte(b) ==
  \/ /\ HeaderNext
     /\ part' = "length" /\ digits' = Head(queue) /\ size' = Head(queue)
     /\ queue' = Tail(queue)
  \/ /\ part = "length" /\ More(b) /\ Digit(b) = digits % Radix
     /\ digits \div Radix > 0
     /\ digits' = digits \div Radix
     /\ UNCHANGED <<queue, part, size>>
  \/ /\ part = "length" /\ b = digits /\ ~More(b)
     /\ part' = IF size > 0 THEN "data" ELSE "header"
     /\ digits' = 0
     /\ UNCHANGED <<queue, size>>
  \/ /\ part = "data"
     /\ size' = size - 1
     /\ part' = IF size = 1 THEN "header" ELSE "data"
     /\ UNCHANGED <<queue, digits>>

----------------------------------------------------------------------------
(* Reading.                                                                *)

NoTimers == callerExpired' = FALSE /\ packetExpired' = FALSE

(* read_packet starts packetTimer before it waits for the header byte.     *)
BeginRead ==
  /\ pc = "idle"
  /\ pc' = "header" /\ rc' = "none"
  /\ NoTimers
  /\ UNCHANGED <<stream, reader, writer, cut>>

(* The call returns and its locals, timers included, are gone.             *)
EndRead(code) ==
  /\ pc' = "idle" /\ rc' = code
  /\ remLen' = 0 /\ multiplier' = 1 /\ left' = 0 /\ want' = 0
  /\ NoTimers

ReadHeader ==
  /\ pc = "header"
  /\ \E b \in Bytes : TakeByte(b)
  /\ pc' = "length" /\ remLen' = 0 /\ multiplier' = 1
  /\ UNCHANGED <<left, want, writer, timers, cut, rc>>

(* Mutant: the digits are taken most significant first.                    *)
WithDigitFirst(b) == (remLen * Radix + Digit(b)) % WordSize

WithDigit(b) == (remLen + Digit(b) * multiplier) % WordSize

(* What the remaining length, once read, leads to.                         *)
StartBody(n) ==
  \/ /\ n >= ReadBufSize
     /\ pc' = "drop" /\ left' = n /\ want' = ReadBufSize
     /\ remLen' = n
     /\ UNCHANGED <<multiplier, timers, rc>>
  \/ /\ n < ReadBufSize /\ n > 0
     /\ pc' = "body" /\ left' = n /\ want' = n
     /\ remLen' = n
     /\ UNCHANGED <<multiplier, timers, rc>>
  \/ /\ n = 0
     /\ EndRead("MQTT_SUCCESS")

(* The count of length bytes, len, is overwritten with 1 by every read, so *)
(* that the test against MAX_NO_OF_REMAINING_LENGTH_BYTES never succeeds.  *)
ReadLength ==
  /\ pc = "length"
  /\ \E b \in Bytes :
       /\ TakeByte(b)
       /\ \/ /\ More(b)
             /\ remLen' = WithDigit(b)
             /\ multiplier' = (multiplier * Radix) % WordSize
             /\ UNCHANGED <<pc, left, want, timers, rc>>
          \/ ~More(b) /\ StartBody(WithDigit(b))
  /\ UNCHANGED <<writer, cut>>

Counted(n) ==
  /\ left' = left - 1 /\ want' = n
  /\ UNCHANGED <<remLen, multiplier, timers, pc, rc>>

ReadBody ==
  /\ pc = "body"
  /\ \E b \in Bytes : TakeByte(b)
  /\ \/ want > 1 /\ Counted(want - 1)
     \/ want = 1 /\ EndRead("MQTT_SUCCESS")
  /\ UNCHANGED <<writer, cut>>

(* Mutant: the last piece is a whole buffer too.                           *)
PieceWhole(n) == ReadBufSize

(* bytes_to_be_read *)
Piece(n) == IF n >= ReadBufSize THEN ReadBufSize ELSE n

(* Mutant: total_bytes_read is not increased.                              *)
ReadDropUncounted ==
  /\ pc = "drop"
  /\ \E b \in Bytes : TakeByte(b)
  /\ want' = IF want > 1 THEN want - 1 ELSE Piece(left)
  /\ UNCHANGED <<left, remLen, multiplier, timers, pc, rc, writer, cut>>

(* A packet too long for readBuf is read over it, a buffer at a time.      *)
ReadDrop ==
  /\ pc = "drop"
  /\ \E b \in Bytes : TakeByte(b)
  /\ \/ want > 1 /\ Counted(want - 1)
     \/ want = 1 /\ left > 1 /\ Counted(Piece(left - 1))
     \/ want = 1 /\ left <= 1 /\ EndRead("MQTT_RX_BUFFER_TOO_SHORT_ERROR")
  /\ UNCHANGED <<writer, cut>>

(* A timer runs out with nothing read, or in the middle: of a packet, too. *)
(* The header byte is waited for with the caller's timer.                  *)
ReadTimesOut ==
  /\ \/ /\ pc = "header" /\ callerExpired
        /\ EndRead("MQTT_NOTHING_TO_READ")
        /\ UNCHANGED cut
     \/ /\ pc = "length" /\ packetExpired
        /\ EndRead("NETWORK_SSL_NOTHING_TO_READ")
        /\ cut' = TRUE
     \/ /\ pc = "body" /\ packetExpired
        /\ EndRead("MQTT_FAILURE")
        /\ cut' = TRUE
     \/ /\ pc = "drop" /\ packetExpired
        /\ EndRead("MQTT_RX_BUFFER_TOO_SHORT_ERROR")
        /\ cut' = TRUE
  /\ UNCHANGED <<stream, writer>>

----------------------------------------------------------------------------
(* Writing.  Outer loop of iot_tls_write at "write", inner loop at "send". *)

(* The timer of the caller may have run out before.                        *)
BeginSend ==
  /\ pc = "idle"
  /\ pc' = "write" /\ rc' = "none"
  /\ txLen' \in TxLens
  /\ written' = 0 /\ ret' = 0 /\ onWire' = 0
  /\ callerExpired' \in BOOLEAN
  /\ UNCHANGED <<stream, reader, packetExpired, cut>>

NextRound ==
  /\ pc = "write" /\ written < txLen /\ ~callerExpired
  /\ pc' = "send"
  /\ UNCHANGED <<stream, reader, writer, timers, cut, rc>>

(* Mutant: the whole packet counts as written whatever was taken.          *)
SendSomeAsAll ==
  /\ pc = "send" /\ ~callerExpired
  /\ \E n \in 1..(txLen - written) :
       ret' = n /\ onWire' = onWire + n /\ written' = txLen
  /\ pc' = "write"
  /\ UNCHANGED <<stream, reader, txLen, timers, cut, rc>>

(* socket_send takes some bytes, of those after written_so_far.            *)
SendSome ==
  /\ pc = "send" /\ ~callerExpired
  /\ \E n \in 1..(txLen - written) :
       ret' = n /\ onWire' = onWire + n /\ written' = written + n
  /\ pc' = "write"
  /\ UNCHANGED <<stream, reader, txLen, timers, cut, rc>>

(* It takes none: the inner loop tries again.                              *)
SendNone ==
  /\ pc = "send" /\ ~callerExpired
  /\ ret' = 0
  /\ UNCHANGED <<stream, reader, txLen, written, onWire, timers, pc, cut, rc>>

(* Mutant: the countdown starts again for the rest of the packet.          *)
SendExpiredAgain ==
  /\ pc = "send" /\ callerExpired
  /\ written' = written + ret
  /\ callerExpired' = FALSE
  /\ pc' = "write"
  /\ UNCHANGED <<stream, reader, txLen, ret, onWire, packetExpired, cut, rc>>

(* The timer has run out when the inner loop tests it: nothing is sent,    *)
(* and written_so_far grows by what an earlier round left in ret.          *)
SendExpired ==
  /\ pc = "send" /\ callerExpired
  /\ written' = written + ret
  /\ pc' = "write"
  /\ UNCHANGED <<stream, reader, txLen, ret, onWire, timers, cut, rc>>

EndSend(code) ==
  /\ pc' = "idle" /\ rc' = code
  /\ txLen' = 0 /\ written' = 0 /\ ret' = 0 /\ onWire' = 0
  /\ NoTimers
  /\ UNCHANGED <<stream, reader, cut>>

SendError ==
  /\ pc = "send" /\ ~callerExpired
  /\ EndSend("MQTT_FAILURE")

SendReturns ==
  /\ pc = "write" /\ (written >= txLen \/ callerExpired)
  /\ EndSend(IF written = txLen THEN "MQTT_SUCCESS" ELSE "MQTT_FAILURE")

----------------------------------------------------------------------------
CallerTimerExpires ==
  /\ pc # "idle" /\ ~callerExpired
  /\ callerExpired' = TRUE
  /\ UNCHANGED <<stream, reader, writer, packetExpired, pc, cut, rc>>

PacketTimerExpires ==
  /\ pc # "idle" /\ ~packetExpired
  /\ packetExpired' = TRUE
  /\ UNCHANGED <<stream, reader, writer, callerExpired, pc, cut, rc>>

FreshStream == queue' = <<>> /\ part' = "header" /\ digits' = 0 /\ size' = 0 /\ cut' = FALSE

(* The connection is closed, by keep-alive or the application, and another *)
(* one opened.                                                             *)
Reconnect ==
  /\ pc = "idle"
  /\ FreshStream
  /\ UNCHANGED <<reader, writer, timers, pc, rc>>

Init ==
  /\ queue = <<>> /\ part = "header" /\ digits = 0 /\ size = 0
  /\ pc = "idle" /\ rc = "none"
  /\ remLen = 0 /\ multiplier = 1 /\ left = 0 /\ want = 0
  /\ txLen = 0 /\ written = 0 /\ ret = 0 /\ onWire = 0
  /\ callerExpired = FALSE /\ packetExpired = FALSE
  /\ cut = FALSE

ReadStep == ReadHeader \/ ReadLength \/ ReadBody \/ ReadDrop \/ ReadTimesOut

WriteStep == NextRound \/ SendSome \/ SendExpired \/ SendError \/ SendReturns

Next == \/ BrokerSends \/ BeginRead \/ ReadStep
        \/ BeginSend \/ WriteStep \/ SendNone
        \/ CallerTimerExpires \/ PacketTimerExpires \/ Reconnect

Spec == Init /\ [][Next]_vars

(* The thread runs: once the timers have run out it takes the bytes there  *)
(* are, or ends.  Nothing is asked of the socket or the peer.              *)
Fairness ==
  /\ WF_vars(CallerTimerExpires) /\ WF_vars(PacketTimerExpires)
  /\ WF_vars(callerExpired /\ packetExpired /\ ReadStep)
  /\ WF_vars(NextRound \/ SendExpired \/ SendReturns)

FairSpec == Spec /\ Fairness

----------------------------------------------------------------------------
(* Correctness.                                                            *)

Reading == {"header", "length", "body", "drop"}

Codes == {"none", "MQTT_SUCCESS", "MQTT_FAILURE", "MQTT_NOTHING_TO_READ",
          "NETWORK_SSL_NOTHING_TO_READ", "MQTT_RX_BUFFER_TOO_SHORT_ERROR"}

(* Every variable has its type.                                            *)
WireTypeOK ==
  /\ queue \in Seq(RemLens) /\ part \in {"header", "length", "data"}
  /\ digits \in Nat /\ size \in Nat
  /\ pc \in Reading \cup {"idle", "write", "send"} /\ rc \in Codes
  /\ remLen \in Nat /\ multiplier \in Nat /\ left \in Nat /\ want \in Nat
  /\ txLen \in Nat /\ written \in Nat /\ ret \in Nat /\ onWire \in Nat
  /\ callerExpired \in BOOLEAN /\ packetExpired \in BOOLEAN /\ cut \in BOOLEAN

(* Unless a timer cut a packet, the reader knows where it is in the stream: *)
(* between two calls it stands between two packets, whole or dropped as    *)
(* too long; the length it decodes is the one that was encoded; and of a   *)
(* body it wants what there is, never a byte of the next packet.           *)
ReaderInSync ==
  ~cut => CASE pc = "length"           -> part = "length" /\ remLen + multiplier * digits = size
            [] pc \in {"body", "drop"} -> part = "data" /\ left = size /\ want \in 1..left
            [] OTHER                   -> part = "header"

(* The last piece is counted a second time: the timer ran out before the   *)
(* inner loop sent another, and ret still holds it.                        *)
CountedTwice == callerExpired /\ written = onWire + ret

(* What a send counts as written is on the wire, but for that piece.       *)
WrittenIsOnWire ==
  /\ pc = "send" => written = onWire
  /\ pc = "write" => written = onWire \/ CountedTwice

(* A send that succeeds has put the whole packet on the wire, each byte    *)
(* once.  One whose timer ran out may lack the end of it, and then exactly *)
(* as many bytes as its last piece had, however many rounds it made.       *)
SentWhole ==
  [][pc = "write" /\ rc' = "MQTT_SUCCESS"
       => onWire = txLen \/ (callerExpired /\ onWire + ret = txLen)]_vars

(* "if the buffer is too short then the message will be dropped silently": *)
(* what is not dropped fits into readBuf, header and length bytes too.     *)
FitsReadBuf == pc = "body" => PacketSize(remLen) <= ReadBufSize

(* A read that is in sync ends, and so does a send, whatever the peer and  *)
(* the socket do.  (Out of sync, length bytes without end keep a read in   *)
(* its loop, which looks at no timer as long as bytes come.)               *)
ReadEnds == pc \in Reading /\ ~cut ~> pc = "idle"
SendEnds == pc \in {"write", "send"} ~> pc = "idle"
=============================================================================
