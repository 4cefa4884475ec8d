----------------------------- MODULE WireProofs -----------------------------
(* Wire keeps its types and stays in step with the stream, and a send that *)
(* succeeds in time is whole: for every radix, buffer, packet and wrap.    *)
EXTENDS Wire, TLAPS

(* ----- Arithmetic ------------------------------------------------------ *)

LEMMA DivMod ==
  ASSUME NEW n \in Nat
  PROVE  /\ n \div Radix \in Nat /\ n % Radix \in 0..(Radix - 1)
         /\ n = Radix * (n \div Radix) + (n % Radix)
  BY RadixAssumption

LEMMA SmallMod ==
  ASSUME NEW n \in Nat, NEW w \in Nat \ {0}
  PROVE  n % w \in Nat /\ (n < w => n % w = n)
  OBVIOUS

(* One length byte taken: what it adds and what is still to come.          *)
LEMMA Decoding ==
  ASSUME NEW r \in Nat, NEW m \in Nat, NEW d \in Nat, NEW q \in Nat, NEW t \in Nat,
         d = Radix * q + t
  PROVE  (r + t * m) + (m * Radix) * q = r + m * d
  <1>1. m * d = m * (Radix * q) + m * t
    BY RadixAssumption
  <1>2. m * (Radix * q) = (m * Radix) * q
    BY RadixAssumption
  <1>3. t * m = m * t
    OBVIOUS
  <1> QED  BY <1>1, <1>2, <1>3, RadixAssumption

(* A product is at least each factor, when the other is not zero.          *)
LEMMA Factor ==
  ASSUME NEW a \in Nat, NEW q \in Nat, q > 0
  PROVE  a <= a * q
  OBVIOUS

LEMMA ByteDigits ==
  ASSUME NEW b \in Bytes
  PROVE  /\ b \in Nat /\ Digit(b) \in Nat
         /\ (~More(b) => Digit(b) = b)
  BY RadixAssumption DEF Bytes, Digit, More

(* ----- The inductive invariant ----------------------------------------- *)

(* What the body loops count, in sync or not.                              *)
Counting ==
  /\ pc \in {"body", "drop"} => want \in 1..left
  /\ pc = "body" => want = left

(* The stream: data is announced before it comes, and no packet is too     *)
(* long for size_t.                                                        *)
Announced ==
  /\ size < WordSize
  /\ part = "data" => size > 0

(* A call that has not returned has no code yet.                           *)
NoCodeYet == pc # "idle" => rc = "none"

WireInv ==
  /\ WireTypeOK /\ Counting /\ Announced
  /\ NoCodeYet /\ WrittenIsOnWire /\ ReaderInSync

LEMMA RemLenRange ==
  ASSUME NEW n \in RemLens
  PROVE  n \in Nat /\ n < WordSize
  <1>1. n \in 0..(WordSize - 1) /\ WordSize \in Nat
    BY WireAssumption
  <1> QED  BY <1>1

(* The types of what a byte taken changes.                                 *)
LEMMA TakeByteTypes ==
  ASSUME WireTypeOK, Announced, NEW b \in Bytes, TakeByte(b)
  PROVE  /\ queue' \in Seq(RemLens) /\ part' \in {"header", "length", "data"}
         /\ digits' \in Nat /\ size' \in Nat /\ Announced'
  <1> USE WireAssumption DEF WireTypeOK, Announced
  <1>1. CASE HeaderNext /\ part' = "length" /\ digits' = Head(queue) /\ size' = Head(queue)
             /\ queue' = Tail(queue)
    <2>1. Head(queue) \in RemLens /\ Tail(queue) \in Seq(RemLens)
      BY <1>1 DEF HeaderNext
    <2>2. Head(queue) \in Nat /\ Head(queue) < WordSize
      BY <2>1, RemLenRange
    <2>3. size' = Head(queue) /\ digits' = Head(queue) /\ part' = "length"
          /\ queue' = Tail(queue)
      BY <1>1
    <2>4. size' \in Nat /\ size' < WordSize /\ digits' \in Nat
      BY <2>2, <2>3
    <2> QED  BY <2>1, <2>3, <2>4
  <1>2. CASE part = "length" /\ digits' = digits \div Radix /\ UNCHANGED <<queue, part, size>>
    <2>1. digits \div Radix \in Nat
      BY DivMod
    <2> QED  BY <1>2, <2>1
  <1>3. CASE /\ part = "length" /\ part' = IF size > 0 THEN "data" ELSE "header"
             /\ digits' = 0 /\ UNCHANGED <<queue, size>>
    BY <1>3
  <1>4. CASE /\ part = "data" /\ size' = size - 1
             /\ part' = IF size = 1 THEN "header" ELSE "data"
             /\ UNCHANGED <<queue, digits>>
    BY <1>4
  <1>5. \/ HeaderNext /\ part' = "length" /\ digits' = Head(queue) /\ size' = Head(queue)
           /\ queue' = Tail(queue)
        \/ part = "length" /\ digits' = digits \div Radix /\ UNCHANGED <<queue, part, size>>
        \/ /\ part = "length" /\ part' = IF size > 0 THEN "data" ELSE "header"
           /\ digits' = 0 /\ UNCHANGED <<queue, size>>
        \/ /\ part = "data" /\ size' = size - 1
           /\ part' = IF size = 1 THEN "header" ELSE "data"
           /\ UNCHANGED <<queue, digits>>
    BY DEF TakeByte
  <1> QED  BY <1>1, <1>2, <1>3, <1>4, <1>5

LEMMA InitInv == Init => WireInv
  <1> SUFFICES ASSUME Init PROVE WireInv
    OBVIOUS
  <1> USE DEF Init
  <1>1. WireTypeOK
    <2>1. queue \in Seq(RemLens)
      OBVIOUS
    <2> QED  BY <2>1 DEF WireTypeOK, Codes, Reading
  <1>2. Counting /\ NoCodeYet /\ WrittenIsOnWire /\ ReaderInSync
    BY DEF Counting, NoCodeYet, WrittenIsOnWire, ReaderInSync
  <1>3. Announced
    BY WireAssumption DEF Announced
  <1> QED  BY <1>1, <1>2, <1>3 DEF WireInv

(* ----- Reading --------------------------------------------------------- *)

LEMMA ReadHeaderInv ==
  ASSUME WireInv, ReadHeader
  PROVE  WireInv'
  <1> USE DEF WireInv
  <1>1. PICK b \in Bytes : TakeByte(b)
    BY DEF ReadHeader
  <1>2. /\ queue' \in Seq(RemLens) /\ part' \in {"header", "length", "data"}
        /\ digits' \in Nat /\ size' \in Nat /\ Announced'
    BY <1>1, TakeByteTypes
  <1>3. WireTypeOK'
    BY <1>2 DEF ReadHeader, WireTypeOK, writer, timers, Reading
  <1>4. ReaderInSync'
    <2> SUFFICES ASSUME ~cut
                 PROVE  part' = "length" /\ remLen' + multiplier' * digits' = size'
      BY DEF ReaderInSync, ReadHeader
    <2>1. part = "header"
      BY DEF ReaderInSync, ReadHeader
    <2>2. part' = "length" /\ digits' = size'
      BY <1>1, <2>1 DEF TakeByte
    <2>3. remLen' = 0 /\ multiplier' = 1
      BY DEF ReadHeader
    <2>4. \A n \in Nat : 0 + 1 * n = n
      OBVIOUS
    <2>5. digits' \in Nat
      BY <1>2
    <2> QED  BY <2>2, <2>3, <2>4, <2>5
  <1>5. Counting' /\ NoCodeYet' /\ WrittenIsOnWire'
    BY DEF Counting, NoCodeYet, WrittenIsOnWire, ReadHeader, writer, timers
  <1> QED  BY <1>2, <1>3, <1>4, <1>5

(* A length byte in sync: nothing wraps, and after the last one the sum is *)
(* the length that was encoded.                                            *)
LEMMA LengthByte ==
  ASSUME WireInv, pc = "length", ~cut, NEW b \in Bytes, TakeByte(b)
  PROVE  /\ More(b) => /\ part' = "length" /\ size' = size
                       /\ WithDigit(b) + ((multiplier * Radix) % WordSize) * digits' = size
         /\ ~More(b) => /\ WithDigit(b) = size /\ size' = size
                        /\ part' = IF size > 0 THEN "data" ELSE "header"
  <1> USE WireAssumption, RadixAssumption DEF WireInv
  <1>1. /\ part = "length" /\ remLen + multiplier * digits = size /\ size < WordSize
        /\ remLen \in Nat /\ multiplier \in Nat /\ digits \in Nat /\ size \in Nat
    BY DEF ReaderInSync, Announced, WireTypeOK
  <1>2. b \in Nat /\ Digit(b) \in Nat /\ (~More(b) => Digit(b) = b)
    BY ByteDigits
  <1>3. CASE More(b)
    <2>1. /\ Digit(b) = digits % Radix /\ digits \div Radix > 0
          /\ digits' = digits \div Radix /\ part' = "length" /\ size' = size
      BY <1>1, <1>3 DEF TakeByte, HeaderNext
    <2>2. DEFINE q == digits \div Radix
                 t == Digit(b)
                 s == remLen + t * multiplier
                 m == multiplier * Radix
    <2>3. q \in Nat /\ digits = Radix * q + t
      BY <1>1, <2>1, DivMod
    <2>4. s \in Nat /\ m \in Nat /\ t * multiplier \in Nat
      BY <1>1, <1>2
    <2>5. s + m * q = size
      BY <1>1, <1>2, <2>3, Decoding
    <2>6. m * q \in Nat /\ m <= m * q
      <3> HIDE DEF m, q
      <3>1. q > 0
        BY <2>1 DEF q
      <3> QED  BY <2>3, <2>4, <3>1, Factor
    <2>7. s < WordSize /\ m < WordSize
      <3> HIDE DEF m, q, s
      <3> QED  BY <1>1, <2>4, <2>5, <2>6
    <2>8. WithDigit(b) = s /\ m % WordSize = m
      <3>1. WithDigit(b) = s % WordSize
        BY DEF WithDigit
      <3> HIDE DEF m, s
      <3> QED  BY <2>4, <2>7, <3>1, SmallMod
    <2> QED  BY <1>3, <2>1, <2>5, <2>8
  <1>4. CASE ~More(b)
    <2>1. b = digits /\ part' = (IF size > 0 THEN "data" ELSE "header") /\ size' = size
      BY <1>1, <1>4 DEF TakeByte, HeaderNext
    <2>2. digits * multiplier = multiplier * digits
      BY <1>1
    <2>3. remLen + Digit(b) * multiplier = size
      BY <1>1, <1>2, <1>4, <2>1, <2>2
    <2> QED  BY <1>1, <1>4, <2>1, <2>3, SmallMod DEF WithDigit
  <1> QED  BY <1>3, <1>4

LEMMA ReadLengthInv ==
  ASSUME WireInv, ReadLength
  PROVE  WireInv'
  <1> USE WireAssumption, RadixAssumption DEF WireInv
  <1>1. PICK b \in Bytes :
          /\ TakeByte(b)
          /\ \/ /\ More(b)
                /\ remLen' = WithDigit(b)
                /\ multiplier' = (multiplier * Radix) % WordSize
                /\ UNCHANGED <<pc, left, want, timers, rc>>
             \/ ~More(b) /\ StartBody(WithDigit(b))
    BY DEF ReadLength
  <1>2. /\ queue' \in Seq(RemLens) /\ part' \in {"header", "length", "data"}
        /\ digits' \in Nat /\ size' \in Nat /\ Announced'
    BY <1>1, TakeByteTypes
  <1>3. WithDigit(b) \in Nat /\ (multiplier * Radix) % WordSize \in Nat
    <2>1. remLen \in Nat /\ multiplier \in Nat
      BY DEF WireTypeOK
    <2>2. Digit(b) * multiplier \in Nat
      BY <2>1, ByteDigits
    <2> QED  BY <2>1, <2>2, SmallMod DEF WithDigit
  <1>4. pc = "length" /\ UNCHANGED <<txLen, written, ret, onWire, cut>>
    BY DEF ReadLength, writer
  <1>5. CASE More(b)
    <2>1. /\ remLen' = WithDigit(b) /\ multiplier' = (multiplier * Radix) % WordSize
          /\ UNCHANGED <<pc, left, want, callerExpired, packetExpired, rc>>
      BY <1>1, <1>5 DEF timers
    <2>2. WireTypeOK'
      BY <1>2, <1>3, <1>4, <2>1 DEF WireTypeOK
    <2>3. ReaderInSync'
      BY <1>1, <1>4, <1>5, <2>1, LengthByte DEF ReaderInSync
    <2>4. Counting' /\ NoCodeYet' /\ WrittenIsOnWire'
      BY <1>4, <2>1 DEF Counting, NoCodeYet, WrittenIsOnWire
    <2> QED  BY <1>2, <2>2, <2>3, <2>4
  <1>6. CASE ~More(b)
    <2>1. DEFINE n == WithDigit(b)
    <2>2. n \in Nat
      BY <1>3
    <2>3. ~cut => n = size /\ size' = size /\ part' = IF size > 0 THEN "data" ELSE "header"
      BY <1>1, <1>4, <1>6, LengthByte
    <2> HIDE DEF n
    <2>4. StartBody(n)
      BY <1>1, <1>6 DEF n
    <2>5. CASE n = 0 /\ EndRead("MQTT_SUCCESS")
      <3>1. WireTypeOK'
        BY <1>2, <1>4, <2>5 DEF WireTypeOK, EndRead, NoTimers, Codes
      <3>2. ReaderInSync'
        BY <1>4, <2>3, <2>5 DEF ReaderInSync, EndRead
      <3>3. Counting' /\ NoCodeYet' /\ WrittenIsOnWire'
        BY <2>5 DEF Counting, NoCodeYet, WrittenIsOnWire, EndRead
      <3> QED  BY <1>2, <3>1, <3>2, <3>3
    <2>6. CASE /\ n > 0 /\ left' = n /\ remLen' = n /\ UNCHANGED <<multiplier, timers, rc>>
               /\ \/ pc' = "drop" /\ n >= ReadBufSize /\ want' = ReadBufSize
                  \/ pc' = "body" /\ want' = n
      <3>1. WireTypeOK'
        BY <1>2, <1>4, <2>2, <2>6 DEF WireTypeOK, timers, Reading
      <3>2. want' \in 1..left'
        BY <2>2, <2>6
      <3>3. ReaderInSync'
        BY <1>4, <2>2, <2>3, <2>6, <3>2 DEF ReaderInSync
      <3>4. Counting' /\ NoCodeYet' /\ WrittenIsOnWire'
        BY <1>4, <2>6, <3>2 DEF Counting, NoCodeYet, WrittenIsOnWire
      <3> QED  BY <1>2, <3>1, <3>3, <3>4
    <2> QED  BY <2>2, <2>4, <2>5, <2>6 DEF StartBody
  <1> QED  BY <1>5, <1>6

(* Taking a byte of the body, or of what is dropped, in sync.              *)
LEMMA DataByte ==
  ASSUME WireInv, pc \in {"body", "drop"}, ~cut, NEW b \in Bytes, TakeByte(b)
  PROVE  /\ size' = size - 1 /\ left = size /\ size > 0
         /\ part' = IF size = 1 THEN "header" ELSE "data"
  BY DEF WireInv, ReaderInSync, Announced, TakeByte, HeaderNext

LEMMA ReadBodyInv ==
  ASSUME WireInv, ReadBody
  PROVE  WireInv'
  <1> USE DEF WireInv
  <1>1. PICK b \in Bytes : TakeByte(b)
    BY DEF ReadBody
  <1>2. /\ queue' \in Seq(RemLens) /\ part' \in {"header", "length", "data"}
        /\ digits' \in Nat /\ size' \in Nat /\ Announced'
    BY <1>1, TakeByteTypes
  <1>3. /\ pc = "body" /\ UNCHANGED <<txLen, written, ret, onWire, cut>>
        /\ want = left /\ left \in Nat /\ want \in 1..left
    BY DEF ReadBody, writer, Counting, WireTypeOK
  <1>4. ~cut => /\ size' = size - 1 /\ left = size /\ size > 0
                /\ part' = IF size = 1 THEN "header" ELSE "data"
    BY <1>1, <1>3, DataByte
  <1>5. CASE want > 1 /\ Counted(want - 1)
    <2>1. left' = left - 1 /\ want' = left - 1 /\ left' \in Nat /\ want' \in 1..left'
      BY <1>3, <1>5 DEF Counted
    <2>2. UNCHANGED <<remLen, multiplier, callerExpired, packetExpired, pc, rc>>
      BY <1>5 DEF Counted, timers
    <2>3. WireTypeOK'
      BY <1>2, <1>3, <2>1, <2>2 DEF WireTypeOK
    <2>4. ReaderInSync'
      BY <1>3, <1>4, <1>5, <2>1, <2>2 DEF ReaderInSync
    <2>5. Counting' /\ NoCodeYet' /\ WrittenIsOnWire'
      BY <1>3, <2>1, <2>2 DEF Counting, NoCodeYet, WrittenIsOnWire
    <2> QED  BY <1>2, <2>3, <2>4, <2>5
  <1>6. CASE want = 1 /\ EndRead("MQTT_SUCCESS")
    <2>1. WireTypeOK'
      BY <1>2, <1>3, <1>6 DEF WireTypeOK, EndRead, NoTimers, Codes
    <2>2. ReaderInSync'
      BY <1>3, <1>4, <1>6 DEF ReaderInSync, EndRead
    <2>3. Counting' /\ NoCodeYet' /\ WrittenIsOnWire'
      BY <1>6 DEF Counting, NoCodeYet, WrittenIsOnWire, EndRead
    <2> QED  BY <1>2, <2>1, <2>2, <2>3
  <1> QED  BY <1>5, <1>6 DEF ReadBody

LEMMA ReadDropInv ==
  ASSUME WireInv, ReadDrop
  PROVE  WireInv'
  <1> USE DEF WireInv
  <1>1. PICK b \in Bytes : TakeByte(b)
    BY DEF ReadDrop
  <1>2. /\ queue' \in Seq(RemLens) /\ part' \in {"header", "length", "data"}
        /\ digits' \in Nat /\ size' \in Nat /\ Announced'
    BY <1>1, TakeByteTypes
  <1>3. /\ pc = "drop" /\ UNCHANGED <<txLen, written, ret, onWire, cut>>
        /\ left \in Nat /\ want \in 1..left
    BY DEF ReadDrop, writer, Counting, WireTypeOK
  <1>4. ~cut => /\ size' = size - 1 /\ left = size /\ size > 0
                /\ part' = IF size = 1 THEN "header" ELSE "data"
    BY <1>1, <1>3, DataByte
  <1>5. ASSUME NEW n \in Nat, n \in 1..(left - 1), Counted(n)
        PROVE  WireInv'
    <2>1. left' = left - 1 /\ want' = n /\ left' \in Nat /\ want' \in 1..left' /\ left > 1
      BY <1>3, <1>5 DEF Counted
    <2>2. UNCHANGED <<remLen, multiplier, callerExpired, packetExpired, pc, rc>>
      BY <1>5 DEF Counted, timers
    <2>3. WireTypeOK'
      BY <1>2, <1>3, <2>1, <2>2 DEF WireTypeOK
    <2>4. ReaderInSync'
      BY <1>3, <1>4, <2>1, <2>2 DEF ReaderInSync
    <2>5. Counting' /\ NoCodeYet' /\ WrittenIsOnWire'
      BY <1>3, <2>1, <2>2 DEF Counting, NoCodeYet, WrittenIsOnWire
    <2> QED  BY <1>2, <2>3, <2>4, <2>5
  <1>6. CASE want > 1 /\ Counted(want - 1)
    <2>1. want - 1 \in Nat /\ want - 1 \in 1..(left - 1)
      BY <1>3, <1>6
    <2> QED  BY <1>5, <1>6, <2>1
  <1>7. CASE want = 1 /\ left > 1 /\ Counted(Piece(left - 1))
    <2>1. Piece(left - 1) \in Nat /\ Piece(left - 1) \in 1..(left - 1)
      BY <1>3, <1>7, WireAssumption DEF Piece
    <2> QED  BY <1>5, <1>7, <2>1
  <1>8. CASE want = 1 /\ left <= 1 /\ EndRead("MQTT_RX_BUFFER_TOO_SHORT_ERROR")
    <2>1. WireTypeOK'
      BY <1>2, <1>3, <1>8 DEF WireTypeOK, EndRead, NoTimers, Codes
    <2>2. ReaderInSync'
      BY <1>3, <1>4, <1>8 DEF ReaderInSync, EndRead
    <2>3. Counting' /\ NoCodeYet' /\ WrittenIsOnWire'
      BY <1>8 DEF Counting, NoCodeYet, WrittenIsOnWire, EndRead
    <2> QED  BY <1>2, <2>1, <2>2, <2>3
  <1> QED  BY <1>6, <1>7, <1>8 DEF ReadDrop

LEMMA ReadTimesOutInv ==
  ASSUME WireInv, ReadTimesOut
  PROVE  WireInv'
  <1> USE DEF WireInv
  <1>1. UNCHANGED <<queue, part, digits, size, txLen, written, ret, onWire>>
    BY DEF ReadTimesOut, stream, writer
  <1>2. PICK code \in Codes : EndRead(code)
    BY DEF ReadTimesOut, Codes
  <1>3. cut' = TRUE \/ (cut' = cut /\ pc = "header")
    BY DEF ReadTimesOut
  <1>4. WireTypeOK'
    BY <1>1, <1>2, <1>3 DEF WireTypeOK, EndRead, NoTimers
  <1>5. ReaderInSync'
    BY <1>1, <1>2, <1>3 DEF ReaderInSync, EndRead
  <1>6. Counting' /\ NoCodeYet' /\ WrittenIsOnWire' /\ Announced'
    BY <1>1, <1>2 DEF Counting, NoCodeYet, WrittenIsOnWire, EndRead, Announced
  <1> QED  BY <1>4, <1>5, <1>6

(* ----- Writing --------------------------------------------------------- *)

LEMMA WriteInv ==
  ASSUME WireInv, BeginSend \/ NextRound \/ SendSome \/ SendNone \/ SendExpired
  PROVE  WireInv'
  <1> USE DEF WireInv
  <1>1. UNCHANGED <<queue, part, digits, size, remLen, multiplier, left, want, packetExpired, cut>>
    BY DEF BeginSend, NextRound, SendSome, SendNone, SendExpired, stream, reader, timers
  <1>2. /\ pc \in {"idle", "write", "send"} /\ pc' \in {"write", "send"}
        /\ rc' = "none" /\ callerExpired' \in BOOLEAN
    BY DEF BeginSend, NextRound, SendSome, SendNone, SendExpired, timers, NoCodeYet, WireTypeOK
  <1>3. /\ txLen' \in Nat /\ written' \in Nat /\ ret' \in Nat /\ onWire' \in Nat
        /\ WrittenIsOnWire'
    <2>1. CASE BeginSend
      BY <2>1, WireAssumption DEF BeginSend, WrittenIsOnWire
    <2>2. CASE NextRound
      BY <2>2 DEF NextRound, writer, timers, WrittenIsOnWire, CountedTwice, WireTypeOK
    <2>3. CASE SendSome
      <3>1. PICK n \in 1..(txLen - written) :
               ret' = n /\ onWire' = onWire + n /\ written' = written + n
        BY <2>3 DEF SendSome
      <3>2. txLen \in Nat /\ written \in Nat /\ onWire \in Nat /\ txLen' = txLen
        BY <2>3 DEF SendSome, WireTypeOK
      <3>3. n \in Nat
        BY <3>2
      <3>4. pc = "send" /\ ~callerExpired
        BY <2>3 DEF SendSome
      <3>5. written = onWire
        BY <3>4 DEF WrittenIsOnWire
      <3> QED  BY <3>1, <3>2, <3>3, <3>5 DEF WrittenIsOnWire
    <2>4. CASE SendNone
      BY <2>4 DEF SendNone, timers, WrittenIsOnWire, WireTypeOK
    <2>5. CASE SendExpired
      BY <2>5 DEF SendExpired, timers, WrittenIsOnWire, CountedTwice, WireTypeOK
    <2> QED  BY <2>1, <2>2, <2>3, <2>4, <2>5
  <1>4. WireTypeOK'
    BY <1>1, <1>2, <1>3 DEF WireTypeOK, Codes
  <1>5. ReaderInSync'
    BY <1>1, <1>2 DEF ReaderInSync
  <1>6. Counting' /\ NoCodeYet' /\ Announced'
    BY <1>1, <1>2 DEF Counting, NoCodeYet, Announced
  <1> QED  BY <1>3, <1>4, <1>5, <1>6

LEMMA SendEndsInv ==
  ASSUME WireInv, SendError \/ SendReturns
  PROVE  WireInv'
  <1> USE DEF WireInv
  <1>1. PICK code \in Codes : EndSend(code)
    BY DEF SendError, SendReturns, Codes
  <1>2. /\ UNCHANGED <<queue, part, digits, size, remLen, multiplier, left, want, cut>>
        /\ pc' = "idle" /\ rc' \in Codes
        /\ txLen' = 0 /\ written' = 0 /\ ret' = 0 /\ onWire' = 0
        /\ callerExpired' = FALSE /\ packetExpired' = FALSE
    BY <1>1 DEF EndSend, stream, reader, NoTimers
  <1>3. pc \in {"write", "send"}
    BY DEF SendError, SendReturns
  <1>4. WireTypeOK'
    BY <1>2 DEF WireTypeOK
  <1>5. ReaderInSync'
    BY <1>2, <1>3 DEF ReaderInSync
  <1>6. Counting' /\ NoCodeYet' /\ Announced' /\ WrittenIsOnWire'
    BY <1>2 DEF Counting, NoCodeYet, Announced, WrittenIsOnWire
  <1> QED  BY <1>4, <1>5, <1>6

(* ----- The rest, and the theorems -------------------------------------- *)

LEMMA OtherInv ==
  ASSUME WireInv,
         BrokerSends \/ BeginRead \/ CallerTimerExpires \/ PacketTimerExpires \/ Reconnect
  PROVE  WireInv'
  <1> USE DEF WireInv
  <1>1. CASE BrokerSends
    <2>1. PICK n \in RemLens : queue' = Append(queue, n)
      BY <1>1 DEF BrokerSends
    <2>2. queue' \in Seq(RemLens)
      BY <2>1 DEF WireTypeOK
    <2>3. UNCHANGED <<part, digits, size, reader, writer, timers, pc, cut, rc>>
      BY <1>1 DEF BrokerSends
    <2> QED
      BY <2>2, <2>3 DEF WireTypeOK, ReaderInSync, Counting, NoCodeYet, Announced,
         WrittenIsOnWire, CountedTwice, reader, writer, timers
  <1>2. CASE BeginRead
    BY <1>2 DEF BeginRead, WireTypeOK, ReaderInSync, Counting, NoCodeYet, Announced,
       WrittenIsOnWire, CountedTwice, stream, reader, writer, NoTimers, Reading, Codes
  <1>3. CASE CallerTimerExpires \/ PacketTimerExpires
    BY <1>3 DEF CallerTimerExpires, PacketTimerExpires, WireTypeOK, ReaderInSync, Counting,
       NoCodeYet, Announced, WrittenIsOnWire, CountedTwice, stream, reader, writer
  <1>4. CASE Reconnect
    <2>1. <<>> \in Seq(RemLens)
      OBVIOUS
    <2>2. /\ queue' = <<>> /\ part' = "header" /\ digits' = 0 /\ size' = 0 /\ cut' = FALSE
          /\ pc = "idle" /\ UNCHANGED <<reader, writer, timers, pc, rc>>
      BY <1>4 DEF Reconnect, FreshStream
    <2>3. WireTypeOK'
      BY <2>1, <2>2 DEF WireTypeOK, reader, writer, timers
    <2>4. Announced'
      BY <2>2, WireAssumption DEF Announced
    <2>5. ReaderInSync' /\ Counting' /\ NoCodeYet' /\ WrittenIsOnWire'
      BY <2>2 DEF ReaderInSync, Counting, NoCodeYet, WrittenIsOnWire
    <2> QED  BY <2>3, <2>4, <2>5
  <1> QED  BY <1>1, <1>2, <1>3, <1>4

LEMMA NextInv == WireInv /\ [Next]_vars => WireInv'
  <1> SUFFICES ASSUME WireInv, [Next]_vars PROVE WireInv'
    OBVIOUS
  <1>1. CASE ReadStep
    BY <1>1, ReadHeaderInv, ReadLengthInv, ReadBodyInv, ReadDropInv, ReadTimesOutInv DEF ReadStep
  <1>2. CASE BeginSend \/ WriteStep \/ SendNone
    BY <1>2, WriteInv, SendEndsInv DEF WriteStep
  <1>3. CASE BrokerSends \/ BeginRead \/ CallerTimerExpires \/ PacketTimerExpires \/ Reconnect
    BY <1>3, OtherInv
  <1>4. CASE UNCHANGED vars
    BY <1>4 DEF vars, stream, reader, writer, timers, WireInv, WireTypeOK, ReaderInSync, Counting,
       NoCodeYet, Announced, WrittenIsOnWire, CountedTwice
  <1> QED  BY <1>1, <1>2, <1>3, <1>4 DEF Next

THEOREM WireInvariant == Spec => []WireInv
  <1>1. Init => WireInv
    BY InitInv
  <1>2. WireInv /\ [Next]_vars => WireInv'
    BY NextInv
  <1> QED  BY <1>1, <1>2, PTL DEF Spec

(* Every variable of the reader and the writer keeps its type.             *)
THEOREM WireTypeCorrect == Spec => []WireTypeOK
  <1>1. WireInv => WireTypeOK
    BY DEF WireInv
  <1> QED  BY <1>1, WireInvariant, PTL

(* However packets follow one another, dropped ones included, and however  *)
(* their bytes come, read_packet decodes the length that was encoded and   *)
(* ends where the packet ends, unless a timer cut it.                      *)
THEOREM ReaderCorrect == Spec => []ReaderInSync
  <1>1. WireInv => ReaderInSync
    BY DEF WireInv
  <1> QED  BY <1>1, WireInvariant, PTL

(* iot_tls_write reports success only of a packet that is on the wire from *)
(* its first byte to its last, or, its timer having run out, but for as    *)
(* many bytes as the last piece had.                                       *)
THEOREM WriterCorrect == Spec => SentWhole
  <1>1. ASSUME WireInv, [Next]_vars, pc = "write", rc' = "MQTT_SUCCESS"
        PROVE  onWire = txLen \/ (callerExpired /\ onWire + ret = txLen)
    <2>1. rc = "none" /\ (written = onWire \/ CountedTwice)
      BY <1>1 DEF WireInv, NoCodeYet, WrittenIsOnWire
    <2>2. SendReturns
      BY <1>1, <2>1 DEF Next, vars, ReadStep, WriteStep, BrokerSends, BeginRead, ReadHeader, ReadLength,
         ReadBody, ReadDrop, ReadTimesOut, BeginSend, NextRound, SendSome, SendNone, SendExpired,
         SendError, CallerTimerExpires, PacketTimerExpires, Reconnect
    <2> QED  BY <1>1, <2>1, <2>2 DEF SendReturns, EndSend, CountedTwice
  <1>2. WireInv /\ [Next]_vars
          => [pc = "write" /\ rc' = "MQTT_SUCCESS"
                => onWire = txLen \/ (callerExpired /\ onWire + ret = txLen)]_vars
    BY <1>1
  <1> QED  BY <1>2, WireInvariant, PTL DEF Spec, SentWhole
=============================================================================
