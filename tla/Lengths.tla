------------------------------- MODULE Lengths -------------------------------
(* The remaining length field of an MQTT packet: seven bits a byte, least  *)
(* significant first, the top bit set on all but the last.  Radix stands   *)
(* for the 128 of the code, so that TLC meets every threshold with small   *)
(* packets.                                                                *)
EXTENDS Naturals, Sequences

CONSTANT Radix

ASSUME RadixAssumption == Radix \in Nat /\ Radix >= 2

Bytes == 0..(2 * Radix - 1)

(* A length byte: its digit, and whether another one follows.              *)
Digit(b) == b % Radix
More(b) == b >= Radix

(* mqtt_internal_write_len_to_buffer *)
WriteLen[n \in Nat] ==
  IF n < Radix THEN <<n>> ELSE <<Radix + (n % Radix)>> \o WriteLen[n \div Radix]

(* How many bytes WriteLen writes, for what four of them can hold.         *)
LenBytes(n) ==
  CASE n < Radix                                     -> 1
    [] n >= Radix /\ n < Radix * Radix               -> 2
    [] n >= Radix * Radix /\ n < Radix * Radix * Radix -> 3
    [] OTHER                                         -> 4

(* A whole packet: header byte, length bytes, and the rest.                *)
PacketSize(remLen) == 1 + LenBytes(remLen) + remLen

(* Mutant: always the four length bytes of the longest packet.             *)
FinalLengthMost(remLen) == remLen + 1 + 4

(* mqtt_internal_get_final_packet_length_from_remaining_length: compares   *)
(* with the header byte already added.                                     *)
FinalLength(remLen) ==
  LET n == remLen + 1 IN
  CASE n < Radix                                     -> n + 1
    [] n >= Radix /\ n < Radix * Radix               -> n + 2
    [] n >= Radix * Radix /\ n < Radix * Radix * Radix -> n + 3
    [] OTHER                                         -> n + 4
=============================================================================
