----------------------------- MODULE CodecProofs -----------------------------
(* What is written, and what is made of what is read, for packets and      *)
(* buffers of every length.                                                *)
EXTENDS Codec, SequenceTheorems, WellFoundedInduction, TLAPS

----------------------------------------------------------------------------
(* Induction and recursion.  The theorems of the library about them take a *)
(* predicate or a definition as a parameter; these take a set and a        *)
(* function.                                                               *)

Below == {ss \in Nat \X Nat : ss[1] < ss[2]}

LEMMA Induction ==
  ASSUME NEW S, 0 \in S, \A n \in Nat : n \in S => n + 1 \in S
  PROVE  Nat \subseteq S
  <1> SUFFICES ASSUME Nat \ S # {} PROVE FALSE
    OBVIOUS
  <1> DEFINE T == Nat \ S
  <1>1. IsWellFoundedOn(Below, Nat)
    <2>1. IsWellFoundedOn(OpToRel(<, Nat), Nat)
      BY NatLessThanWellFounded
    <2> QED  BY <2>1 DEF OpToRel, Below
  <1>2. \E x \in T : \A y \in T : ~ (<<y, x>> \in Below)
    <2>1. T \subseteq Nat /\ T # {}
      OBVIOUS
    <2> HIDE DEF T
    <2> QED  BY <2>1, <1>1, WFMin
  <1>3. PICK x \in T : \A y \in T : ~ (<<y, x>> \in Below)
    BY <1>2
  <1>4. x # 0 /\ x \in Nat
    BY <1>3
  <1>5. x - 1 \in T /\ <<x - 1, x>> \in Below
    BY <1>4 DEF Below
  <1> QED  BY <1>3, <1>5

(* A definition by recursion has a solution if what it says of x only      *)
(* reads values at places of a smaller measure.                            *)
ReadsBelow(D, m, S, T) ==
  \A g, h \in [S -> T] : \A x \in S :
    (\A y \in S : m[y] < m[x] => g[y] = h[y]) => D[<<g, x>>] = D[<<h, x>>]

Solves(f, D, S) == f = [x \in S |-> D[<<f, x>>]]

LEMMA Recursion ==
  ASSUME NEW S, NEW T, T # {}, NEW m \in [S -> Nat], NEW D \in [[S -> T] \X S -> T],
         ReadsBelow(D, m, S, T)
  PROVE  \E f \in [S -> T] : Solves(f, D, S)
  <1> DEFINE Good(g, n) == \A x \in S : m[x] < n => g[x] = D[<<g, x>>]
  <1>1. \A n \in Nat : \E g \in [S -> T] : Good(g, n)
    <2> DEFINE U == {n \in Nat : \E g \in [S -> T] : Good(g, n)}
    <2>1. 0 \in U
      <3>1. PICK t \in T : TRUE
        OBVIOUS
      <3>2. [x \in S |-> t] \in [S -> T] /\ Good([x \in S |-> t], 0)
        OBVIOUS
      <3> QED  BY <3>2
    <2>2. ASSUME NEW n \in Nat, n \in U  PROVE n + 1 \in U
      <3>1. PICK g \in [S -> T] : Good(g, n)
        BY <2>2
      <3> DEFINE h == [x \in S |-> D[<<g, x>>]]
      <3>2. h \in [S -> T]
        OBVIOUS
      <3>3. \A x \in S : m[x] < n => h[x] = g[x]
        BY <3>1
      <3>4. ASSUME NEW x \in S, m[x] < n + 1  PROVE h[x] = D[<<h, x>>]
        <4>1. \A y \in S : m[y] < m[x] => g[y] = h[y]
          BY <3>3, <3>4
        <4>2. D[<<g, x>>] = D[<<h, x>>]
          <5> HIDE DEF h
          <5> QED  BY <4>1, <3>2 DEF ReadsBelow
        <4> QED  BY <4>2
      <3>5. Good(h, n + 1)
        BY <3>4
      <3> HIDE DEF h, Good
      <3> QED  BY <3>2, <3>5
    <2>3. Nat \subseteq U
      <3> HIDE DEF U
      <3> QED  BY <2>1, <2>2, Induction
    <2> QED  BY <2>3
  <1>2. ASSUME NEW g \in [S -> T], NEW h \in [S -> T], NEW n \in Nat, NEW k \in Nat,
               Good(g, n), Good(h, k)
        PROVE  \A x \in S : m[x] < n /\ m[x] < k => g[x] = h[x]
    <2> DEFINE U == {j \in Nat : \A x \in S : m[x] < j /\ m[x] < n /\ m[x] < k => g[x] = h[x]}
    <2>1. 0 \in U
      OBVIOUS
    <2>2. ASSUME NEW j \in Nat, j \in U  PROVE j + 1 \in U
      <3>1. ASSUME NEW x \in S, m[x] < j + 1, m[x] < n, m[x] < k  PROVE g[x] = h[x]
        <4>1. \A y \in S : m[y] < m[x] => g[y] = h[y]
          BY <2>2, <3>1
        <4>2. D[<<g, x>>] = D[<<h, x>>]
          BY <4>1 DEF ReadsBelow
        <4> QED  BY <4>2, <3>1, <1>2
      <3> QED  BY <3>1
    <2>3. Nat \subseteq U
      <3> HIDE DEF U
      <3> QED  BY <2>1, <2>2, Induction
    <2>4. ASSUME NEW x \in S, m[x] < n, m[x] < k  PROVE g[x] = h[x]
      <3>1. m[x] + 1 \in U
        BY <2>3
      <3> QED  BY <3>1, <2>4
    <2> QED  BY <2>4
  <1> DEFINE c == [n \in Nat |-> CHOOSE g \in [S -> T] : Good(g, n)]
             f == [x \in S |-> c[m[x] + 1][x]]
  <1>3. \A n \in Nat : c[n] \in [S -> T] /\ Good(c[n], n)
    <2> TAKE n \in Nat
    <2>1. \E g \in [S -> T] : Good(g, n)
      BY <1>1
    <2>2. c[n] = CHOOSE g \in [S -> T] : Good(g, n)
      <3> HIDE DEF Good
      <3> QED  OBVIOUS
    <2> HIDE DEF Good, c
    <2> QED  BY <2>1, <2>2
  <1>4. f \in [S -> T]
    <2> HIDE DEF c
    <2> QED  BY <1>3
  <1>5. ASSUME NEW x \in S  PROVE f[x] = D[<<f, x>>]
    <2> DEFINE g == c[m[x] + 1]
    <2>0. g \in [S -> T] /\ Good(g, m[x] + 1)
      <3> HIDE DEF c, Good
      <3> QED  BY <1>3
    <2>1. f[x] = g[x] /\ g[x] = D[<<g, x>>]
      <3>1. m[x] < m[x] + 1
        OBVIOUS
      <3> HIDE DEF c
      <3> QED  BY <2>0, <3>1
    <2>2. ASSUME NEW y \in S, m[y] < m[x]  PROVE g[y] = f[y]
      <3>1. c[m[y] + 1] \in [S -> T] /\ Good(c[m[y] + 1], m[y] + 1)
        <4>1. m[y] + 1 \in Nat
          OBVIOUS
        <4> HIDE DEF c, Good, f, g
        <4> QED  BY <1>3, <4>1
      <3>2. m[y] < m[x] + 1 /\ m[y] < m[y] + 1 /\ m[x] + 1 \in Nat /\ m[y] + 1 \in Nat
        BY <2>2
      <3>3. g[y] = c[m[y] + 1][y]
        <4> DEFINE h == c[m[y] + 1]
        <4>1. h \in [S -> T] /\ Good(h, m[y] + 1)
          BY <3>1
        <4>2. \A z \in S : m[z] < m[x] + 1 /\ m[z] < m[y] + 1 => g[z] = h[z]
          <5>1. m[x] + 1 \in Nat /\ m[y] + 1 \in Nat
            OBVIOUS
          <5> HIDE DEF c, g, h, Good
          <5> QED  BY <4>1, <5>1, <2>0, <1>2
        <4> HIDE DEF c, g, h, Good
        <4>3. g[y] = h[y]
          BY <4>2, <3>2
        <4> QED  BY <4>3 DEF h
      <3> HIDE DEF c
      <3> QED  BY <3>3
    <2>3. D[<<g, x>>] = D[<<f, x>>]
      <3>1. \A y \in S : m[y] < m[x] => g[y] = f[y]
        BY <2>2
      <3>2. g \in [S -> T]
        BY <2>0
      <3> HIDE DEF f, g, c
      <3> QED  BY <3>1, <3>2, <1>4, Zenon DEF ReadsBelow
    <2> QED  BY <2>1, <2>3
  <1>6. f = [x \in S |-> D[<<f, x>>]]
    <2> HIDE DEF c
    <2> QED  BY <1>5
  <1> HIDE DEF f
  <1> QED  BY <1>4, <1>6 DEF Solves

----------------------------------------------------------------------------
(* Division, and the thresholds of the length field.                       *)

LEMMA Division ==
  ASSUME NEW n \in Nat, NEW d \in Nat, d > 0
  PROVE  /\ n \div d \in Nat /\ n % d \in Nat /\ n % d < d
         /\ n = d * (n \div d) + (n % d)
  OBVIOUS

LEMMA Multiples ==
  ASSUME NEW a \in Nat, NEW b \in Nat, NEW d \in Nat, a <= b
  PROVE  d * a \in Nat /\ d * b \in Nat /\ d * a <= d * b
  <1>1. b - a \in Nat /\ d * (b - a) \in Nat /\ d * b = d * a + d * (b - a)
    OBVIOUS
  <1> QED  BY <1>1

LEMMA QuotientIs ==
  ASSUME NEW q \in Nat, NEW r \in Nat, NEW d \in Nat, r < d
  PROVE  (d * q + r) \div d = q /\ (d * q + r) % d = r
  <1> DEFINE n == d * q + r
             k == n \div d
  <1>1. n \in Nat /\ d > 0
    OBVIOUS
  <1>2. k \in Nat /\ n % d \in Nat /\ n % d < d /\ n = d * k + (n % d)
    <2> HIDE DEF n
    <2> QED  BY <1>1, Division
  <1>3. ~ (k + 1 <= q)
    <2> SUFFICES ASSUME k + 1 <= q PROVE FALSE
      OBVIOUS
    <2>1. d * (k + 1) <= d * q /\ d * (k + 1) = d * k + d
      <3> HIDE DEF k
      <3> QED  BY <1>2, Multiples
    <2> HIDE DEF k
    <2> QED  BY <2>1, <1>2
  <1>4. ~ (q + 1 <= k)
    <2> SUFFICES ASSUME q + 1 <= k PROVE FALSE
      OBVIOUS
    <2>1. d * (q + 1) <= d * k /\ d * (q + 1) = d * q + d
      <3> HIDE DEF k
      <3> QED  BY <1>2, Multiples
    <2> HIDE DEF k
    <2> QED  BY <2>1, <1>2
  <1>5. k = q
    <2> HIDE DEF k
    <2> QED  BY <1>2, <1>3, <1>4
  <1> QED  BY <1>2, <1>5

LEMMA QuotientBounds ==
  ASSUME NEW n \in Nat, NEW d \in Nat, d > 0, NEW k \in Nat
  PROVE  n < d * k <=> n \div d < k
  <1> DEFINE q == n \div d
  <1>1. q \in Nat /\ n % d \in Nat /\ n % d < d /\ n = d * q + (n % d)
    BY Division
  <1> HIDE DEF q
  <1>2. CASE q < k
    <2>1. d * (q + 1) <= d * k /\ d * (q + 1) = d * q + d
      BY <1>1, <1>2, Multiples
    <2> QED  BY <2>1, <1>1, <1>2 DEF q
  <1>3. CASE k <= q
    <2>1. d * k <= d * q
      BY <1>1, <1>3, Multiples
    <2> QED  BY <2>1, <1>1, <1>3 DEF q
  <1> QED  BY <1>1, <1>2, <1>3

R2 == Radix * Radix
R3 == Radix * Radix * Radix
R4 == Radix * Radix * Radix * Radix

LEMMA Thresholds ==
  /\ Radix \in Nat /\ Radix > 1 /\ R2 \in Nat /\ R3 \in Nat /\ R4 \in Nat
  /\ Radix < R2 /\ R2 < R3 /\ R3 < R4
  /\ R2 = Radix * Radix /\ R3 = Radix * R2 /\ R4 = Radix * R3
  <1>1. Radix \in Nat /\ Radix >= 2
    BY RadixAssumption
  <1>2. \A a \in Nat : a > 0 => Radix * a \in Nat /\ a < Radix * a
    BY <1>1
  <1>3. R2 \in Nat /\ Radix < R2 /\ R2 = Radix * Radix
    BY <1>1, <1>2 DEF R2
  <1>4. R3 \in Nat /\ R2 < R3 /\ R3 = Radix * R2
    <2>1. R3 = Radix * R2
      BY <1>1 DEF R2, R3
    <2> QED  BY <1>1, <1>2, <1>3, <2>1
  <1>5. R4 \in Nat /\ R3 < R4 /\ R4 = Radix * R3
    <2>1. R4 = Radix * R3
      BY <1>1 DEF R3, R4
    <2> QED  BY <1>1, <1>2, <1>3, <1>4, <2>1
  <1> QED  BY <1>1, <1>3, <1>4, <1>5

LEMMA OneByte == \A n \in Nat : <<n>> \in Seq(Nat) /\ Len(<<n>>) = 1 /\ <<n>>[1] = n
  OBVIOUS

LEMMA Joined ==
  \A s, t \in Seq(Nat) :
    /\ s \o t \in Seq(Nat) /\ Len(s \o t) = Len(s) + Len(t)
    /\ \A i \in 1..Len(s) : (s \o t)[i] = s[i]
    /\ \A i \in 1..Len(t) : (s \o t)[Len(s) + i] = t[i]
  OBVIOUS

(* The encoder, unfolded once.                                             *)
LEMMA WriteLenUnfolded ==
  /\ WriteLen \in [Nat -> Seq(Nat)]
  /\ \A n \in Nat : WriteLen[n] = IF n < Radix THEN <<n>>
                                  ELSE <<Radix + (n % Radix)>> \o WriteLen[n \div Radix]
  <1> DEFINE F == [Nat -> Seq(Nat)]
             D == [p \in F \X Nat |-> IF p[2] < Radix THEN <<p[2]>>
                     ELSE <<Radix + (p[2] % Radix)>> \o p[1][p[2] \div Radix]]
             m == [n \in Nat |-> n]
  <1>1. \A n \in Nat : n >= Radix => n \div Radix \in Nat /\ n \div Radix < n
    <2> TAKE n \in Nat
    <2> HAVE n >= Radix
    <2>1. n < Radix * n
      BY Thresholds
    <2> QED  BY <2>1, Thresholds, Division, QuotientBounds
  <1>2. \A n \in Nat : n % Radix \in Nat
    BY Thresholds, Division
  <1>3. ASSUME NEW g \in F, NEW n \in Nat
        PROVE  /\ D[<<g, n>>] = IF n < Radix THEN <<n>> ELSE <<Radix + (n % Radix)>> \o g[n \div Radix]
               /\ D[<<g, n>>] \in Seq(Nat)
    <2>1. D[<<g, n>>] = IF n < Radix THEN <<n>> ELSE <<Radix + (n % Radix)>> \o g[n \div Radix]
      OBVIOUS
    <2> HIDE DEF D, m
    <2>2. CASE n < Radix
      BY <2>1, <2>2, OneByte
    <2>3. CASE ~ (n < Radix)
      <3>1. Radix + (n % Radix) \in Nat /\ n \div Radix \in Nat
        BY <1>1, <1>2, <2>3, Thresholds
      <3>2. g[n \div Radix] \in Seq(Nat) /\ <<Radix + (n % Radix)>> \in Seq(Nat)
        BY <3>1, OneByte
      <3> QED  BY <2>1, <2>3, <3>2, Joined
    <2> QED  BY <2>1, <2>2, <2>3
  <1>4. D \in [F \X Nat -> Seq(Nat)]
    <2>1. \A p \in F \X Nat : D[p] \in Seq(Nat)
      <3> TAKE p \in F \X Nat
      <3>1. p[1] \in F /\ p[2] \in Nat /\ p = <<p[1], p[2]>>
        OBVIOUS
      <3> HIDE DEF D, F
      <3> QED  BY <1>3, <3>1
    <2> QED  BY <2>1
  <1>5. ASSUME NEW g \in F, NEW h \in F, NEW n \in Nat, \A k \in Nat : m[k] < m[n] => g[k] = h[k]
        PROVE  D[<<g, n>>] = D[<<h, n>>]
    <2>1. n >= Radix => g[n \div Radix] = h[n \div Radix]
      BY <1>1, <1>5
    <2>2. CASE n < Radix
      <3> HIDE DEF D, F
      <3> QED  BY <1>3, <2>2
    <2>3. CASE ~ (n < Radix)
      <3>1. g[n \div Radix] = h[n \div Radix]
        BY <2>1, <2>3, Thresholds
      <3> HIDE DEF D, F
      <3> QED  BY <1>3, <2>3, <3>1
    <2> QED  BY <2>2, <2>3
  <1>6. \E f \in F : Solves(f, D, Nat)
    <2>1. m \in [Nat -> Nat]
      OBVIOUS
    <2>2. Seq(Nat) # {}
      BY EmptySeq
    <2>3. D \in [[Nat -> Seq(Nat)] \X Nat -> Seq(Nat)]
      BY <1>4
    <2>4. ReadsBelow(D, m, Nat, Seq(Nat))
      <3> HIDE DEF D, m
      <3> QED  BY <1>5 DEF ReadsBelow
    <2> HIDE DEF D, m
    <2> QED  BY <2>1, <2>2, <2>3, <2>4, Recursion
  <1> DEFINE E(f) == f = [n \in Nat |-> IF n < Radix THEN <<n>>
                                       ELSE <<Radix + (n % Radix)>> \o f[n \div Radix]]
  <1>7. \E f : E(f)
    <2>1. PICK f \in F : f = [n \in Nat |-> D[<<f, n>>]]
      <3> HIDE DEF D
      <3> QED  BY <1>6 DEF Solves
    <2>2. E(f)
      <3> HIDE DEF D
      <3> QED  BY <2>1, <1>3
    <2> QED  BY <2>2
  <1>8. E(WriteLen)
    <2>1. WriteLen = CHOOSE f : E(f)
      BY DEF WriteLen
    <2> HIDE DEF E
    <2> QED  BY <1>7, <2>1
  <1>9. \A n \in Nat : WriteLen[n] = IF n < Radix THEN <<n>>
                                  ELSE <<Radix + (n % Radix)>> \o WriteLen[n \div Radix]
    BY <1>8
  <1> HIDE DEF D, m, E
  <1>10. WriteLen \in F
    <2> DEFINE U == {j \in Nat : \A n \in Nat : n < j => WriteLen[n] \in Seq(Nat)}
    <2>1. 0 \in U
      OBVIOUS
    <2>2. ASSUME NEW j \in Nat, j \in U  PROVE j + 1 \in U
      <3>1. ASSUME NEW n \in Nat, n < j + 1  PROVE WriteLen[n] \in Seq(Nat)
        <4>1. CASE n < Radix
          BY <4>1, <1>9, OneByte
        <4>2. CASE n >= Radix
          <5>1. n \div Radix \in Nat /\ n \div Radix < j /\ Radix + (n % Radix) \in Nat
            BY <1>1, <1>2, <4>2, <3>1, Thresholds
          <5>2. WriteLen[n \div Radix] \in Seq(Nat)
            BY <5>1, <2>2
          <5>3. WriteLen[n] = <<Radix + (n % Radix)>> \o WriteLen[n \div Radix]
            <6>1. ~ (n < Radix)
              BY <4>2, Thresholds
            <6> QED  BY <1>9, <6>1, Zenon
          <5> QED  BY <5>1, <5>2, <5>3, OneByte, Joined
        <4> QED  BY <4>1, <4>2, Thresholds
      <3> QED  BY <3>1
    <2>3. Nat \subseteq U
      <3> HIDE DEF U
      <3> QED  BY <2>1, <2>2, Induction
    <2>4. ASSUME NEW n \in Nat  PROVE WriteLen[n] \in Seq(Nat)
      <3>1. n + 1 \in Nat /\ n < n + 1
        OBVIOUS
      <3>2. n + 1 \in U
        <4> HIDE DEF U
        <4> QED  BY <2>3, <3>1
      <3> QED  BY <3>1, <3>2
    <2> QED  BY <2>4, <1>8 DEF E
  <1> QED  BY <1>9, <1>10

LEMMA LenBytesIs ==
  ASSUME NEW n \in Nat
  PROVE  /\ LenBytes(n) = IF n < Radix THEN 1 ELSE IF n < R2 THEN 2 ELSE IF n < R3 THEN 3 ELSE 4
         /\ LenBytes(n) \in 1..4
  <1>1. LenBytes(n) = CASE n < Radix -> 1 [] n >= Radix /\ n < R2 -> 2
                        [] n >= R2 /\ n < R3 -> 3 [] OTHER -> 4
    BY DEF LenBytes, R2, R3
  <1> QED  BY <1>1, Thresholds

(* What the encoder's first byte and its other bytes are, when there is    *)
(* more than one.                                                          *)
LEMMA WriteLenStep ==
  ASSUME NEW n \in Nat, n >= Radix, n < R4
  PROVE  LET q == n \div Radix IN
         /\ q \in Nat /\ q < R3
         /\ LenBytes(n) = 1 + LenBytes(q)
         /\ WriteLen[n] \in Seq(Nat) /\ WriteLen[q] \in Seq(Nat)
         /\ Len(WriteLen[n]) = 1 + Len(WriteLen[q])
         /\ More(WriteLen[n][1]) /\ Digit(WriteLen[n][1]) \in Nat
         /\ n = Digit(WriteLen[n][1]) + Radix * q
         /\ \A i \in 1..Len(WriteLen[q]) : WriteLen[n][i + 1] = WriteLen[q][i]
  <1> DEFINE q == n \div Radix
             r == n % Radix
  <1>1. q \in Nat /\ r \in Nat /\ r < Radix /\ n = Radix * q + r
    BY Thresholds, Division
  <1>2. /\ ~ (q < 1) /\ q < R3
        /\ n < R2 <=> q < Radix
        /\ n < R3 <=> q < R2
    <2>1. \A k \in Nat : n < Radix * k <=> q < k
      BY Thresholds, QuotientBounds
    <2> HIDE DEF q
    <2> QED  BY <2>1, Thresholds
  <1>3. WriteLen[q] \in Seq(Nat) /\ WriteLen[n] \in Seq(Nat) /\ WriteLen[n] = <<Radix + r>> \o WriteLen[q]
    <2>1. ~ (n < Radix)
      BY Thresholds
    <2> HIDE DEF q, r
    <2>2. WriteLen[q] \in Seq(Nat) /\ WriteLen[n] \in Seq(Nat)
      BY <1>1, WriteLenUnfolded
    <2>3. WriteLen[n] = <<Radix + r>> \o WriteLen[q]
      BY <2>1, WriteLenUnfolded, Zenon DEF q, r
    <2> QED  BY <2>2, <2>3
  <1> HIDE DEF q, r
  <1>4. LenBytes(n) = 1 + LenBytes(q)
    BY <1>1, <1>2, LenBytesIs, Thresholds
  <1>5. Radix + r \in Nat /\ <<Radix + r>> \in Seq(Nat) /\ Len(<<Radix + r>>) = 1
        /\ <<Radix + r>>[1] = Radix + r
    BY <1>1, Thresholds, OneByte
  <1>6. /\ Len(WriteLen[n]) = 1 + Len(WriteLen[q])
        /\ WriteLen[n][1] = Radix + r
        /\ \A i \in 1..Len(WriteLen[q]) : WriteLen[n][1 + i] = WriteLen[q][i]
    BY <1>3, <1>5, Joined
  <1>7. More(Radix + r) /\ Digit(Radix + r) = r
    <2>1. Radix * 1 + r = Radix + r
      BY <1>1, Thresholds
    <2>2. Digit(Radix + r) = r
      BY <1>1, <2>1, Thresholds, QuotientIs DEF Digit
    <2> QED  BY <1>1, <2>2, Thresholds DEF More
  <1>8. \A i \in 1..Len(WriteLen[q]) : WriteLen[n][i + 1] = WriteLen[q][i]
    BY <1>6
  <1>9. /\ q \in Nat /\ q < R3
        /\ LenBytes(n) = 1 + LenBytes(q)
        /\ WriteLen[n] \in Seq(Nat) /\ WriteLen[q] \in Seq(Nat)
        /\ Len(WriteLen[n]) = 1 + Len(WriteLen[q])
        /\ More(WriteLen[n][1]) /\ Digit(WriteLen[n][1]) \in Nat
        /\ n = Digit(WriteLen[n][1]) + Radix * q
        /\ \A i \in 1..Len(WriteLen[q]) : WriteLen[n][i + 1] = WriteLen[q][i]
    <2>1. n = r + Radix * q
      BY <1>1, Thresholds
    <2> QED  BY <2>1, <1>1, <1>2, <1>3, <1>4, <1>6, <1>7, <1>8
  <1> QED  BY <1>9 DEF q

(* The bytes that say n: as many as LenBytes, marked as the code's loops   *)
(* expect, and worth n.                                                    *)
Says(w, b, n) ==
  /\ w \in Seq(Nat) /\ Len(w) = b /\ b \in 1..4
  /\ \A i \in 1..b : Digit(w[i]) \in Nat /\ (More(w[i]) <=> i < b)
  /\ n = IF b = 1 THEN Digit(w[1])
         ELSE IF b = 2 THEN Digit(w[1]) + Radix * Digit(w[2])
         ELSE IF b = 3 THEN Digit(w[1]) + Radix * Digit(w[2]) + Radix * (Radix * Digit(w[3]))
         ELSE Digit(w[1]) + Radix * Digit(w[2]) + Radix * (Radix * Digit(w[3]))
              + Radix * (Radix * (Radix * Digit(w[4])))

LEMMA SaysStep ==
  ASSUME NEW n \in Nat, n >= Radix, n < R4,
         Says(WriteLen[n \div Radix], LenBytes(n \div Radix), n \div Radix)
  PROVE  Says(WriteLen[n], LenBytes(n), n)
  <1> DEFINE q == n \div Radix
             v == WriteLen[q]
             w == WriteLen[n]
             b == LenBytes(q)
  <1>1. /\ q \in Nat /\ q < R3 /\ LenBytes(n) = 1 + b
        /\ w \in Seq(Nat) /\ v \in Seq(Nat) /\ Len(w) = 1 + Len(v)
        /\ More(w[1]) /\ Digit(w[1]) \in Nat /\ n = Digit(w[1]) + Radix * q
        /\ \A i \in 1..Len(v) : w[i + 1] = v[i]
    BY WriteLenStep
  <1>2. b \in 1..3
    BY <1>1, LenBytesIs, Thresholds
  <1>3. Says(v, b, q)
    OBVIOUS
  <1> HIDE DEF q, v, w, b
  <1>4. Len(w) = b + 1 /\ w \in Seq(Nat) /\ b + 1 \in 1..4
    <2>1. Len(v) = b
      BY <1>3 DEF Says
    <2> QED  BY <1>1, <1>2, <2>1
  <1>5. ASSUME NEW i \in 1..(b + 1)  PROVE Digit(w[i]) \in Nat /\ (More(w[i]) <=> i < b + 1)
    <2>1. CASE i = 1
      BY <1>1, <1>2, <2>1
    <2>2. CASE i # 1
      <3>1. i - 1 \in 1..b /\ w[i] = v[i - 1]
        <4>1. i - 1 \in 1..Len(v) /\ (i - 1) + 1 = i
          BY <1>2, <1>3, <2>2 DEF Says
        <4> QED  BY <4>1, <1>1, <1>3 DEF Says
      <3>2. Digit(v[i - 1]) \in Nat /\ (More(v[i - 1]) <=> i - 1 < b)
        BY <3>1, <1>3 DEF Says
      <3> QED  BY <3>1, <3>2, <1>2
    <2> QED  BY <2>1, <2>2
  <1>6. \A i \in 1..b : w[i + 1] = v[i] /\ Digit(v[i]) \in Nat
    BY <1>1, <1>3 DEF Says
  <1>7. n = Digit(w[1]) + Radix * q /\ Radix \in Nat
    BY <1>1, Thresholds
  <1>8. CASE b = 1
    <2>1. q = Digit(w[2])
      BY <1>3, <1>6, <1>8 DEF Says
    <2> QED  BY <2>1, <1>1, <1>4, <1>5, <1>7, <1>8 DEF Says, q, w, b
  <1>9. CASE b = 2
    <2>1. q = Digit(w[2]) + Radix * Digit(w[3]) /\ Digit(w[2]) \in Nat /\ Digit(w[3]) \in Nat
      BY <1>3, <1>6, <1>9 DEF Says
    <2>2. Radix * Digit(w[3]) \in Nat
      BY <2>1, <1>7
    <2>3. Radix * q = Radix * Digit(w[2]) + Radix * (Radix * Digit(w[3]))
      BY <2>1, <2>2, <1>7
    <2>4. Radix * Digit(w[2]) \in Nat /\ Radix * (Radix * Digit(w[3])) \in Nat
      BY <2>1, <2>2, <1>7
    <2>5. n = Digit(w[1]) + Radix * Digit(w[2]) + Radix * (Radix * Digit(w[3]))
      BY <2>3, <2>4, <1>1
    <2>6. Says(w, b + 1, n)
      BY <2>5, <1>4, <1>5, <1>9 DEF Says
    <2>7. LenBytes(n) = b + 1
      BY <1>1, <1>2
    <2> QED  BY <2>6, <2>7 DEF w
  <1>10. CASE b = 3
    <2>1. /\ q = Digit(w[2]) + Radix * Digit(w[3]) + Radix * (Radix * Digit(w[4]))
          /\ Digit(w[2]) \in Nat /\ Digit(w[3]) \in Nat /\ Digit(w[4]) \in Nat
      BY <1>3, <1>6, <1>10 DEF Says
    <2>2. Radix * Digit(w[3]) \in Nat /\ Radix * Digit(w[4]) \in Nat /\ Radix * (Radix * Digit(w[4])) \in Nat
      BY <2>1, <1>7
    <2>3. Radix * q = Radix * Digit(w[2]) + Radix * (Radix * Digit(w[3]))
                      + Radix * (Radix * (Radix * Digit(w[4])))
      BY <2>1, <2>2, <1>7
    <2>4. /\ Radix * Digit(w[2]) \in Nat /\ Radix * (Radix * Digit(w[3])) \in Nat
          /\ Radix * (Radix * (Radix * Digit(w[4]))) \in Nat
      BY <2>1, <2>2, <1>7
    <2>5. n = Digit(w[1]) + Radix * Digit(w[2]) + Radix * (Radix * Digit(w[3]))
              + Radix * (Radix * (Radix * Digit(w[4])))
      BY <2>3, <2>4, <1>1
    <2>6. Says(w, b + 1, n)
      BY <2>5, <1>4, <1>5, <1>10 DEF Says
    <2>7. LenBytes(n) = b + 1
      BY <1>1, <1>2
    <2> QED  BY <2>6, <2>7 DEF w
  <1> QED  BY <1>2, <1>8, <1>9, <1>10

LEMMA LengthSaid ==
  ASSUME NEW n \in Nat, n < R4
  PROVE  Says(WriteLen[n], LenBytes(n), n)
  <1>1. ASSUME NEW k \in Nat, k < Radix  PROVE Says(WriteLen[k], LenBytes(k), k)
    <2>1. WriteLen[k] = <<k>>
      BY <1>1, WriteLenUnfolded
    <2>2. LenBytes(k) = 1
      BY <1>1, LenBytesIs
    <2>3. Digit(k) = k /\ ~More(k)
      <3>1. Radix * 0 + k = k
        BY Thresholds
      <3>2. Digit(k) = k
        BY <1>1, <3>1, Thresholds, QuotientIs DEF Digit
      <3> QED  BY <1>1, <3>2, Thresholds DEF More
    <2> QED  BY <2>1, <2>2, <2>3, OneByte DEF Says
  <1>2. ASSUME NEW m \in Nat, Radix * m <= R4,
               \A k \in Nat : k < m => Says(WriteLen[k], LenBytes(k), k),
               NEW k \in Nat, k < Radix * m
        PROVE  Says(WriteLen[k], LenBytes(k), k)
    <2>1. CASE k < Radix
      BY <1>1, <2>1
    <2>2. CASE k >= Radix
      <3>1. k \div Radix \in Nat /\ k \div Radix < m
        BY <1>2, Thresholds, Division, QuotientBounds
      <3>2. Radix * m \in Nat
        BY Thresholds
      <3>3. k < R4
        BY <1>2, <3>2, Thresholds
      <3> QED  BY <2>2, <3>1, <3>3, <1>2, SaysStep
    <2> QED  BY <2>1, <2>2, Thresholds
  <1>3. \A k \in Nat : k < R2 => Says(WriteLen[k], LenBytes(k), k)
    BY <1>1, <1>2, Thresholds
  <1>4. \A k \in Nat : k < R3 => Says(WriteLen[k], LenBytes(k), k)
    BY <1>2, <1>3, Thresholds
  <1>5. \A k \in Nat : k < R4 => Says(WriteLen[k], LenBytes(k), k)
    BY <1>2, <1>4, Thresholds
  <1> QED  BY <1>5

----------------------------------------------------------------------------
(* The estimate of a packet's size against its size.                       *)

LEMMA PacketSizeIs ==
  ASSUME NEW n \in Nat
  PROVE  PacketSize(n) \in Nat /\ PacketSize(n) = 1 + LenBytes(n) + n /\ n + 2 <= PacketSize(n)
  BY LenBytesIs DEF PacketSize

(* mqtt_internal_get_final_packet_length_from_remaining_length never says  *)
(* less than a packet takes in writeBuf, and at most one byte more: it     *)
(* compares the remaining length with the header byte already added.       *)
THEOREM EstimateIsClose ==
  ASSUME NEW n \in Nat
  PROVE  FinalLength(n) \in {PacketSize(n), PacketSize(n) + 1}
  <1>1. FinalLength(n) = LET m == n + 1 IN
          IF m < Radix THEN m + 1 ELSE IF m < R2 THEN m + 2 ELSE IF m < R3 THEN m + 3 ELSE m + 4
    <2> DEFINE m == n + 1
    <2>1. FinalLength(n) = CASE m < Radix -> m + 1 [] m >= Radix /\ m < R2 -> m + 2
                             [] m >= R2 /\ m < R3 -> m + 3 [] OTHER -> m + 4
      BY DEF FinalLength, R2, R3
    <2> QED  BY <2>1, Thresholds
  <1> QED  BY <1>1, Thresholds, LenBytesIs DEF PacketSize

(* A packet shorter than writeBuf is never refused by the estimate: the    *)
(* test of mqtt_internal_send_packet, which refuses the packet that would  *)
(* just fit, is the only one that decides.                                 *)
THEOREM ShorterIsAccepted ==
  ASSUME NEW n \in Nat, NEW writeBufSize \in Nat, PacketSize(n) < writeBufSize
  PROVE  FinalLength(n) <= writeBufSize
  BY PacketSizeIs, EstimateIsClose

----------------------------------------------------------------------------
(* The pieces of a packet, and their lengths.                              *)

LEMMA Uint16Is ==
  ASSUME NEW n \in Nat
  PROVE  /\ Uint16(n) \in Seq(Nat) /\ Len(Uint16(n)) = 2
         /\ Uint16(n)[1] = n \div (2 * Radix) /\ Uint16(n)[2] = n % (2 * Radix)
         /\ Uint16(n)[1] \in Nat /\ Uint16(n)[2] \in Nat
  <1>1. 2 * Radix \in Nat /\ 2 * Radix > 0
    BY Thresholds
  <1>2. n \div (2 * Radix) \in Nat /\ n % (2 * Radix) \in Nat
    BY <1>1, Division
  <1>3. \A a, b \in Nat : <<a, b>> \in Seq(Nat) /\ Len(<<a, b>>) = 2 /\ <<a, b>>[1] = a /\ <<a, b>>[2] = b
    OBVIOUS
  <1> QED  BY <1>2, <1>3 DEF Uint16

LEMMA TextIs ==
  ASSUME NEW n \in Nat
  PROVE  Text(n) \in Seq(Nat) /\ Len(Text(n)) = n
  <1>1. 2 * Radix \in Nat /\ 2 * Radix > 0
    BY Thresholds
  <1>2. \A i \in 1..n : i % (2 * Radix) \in Nat
    BY <1>1, Division
  <1> DEFINE f == [i \in 1..n |-> i % (2 * Radix)]
  <1>3. f \in [1..n -> Nat]
    BY <1>2
  <1>4. \A g \in [1..n -> Nat] : g \in Seq(Nat) /\ Len(g) = n
    OBVIOUS
  <1> HIDE DEF f
  <1> QED  BY <1>3, <1>4 DEF Text, f

(* A sequence of n bytes.                                                  *)
Block(n) == {s \in Seq(Nat) : Len(s) = n}

LEMMA BlockUint16 == \A n \in Nat : Uint16(n) \in Block(2)
  BY Uint16Is DEF Block

LEMMA BlockText == \A n \in Nat : Text(n) \in Block(n)
  BY TextIs DEF Block

LEMMA BlockOne == \A n \in Nat : <<n>> \in Block(1)
  BY OneByte DEF Block

LEMMA BlockEmpty == <<>> \in Block(0)
  BY DEF Block

LEMMA BlockJoined ==
  \A a, b \in Nat : \A s \in Block(a), t \in Block(b) : s \o t \in Block(a + b)
  BY Joined DEF Block

LEMMA BlockUtf8 == \A n \in Nat : Utf8(n) \in Block(n + 2)
  <1> TAKE n \in Nat
  <1>1. Uint16(n) \o Text(n) \in Block(2 + n)
    BY BlockUint16, BlockText, BlockJoined
  <1> QED  BY <1>1 DEF Utf8

LEMMA BlockIf ==
  \A b \in BOOLEAN : \A a \in Nat : \A s \in Block(a) : If(b, s) \in Block(IF b THEN a ELSE 0)
  BY BlockEmpty DEF If

LEMMA RequestTypes ==
  ASSUME NEW p \in Requests
  PROVE  \/ /\ p.type = CONNECT
            /\ p.clientID \in Nat /\ p.retained \in BOOLEAN
            /\ p.will.present \in BOOLEAN /\ p.will.len \in Nat
            /\ p.user.present \in BOOLEAN /\ p.user.len \in Nat
            /\ p.password.present \in BOOLEAN /\ p.password.len \in Nat
         \/ p.type = PUBLISH /\ p.topic \in Nat /\ p.payload \in Nat /\ p.qos \in {0, 1} /\ p.id \in Nat
         \/ p.type = SUBSCRIBE /\ p.topic \in Nat /\ p.qos \in {0, 1} /\ p.id \in Nat
         \/ p.type = UNSUBSCRIBE /\ p.topic \in Nat /\ p.id \in Nat
         \/ p.type = PUBACK /\ p.id \in Nat
         \/ p.type \in {PINGREQ, DISCONNECT}
  <1>1. StrLens \subseteq Nat /\ PacketIds \subseteq Nat
    <2>1. 4 * Radix \in Nat /\ \A a, b \in Nat : a * b - 1 \in Int
      BY Thresholds
    <2>2. 4 * Radix * Radix - 1 \in Int
      BY <2>1, Thresholds
    <2>3. \A k \in Int : 1..k \subseteq Nat
      OBVIOUS
    <2> QED  BY <2>2, <2>3, CodecAssumption
  <1>2. \A t \in Texts : t.len \in Nat
    <2> TAKE t \in Texts
    <2>1. CASE t \in [present : {TRUE}, len : StrLens]
      BY <1>1, <2>1
    <2>2. CASE t \in [present : {FALSE}, len : {0}]
      BY <2>2
    <2> QED  BY <2>1, <2>2 DEF Texts
  <1>3. \A t \in Texts : t.present \in BOOLEAN
    BY DEF Texts
  <1>4. CASE p \in [type : {CONNECT}, clientID : StrLens \cup {0}, will : Texts, user : Texts,
                    password : Texts, retained : BOOLEAN]
    <2>1. p.type = CONNECT /\ p.clientID \in StrLens \cup {0} /\ p.retained \in BOOLEAN
          /\ p.will \in Texts /\ p.user \in Texts /\ p.password \in Texts
      BY <1>4
    <2>2. p.clientID \in Nat
      <3>1. StrLens \cup {0} \subseteq Nat
        BY <1>1
      <3> QED  BY <2>1, <3>1, Zenon
    <2>3. p.will.len \in Nat /\ p.user.len \in Nat /\ p.password.len \in Nat
      BY <2>1, <1>2
    <2>4. p.will.present \in BOOLEAN /\ p.user.present \in BOOLEAN /\ p.password.present \in BOOLEAN
      BY <2>1, <1>3
    <2> QED  BY <2>1, <2>2, <2>3, <2>4, Zenon
  <1>5. CASE p \in [type : {PUBLISH}, topic : StrLens, payload : StrLens \cup {0}, qos : {0, 1}, id : PacketIds]
    <2>1. /\ p.type = PUBLISH /\ p.topic \in StrLens /\ p.payload \in StrLens \cup {0}
          /\ p.qos \in {0, 1} /\ p.id \in PacketIds
      BY <1>5
    <2>2. p.topic \in Nat /\ p.payload \in Nat /\ p.id \in Nat
      <3>1. StrLens \cup {0} \subseteq Nat
        BY <1>1
      <3> QED  BY <2>1, <3>1, <1>1, Zenon
    <2> QED  BY <2>1, <2>2
  <1>6. CASE p \in [type : {SUBSCRIBE}, topic : StrLens, qos : {0, 1}, id : PacketIds]
    BY <1>1, <1>6
  <1>7. CASE p \in [type : {UNSUBSCRIBE}, topic : StrLens, id : PacketIds]
    BY <1>1, <1>7
  <1>8. CASE p \in [type : {PUBACK}, id : PacketIds]
    BY <1>1, <1>8
  <1>9. CASE p \in [type : {PINGREQ, DISCONNECT}]
    BY <1>9
  <1> QED  BY <1>4, <1>5, <1>6, <1>7, <1>8, <1>9 DEF Requests

(* What a serialiser writes behind the length is as long as it said.       *)
LEMMA BodyIs ==
  ASSUME NEW p \in Requests
  PROVE  RemLen(p) \in Nat /\ Body(p) \in Block(RemLen(p))
  <1>1. CASE p.type = CONNECT
    <2>1. /\ p.clientID \in Nat
          /\ p.will.present \in BOOLEAN /\ p.will.len \in Nat
          /\ p.user.present \in BOOLEAN /\ p.user.len \in Nat
          /\ p.password.present \in BOOLEAN /\ p.password.len \in Nat
      BY <1>1, RequestTypes DEF CONNECT, PUBLISH, SUBSCRIBE, UNSUBSCRIBE, PUBACK, PINGREQ, DISCONNECT
    <2> DEFINE will == If(p.will.present, Utf8(p.will.len) \o Utf8(p.will.len))
               user == If(p.user.present, Utf8(p.user.len))
               pass == If(p.password.present, Utf8(p.password.len))
               fixed == Utf8(ProtocolName) \o <<Level, ConnectFlags(p)>> \o Uint16(KeepAlive)
               w == Bit(p.will.present) * (p.will.len + 2 + p.will.len + 2)
               u == Bit(p.user.present) * (p.user.len + 2)
               v == Bit(p.password.present) * (p.password.len + 2)
    <2>2. w \in Nat /\ will \in Block(w)
      <3>1. Utf8(p.will.len) \in Block(p.will.len + 2) /\ p.will.len + 2 \in Nat
        BY <2>1, BlockUtf8
      <3>2. Utf8(p.will.len) \o Utf8(p.will.len) \in Block((p.will.len + 2) + (p.will.len + 2))
        BY <3>1, BlockJoined
      <3>3. /\ (p.will.len + 2) + (p.will.len + 2) = p.will.len + 2 + p.will.len + 2
            /\ p.will.len + 2 + p.will.len + 2 \in Nat
        BY <2>1
      <3>4. will \in Block(IF p.will.present THEN p.will.len + 2 + p.will.len + 2 ELSE 0)
        BY <2>1, <3>2, <3>3, BlockIf
      <3>5. w = IF p.will.present THEN p.will.len + 2 + p.will.len + 2 ELSE 0
        BY <2>1, <3>3 DEF Bit
      <3> HIDE DEF will, w
      <3> QED  BY <2>1, <3>3, <3>4, <3>5
    <2>3. u \in Nat /\ user \in Block(u)
      <3>1. Utf8(p.user.len) \in Block(p.user.len + 2) /\ p.user.len + 2 \in Nat
        BY <2>1, BlockUtf8
      <3>2. user \in Block(IF p.user.present THEN p.user.len + 2 ELSE 0)
        BY <2>1, <3>1, BlockIf
      <3>3. u = IF p.user.present THEN p.user.len + 2 ELSE 0
        BY <2>1, <3>1 DEF Bit
      <3> HIDE DEF user, u
      <3> QED  BY <2>1, <3>1, <3>2, <3>3
    <2>4. v \in Nat /\ pass \in Block(v)
      <3>1. Utf8(p.password.len) \in Block(p.password.len + 2) /\ p.password.len + 2 \in Nat
        BY <2>1, BlockUtf8
      <3>2. pass \in Block(IF p.password.present THEN p.password.len + 2 ELSE 0)
        BY <2>1, <3>1, BlockIf
      <3>3. v = IF p.password.present THEN p.password.len + 2 ELSE 0
        BY <2>1, <3>1 DEF Bit
      <3> HIDE DEF pass, v
      <3> QED  BY <2>1, <3>1, <3>2, <3>3
    <2>5. fixed \in Block(10)
      <3>1. Utf8(ProtocolName) \in Block(6)
        <4>1. Utf8(4) \in Block(4 + 2)
          BY BlockUtf8
        <4> QED  BY <4>1 DEF ProtocolName
      <3>2. ConnectFlags(p) \in Nat
        BY <2>1 DEF ConnectFlags, Bit
      <3>3. <<Level, ConnectFlags(p)>> \in Block(2)
        BY <3>2 DEF Level, Block
      <3>4. Uint16(KeepAlive) \in Block(2)
        <4>1. KeepAlive \in Nat
          BY Thresholds DEF KeepAlive
        <4> QED  BY <4>1, BlockUint16
      <3>5. Utf8(ProtocolName) \o <<Level, ConnectFlags(p)>> \in Block(6 + 2)
        BY <3>1, <3>3, BlockJoined
      <3>6. fixed \in Block((6 + 2) + 2)
        BY <3>4, <3>5, BlockJoined
      <3> HIDE DEF fixed
      <3> QED  BY <3>6
    <2>6. Body(p) = fixed \o Utf8(p.clientID) \o will \o user \o pass
      BY <1>1 DEF Body, CONNECT, PUBLISH, SUBSCRIBE, UNSUBSCRIBE, PUBACK, PINGREQ, DISCONNECT
    <2>7. RemLen(p) = 10 + p.clientID + 2 + w + u + v
      BY <1>1 DEF RemLen, ConnectLength, CONNECT, PUBLISH, SUBSCRIBE, UNSUBSCRIBE, PUBACK, PINGREQ, DISCONNECT
    <2> HIDE DEF will, user, pass, fixed, w, u, v
    <2>8. fixed \o Utf8(p.clientID) \in Block(10 + (p.clientID + 2)) /\ 10 + (p.clientID + 2) \in Nat
      <3>1. Utf8(p.clientID) \in Block(p.clientID + 2) /\ p.clientID + 2 \in Nat
        BY <2>1, BlockUtf8
      <3> QED  BY <2>1, <2>5, <3>1, BlockJoined
    <2>9. /\ fixed \o Utf8(p.clientID) \o will \in Block(10 + (p.clientID + 2) + w)
          /\ 10 + (p.clientID + 2) + w \in Nat
      BY <2>8, <2>2, BlockJoined
    <2>10. /\ fixed \o Utf8(p.clientID) \o will \o user \in Block(10 + (p.clientID + 2) + w + u)
           /\ 10 + (p.clientID + 2) + w + u \in Nat
      BY <2>9, <2>3, BlockJoined
    <2>11. /\ Body(p) \in Block(10 + (p.clientID + 2) + w + u + v)
           /\ 10 + (p.clientID + 2) + w + u + v \in Nat
      BY <2>6, <2>10, <2>4, BlockJoined
    <2>12. RemLen(p) = 10 + (p.clientID + 2) + w + u + v
      BY <2>1, <2>2, <2>3, <2>4, <2>7
    <2> QED  BY <2>11, <2>12
  <1>2. CASE p.type = PUBLISH
    <2>1. p.topic \in Nat /\ p.payload \in Nat /\ p.qos \in {0, 1} /\ p.id \in Nat
      BY <1>2, RequestTypes DEF CONNECT, PUBLISH, SUBSCRIBE, UNSUBSCRIBE, PUBACK, PINGREQ, DISCONNECT
    <2> DEFINE id == If(p.qos > 0, Uint16(p.id))
               k == IF p.qos > 0 THEN 2 ELSE 0
    <2>2. Body(p) = Utf8(p.topic) \o id \o Text(p.payload)
      BY <1>2 DEF Body, CONNECT, PUBLISH, SUBSCRIBE, UNSUBSCRIBE, PUBACK, PINGREQ, DISCONNECT
    <2>3. RemLen(p) = p.topic + p.payload + 2 + k
      BY <1>2 DEF RemLen, CONNECT, PUBLISH, SUBSCRIBE, UNSUBSCRIBE, PUBACK, PINGREQ, DISCONNECT
    <2>4. k \in Nat /\ id \in Block(k)
      <3>1. (p.qos > 0) \in BOOLEAN /\ Uint16(p.id) \in Block(2)
        BY <2>1, BlockUint16
      <3> QED  BY <3>1, BlockIf
    <2> HIDE DEF id, k
    <2>5. Utf8(p.topic) \o id \in Block((p.topic + 2) + k) /\ (p.topic + 2) + k \in Nat
      <3>1. Utf8(p.topic) \in Block(p.topic + 2) /\ p.topic + 2 \in Nat
        BY <2>1, BlockUtf8
      <3> QED  BY <2>4, <3>1, BlockJoined
    <2>6. Body(p) \in Block((p.topic + 2) + k + p.payload)
      BY <2>1, <2>2, <2>5, BlockText, BlockJoined
    <2>7. RemLen(p) = (p.topic + 2) + k + p.payload /\ RemLen(p) \in Nat
      BY <2>1, <2>3, <2>4
    <2> QED  BY <2>6, <2>7
  <1>3. CASE p.type = SUBSCRIBE
    <2>1. p.topic \in Nat /\ p.qos \in {0, 1} /\ p.qos \in Nat /\ p.id \in Nat
      BY <1>3, RequestTypes DEF CONNECT, PUBLISH, SUBSCRIBE, UNSUBSCRIBE, PUBACK, PINGREQ, DISCONNECT
    <2>2. Body(p) = Uint16(p.id) \o Utf8(p.topic) \o <<p.qos>> /\ RemLen(p) = 2 + p.topic + 2 + 1
      BY <1>3 DEF Body, RemLen, CONNECT, PUBLISH, SUBSCRIBE, UNSUBSCRIBE, PUBACK, PINGREQ, DISCONNECT
    <2>3. /\ Uint16(p.id) \in Block(2) /\ <<p.qos>> \in Block(1)
          /\ Utf8(p.topic) \in Block(p.topic + 2) /\ p.topic + 2 \in Nat
      BY <2>1, BlockUint16, BlockUtf8, BlockOne
    <2>4. Uint16(p.id) \o Utf8(p.topic) \in Block(2 + (p.topic + 2)) /\ 2 + (p.topic + 2) \in Nat
      BY <2>3, BlockJoined
    <2>5. Body(p) \in Block(2 + (p.topic + 2) + 1)
      BY <2>2, <2>3, <2>4, BlockJoined
    <2>6. RemLen(p) = 2 + (p.topic + 2) + 1 /\ RemLen(p) \in Nat
      BY <2>1, <2>2
    <2> QED  BY <2>5, <2>6
  <1>4. CASE p.type = UNSUBSCRIBE
    <2>1. p.topic \in Nat /\ p.id \in Nat
      BY <1>4, RequestTypes DEF CONNECT, PUBLISH, SUBSCRIBE, UNSUBSCRIBE, PUBACK, PINGREQ, DISCONNECT
    <2>2. Body(p) = Uint16(p.id) \o Utf8(p.topic) /\ RemLen(p) = 2 + p.topic + 2
      BY <1>4 DEF Body, RemLen, CONNECT, PUBLISH, SUBSCRIBE, UNSUBSCRIBE, PUBACK, PINGREQ, DISCONNECT
    <2>3. Uint16(p.id) \in Block(2) /\ Utf8(p.topic) \in Block(p.topic + 2) /\ p.topic + 2 \in Nat
      BY <2>1, BlockUint16, BlockUtf8
    <2>4. Body(p) \in Block(2 + (p.topic + 2))
      BY <2>2, <2>3, BlockJoined
    <2>5. RemLen(p) = 2 + (p.topic + 2) /\ RemLen(p) \in Nat
      BY <2>1, <2>2
    <2> QED  BY <2>4, <2>5
  <1>5. CASE p.type = PUBACK
    <2>1. p.id \in Nat
      BY <1>5, RequestTypes DEF CONNECT, PUBLISH, SUBSCRIBE, UNSUBSCRIBE, PUBACK, PINGREQ, DISCONNECT
    <2>2. Body(p) = Uint16(p.id) /\ RemLen(p) = 2
      BY <1>5 DEF Body, RemLen, CONNECT, PUBLISH, SUBSCRIBE, UNSUBSCRIBE, PUBACK, PINGREQ, DISCONNECT
    <2> QED  BY <2>1, <2>2, BlockUint16
  <1>6. CASE p.type \in {PINGREQ, DISCONNECT}
    <2>1. Body(p) = <<>> /\ RemLen(p) = 0
      BY <1>6 DEF Body, RemLen, CONNECT, PUBLISH, SUBSCRIBE, UNSUBSCRIBE, PUBACK, PINGREQ, DISCONNECT
    <2> QED  BY <2>1, BlockEmpty
  <1> QED  BY <1>1, <1>2, <1>3, <1>4, <1>5, <1>6, RequestTypes

LEMMA HeaderIs ==
  ASSUME NEW p \in Requests
  PROVE  HeaderOf(p) \in Nat
  BY RequestTypes DEF HeaderOf, Header, CONNECT, PUBLISH, SUBSCRIBE, UNSUBSCRIBE, PUBACK, PINGREQ, DISCONNECT

LEMMA WriteLenLength ==
  ASSUME NEW n \in Nat
  PROVE  /\ WriteLen[n] \in Seq(Nat) /\ Len(WriteLen[n]) >= 1
         /\ n < R4 => Len(WriteLen[n]) = LenBytes(n)
  <1>1. WriteLen[n] \in Seq(Nat)
    BY WriteLenUnfolded
  <1>2. n < R4 => Len(WriteLen[n]) = LenBytes(n)
    BY LengthSaid DEF Says
  <1>3. CASE n < Radix
    BY <1>1, <1>2, <1>3, Thresholds, LenBytesIs
  <1>4. CASE ~ (n < Radix)
    <2>1. WriteLen[n] = <<Radix + (n % Radix)>> \o WriteLen[n \div Radix]
      BY <1>4, WriteLenUnfolded, Zenon
    <2>2. Radix + (n % Radix) \in Nat /\ WriteLen[n \div Radix] \in Seq(Nat)
      <3>1. n % Radix \in Nat /\ n \div Radix \in Nat
        BY Thresholds, Division
      <3>2. Radix + (n % Radix) \in Nat
        BY <3>1, Thresholds
      <3> QED  BY <3>1, <3>2, WriteLenUnfolded
    <2>3. Len(WriteLen[n]) = 1 + Len(WriteLen[n \div Radix])
      BY <2>1, <2>2, OneByte, Joined
    <2>4. \A s \in Seq(Nat) : Len(s) \in Nat
      OBVIOUS
    <2> QED  BY <1>1, <1>2, <2>2, <2>3, <2>4
  <1> QED  BY <1>3, <1>4

LEMMA WrittenIs ==
  ASSUME NEW p \in Requests
  PROVE  /\ Written(p) \in Seq(Nat) /\ Len(Written(p)) \in Nat
         /\ Len(Written(p)) >= RemLen(p) + 2
         /\ RemLen(p) < R4 => Len(Written(p)) = PacketSize(RemLen(p))
  <1> DEFINE n == RemLen(p)
             k == Len(WriteLen[n])
  <1>1. n \in Nat /\ Body(p) \in Block(n)
    BY BodyIs
  <1>2. k \in Nat /\ k >= 1 /\ WriteLen[n] \in Block(k) /\ (n < R4 => k = LenBytes(n))
    <2>1. \A s \in Seq(Nat) : Len(s) \in Nat /\ s \in Block(Len(s))
      BY DEF Block
    <2> QED  BY <1>1, <2>1, WriteLenLength
  <1>3. <<HeaderOf(p)>> \in Block(1)
    BY HeaderIs, BlockOne
  <1> HIDE DEF n, k
  <1>4. <<HeaderOf(p)>> \o WriteLen[n] \in Block(1 + k) /\ 1 + k \in Nat
    BY <1>2, <1>3, BlockJoined
  <1>5. Written(p) \in Block((1 + k) + n)
    <2>1. <<HeaderOf(p)>> \o WriteLen[n] \o Body(p) \in Block((1 + k) + n)
      BY <1>1, <1>4, BlockJoined
    <2> QED  BY <2>1 DEF Written, n
  <1>6. Written(p) \in Seq(Nat) /\ Len(Written(p)) = (1 + k) + n
    BY <1>5 DEF Block
  <1>7. n < R4 => (1 + k) + n = PacketSize(n)
    BY <1>1, <1>2, PacketSizeIs, LenBytesIs
  <1> QED  BY <1>1, <1>2, <1>6, <1>7 DEF n

----------------------------------------------------------------------------
(* What goes out.                                                          *)

TooShortError == "MQTT_TX_BUFFER_TOO_SHORT_ERROR"

Asked ==
  [rc : {TooShortError}, asked : Requests, writeBufSize : TxBufLens]
  \cup [rc : {"serialized", "sent", TooShortError}, asked : Requests, writeBufSize : TxBufLens,
        bytes : Seq(Nat)]

OutInv ==
  /\ out = Unsent \/ out \in Asked
  /\ out.rc \in {"serialized", "sent"} =>
       /\ "bytes" \in DOMAIN out
       /\ out.bytes = Written(out.asked) /\ Len(out.bytes) <= out.writeBufSize
  /\ RefusedIfTooLong

LEMMA TxBufLenIs == \A n \in TxBufLens : n \in Nat /\ n >= 4 /\ n <= R4
  BY CodecAssumption, Thresholds DEF R4

(* The test before a packet is written.                                    *)
LEMMA TooShortIs ==
  ASSUME NEW p \in Requests, NEW n \in TxBufLens
  PROVE  IF TooShort(p, n) THEN Len(Written(p)) >= n ELSE Len(Written(p)) <= n
  <1> DEFINE r == RemLen(p)
  <1>1. /\ r \in Nat /\ Len(Written(p)) \in Nat /\ Len(Written(p)) >= r + 2
        /\ r < R4 => Len(Written(p)) = PacketSize(r)
    BY BodyIs, WrittenIs
  <1>2. n \in Nat /\ n >= 4 /\ n <= R4 /\ R4 \in Nat
    BY TxBufLenIs, Thresholds
  <1>3. PacketSize(r) \in Nat /\ FinalLength(r) \in {PacketSize(r), PacketSize(r) + 1} /\ r + 2 <= PacketSize(r)
    BY <1>1, PacketSizeIs, EstimateIsClose
  <1>4. CASE p.type \in {PUBACK, PINGREQ, DISCONNECT}
    <2>1. r <= 2
      BY <1>4 DEF RemLen, CONNECT, PUBLISH, SUBSCRIBE, UNSUBSCRIBE, PUBACK, PINGREQ, DISCONNECT
    <2> HIDE DEF r
    <2>2. r < Radix /\ r < R4
      BY <2>1, <1>1, Thresholds, CodecAssumption
    <2>3. PacketSize(r) = 2 + r
      BY <1>1, <2>2, LenBytesIs, PacketSizeIs
    <2>4. ~TooShort(p, n)
      BY <1>2, <1>4 DEF TooShort
    <2> QED  BY <1>1, <1>2, <2>1, <2>2, <2>3, <2>4
  <1>5. CASE p.type \notin {PUBACK, PINGREQ, DISCONNECT}
    <2>1. TooShort(p, n) <=> FinalLength(r) > n
      BY <1>5 DEF TooShort
    <2> HIDE DEF r
    <2>2. CASE r < R4
      BY <2>1, <2>2, <1>1, <1>2, <1>3
    <2>3. CASE ~ (r < R4)
      BY <2>1, <2>3, <1>1, <1>2, <1>3
    <2> QED  BY <2>2, <2>3
  <1> QED  BY <1>4, <1>5

LEMMA OutStep ==
  ASSUME OutInv, [Next]_vars
  PROVE  OutInv'
  <1>1. ASSUME NEW p \in Requests, NEW txBufLen \in TxBufLens, Serialize(p, txBufLen)
        PROVE  OutInv'
    <2>1. CASE TooShort(p, txBufLen)
      <3>1. out' = [rc |-> TooShortError, asked |-> p, writeBufSize |-> txBufLen]
        BY <1>1, <2>1 DEF Serialize, TooShortError
      <3>2. Len(Written(p)) >= txBufLen
        BY <2>1, TooShortIs
      <3>3. out'.rc = TooShortError /\ out'.asked = p /\ out'.writeBufSize = txBufLen /\ out' \in Asked
        BY <3>1 DEF Asked
      <3> QED  BY <3>2, <3>3 DEF OutInv, RefusedIfTooLong, TooShortError
    <2>2. CASE ~TooShort(p, txBufLen)
      <3>1. out' = [rc |-> "serialized", asked |-> p, writeBufSize |-> txBufLen, bytes |-> Written(p)]
        BY <1>1, <2>2 DEF Serialize
      <3>2. Len(Written(p)) <= txBufLen /\ Written(p) \in Seq(Nat)
        BY <2>2, TooShortIs, WrittenIs
      <3>3. /\ out'.rc = "serialized" /\ out'.asked = p /\ out'.writeBufSize = txBufLen
            /\ out'.bytes = Written(p) /\ "bytes" \in DOMAIN out' /\ out' \in Asked
        BY <3>1, <3>2 DEF Asked
      <3> QED  BY <3>2, <3>3 DEF OutInv, RefusedIfTooLong, TooShortError
    <2> QED  BY <2>1, <2>2
  <1>2. CASE SendPacket
    <2>1. /\ out.rc = "serialized" /\ out \in Asked /\ out.bytes = Written(out.asked)
          /\ Len(out.bytes) <= out.writeBufSize
      BY <1>2 DEF SendPacket, OutInv, Unsent
    <2>2. out \in [rc : {"serialized", "sent", TooShortError}, asked : Requests, writeBufSize : TxBufLens,
                   bytes : Seq(Nat)]
      BY <2>1 DEF Asked, TooShortError
    <2> DEFINE rc == IF Len(out.bytes) >= out.writeBufSize THEN TooShortError ELSE "sent"
    <2>3. out' = [out EXCEPT !.rc = rc]
      BY <1>2 DEF SendPacket, TooShortError
    <2>4. rc \in {"serialized", "sent", TooShortError}
      OBVIOUS
    <2>5. Len(out.bytes) \in Nat /\ out.writeBufSize \in Nat
      BY <2>2, TxBufLenIs
    <2>6. rc = "sent" => Len(out.bytes) < out.writeBufSize
      BY <2>5 DEF TooShortError
    <2>7. rc = TooShortError => Len(out.bytes) >= out.writeBufSize
      BY DEF TooShortError
    <2> HIDE DEF rc
    <2>8. /\ out'.rc = rc /\ out'.asked = out.asked /\ out'.writeBufSize = out.writeBufSize
          /\ out'.bytes = out.bytes /\ "bytes" \in DOMAIN out' /\ out' \in Asked
      BY <2>2, <2>3, <2>4 DEF Asked
    <2> QED  BY <2>1, <2>4, <2>6, <2>7, <2>8 DEF OutInv, RefusedIfTooLong, TooShortError
  <1>3. ASSUME NEW m \in Incoming, Receive(m)
        PROVE  OutInv'
    BY <1>3 DEF Receive, OutInv, RefusedIfTooLong, Unsent
  <1>4. CASE Deserialize
    BY <1>4 DEF Deserialize, OutInv, RefusedIfTooLong
  <1>5. CASE UNCHANGED vars
    BY <1>5 DEF vars, OutInv, RefusedIfTooLong
  <1> QED  BY <1>1, <1>2, <1>3, <1>4, <1>5 DEF Next

(* The two tests for a packet that is too long refuse what does not fit    *)
(* and nothing shorter than writeBuf, whatever writeBufSize is.            *)
THEOREM LengthTestsCorrect == Spec => [](OutInv /\ RefusedIfTooLong)
  <1>1. Init => OutInv
    BY DEF Init, OutInv, RefusedIfTooLong, Unsent
  <1>2. OutInv /\ [Next]_vars => OutInv'
    BY OutStep
  <1>3. OutInv => RefusedIfTooLong
    BY DEF OutInv
  <1> QED  BY <1>1, <1>2, <1>3, PTL DEF Spec

----------------------------------------------------------------------------
(* What comes in.                                                          *)

(* buf begins with a packet: its header, its length, its n bytes of data.  *)
Holds(buf, header, data, n) ==
  /\ buf[1] = header
  /\ \A i \in 1..LenBytes(n) : buf[1 + i] = WriteLen[n][i]
  /\ \A i \in 1..n : buf[1 + LenBytes(n) + i] = data[i]

(* The decoder's loop finds the length that the encoder wrote.             *)
LEMMA LengthDecoded ==
  ASSUME NEW buf, NEW n \in Nat, n < R4,
         \A i \in 1..LenBytes(n) : buf[1 + i] = WriteLen[n][i]
  PROVE  LengthField(buf).value = n /\ LengthField(buf).bytes = LenBytes(n)
  <1> DEFINE b == LenBytes(n)
             w == WriteLen[n]
             Ends(i) == ~More(buf[1 + i]) /\ \A j \in 1..(i - 1) : More(buf[1 + j])
             k == CHOOSE i \in 1..4 : Ends(i)
             value[i \in 0..4] == IF i = 0 THEN 0 ELSE value[i - 1] + Digit(buf[1 + i]) * Multiplier[i]
             x(i) == Digit(buf[1 + i]) * Multiplier[i]
  <1>1. Says(w, b, n) /\ b \in 1..4
    BY LengthSaid, LenBytesIs
  <1>2. LengthField(buf) = [value |-> value[k], bytes |-> k]
    BY DEF LengthField
  <1>3. k = b
    <2>1. \A i \in 1..b : More(buf[1 + i]) <=> i < b
      <3> HIDE DEF b, w
      <3>1. \A i \in 1..b : More(w[i]) <=> i < b
        BY <1>1 DEF Says
      <3> QED  BY <3>1 DEF b, w
    <2> HIDE DEF b
    <2>2. Ends(b) /\ \A i \in 1..4 : Ends(i) => i = b
      <3>1. Ends(b)
        BY <1>1, <2>1
      <3>2. ASSUME NEW i \in 1..4, Ends(i)  PROVE i = b
        <4>1. ~ (i < b)
          BY <1>1, <2>1, <3>2
        <4>2. ~ (b < i)
          <5> SUFFICES ASSUME b < i PROVE FALSE
            OBVIOUS
          <5>1. b \in 1..(i - 1) /\ b \in 1..b
            BY <1>1
          <5> QED  BY <5>1, <3>2, <2>1
        <4> QED  BY <4>1, <4>2, <1>1
      <3> QED  BY <3>1, <3>2
    <2> HIDE DEF Ends
    <2> QED  BY <2>2, <1>1
  <1> DEFINE E(f) == f = [i \in 0..4 |-> IF i = 0 THEN 0 ELSE f[i - 1] + Digit(buf[1 + i]) * Multiplier[i]]
  <1>4. E(value)
    <2>1. \E f : E(f)
      <3> DEFINE v1 == 0 + x(1)
                 v2 == v1 + x(2)
                 v3 == v2 + x(3)
                 v4 == v3 + x(4)
                 f == [i \in 0..4 |-> IF i = 0 THEN 0 ELSE IF i = 1 THEN v1 ELSE IF i = 2 THEN v2
                                       ELSE IF i = 3 THEN v3 ELSE v4]
      <3>1. ASSUME NEW i \in 0..4
            PROVE  f[i] = IF i = 0 THEN 0 ELSE f[i - 1] + x(i)
        <4> HIDE DEF x
        <4> QED  BY i = 0 \/ i = 1 \/ i = 2 \/ i = 3 \/ i = 4
      <3>2. f = [i \in 0..4 |-> f[i]]
        OBVIOUS
      <3>3. f = [i \in 0..4 |-> IF i = 0 THEN 0 ELSE f[i - 1] + x(i)]
        <4> HIDE DEF f, x
        <4> QED  BY <3>1, <3>2
      <3> HIDE DEF f
      <3> QED  BY <3>3
    <2>2. value = CHOOSE f : E(f)
      OBVIOUS
    <2> HIDE DEF E, value
    <2> QED  BY <2>1, <2>2
  <1>5. /\ value[0] = 0 /\ value[1] = value[0] + x(1) /\ value[2] = value[1] + x(2)
        /\ value[3] = value[2] + x(3) /\ value[4] = value[3] + x(4)
    <2> HIDE DEF value
    <2>1. \A i \in 0..4 : value[i] = IF i = 0 THEN 0 ELSE value[i - 1] + Digit(buf[1 + i]) * Multiplier[i]
      BY <1>4
    <2> QED  BY <2>1
  <1>6. /\ Multiplier[1] = 1 /\ Multiplier[2] = Radix /\ Multiplier[3] = Radix * Radix
        /\ Multiplier[4] = Radix * Radix * Radix
    BY DEF Multiplier
  <1>7. \A i \in 1..b : buf[1 + i] = w[i] /\ Digit(w[i]) \in Nat
    BY <1>1 DEF Says
  <1>8. value[b] = n
    <2> HIDE DEF value, b, w
    <2>1. CASE b = 1
      <3>1. value[1] = Digit(w[1])
        BY <1>5, <1>6, <1>7, <2>1
      <3> QED  BY <3>1, <1>1, <2>1 DEF Says
    <2>2. CASE b = 2
      <3>1. /\ x(1) = Digit(w[1]) /\ x(2) = Radix * Digit(w[2])
            /\ Digit(w[1]) \in Nat /\ Digit(w[2]) \in Nat
            /\ x(1) \in Nat /\ x(2) \in Nat
        BY <1>6, <1>7, <2>2, Thresholds
      <3>2. value[2] = x(1) + x(2)
        BY <1>5, <3>1
      <3> QED  BY <3>1, <3>2, <1>1, <2>2 DEF Says
    <2>3. CASE b = 3
      <3>0. Digit(w[1]) \in Nat /\ Digit(w[2]) \in Nat /\ Digit(w[3]) \in Nat
        BY <1>7, <2>3
      <3>1. /\ x(1) = Digit(w[1]) /\ x(2) = Radix * Digit(w[2]) /\ x(3) = Radix * (Radix * Digit(w[3]))
            /\ x(1) \in Nat /\ x(2) \in Nat /\ x(3) \in Nat
        BY <3>0, <1>6, <1>7, <2>3, Thresholds
      <3>2. value[3] = x(1) + x(2) + x(3)
        <4> HIDE DEF x
        <4> QED  BY <1>5, <3>1
      <3> QED  BY <3>1, <3>2, <1>1, <2>3 DEF Says
    <2>4. CASE b = 4
      <3>0. Digit(w[1]) \in Nat /\ Digit(w[2]) \in Nat /\ Digit(w[3]) \in Nat /\ Digit(w[4]) \in Nat
        BY <1>7, <2>4
      <3>1. /\ x(1) = Digit(w[1]) /\ x(2) = Radix * Digit(w[2]) /\ x(3) = Radix * (Radix * Digit(w[3]))
            /\ x(4) = Radix * (Radix * (Radix * Digit(w[4])))
            /\ x(1) \in Nat /\ x(2) \in Nat /\ x(3) \in Nat /\ x(4) \in Nat
        BY <3>0, <1>6, <1>7, <2>4, Thresholds
      <3>2. value[4] = x(1) + x(2) + x(3) + x(4)
        <4> HIDE DEF x
        <4> QED  BY <1>5, <3>1
      <3> QED  BY <3>1, <3>2, <1>1, <2>4 DEF Says
    <2> QED  BY <1>1, <2>1, <2>2, <2>3, <2>4
  <1> HIDE DEF value, k, b
  <1> QED  BY <1>2, <1>3, <1>8 DEF b

LEMMA Found ==
  ASSUME NEW buf, NEW header, NEW data, NEW n \in Nat, n < R4, Holds(buf, header, data, n)
  PROVE  /\ buf[1] = header /\ Start(buf) = 2 + LenBytes(n) /\ Finish(buf) = 2 + LenBytes(n) + n
         /\ LengthField(buf).value = n
         /\ \A i \in 1..n : buf[Start(buf) + i - 1] = data[i]
  <1>1. LengthField(buf).value = n /\ LengthField(buf).bytes = LenBytes(n)
    BY LengthDecoded DEF Holds
  <1>2. Start(buf) = 2 + LenBytes(n) /\ Finish(buf) = 2 + LenBytes(n) + n
    BY <1>1 DEF Start, Finish
  <1>3. ASSUME NEW i \in 1..n  PROVE buf[Start(buf) + i - 1] = data[i]
    <2>1. Start(buf) + i - 1 = 1 + LenBytes(n) + i
      BY <1>2, LenBytesIs
    <2> QED  BY <2>1 DEF Holds
  <1> QED  BY <1>1, <1>2, <1>3 DEF Holds

(* s stands in buf from place a on.                                        *)
At(buf, a, s) == \A i \in 1..Len(s) : buf[a + i - 1] = s[i]

LEMMA AtFound ==
  ASSUME NEW buf, NEW header, NEW n \in Nat, n < R4, NEW data \in Block(n), Holds(buf, header, data, n)
  PROVE  At(buf, Start(buf), data)
  BY Found DEF At, Block

LEMMA AtJoined ==
  ASSUME NEW buf, NEW a \in Nat, NEW k \in Nat, NEW l \in Nat,
         NEW s \in Block(k), NEW t \in Block(l), At(buf, a, s \o t)
  PROVE  At(buf, a, s) /\ At(buf, a + k, t)
  <1>1. /\ s \in Seq(Nat) /\ t \in Seq(Nat) /\ Len(s) = k /\ Len(t) = l
        /\ Len(s \o t) = k + l
        /\ \A i \in 1..k : (s \o t)[i] = s[i]
        /\ \A i \in 1..l : (s \o t)[k + i] = t[i]
    <2>1. s \in Seq(Nat) /\ t \in Seq(Nat) /\ Len(s) = k /\ Len(t) = l
      BY DEF Block
    <2> QED  BY <2>1, Joined
  <1>2. \A i \in 1..(k + l) : buf[a + i - 1] = (s \o t)[i]
    BY <1>1 DEF At
  <1>3. ASSUME NEW i \in 1..k  PROVE buf[a + i - 1] = s[i]
    <2>1. i \in 1..(k + l)
      OBVIOUS
    <2> QED  BY <2>1, <1>1, <1>2
  <1>4. ASSUME NEW i \in 1..l  PROVE buf[(a + k) + i - 1] = t[i]
    <2>1. k + i \in 1..(k + l) /\ a + (k + i) - 1 = (a + k) + i - 1
      OBVIOUS
    <2> QED  BY <2>1, <1>1, <1>2
  <1> QED  BY <1>1, <1>3, <1>4 DEF At

LEMMA AtUint16 ==
  ASSUME NEW buf, NEW a \in Nat, NEW n \in Nat, At(buf, a, Uint16(n))
  PROVE  Uint16At(buf, a) = n
  <1> DEFINE d == 2 * Radix
  <1>1. d \in Nat /\ d > 0
    BY Thresholds
  <1>2. /\ Len(Uint16(n)) = 2 /\ Uint16(n)[1] = n \div d /\ Uint16(n)[2] = n % d
    BY Uint16Is
  <1>3. buf[a] = n \div d /\ buf[a + 1] = n % d
    <2> HIDE DEF d
    <2>1. buf[a + 1 - 1] = n \div d /\ buf[a + 2 - 1] = n % d
      BY <1>2 DEF At
    <2>2. a + 1 - 1 = a /\ a + 2 - 1 = a + 1
      OBVIOUS
    <2> QED  BY <2>1, <2>2
  <1>4. n \div d \in Nat /\ n % d \in Nat /\ n = d * (n \div d) + (n % d)
    BY <1>1, Division
  <1> HIDE DEF d
  <1> DEFINE q == n \div d
  <1>5. d * q = q * d
    <2> HIDE DEF q
    <2> QED  BY <1>1, <1>4 DEF q
  <1>6. Uint16At(buf, a) = (n \div d) * d + (n % d)
    BY <1>3 DEF Uint16At, d
  <1> QED  BY <1>4, <1>5, <1>6

LEMMA AtSubSeq ==
  ASSUME NEW size \in Nat, NEW buf \in Block(size), NEW k \in Nat, NEW s \in Block(k), NEW a \in Nat,
         a >= 1, a + k <= size + 1, At(buf, a, s)
  PROVE  SubSeq(buf, a, a + k - 1) = s
  <1>1. buf \in Seq(Nat) /\ Len(buf) = size /\ s \in Seq(Nat) /\ Len(s) = k
    BY DEF Block
  <1>2. \A i \in a..(a + k - 1) : buf[i] \in Nat
    BY <1>1
  <1>3. /\ SubSeq(buf, a, a + k - 1) \in Seq(Nat) /\ Len(SubSeq(buf, a, a + k - 1)) = k
        /\ \A i \in 1..k : SubSeq(buf, a, a + k - 1)[i] = buf[a + i - 1]
    BY <1>1, <1>2, SubSeqProperties
  <1>4. \A i \in 1..k : SubSeq(buf, a, a + k - 1)[i] = s[i]
    BY <1>1, <1>3 DEF At
  <1> QED  BY <1>1, <1>3, <1>4, SeqEqual

LEMMA IncomingTypes ==
  ASSUME NEW m \in Incoming
  PROVE  \/ /\ m.type = PUBLISH
            /\ m.dup \in {0, 1} /\ m.qos \in {0, 1} /\ m.retained \in {0, 1} /\ m.id \in Nat
            /\ m.topic \in Block(Len(m.topic)) /\ Len(m.topic) \in Nat /\ m.payload \in {0, 1}
         \/ m.type = CONNACK /\ m.code \in 0..6
         \/ m.type \in {PUBACK, UNSUBACK} /\ m.id \in Nat
         \/ m.type = SUBACK /\ m.id \in Nat /\ \E n \in 1..4 : m.codes \in Block(n)
  <1>1. PacketIds \subseteq Nat
    <2>1. 4 * Radix \in Nat /\ \A a, b \in Nat : a * b - 1 \in Int
      BY Thresholds
    <2>2. 4 * Radix * Radix - 1 \in Int
      BY <2>1, Thresholds
    <2>3. \A k \in Int : 1..k \subseteq Nat
      OBVIOUS
    <2> QED  BY <2>2, <2>3, CodecAssumption
  <1>2. \A t \in Names : t \in Block(Len(t)) /\ Len(t) \in Nat
    <2> TAKE t \in Names
    <2>1. PICK n \in 1..MaxName : t \in [1..n -> {A, Slash}]
      BY DEF Names
    <2>2. n \in Nat
      BY CodecAssumption
    <2>3. \A i \in 1..n : t[i] \in Nat
      BY <2>1 DEF A, Slash
    <2>4. t \in [1..n -> Nat]
      BY <2>1, <2>3
    <2>5. t \in Seq(Nat) /\ Len(t) = n
      BY <2>2, <2>4
    <2> QED  BY <2>2, <2>5 DEF Block
  <1>3. CASE m \in [type : {PUBLISH}, dup : {0, 1}, qos : {0, 1}, retained : {0, 1}, id : PacketIds,
                    topic : Names, payload : {0, 1}]
    <2>1. /\ m.type = PUBLISH /\ m.dup \in {0, 1} /\ m.qos \in {0, 1} /\ m.retained \in {0, 1}
          /\ m.id \in PacketIds /\ m.topic \in Names /\ m.payload \in {0, 1}
      BY <1>3
    <2> QED  BY <2>1, <1>1, <1>2
  <1>4. CASE m \in [type : {CONNACK}, code : 0..6]
    BY <1>4
  <1>5. CASE m \in [type : {PUBACK, UNSUBACK}, id : PacketIds]
    BY <1>1, <1>5
  <1>6. CASE m \in [type : {SUBACK}, id : PacketIds, codes : UNION {[1..n -> {1}] : n \in 1..4}]
    <2>1. m.type = SUBACK /\ m.id \in Nat /\ m.codes \in UNION {[1..n -> {1}] : n \in 1..4}
      BY <1>1, <1>6
    <2>2. PICK n \in 1..4 : m.codes \in [1..n -> {1}]
      BY <2>1
    <2>3. m.codes \in [1..n -> Nat]
      BY <2>2
    <2>4. m.codes \in Block(n)
      BY <2>3 DEF Block
    <2> QED  BY <2>1, <2>4
  <1> QED  BY <1>3, <1>4, <1>5, <1>6 DEF Incoming

(* The data of a packet from the broker, piece by piece.                   *)
LEMMA BrokerBodyOf ==
  ASSUME NEW m
  PROVE  /\ m.type = PUBLISH =>
              BrokerBody(m) = Uint16(Len(m.topic)) \o m.topic \o If(m.qos > 0, Uint16(m.id)) \o Text(m.payload)
         /\ m.type = CONNACK => BrokerBody(m) = <<0, m.code>>
         /\ m.type \in {PUBACK, UNSUBACK} => BrokerBody(m) = Uint16(m.id)
         /\ m.type = SUBACK => BrokerBody(m) = Uint16(m.id) \o m.codes
  <1> DEFINE publish == Uint16(Len(m.topic)) \o m.topic \o If(m.qos > 0, Uint16(m.id)) \o Text(m.payload)
             connack == <<0, m.code>>
             ack == Uint16(m.id)
             suback == Uint16(m.id) \o m.codes
             type == m.type
  <1>1. BrokerBody(m) = CASE type = PUBLISH -> publish [] type = CONNACK -> connack
                          [] type \in {PUBACK, UNSUBACK} -> ack [] type = SUBACK -> suback
    BY Zenon DEF BrokerBody
  <1> HIDE DEF publish, connack, ack, suback, type
  <1>2. /\ type = PUBLISH => BrokerBody(m) = publish
        /\ type = CONNACK => BrokerBody(m) = connack
        /\ type \in {PUBACK, UNSUBACK} => BrokerBody(m) = ack
        /\ type = SUBACK => BrokerBody(m) = suback
    BY <1>1 DEF CONNACK, PUBLISH, SUBACK, UNSUBACK, PUBACK
  <1> QED  BY <1>2, Zenon DEF publish, connack, ack, suback, type

LEMMA BrokerBodyIs ==
  ASSUME NEW m \in Incoming
  PROVE  Len(BrokerBody(m)) \in Nat /\ BrokerBody(m) \in Block(Len(BrokerBody(m))) /\ BrokerHeader(m) \in Nat
  <1>1. \A k \in Nat : \A s \in Block(k) : Len(s) \in Nat /\ s \in Block(Len(s))
    BY DEF Block
  <1>2. \E k \in Nat : BrokerBody(m) \in Block(k)
    <2>1. CASE m.type = PUBLISH
      <3> DEFINE t == m.topic
                 l == Len(m.topic)
                 p == m.payload
                 k == IF m.qos > 0 THEN 2 ELSE 0
                 id == If(m.qos > 0, Uint16(m.id))
      <3>1. m.qos \in {0, 1} /\ m.id \in Nat /\ t \in Block(l) /\ l \in Nat /\ p \in Nat
        BY <2>1, IncomingTypes DEF CONNACK, PUBLISH, SUBACK, UNSUBACK, PUBACK
      <3>2. k \in Nat /\ id \in Block(k)
        <4>1. (m.qos > 0) \in BOOLEAN /\ Uint16(m.id) \in Block(2)
          BY <3>1, BlockUint16
        <4> QED  BY <4>1, BlockIf
      <3>3. BrokerBody(m) = Uint16(l) \o t \o id \o Text(p)
        BY <2>1, BrokerBodyOf, Zenon
      <3> HIDE DEF k, id, t, l, p
      <3>4. Uint16(l) \o t \in Block(2 + l) /\ 2 + l \in Nat
        BY <3>1, BlockUint16, BlockJoined
      <3>5. Uint16(l) \o t \o id \in Block(2 + l + k) /\ 2 + l + k \in Nat
        BY <3>1, <3>2, <3>4, BlockJoined
      <3>6. BrokerBody(m) \in Block(2 + l + k + p) /\ 2 + l + k + p \in Nat
        BY <3>1, <3>2, <3>3, <3>5, BlockText, BlockJoined
      <3> QED  BY <3>6
    <2>2. CASE m.type = CONNACK
      <3>1. BrokerBody(m) = <<0, m.code>> /\ m.code \in 0..6
        BY <2>2, IncomingTypes DEF BrokerBody, CONNACK, PUBLISH, SUBACK, UNSUBACK, PUBACK
      <3> QED  BY <3>1 DEF Block
    <2>3. CASE m.type \in {PUBACK, UNSUBACK}
      <3>1. BrokerBody(m) = Uint16(m.id) /\ m.id \in Nat
        BY <2>3, IncomingTypes DEF BrokerBody, CONNACK, PUBLISH, SUBACK, UNSUBACK, PUBACK
      <3> QED  BY <3>1, BlockUint16
    <2>4. CASE m.type = SUBACK
      <3> DEFINE c == m.codes
      <3>1. m.id \in Nat
        BY <2>4, IncomingTypes DEF CONNACK, PUBLISH, SUBACK, UNSUBACK, PUBACK
      <3>2. BrokerBody(m) = Uint16(m.id) \o c
        BY <2>4, BrokerBodyOf, Zenon
      <3>3. PICK n \in 1..4 : c \in Block(n)
        BY <2>4, IncomingTypes DEF CONNACK, PUBLISH, SUBACK, UNSUBACK, PUBACK
      <3> HIDE DEF c
      <3>4. Uint16(m.id) \in Block(2)
        BY <3>1, BlockUint16
      <3>5. BrokerBody(m) \in Block(2 + n) /\ 2 + n \in Nat
        BY <3>2, <3>3, <3>4, BlockJoined
      <3> QED  BY <3>5
    <2> QED  BY <2>1, <2>2, <2>3, <2>4, IncomingTypes
  <1>3. BrokerHeader(m) \in Nat
    BY IncomingTypes DEF BrokerHeader, Header, CONNACK, PUBLISH, SUBACK, UNSUBACK, PUBACK
  <1> QED  BY <1>1, <1>2, <1>3

(* readBuf begins with the packet that was read last.                      *)
HoldsPacket(buf, m) ==
  LET n == Len(BrokerBody(m)) IN
  n < R4 /\ PacketSize(n) <= RxBufLen /\ Holds(buf, BrokerHeader(m), BrokerBody(m), n)

LEMMA RxBufLenIs == RxBufLen \in Nat /\ RxBufLen <= R4
  BY CodecAssumption, Thresholds DEF R4

LEMMA OverwriteIs ==
  ASSUME NEW size \in Nat, NEW old \in Block(size), NEW k \in 0..size, NEW packet \in Block(k)
  PROVE  Overwrite(old, packet) \in Block(size) /\ At(Overwrite(old, packet), 1, packet)
  <1> DEFINE rest == SubSeq(old, k + 1, size)
             buf == Overwrite(old, packet)
  <1>1. old \in Seq(Nat) /\ Len(old) = size /\ packet \in Seq(Nat) /\ Len(packet) = k
    BY DEF Block
  <1>2. buf = packet \o rest
    BY <1>1 DEF Overwrite
  <1>3. rest \in Seq(Nat) /\ Len(rest) = size - k
    <2>1. \A i \in (k + 1)..size : old[i] \in Nat
      BY <1>1
    <2>2. rest \in Seq(Nat) /\ Len(rest) = IF k + 1 <= size THEN size - (k + 1) + 1 ELSE 0
      BY <2>1, SubSeqProperties
    <2> QED  BY <2>2
  <1> HIDE DEF rest, buf
  <1>4. buf \in Seq(Nat) /\ Len(buf) = k + (size - k) /\ \A i \in 1..k : buf[i] = packet[i]
    BY <1>1, <1>2, <1>3, Joined
  <1>5. \A i \in 1..k : buf[1 + i - 1] = packet[i]
    BY <1>4
  <1> QED  BY <1>1, <1>4, <1>5 DEF Block, At, buf

LEMMA PacketHeld ==
  ASSUME NEW buf, NEW header \in Nat, NEW n \in Nat, n < R4, NEW data \in Block(n),
         At(buf, 1, <<header>> \o WriteLen[n] \o data)
  PROVE  /\ Holds(buf, header, data, n)
         /\ <<header>> \o WriteLen[n] \o data \in Block(PacketSize(n))
  <1> DEFINE b == LenBytes(n)
             h == <<header>>
             w == WriteLen[n]
  <1>1. b \in 1..4 /\ b \in Nat
    BY LenBytesIs
  <1>2. w \in Block(b)
    BY WriteLenLength DEF Block
  <1>3. h \in Block(1) /\ h[1] = header
    BY BlockOne
  <1>4. At(buf, 1, (h \o w) \o data)
    OBVIOUS
  <1>5. PacketSize(n) = (1 + b) + n
    BY PacketSizeIs
  <1> HIDE DEF b, h, w
  <1>6. h \o w \in Block(1 + b) /\ 1 + b \in Nat
    BY <1>1, <1>2, <1>3, BlockJoined
  <1>7. At(buf, 1, h \o w) /\ At(buf, 1 + (1 + b), data)
    BY <1>4, <1>6, AtJoined
  <1>8. At(buf, 1, h) /\ At(buf, 1 + 1, w)
    BY <1>1, <1>2, <1>3, <1>7, AtJoined
  <1>9. Len(h) = 1 /\ Len(w) = b /\ Len(data) = n
    BY <1>2, <1>3 DEF Block
  <1>10. buf[1] = header
    BY <1>3, <1>8, <1>9 DEF At
  <1>11. ASSUME NEW i \in 1..b  PROVE buf[1 + i] = w[i]
    <2>1. 1 + 1 + i - 1 = 1 + i
      BY <1>1
    <2> QED  BY <2>1, <1>8, <1>9 DEF At
  <1>12. ASSUME NEW i \in 1..n  PROVE buf[1 + b + i] = data[i]
    <2>1. 1 + (1 + b) + i - 1 = 1 + b + i
      BY <1>1
    <2> QED  BY <2>1, <1>7, <1>9 DEF At
  <1>13. h \o w \o data \in Block((1 + b) + n)
    BY <1>6, BlockJoined
  <1> QED  BY <1>5, <1>10, <1>11, <1>12, <1>13 DEF Holds, b, h, w

(* read_packet leaves the packet at the front of readBuf.                  *)
LEMMA PacketRead ==
  ASSUME NEW old \in Block(RxBufLen), NEW h \in Nat, NEW n \in Nat, NEW d \in Block(n),
         PacketSize(n) <= RxBufLen
  PROVE  LET buf == Overwrite(old, <<h>> \o WriteLen[n] \o d) IN
         buf \in Block(RxBufLen) /\ n < R4 /\ Holds(buf, h, d, n)
  <1> DEFINE packet == <<h>> \o WriteLen[n] \o d
             k == PacketSize(n)
             buf == Overwrite(old, packet)
  <1>1. k \in 0..RxBufLen /\ n < R4 /\ RxBufLen \in Nat
    BY PacketSizeIs, RxBufLenIs, Thresholds
  <1>2. packet \in Block(k)
    <2>1. WriteLen[n] \in Block(LenBytes(n)) /\ LenBytes(n) \in Nat
      BY <1>1, WriteLenLength, LenBytesIs DEF Block
    <2>2. <<h>> \o WriteLen[n] \in Block(1 + LenBytes(n)) /\ 1 + LenBytes(n) \in Nat
      BY <2>1, BlockOne, BlockJoined
    <2>3. packet \in Block((1 + LenBytes(n)) + n)
      BY <2>2, BlockJoined
    <2>4. k = (1 + LenBytes(n)) + n
      BY PacketSizeIs
    <2> HIDE DEF packet, k
    <2> QED  BY <2>3, <2>4
  <1>3. buf \in Block(RxBufLen) /\ At(buf, 1, packet)
    <2> HIDE DEF packet, k
    <2> QED  BY <1>1, <1>2, OverwriteIs
  <1>4. Holds(buf, h, d, n)
    <2> HIDE DEF buf
    <2> QED  BY <1>1, <1>3, PacketHeld
  <1> QED  BY <1>1, <1>3, <1>4

(* The n bytes d stand in buf where the deserialisers look for data.       *)
Framed(buf, h, d, n) ==
  /\ buf \in Block(RxBufLen) /\ buf[1] = h /\ n \in Nat /\ d \in Block(n)
  /\ Start(buf) \in Nat /\ Start(buf) >= 1
  /\ Finish(buf) = Start(buf) + n /\ Start(buf) + n <= RxBufLen + 1
  /\ At(buf, Start(buf), d)

LEMMA PacketFramed ==
  ASSUME NEW m \in Incoming, NEW buf \in Block(RxBufLen), HoldsPacket(buf, m)
  PROVE  Framed(buf, BrokerHeader(m), BrokerBody(m), Len(BrokerBody(m)))
  <1> DEFINE d == BrokerBody(m)
             n == Len(BrokerBody(m))
             h == BrokerHeader(m)
  <1>1. n \in Nat /\ d \in Block(n)
    BY BrokerBodyIs
  <1>2. n < R4 /\ PacketSize(n) <= RxBufLen /\ Holds(buf, h, d, n)
    BY DEF HoldsPacket
  <1> HIDE DEF d, n, h
  <1>3. /\ buf[1] = h /\ Start(buf) = 2 + LenBytes(n) /\ Finish(buf) = 2 + LenBytes(n) + n
        /\ At(buf, Start(buf), d)
    BY <1>1, <1>2, Found, AtFound
  <1>4. LenBytes(n) \in Nat /\ PacketSize(n) = 1 + LenBytes(n) + n /\ RxBufLen \in Nat
    BY <1>1, LenBytesIs, PacketSizeIs, RxBufLenIs
  <1>5. Start(buf) \in Nat /\ Start(buf) >= 1 /\ Finish(buf) = Start(buf) + n /\ Start(buf) + n <= RxBufLen + 1
    BY <1>1, <1>2, <1>3, <1>4
  <1>6. Framed(buf, h, d, n)
    BY <1>1, <1>3, <1>5 DEF Framed
  <1> QED  BY <1>6 DEF d, n, h

LEMMA HeaderRead ==
  ASSUME NEW dup \in {0, 1}, NEW qos \in {0, 1}, NEW retained \in {0, 1}
  PROVE  LET h == Header(PUBLISH, qos, dup, retained) IN
         h \div 16 = PUBLISH /\ (h \div 8) % 2 = dup /\ (h \div 2) % 4 = qos /\ h % 2 = retained
  <1>1. /\ 48 \div 16 = 3 /\ 49 \div 16 = 3 /\ 50 \div 16 = 3 /\ 51 \div 16 = 3
        /\ 56 \div 16 = 3 /\ 57 \div 16 = 3 /\ 58 \div 16 = 3 /\ 59 \div 16 = 3
    OBVIOUS
  <1> QED  BY <1>1 DEF Header, PUBLISH

(* mqtt_internal_deserialize_publish finds every field.                    *)
LEMMA PublishRead ==
  ASSUME NEW buf, NEW dup \in {0, 1}, NEW qos \in {0, 1}, NEW retained \in {0, 1}, NEW id \in Nat,
         NEW l \in Nat, NEW t \in Block(l), NEW p \in Nat, NEW n,
         Framed(buf, Header(PUBLISH, qos, dup, retained),
                Uint16(l) \o t \o If(qos > 0, Uint16(id)) \o Text(p), n)
  PROVE  DeserializePublish(buf) =
           [rc |-> "MQTT_SUCCESS", type |-> PUBLISH, dup |-> dup, qos |-> qos, retained |-> retained,
            topic |-> t, id |-> IF qos # 0 THEN id ELSE 0, payload |-> Text(p)]
  <1> DEFINE at == Start(buf)
             end == Finish(buf)
             next == at + 2 + Uint16At(buf, at)
             q == (buf[1] \div 2) % 4
             data == IF q # 0 THEN next + 2 ELSE next
             k == IF qos > 0 THEN 2 ELSE 0
             i == If(qos > 0, Uint16(id))
             u == Uint16(l)
             x == Text(p)
             h == Header(PUBLISH, qos, dup, retained)
             body == u \o t \o i \o x
  <1>1. /\ buf \in Block(RxBufLen) /\ buf[1] = h /\ n \in Nat /\ body \in Block(n)
        /\ at \in Nat /\ at >= 1 /\ end = at + n /\ at + n <= RxBufLen + 1 /\ At(buf, at, body)
    BY DEF Framed
  <1>2. q = qos /\ (buf[1] \div 8) % 2 = dup /\ buf[1] % 2 = retained
    BY <1>1, HeaderRead
  <1>3. k \in Nat /\ i \in Block(k) /\ u \in Block(2) /\ x \in Block(p)
    <2>1. (qos > 0) \in BOOLEAN /\ Uint16(id) \in Block(2)
      BY BlockUint16
    <2> QED  BY <2>1, BlockIf, BlockUint16, BlockText
  <1>4. qos # 0 => i = Uint16(id) /\ k = 2
    BY DEF If
  <1>5. qos = 0 => k = 0
    OBVIOUS
  <1> HIDE DEF i, u, x, h
  <1>6. n = 2 + l + k + p /\ At(buf, at, u) /\ At(buf, at + 2, t) /\ At(buf, at + 2 + l, i) /\ At(buf, at + 2 + l + k, x)
    <2> HIDE DEF k, at
    <2>1. u \o t \in Block(2 + l) /\ 2 + l \in Nat
      BY <1>3, BlockJoined
    <2>2. u \o t \o i \in Block(2 + l + k) /\ 2 + l + k \in Nat
      BY <2>1, <1>3, BlockJoined
    <2>3. body \in Block(2 + l + k + p)
      BY <2>2, <1>3, BlockJoined
    <2>4. n = 2 + l + k + p
      <3> HIDE DEF body
      <3> QED  BY <2>3, <1>1 DEF Block
    <2>5. At(buf, at, u \o t \o i) /\ At(buf, at + (2 + l + k), x)
      BY <1>1, <1>3, <2>2, AtJoined
    <2>6. At(buf, at, u \o t) /\ At(buf, at + (2 + l), i)
      BY <1>1, <1>3, <2>1, <2>5, AtJoined
    <2>7. At(buf, at, u) /\ At(buf, at + 2, t)
      BY <1>1, <1>3, <2>6, AtJoined
    <2>8. at + (2 + l + k) = at + 2 + l + k /\ at + (2 + l) = at + 2 + l
      BY <1>1, <1>3
    <2> QED  BY <2>4, <2>5, <2>6, <2>7, <2>8
  <1>7. next = at + 2 + l
    <2>1. Uint16At(buf, at) = l
      BY <1>1, <1>6, AtUint16 DEF u
    <2> QED  BY <2>1
  <1>8. IF q # 0 THEN Uint16At(buf, next) = id ELSE TRUE
    <2> SUFFICES ASSUME q # 0  PROVE Uint16At(buf, next) = id
      OBVIOUS
    <2>1. At(buf, next, Uint16(id))
      BY <1>2, <1>4, <1>6, <1>7
    <2>2. next \in Nat
      BY <1>1, <1>7
    <2> HIDE DEF next
    <2> QED  BY <2>1, <2>2, AtUint16
  <1>9. data = at + 2 + l + k
    BY <1>1, <1>2, <1>4, <1>5, <1>7
  <1>10. RxBufLen \in Nat
    BY RxBufLenIs
  <1>11. SubSeq(buf, at + 2, next - 1) = t
    <2> HIDE DEF next, at, k
    <2>1. SubSeq(buf, at + 2, (at + 2) + l - 1) = t
      BY <1>1, <1>3, <1>6, <1>10, AtSubSeq
    <2>2. next - 1 = (at + 2) + l - 1
      BY <1>1, <1>7
    <2> QED  BY <2>1, <2>2, Zenon
  <1>12. SubSeq(buf, data, end - 1) = Text(p)
    <2> DEFINE a == at + 2 + l + k
    <2>1. a \in Nat /\ a >= 1 /\ a + p <= RxBufLen + 1 /\ end - 1 = a + p - 1 /\ At(buf, a, x)
      <3> HIDE DEF k, at, end
      <3> QED  BY <1>1, <1>3, <1>6
    <2> HIDE DEF a
    <2>2. SubSeq(buf, a, a + p - 1) = x
      BY <1>1, <1>3, <1>10, <2>1, AtSubSeq
    <2> QED  BY <1>9, <2>1, <2>2 DEF a, x
  <1>13. end - at > 1 /\ next <= end
    <2> HIDE DEF next, at, end, k
    <2> QED  BY <1>1, <1>3, <1>6, <1>7
  <1>14. DeserializePublish(buf) =
           IF end - at > 1 /\ next <= end
           THEN [rc |-> "MQTT_SUCCESS", type |-> PUBLISH, dup |-> (buf[1] \div 8) % 2, qos |-> q,
                 retained |-> buf[1] % 2, topic |-> SubSeq(buf, at + 2, next - 1),
                 id |-> IF q # 0 THEN Uint16At(buf, next) ELSE 0,
                 payload |-> SubSeq(buf, data, end - 1)]
           ELSE Failure
    BY Zenon DEF DeserializePublish
  <1>15. (IF q # 0 THEN Uint16At(buf, next) ELSE 0) = (IF qos # 0 THEN id ELSE 0)
    <2> HIDE DEF q, next
    <2> QED  BY <1>2, <1>8
  <1> HIDE DEF q, next, data, end, at, x, body
  <1> QED  BY <1>2, <1>11, <1>12, <1>13, <1>14, <1>15

(* mqtt_internal_deserialize_ack and _mqtt_deserialize_unsuback.           *)
LEMMA AckRead ==
  ASSUME NEW buf, NEW h, NEW id \in Nat, NEW n, Framed(buf, h, Uint16(id), n)
  PROVE  DeserializeAck(buf) = [rc |-> "MQTT_SUCCESS", type |-> TypeOf(buf), id |-> id]
  <1>1. n = 2 /\ Start(buf) \in Nat /\ Finish(buf) = Start(buf) + n /\ At(buf, Start(buf), Uint16(id))
    <2>1. Uint16(id) \in Block(n) /\ Uint16(id) \in Block(2)
      BY BlockUint16 DEF Framed
    <2>2. n = 2
      <3> DEFINE u == Uint16(id)
      <3>1. u \in Block(n) /\ u \in Block(2)
        BY <2>1
      <3> HIDE DEF u
      <3> QED  BY <3>1 DEF Block
    <2> QED  BY <2>2 DEF Framed
  <1>2. Uint16At(buf, Start(buf)) = id
    BY <1>1, AtUint16
  <1>3. Finish(buf) - Start(buf) >= 2
    BY <1>1
  <1> QED  BY <1>2, <1>3 DEF DeserializeAck

(* _mqtt_deserialize_connack.                                              *)
LEMMA ConnackRead ==
  ASSUME NEW buf, NEW h, NEW code \in 0..6, NEW n, Framed(buf, h, <<0, code>>, n)
  PROVE  DeserializeConnack(buf) = [rc |-> "MQTT_SUCCESS", type |-> CONNACK, code |-> code]
  <1> DEFINE at == Start(buf)
  <1>1. n = 2 /\ at \in Nat /\ Finish(buf) = at + n /\ At(buf, at, <<0, code>>)
    BY DEF Framed, Block
  <1>2. buf[at + 1] = code
    <2> HIDE DEF at
    <2>1. \A i \in 1..2 : buf[at + i - 1] = <<0, code>>[i]
      BY <1>1 DEF At
    <2>2. at + 2 - 1 = at + 1 /\ buf[at + 2 - 1] = code
      BY <1>1, <2>1
    <2> QED  BY <2>2
  <1>3. Finish(buf) - at = 2
    BY <1>1
  <1>4. (IF code \in 0..5 THEN code ELSE 6) = code
    OBVIOUS
  <1> HIDE DEF at
  <1> QED  BY <1>2, <1>3, <1>4 DEF DeserializeConnack, at

(* _mqtt_deserialize_suback: with more codes than the array takes it gives *)
(* up, with fewer it returns them.                                         *)
LEMMA SubackRead ==
  ASSUME NEW buf, NEW h, NEW id \in Nat, NEW k \in 1..4, NEW c \in Block(k), NEW n,
         Framed(buf, h, Uint16(id) \o c, n)
  PROVE  LET r == DeserializeSuback(buf) IN
         /\ Len(r.codes) <= GrantedQoS
         /\ \/ r.rc = "MQTT_FAILURE"
            \/ r = [rc |-> "MQTT_SUCCESS", type |-> SUBACK, id |-> id, codes |-> c]
  <1> DEFINE at == Start(buf)
             u == Uint16(id)
             got2 == Granted(k)
             codes == SubSeq(buf, at + 2, at + 1 + Granted(Finish(buf) - (at + 2)))
             r == DeserializeSuback(buf)
  <1>1. u \in Block(2)
    BY BlockUint16
  <1>2. /\ buf \in Block(RxBufLen) /\ u \o c \in Block(n)
        /\ at \in Nat /\ at >= 1 /\ Finish(buf) = at + n /\ at + n <= RxBufLen + 1 /\ At(buf, at, u \o c)
    BY DEF Framed
  <1> HIDE DEF u
  <1>3. n = 2 + k
    <2>1. u \o c \in Block(2 + k)
      BY <1>1, BlockJoined
    <2> DEFINE b == u \o c
    <2>2. b \in Block(n) /\ b \in Block(2 + k)
      BY <1>2, <2>1
    <2> HIDE DEF b
    <2> QED  BY <2>2 DEF Block
  <1>4. At(buf, at, u) /\ At(buf, at + 2, c)
    <2> HIDE DEF at
    <2> QED  BY <1>1, <1>2, AtJoined
  <1>5. Uint16At(buf, at) = id
    <2> HIDE DEF at
    <2> QED  BY <1>2, <1>4, AtUint16 DEF u
  <1>6. Finish(buf) - (at + 2) = k
    BY <1>2, <1>3
  <1>7. got2 \in 1..2 /\ (got2 = k => k <= 2)
    BY DEF Granted, MaxExpectedQoSCount
  <1>8. codes = SubSeq(buf, at + 2, at + 1 + got2)
    BY <1>6
  <1>9. codes \in Seq(Nat) /\ Len(codes) = got2
    <2> HIDE DEF at, got2, codes
    <2>1. RxBufLen \in Nat /\ buf \in Seq(Nat) /\ Len(buf) = RxBufLen
      BY <1>2, RxBufLenIs DEF Block
    <2>2. at + 1 + got2 <= RxBufLen
      BY <1>2, <1>3, <1>7, <2>1 DEF Granted, MaxExpectedQoSCount, got2
    <2>3. \A i \in (at + 2)..(at + 1 + got2) : buf[i] \in Nat
      BY <1>2, <1>7, <2>1, <2>2
    <2> DEFINE a == at + 2
               z == at + 1 + got2
    <2>4. a \in Nat \ {0} /\ z \in Nat /\ a <= z /\ z - a + 1 = got2
      BY <1>2, <1>7
    <2>5. \A i \in a..z : buf[i] \in Nat
      BY <2>3
    <2> HIDE DEF a, z
    <2>6. SubSeq(buf, a, z) \in Seq(Nat) /\ Len(SubSeq(buf, a, z)) = IF a <= z THEN z - a + 1 ELSE 0
      BY <2>4, <2>5, SubSeqProperties
    <2>7. codes = SubSeq(buf, a, z)
      BY <1>8 DEF a, z
    <2> QED  BY <2>4, <2>6, <2>7
  <1>10. CASE got2 = k
    <2>1. SubSeq(buf, at + 2, (at + 2) + k - 1) = c
      <3> HIDE DEF at
      <3>1. at + 2 \in Nat /\ at + 2 >= 1 /\ at + 2 + k <= RxBufLen + 1 /\ RxBufLen \in Nat /\ k \in Nat
        BY <1>2, <1>3, RxBufLenIs
      <3> QED  BY <1>2, <1>4, <3>1, AtSubSeq
    <2>2. (at + 2) + k - 1 = at + 1 + got2
      BY <1>2, <1>10
    <2>3. codes = c
      BY <1>8, <2>1, <2>2, Zenon
    <2>4. Granted(Finish(buf) - (at + 2)) = Finish(buf) - (at + 2)
      BY <1>6, <1>10
    <2>5. r = [rc |-> "MQTT_SUCCESS", type |-> SUBACK, id |-> Uint16At(buf, at), codes |-> codes]
      BY <2>4, Zenon DEF DeserializeSuback
    <2> HIDE DEF r, codes, at, got2
    <2>6. r = [rc |-> "MQTT_SUCCESS", type |-> SUBACK, id |-> id, codes |-> c]
      BY <1>5, <2>3, <2>5
    <2>7. r.codes = codes
      BY <2>5
    <2> QED  BY <1>7, <1>9, <2>6, <2>7 DEF GrantedQoS, r
  <1>11. CASE got2 # k
    <2>1. Granted(Finish(buf) - (at + 2)) # Finish(buf) - (at + 2)
      BY <1>6, <1>11
    <2>2. r = [rc |-> "MQTT_FAILURE", codes |-> codes]
      BY <2>1, Zenon DEF DeserializeSuback
    <2> HIDE DEF r, codes, got2
    <2>3. r.rc = "MQTT_FAILURE" /\ r.codes = codes
      BY <2>2
    <2> QED  BY <1>7, <1>9, <2>3 DEF GrantedQoS, r
  <1> QED  BY <1>10, <1>11

(* What each deserialiser makes of the packet in readBuf.                  *)
LEMMA Understood ==
  ASSUME NEW m \in Incoming, NEW buf \in Block(RxBufLen), HoldsPacket(buf, m)
  PROVE  /\ TypeOf(buf) = m.type
         /\ m.type = PUBLISH =>
              DeserializePublish(buf) =
                [rc |-> "MQTT_SUCCESS", type |-> PUBLISH, dup |-> m.dup, qos |-> m.qos,
                 retained |-> m.retained, topic |-> m.topic,
                 id |-> IF m.qos # 0 THEN m.id ELSE 0, payload |-> Text(m.payload)]
         /\ m.type \in {PUBACK, UNSUBACK} =>
              DeserializeAck(buf) = [rc |-> "MQTT_SUCCESS", type |-> m.type, id |-> m.id]
         /\ m.type = CONNACK =>
              DeserializeConnack(buf) = [rc |-> "MQTT_SUCCESS", type |-> CONNACK, code |-> m.code]
         /\ m.type = SUBACK =>
              /\ Len(DeserializeSuback(buf).codes) <= GrantedQoS
              /\ \/ DeserializeSuback(buf).rc = "MQTT_FAILURE"
                 \/ DeserializeSuback(buf) =
                      [rc |-> "MQTT_SUCCESS", type |-> SUBACK, id |-> m.id, codes |-> m.codes]
  <1> DEFINE n == Len(BrokerBody(m))
             h == BrokerHeader(m)
  <1>1. Framed(buf, h, BrokerBody(m), n)
    BY PacketFramed
  <1>2. buf[1] = h
    BY <1>1 DEF Framed
  <1>3. CASE m.type = PUBLISH
    <2> DEFINE t == m.topic
               l == Len(m.topic)
               id == m.id
               qos == m.qos
               dup == m.dup
               retained == m.retained
               p == m.payload
    <2>1. /\ dup \in {0, 1} /\ qos \in {0, 1} /\ retained \in {0, 1} /\ id \in Nat
          /\ l \in Nat /\ t \in Block(l) /\ p \in Nat
      BY <1>3, IncomingTypes DEF CONNACK, PUBLISH, SUBACK, UNSUBACK, PUBACK
    <2>2. BrokerBody(m) = Uint16(l) \o t \o If(qos > 0, Uint16(id)) \o Text(p)
      BY <1>3, BrokerBodyOf, Zenon
    <2>3. h = Header(PUBLISH, qos, dup, retained)
      BY <1>3 DEF BrokerHeader
    <2>4. Framed(buf, Header(PUBLISH, qos, dup, retained), Uint16(l) \o t \o If(qos > 0, Uint16(id)) \o Text(p), n)
      BY <1>1, <2>2, <2>3, Zenon
    <2> HIDE DEF t, l, id, qos, dup, retained, p, n
    <2>5. DeserializePublish(buf) =
            [rc |-> "MQTT_SUCCESS", type |-> PUBLISH, dup |-> dup, qos |-> qos, retained |-> retained,
             topic |-> t, id |-> IF qos # 0 THEN id ELSE 0, payload |-> Text(p)]
      BY <2>1, <2>4, PublishRead
    <2>6. TypeOf(buf) = PUBLISH
      BY <1>2, <2>1, <2>3, HeaderRead DEF TypeOf
    <2>7. PUBLISH \notin {PUBACK, UNSUBACK} /\ PUBLISH # CONNACK /\ PUBLISH # SUBACK
      BY DEF CONNACK, PUBLISH, SUBACK, UNSUBACK, PUBACK
    <2> QED  BY <1>3, <2>5, <2>6, <2>7, Zenon DEF t, id, qos, dup, retained, p
  <1>4. CASE m.type # PUBLISH
    <2>1. m.type \in {CONNACK, PUBACK, UNSUBACK, SUBACK}
      BY <1>4, IncomingTypes
    <2>2. TypeOf(buf) = m.type
      <3>1. h = 16 * m.type + 8 * 0 + 2 * 0 + 0
        BY <1>4 DEF BrokerHeader, Header
      <3> HIDE DEF h
      <3> QED  BY <1>2, <2>1, <3>1 DEF TypeOf, CONNACK, SUBACK, UNSUBACK, PUBACK
    <2>3. ASSUME m.type = CONNACK
          PROVE  DeserializeConnack(buf) = [rc |-> "MQTT_SUCCESS", type |-> CONNACK, code |-> m.code]
      <3>1. m.code \in 0..6
        BY <2>3, IncomingTypes DEF CONNACK, PUBLISH, SUBACK, UNSUBACK, PUBACK
      <3>2. Framed(buf, h, <<0, m.code>>, n)
        BY <1>1, <2>3, BrokerBodyOf, Zenon
      <3> HIDE DEF h, n
      <3> QED  BY <3>1, <3>2, ConnackRead
    <2>4. ASSUME m.type \in {PUBACK, UNSUBACK}
          PROVE  DeserializeAck(buf) = [rc |-> "MQTT_SUCCESS", type |-> m.type, id |-> m.id]
      <3>1. m.id \in Nat
        BY <2>4, IncomingTypes DEF CONNACK, PUBLISH, SUBACK, UNSUBACK, PUBACK
      <3>2. Framed(buf, h, Uint16(m.id), n)
        BY <1>1, <2>4, BrokerBodyOf, Zenon
      <3> HIDE DEF h, n
      <3>3. DeserializeAck(buf) = [rc |-> "MQTT_SUCCESS", type |-> TypeOf(buf), id |-> m.id]
        BY <3>1, <3>2, AckRead
      <3> QED  BY <2>2, <3>3
    <2>5. ASSUME m.type = SUBACK
          PROVE  /\ Len(DeserializeSuback(buf).codes) <= GrantedQoS
                 /\ \/ DeserializeSuback(buf).rc = "MQTT_FAILURE"
                    \/ DeserializeSuback(buf) =
                         [rc |-> "MQTT_SUCCESS", type |-> SUBACK, id |-> m.id, codes |-> m.codes]
      <3> DEFINE c == m.codes
                 id == m.id
      <3>1. id \in Nat /\ \E k \in 1..4 : c \in Block(k)
        BY <2>5, IncomingTypes DEF CONNACK, PUBLISH, SUBACK, UNSUBACK, PUBACK
      <3>2. Framed(buf, h, Uint16(id) \o c, n)
        BY <1>1, <2>5, BrokerBodyOf, Zenon
      <3> HIDE DEF h, n, c, id
      <3>3. PICK k \in 1..4 : c \in Block(k)
        BY <3>1
      <3>4. /\ Len(DeserializeSuback(buf).codes) <= GrantedQoS
            /\ \/ DeserializeSuback(buf).rc = "MQTT_FAILURE"
               \/ DeserializeSuback(buf) = [rc |-> "MQTT_SUCCESS", type |-> SUBACK, id |-> id, codes |-> c]
        BY <3>1, <3>2, <3>3, SubackRead
      <3> QED  BY <3>4 DEF c, id
    <2> QED  BY <1>4, <2>2, <2>3, <2>4, <2>5, Zenon
  <1> QED  BY <1>3, <1>4

(* readBuf holds the packet from when it was read until it is understood,  *)
(* whatever it held before.                                                *)
InInv ==
  /\ readBuf \in Block(RxBufLen)
  /\ got.rc = "none" => came \in Incoming /\ HoldsPacket(readBuf, came)
  /\ "codes" \in DOMAIN got => Len(got.codes) <= GrantedQoS
  /\ ReceivedAsSent

LEMMA InStep ==
  ASSUME InInv, [Next]_vars
  PROVE  InInv'
  <1>1. ASSUME NEW p \in Requests, NEW txBufLen \in TxBufLens, Serialize(p, txBufLen)
        PROVE  InInv'
    BY <1>1 DEF Serialize, InInv, ReceivedAsSent
  <1>2. CASE SendPacket
    BY <1>2 DEF SendPacket, InInv, ReceivedAsSent
  <1>3. ASSUME NEW m \in Incoming, Receive(m)
        PROVE  InInv'
    <2> DEFINE n == Len(BrokerBody(m))
               h == BrokerHeader(m)
               d == BrokerBody(m)
    <2>1. n \in Nat /\ d \in Block(n) /\ h \in Nat
      BY BrokerBodyIs
    <2>2. /\ PacketSize(n) <= RxBufLen /\ readBuf' = Overwrite(readBuf, <<h>> \o WriteLen[n] \o d)
          /\ came' = m /\ got' = [rc |-> "none"]
      BY <1>3, Zenon DEF Receive
    <2>3. readBuf \in Block(RxBufLen)
      BY DEF InInv
    <2> HIDE DEF n, h, d
    <2>4. readBuf' \in Block(RxBufLen) /\ n < R4 /\ Holds(readBuf', h, d, n)
      BY <2>1, <2>2, <2>3, PacketRead
    <2>5. HoldsPacket(readBuf', m)
      BY <2>2, <2>4 DEF HoldsPacket, n, h, d
    <2>6. "codes" \notin DOMAIN got' /\ got'.rc = "none"
      BY <2>2
    <2> QED  BY <2>2, <2>4, <2>5, <2>6 DEF InInv, ReceivedAsSent
  <1>4. CASE Deserialize
    <2> DEFINE m == came
    <2>1. m \in Incoming /\ readBuf \in Block(RxBufLen) /\ HoldsPacket(readBuf, m)
      BY <1>4 DEF Deserialize, InInv
    <2>2. /\ readBuf' = readBuf /\ came' = came
          /\ got' = CASE m.type = PUBLISH -> DeserializePublish(readBuf)
                      [] m.type \in {PUBACK, UNSUBACK} -> DeserializeAck(readBuf)
                      [] m.type = CONNACK -> DeserializeConnack(readBuf)
                      [] m.type = SUBACK  -> DeserializeSuback(readBuf)
      <3>1. TypeOf(readBuf) = m.type
        BY <2>1, Understood
      <3> HIDE DEF m
      <3> QED  BY <1>4, <3>1, Zenon DEF Deserialize
    <2>3. CASE m.type = PUBLISH
      <3> DEFINE t == m.topic
                 id == m.id
                 qos == m.qos
                 dup == m.dup
                 retained == m.retained
                 x == Text(m.payload)
      <3>1. got' = DeserializePublish(readBuf)
        BY <2>2, <2>3 DEF CONNACK, PUBLISH, SUBACK, UNSUBACK, PUBACK
      <3>2. got' = [rc |-> "MQTT_SUCCESS", type |-> PUBLISH, dup |-> dup, qos |-> qos, retained |-> retained,
                    topic |-> t, id |-> IF qos # 0 THEN id ELSE 0, payload |-> x]
        BY <2>1, <2>3, <3>1, Understood, Zenon
      <3> HIDE DEF t, id, qos, dup, retained, x
      <3>3. /\ got'.rc = "MQTT_SUCCESS" /\ got'.type = PUBLISH /\ got'.dup = dup /\ got'.qos = qos
            /\ got'.retained = retained /\ got'.topic = t /\ got'.payload = x
            /\ (got'.qos # 0 => got'.id = id) /\ "codes" \notin DOMAIN got'
        BY <3>2
      <3>4. PUBLISH \notin {PUBACK, UNSUBACK, SUBACK} /\ PUBLISH # CONNACK /\ PUBLISH # SUBACK
        BY DEF CONNACK, PUBLISH, SUBACK, UNSUBACK, PUBACK
      <3>5. ReceivedAsSent'
        BY <2>2, <2>3, <3>3, <3>4, Zenon DEF ReceivedAsSent, t, id, qos, dup, retained, x
      <3>6. got'.rc # "none"
        BY <3>3
      <3> QED  BY <2>1, <2>2, <3>3, <3>5, <3>6 DEF InInv
    <2>4. CASE m.type \in {PUBACK, UNSUBACK}
      <3>1. got' = DeserializeAck(readBuf)
        BY <2>2, <2>4 DEF CONNACK, PUBLISH, SUBACK, UNSUBACK, PUBACK
      <3>2. got' = [rc |-> "MQTT_SUCCESS", type |-> m.type, id |-> m.id]
        BY <2>1, <2>4, <3>1, Understood, Zenon
      <3>3. got'.rc = "MQTT_SUCCESS" /\ got'.type = m.type /\ got'.id = m.id /\ "codes" \notin DOMAIN got'
        BY <3>2
      <3>4. m.type \notin {PUBLISH, CONNACK, SUBACK}
        BY <2>4 DEF CONNACK, PUBLISH, SUBACK, UNSUBACK, PUBACK
      <3> QED  BY <2>1, <2>2, <3>3, <3>4 DEF InInv, ReceivedAsSent
    <2>5. CASE m.type = CONNACK
      <3>1. got' = DeserializeConnack(readBuf)
        BY <2>2, <2>5 DEF CONNACK, PUBLISH, SUBACK, UNSUBACK, PUBACK
      <3>2. got' = [rc |-> "MQTT_SUCCESS", type |-> CONNACK, code |-> m.code]
        BY <2>1, <2>5, <3>1, Understood, Zenon
      <3>3. got'.rc = "MQTT_SUCCESS" /\ got'.type = m.type /\ got'.code = m.code /\ "codes" \notin DOMAIN got'
        BY <2>5, <3>2
      <3>4. m.type \notin {PUBLISH, PUBACK, UNSUBACK, SUBACK}
        BY <2>5 DEF CONNACK, PUBLISH, SUBACK, UNSUBACK, PUBACK
      <3> QED  BY <2>1, <2>2, <3>3, <3>4 DEF InInv, ReceivedAsSent
    <2>6. CASE m.type = SUBACK
      <3> DEFINE c == m.codes
                 id == m.id
      <3>1. got' = DeserializeSuback(readBuf)
        BY <2>2, <2>6 DEF CONNACK, PUBLISH, SUBACK, UNSUBACK, PUBACK
      <3>2. /\ Len(got'.codes) <= GrantedQoS
            /\ \/ got'.rc = "MQTT_FAILURE"
               \/ got' = [rc |-> "MQTT_SUCCESS", type |-> SUBACK, id |-> id, codes |-> c]
        BY <2>1, <2>6, <3>1, Understood, Zenon
      <3> HIDE DEF c, id
      <3>3. \/ got'.rc = "MQTT_FAILURE"
            \/ got'.rc = "MQTT_SUCCESS" /\ got'.type = SUBACK /\ got'.id = id /\ got'.codes = c
        BY <3>2
      <3>4. SUBACK \notin {PUBLISH, CONNACK}
        BY DEF CONNACK, PUBLISH, SUBACK, UNSUBACK, PUBACK
      <3>5. got'.rc # "none" /\ (got'.rc = "MQTT_SUCCESS" => got'.type = SUBACK /\ got'.id = id /\ got'.codes = c)
        BY <3>3
      <3>6. ReceivedAsSent'
        BY <2>2, <2>6, <3>4, <3>5, Zenon DEF ReceivedAsSent, c, id
      <3> QED  BY <2>1, <2>2, <3>2, <3>5, <3>6 DEF InInv
    <2> QED  BY <2>1, <2>3, <2>4, <2>5, <2>6, IncomingTypes
  <1>5. CASE UNCHANGED vars
    BY <1>5 DEF vars, InInv, ReceivedAsSent
  <1> QED  BY <1>1, <1>2, <1>3, <1>4, <1>5 DEF Next

LEMMA InInit == Init => InInv
  <1> SUFFICES ASSUME Init PROVE InInv
    OBVIOUS
  <1>1. readBuf \in Block(RxBufLen)
    BY RxBufLenIs DEF Init, Block
  <1>2. got.rc = "MQTT_FAILURE" /\ "codes" \notin DOMAIN got
    BY DEF Init, Failure
  <1> QED  BY <1>1, <1>2 DEF InInv, ReceivedAsSent

(* Whatever an earlier packet left in readBuf, and although no             *)
(* deserialiser is told how long the packet is, what it returns is what    *)
(* the broker sent, for every length of buffer, topic and payload.         *)
THEOREM ReceiverCorrect == Spec => [](InInv /\ ReceivedAsSent)
  <1>1. InInv => ReceivedAsSent
    BY DEF InInv
  <1> QED  BY <1>1, InInit, InStep, PTL DEF Spec

(* writeBuf, readBuf and the array of granted QoS are never written past   *)
(* their ends.                                                             *)
THEOREM BuffersAreLongEnough == Spec => []BuffersHold
  <1>1. Init => OutInv /\ InInv
    BY InInit DEF Init, OutInv, RefusedIfTooLong, Unsent
  <1>2. OutInv /\ InInv /\ [Next]_vars => OutInv' /\ InInv'
    BY OutStep, InStep
  <1>3. OutInv /\ InInv => BuffersHold
    BY DEF OutInv, InInv, BuffersHold, Block
  <1> QED  BY <1>1, <1>2, <1>3, PTL DEF Spec

----------------------------------------------------------------------------
(* What goes out, read by a broker.                                        *)

(* One step of the broker's reading of strings, from place i of b on, when *)
(* g says what it reads from later places.                                 *)
StringsFrom(b, g, i) ==
  IF i > Len(b) THEN <<>>
  ELSE IF i = Len(b) \/ i + 1 + Uint16At(b, i) > Len(b)
  THEN <<SubSeq(b, i, Len(b))>>
  ELSE <<SubSeq(b, i + 2, i + 1 + Uint16At(b, i))>> \o g[i + 2 + Uint16At(b, i)]

Reads(f, b) == f = [i \in 1..(Len(b) + 1) |-> StringsFrom(b, f, i)]

LEMMA Uint16AtIs ==
  ASSUME NEW b, NEW i, b[i] \in Nat, b[i + 1] \in Nat
  PROVE  Uint16At(b, i) \in Nat
  <1>1. 2 * Radix \in Nat
    BY Thresholds
  <1>2. \A x, y, z \in Nat : x * y + z \in Nat
    OBVIOUS
  <1> QED  BY <1>1, <1>2 DEF Uint16At

LEMMA PartIs ==
  ASSUME NEW b \in Seq(Nat), NEW x \in Nat, NEW y \in Nat, x >= 1, y <= Len(b), x <= y + 1
  PROVE  /\ SubSeq(b, x, y) \in Seq(Nat) /\ Len(SubSeq(b, x, y)) = y - x + 1
         /\ \A i \in 1..(y - x + 1) : SubSeq(b, x, y)[i] = b[x + i - 1]
  <1>1. \A i \in x..y : b[i] \in Nat
    OBVIOUS
  <1> DEFINE c == SubSeq(b, x, y)
  <1>2. /\ c \in Seq(Nat) /\ Len(c) = IF x <= y THEN y - x + 1 ELSE 0
        /\ \A i \in 1..(y - x + 1) : c[i] = b[x + i - 1]
    BY <1>1, SubSeqProperties
  <1> HIDE DEF c
  <1> QED  BY <1>2 DEF c

(* What is read behind k bytes is what is read without them.               *)
LEMMA ReadsShifted ==
  ASSUME NEW k \in Nat, NEW s \in Block(k), NEW r \in Seq(Nat), NEW f, NEW g,
         Reads(f, s \o r), Reads(g, r)
  PROVE  \A i \in 1..(Len(r) + 1) : f[k + i] = g[i]
  <1> DEFINE b == s \o r
             l == Len(r)
  <1>1. /\ l \in Nat /\ b \in Seq(Nat) /\ Len(b) = k + l
        /\ \A i \in 1..l : b[k + i] = r[i] /\ r[i] \in Nat
    BY Joined DEF Block
  <1>2. ASSUME NEW x \in Nat, NEW y \in Nat, x >= 1, y <= l, x <= y + 1
        PROVE  SubSeq(b, k + x, k + y) = SubSeq(r, x, y)
    <2> HIDE DEF b, l
    <2>1. /\ SubSeq(r, x, y) \in Seq(Nat) /\ Len(SubSeq(r, x, y)) = y - x + 1
          /\ \A i \in 1..(y - x + 1) : SubSeq(r, x, y)[i] = r[x + i - 1]
      BY <1>2, PartIs DEF l
    <2>2. /\ SubSeq(b, k + x, k + y) \in Seq(Nat) /\ Len(SubSeq(b, k + x, k + y)) = (k + y) - (k + x) + 1
          /\ \A i \in 1..((k + y) - (k + x) + 1) : SubSeq(b, k + x, k + y)[i] = b[(k + x) + i - 1]
      <3>1. k + x \in Nat /\ k + y \in Nat /\ k + x >= 1 /\ k + y <= Len(b) /\ k + x <= k + y + 1
        BY <1>1, <1>2
      <3> QED  BY <1>1, <3>1, PartIs
    <2>3. (k + y) - (k + x) + 1 = y - x + 1
      OBVIOUS
    <2>4. ASSUME NEW i \in 1..(y - x + 1)  PROVE SubSeq(b, k + x, k + y)[i] = SubSeq(r, x, y)[i]
      <3>1. x + i - 1 \in 1..l /\ (k + x) + i - 1 = k + (x + i - 1)
        BY <1>1, <1>2
      <3> QED  BY <1>1, <2>1, <2>2, <2>3, <3>1
    <2> DEFINE c == SubSeq(b, k + x, k + y)
               d == SubSeq(r, x, y)
    <2>5. c \in Seq(Nat) /\ d \in Seq(Nat) /\ Len(c) = Len(d) /\ \A i \in 1..Len(c) : c[i] = d[i]
      BY <2>1, <2>2, <2>3, <2>4
    <2> HIDE DEF c, d
    <2>6. c = d
      BY <2>5, SeqEqual
    <2> QED  BY <2>6 DEF c, d
  <1> DEFINE U == {j \in Nat : \A i \in 1..(l + 1) : l + 1 - i < j => f[k + i] = g[i]}
  <1>3. 0 \in U
    BY <1>1
  <1>4. ASSUME NEW j \in Nat, j \in U  PROVE j + 1 \in U
    <2>1. ASSUME NEW i \in 1..(l + 1), l + 1 - i < j + 1  PROVE f[k + i] = g[i]
      <3>1. f[k + i] = StringsFrom(b, f, k + i) /\ g[i] = StringsFrom(r, g, i)
        <4>1. k + i \in 1..(Len(b) + 1) /\ i \in 1..(Len(r) + 1)
          BY <1>1
        <4> HIDE DEF b
        <4>2. Reads(f, b) /\ Reads(g, r)
          BY DEF b
        <4> QED  BY <4>1, <4>2 DEF Reads
      <3> DEFINE u == Uint16At(r, i)
                 v == Uint16At(b, k + i)
      <3>2. CASE i > l
        <4>1. k + i > Len(b)
          BY <1>1, <3>2
        <4> HIDE DEF b
        <4> QED  BY <3>1, <3>2, <4>1 DEF StringsFrom
      <3>3. CASE i = l
        <4>1. ~ (k + i > Len(b)) /\ k + i = Len(b) /\ ~ (i > Len(r))
          BY <1>1, <3>3
        <4>2. StringsFrom(b, f, k + i) = <<SubSeq(b, k + i, Len(b))>>
          BY <4>1, Zenon DEF StringsFrom
        <4>3. StringsFrom(r, g, i) = <<SubSeq(r, i, Len(r))>>
          BY <3>3, <4>1, Zenon DEF StringsFrom
        <4>4. SubSeq(b, k + i, k + l) = SubSeq(r, i, l)
          <5>1. i \in Nat /\ i >= 1 /\ l <= l /\ i <= l + 1
            BY <1>1
          <5> HIDE DEF b, l
          <5> QED  BY <1>1, <1>2, <5>1
        <4>5. <<SubSeq(b, k + i, Len(b))>> = <<SubSeq(r, i, Len(r))>>
          BY <1>1, <4>4, Zenon
        <4> QED  BY <3>1, <4>2, <4>3, <4>5, Zenon
      <3>4. CASE i < l
        <4>1. u = v /\ u \in Nat
          <5>1. b[k + i] = r[i] /\ b[k + i + 1] = r[i + 1] /\ r[i] \in Nat /\ r[i + 1] \in Nat
            <6>1. i \in 1..l /\ i + 1 \in 1..l /\ k + i + 1 = k + (i + 1)
              BY <1>1, <3>4
            <6> HIDE DEF b, l
            <6> QED  BY <1>1, <6>1
          <5> HIDE DEF b, l
          <5>2. u = v
            BY <5>1 DEF Uint16At
          <5>3. u \in Nat
            BY <5>1, Uint16AtIs
          <5> QED  BY <5>2, <5>3
        <4>2. ~ (k + i > Len(b)) /\ k + i # Len(b) /\ ~ (i > Len(r)) /\ i # Len(r)
          BY <1>1, <3>4
        <4> HIDE DEF u, v
        <4>3. k + i + 1 + v > Len(b) <=> i + 1 + u > Len(r)
          <5> HIDE DEF b
          <5> QED  BY <1>1, <4>1
        <4>4. CASE i + 1 + u > Len(r)
          <5>1. StringsFrom(b, f, k + i) = <<SubSeq(b, k + i, Len(b))>>
            BY <4>2, <4>3, <4>4, Zenon DEF StringsFrom, v
          <5>2. StringsFrom(r, g, i) = <<SubSeq(r, i, Len(r))>>
            BY <4>2, <4>4, Zenon DEF StringsFrom, u
          <5>3. SubSeq(b, k + i, k + l) = SubSeq(r, i, l)
            <6>1. i \in Nat /\ i >= 1 /\ l <= l /\ i <= l + 1
              BY <1>1
            <6> HIDE DEF b, l
            <6> QED  BY <1>1, <1>2, <6>1
          <5>4. <<SubSeq(b, k + i, Len(b))>> = <<SubSeq(r, i, Len(r))>>
            BY <1>1, <5>3, Zenon
          <5> QED  BY <3>1, <5>1, <5>2, <5>4, Zenon
        <4>5. CASE ~ (i + 1 + u > Len(r))
          <5>1. StringsFrom(b, f, k + i) = <<SubSeq(b, k + i + 2, k + i + 1 + v)>> \o f[k + i + 2 + v]
            BY <4>2, <4>3, <4>5, Zenon DEF StringsFrom, v
          <5>2. StringsFrom(r, g, i) = <<SubSeq(r, i + 2, i + 1 + u)>> \o g[i + 2 + u]
            BY <4>2, <4>5, Zenon DEF StringsFrom, u
          <5>3. SubSeq(b, k + (i + 2), k + (i + 1 + u)) = SubSeq(r, i + 2, i + 1 + u)
            <6>1. i + 2 \in Nat /\ i + 1 + u \in Nat /\ i + 2 >= 1 /\ i + 1 + u <= l /\ i + 2 <= i + 1 + u + 1
              BY <1>1, <4>1, <4>5
            <6> HIDE DEF b, l
            <6> QED  BY <6>1, <1>2
          <5>4. f[k + (i + 2 + u)] = g[i + 2 + u]
            <6>1. i + 2 + u \in 1..(l + 1) /\ l + 1 - (i + 2 + u) < j
              BY <1>1, <2>1, <4>1, <4>5
            <6> HIDE DEF l
            <6> QED  BY <1>4, <6>1
          <5>5. k + i + 2 = k + (i + 2) /\ k + i + 1 + v = k + (i + 1 + u) /\ k + i + 2 + v = k + (i + 2 + u)
            BY <4>1
          <5> QED  BY <3>1, <5>1, <5>2, <5>3, <5>4, <5>5, Zenon
        <4> QED  BY <4>4, <4>5
      <3> QED  BY <1>1, <3>2, <3>3, <3>4
    <2> QED  BY <2>1
  <1>5. Nat \subseteq U
    <2> HIDE DEF U
    <2> QED  BY <1>3, <1>4, Induction
  <1>6. ASSUME NEW i \in 1..(l + 1)  PROVE f[k + i] = g[i]
    <2>1. l + 1 - i + 1 \in U /\ l + 1 - i < l + 1 - i + 1
      <3>1. l + 1 - i + 1 \in Nat /\ l + 1 - i < l + 1 - i + 1
        BY <1>1
      <3> HIDE DEF U
      <3> QED  BY <3>1, <1>5
    <2> HIDE DEF l
    <2> QED  BY <2>1
  <1> QED  BY <1>6

LEMMA ReadsOnce ==
  ASSUME NEW b \in Seq(Nat), NEW f, NEW g, Reads(f, b), Reads(g, b)
  PROVE  f[1] = g[1]
  <1> DEFINE e == <<>>
             k == 0
  <1>1. k \in Nat /\ e \in Block(k) /\ k + 1 = 1 /\ 1 \in 1..(Len(b) + 1)
    BY BlockEmpty
  <1>2. Reads(f, e \o b)
    BY BlockEmpty
  <1> HIDE DEF e, k
  <1>3. \A i \in 1..(Len(b) + 1) : f[k + i] = g[i]
    BY <1>1, <1>2, ReadsShifted
  <1> QED  BY <1>1, <1>3

LEMMA StringsFromIs ==
  ASSUME NEW b \in Seq(Nat), NEW i \in 1..(Len(b) + 1), NEW g \in [1..(Len(b) + 1) -> Seq(Seq(Nat))]
  PROVE  /\ StringsFrom(b, g, i) \in Seq(Seq(Nat))
         /\ \A h \in [1..(Len(b) + 1) -> Seq(Seq(Nat))] :
              (\A j \in (i + 1)..(Len(b) + 1) : g[j] = h[j]) => StringsFrom(b, g, i) = StringsFrom(b, h, i)
  <1> DEFINE l == Len(b)
             n == Uint16At(b, i)
             over == i + 1 + n > l
             T == Seq(Seq(Nat))
  <1>1. l \in Nat
    OBVIOUS
  <1>2. \A s \in Seq(Nat) : <<s>> \in T
    OBVIOUS
  <1>3. \A s, t \in T : s \o t \in T
    OBVIOUS
  <1>4. CASE i > l
    <2>1. StringsFrom(b, g, i) = <<>> /\ \A h : StringsFrom(b, h, i) = <<>>
      BY <1>4, Zenon DEF StringsFrom
    <2>2. <<>> \in T
      OBVIOUS
    <2> QED  BY <2>1, <2>2
  <1>5. CASE i = l \/ (i < l /\ over)
    <2>1. ~ (i > l) /\ (i = l \/ i + 1 + n > l)
      BY <1>1, <1>5
    <2>2. \A h : StringsFrom(b, h, i) = <<SubSeq(b, i, l)>>
      <3> TAKE h
      <3> QED  BY <2>1, Zenon DEF StringsFrom
    <2>3. SubSeq(b, i, l) \in Seq(Nat)
      BY <1>1, <2>1, PartIs
    <2>4. <<SubSeq(b, i, l)>> \in T
      BY <1>2, <2>3, Zenon
    <2> QED  BY <2>2, <2>4, Zenon
  <1>6. CASE i < l /\ ~over
    <2>1. n \in Nat
      <3>1. b[i] \in Nat /\ b[i + 1] \in Nat
        BY <1>1, <1>6
      <3> QED  BY <3>1, Uint16AtIs
    <2>2. ~ (i > l) /\ ~ (i = l \/ i + 1 + n > l)
      BY <1>1, <1>6
    <2> DEFINE c == SubSeq(b, i + 2, i + 1 + n)
               j == i + 2 + n
    <2>3. \A h : StringsFrom(b, h, i) = <<c>> \o h[j]
      <3> TAKE h
      <3> QED  BY <2>2, Zenon DEF StringsFrom
    <2>4. c \in Seq(Nat) /\ j \in (i + 1)..(l + 1) /\ j \in 1..(l + 1)
      <3>1. i + 2 \in Nat /\ i + 1 + n \in Nat /\ i + 2 >= 1 /\ i + 1 + n <= l /\ i + 2 <= i + 1 + n + 1
        BY <1>1, <1>6, <2>1
      <3>2. j \in (i + 1)..(l + 1) /\ j \in 1..(l + 1)
        BY <1>1, <2>1, <1>6
      <3> HIDE DEF n
      <3> QED  BY <3>1, <3>2, PartIs
    <2> HIDE DEF c, j
    <2>5. <<c>> \in T /\ g[j] \in T
      BY <2>4, <1>2
    <2>6. <<c>> \o g[j] \in T
      BY <2>5, <1>3, Zenon
    <2>7. StringsFrom(b, g, i) \in T
      BY <2>3, <2>6, Zenon
    <2> QED  BY <2>3, <2>4, <2>7, Zenon
  <1>7. i > l \/ i = l \/ i < l
    BY <1>1
  <1> HIDE DEF l, n, over
  <1> QED  BY <1>4, <1>5, <1>6, <1>7

LEMMA StringsUnfolded ==
  ASSUME NEW b \in Seq(Nat)
  PROVE  \E f \in [1..(Len(b) + 1) -> Seq(Seq(Nat))] : Reads(f, b) /\ Strings(b) = f[1]
  <1> DEFINE l == Len(b)
             S == 1..(l + 1)
             T == Seq(Seq(Nat))
             F == [S -> T]
             D == [p \in F \X S |-> StringsFrom(b, p[1], p[2])]
             m == [i \in S |-> l + 1 - i]
  <1>1. l \in Nat
    OBVIOUS
  <1>2. ASSUME NEW g \in F, NEW i \in S  PROVE D[<<g, i>>] = StringsFrom(b, g, i) /\ StringsFrom(b, g, i) \in T
    <2>1. <<g, i>> \in F \X S /\ <<g, i>>[1] = g /\ <<g, i>>[2] = i
      OBVIOUS
    <2> HIDE DEF F, S
    <2>2. D[<<g, i>>] = StringsFrom(b, g, i)
      BY <2>1
    <2>3. StringsFrom(b, g, i) \in T
      <3> HIDE DEF D, T, l
      <3> QED  BY StringsFromIs DEF F, S, T, l
    <2> QED  BY <2>2, <2>3
  <1>3. D \in [F \X S -> T]
    <2>1. \A p \in F \X S : D[p] \in T
      <3> TAKE p \in F \X S
      <3>1. p[1] \in F /\ p[2] \in S /\ p = <<p[1], p[2]>>
        OBVIOUS
      <3> HIDE DEF D, F, S, T
      <3> QED  BY <1>2, <3>1
    <2> HIDE DEF F, S, T
    <2> QED  BY <2>1
  <1>4. ReadsBelow(D, m, S, T)
    <2> SUFFICES ASSUME NEW g \in F, NEW h \in F, NEW i \in S, \A y \in S : m[y] < m[i] => g[y] = h[y]
                 PROVE  D[<<g, i>>] = D[<<h, i>>]
      <3> HIDE DEF D, S, T, m
      <3> QED  BY DEF ReadsBelow, F
    <2>1. \A j \in (i + 1)..(l + 1) : g[j] = h[j]
      <3> TAKE j \in (i + 1)..(l + 1)
      <3>1. j \in S /\ m[j] < m[i]
        BY <1>1
      <3> QED  BY <3>1
    <2>2. StringsFrom(b, g, i) = StringsFrom(b, h, i)
      <3> HIDE DEF D, m, l
      <3> QED  BY <2>1, StringsFromIs DEF l
    <2> HIDE DEF D, F, S
    <2> QED  BY <1>2, <2>2
  <1>5. \E f \in F : Solves(f, D, S)
    <2>1. m \in [S -> Nat]
      BY <1>1
    <2>2. T # {}
      <3>1. <<>> \in T
        OBVIOUS
      <3> QED  BY <3>1
    <2> HIDE DEF D, m, S, T
    <2> QED  BY <1>3, <1>4, <2>1, <2>2, Recursion DEF F
  <1>6. PICK f \in F : Reads(f, b)
    <2>1. PICK f \in F : f = [i \in S |-> D[<<f, i>>]]
      <3> HIDE DEF D, S
      <3> QED  BY <1>5 DEF Solves
    <2>2. \A i \in S : D[<<f, i>>] = StringsFrom(b, f, i)
      BY <1>2
    <2>3. f = [i \in S |-> StringsFrom(b, f, i)]
      <3> HIDE DEF D, S
      <3> QED  BY <2>1, <2>2
    <2> QED  BY <2>3 DEF Reads
  <1> DEFINE E(g) == g = [i \in 1..(Len(b) + 1) |->
                IF i > Len(b) THEN <<>>
                ELSE IF i = Len(b) \/ i + 1 + Uint16At(b, i) > Len(b)
                THEN <<SubSeq(b, i, Len(b))>>
                ELSE <<SubSeq(b, i + 2, i + 1 + Uint16At(b, i))>> \o g[i + 2 + Uint16At(b, i)]]
             c == CHOOSE g : E(g)
  <1>7. E(c)
    <2>1. E(f)
      BY <1>6, Zenon DEF Reads, StringsFrom
    <2> HIDE DEF E
    <2> QED  BY <2>1
  <1>8. Reads(c, b)
    <2> HIDE DEF c
    <2> QED  BY <1>7, Zenon DEF Reads, StringsFrom
  <1>9. Strings(b) = c[1]
    BY Zenon DEF Strings
  <1>10. c[1] = f[1]
    <2> HIDE DEF c, F, l, S, D, m
    <2> QED  BY <1>6, <1>8, ReadsOnce
  <1> HIDE DEF c
  <1> QED  BY <1>6, <1>9, <1>10

LEMMA StringsEmpty == Strings(<<>>) = <<>>
  <1> DEFINE b == <<>>
  <1>1. b \in Seq(Nat) /\ Len(b) = 0 /\ 1 \in 1..(Len(b) + 1) /\ 1 > Len(b)
    OBVIOUS
  <1> HIDE DEF b
  <1>2. PICK f : Reads(f, b) /\ Strings(b) = f[1]
    BY <1>1, StringsUnfolded
  <1>3. f[1] = StringsFrom(b, f, 1)
    BY <1>1, <1>2 DEF Reads
  <1>4. StringsFrom(b, f, 1) = <<>>
    BY <1>1, Zenon DEF StringsFrom
  <1> QED  BY <1>2, <1>3, <1>4 DEF b

(* The first string that is read is the first that was written.            *)
LEMMA StringsJoined ==
  ASSUME NEW n \in Nat, NEW r \in Seq(Nat)
  PROVE  /\ Strings(r) \in Seq(Seq(Nat))
         /\ Strings(Utf8(n) \o r) = <<Text(n)>> \o Strings(r)
  <1> DEFINE k == n + 2
             s == Utf8(n)
             b == s \o r
             l == Len(r)
  <1>1. k \in Nat /\ s \in Block(k)
    BY BlockUtf8
  <1>2. l \in Nat /\ r \in Block(l)
    BY DEF Block
  <1>3. b \in Block(k + l) /\ k + l \in Nat
    <2> HIDE DEF s, k, l
    <2> QED  BY <1>1, <1>2, BlockJoined
  <1>4. b \in Seq(Nat) /\ Len(b) = k + l
    <2> HIDE DEF b, k
    <2> QED  BY <1>3 DEF Block
  <1> HIDE DEF b
  <1>5. PICK f \in [1..(Len(b) + 1) -> Seq(Seq(Nat))] : Reads(f, b) /\ Strings(b) = f[1]
    BY <1>4, StringsUnfolded
  <1>6. PICK g \in [1..(Len(r) + 1) -> Seq(Seq(Nat))] : Reads(g, r) /\ Strings(r) = g[1]
    BY StringsUnfolded
  <1>7. f[k + 1] = g[1]
    <2>1. Reads(f, s \o r)
      BY <1>5 DEF b
    <2> HIDE DEF s, k, l
    <2>2. \A i \in 1..(Len(r) + 1) : f[k + i] = g[i]
      BY <1>1, <1>6, <2>1, ReadsShifted
    <2>3. 1 \in 1..(Len(r) + 1)
      BY <1>2 DEF l
    <2> QED  BY <2>2, <2>3
  <1>8. At(b, 1, b)
    <2>1. \A i \in 1..Len(b) : 1 + i - 1 = i
      BY <1>4
    <2> QED  BY <2>1 DEF At
  <1>9. At(b, 1, Uint16(n)) /\ At(b, 3, Text(n))
    <2>1. At(b, 1, s \o r)
      BY <1>8 DEF b
    <2>2. At(b, 1, s)
      <3> HIDE DEF s, k, l
      <3> QED  BY <1>1, <1>2, <2>1, AtJoined
    <2>3. At(b, 1, Uint16(n) \o Text(n))
      BY <2>2 DEF Utf8
    <2>4. At(b, 1, Uint16(n)) /\ At(b, 1 + 2, Text(n))
      BY <2>3, BlockUint16, BlockText, AtJoined
    <2> QED  BY <2>4
  <1>10. Uint16At(b, 1) = n
    BY <1>9, AtUint16
  <1>11. SubSeq(b, 3, n + 2) = Text(n)
    <2>1. 3 + n <= (k + l) + 1
      BY <1>2
    <2>2. SubSeq(b, 3, 3 + n - 1) = Text(n)
      <3> HIDE DEF k, l
      <3> QED  BY <1>3, <1>9, <2>1, BlockText, AtSubSeq
    <2>3. 3 + n - 1 = n + 2
      OBVIOUS
    <2> QED  BY <2>2, <2>3, Zenon
  <1>12. f[1] = StringsFrom(b, f, 1)
    <2>1. 1 \in 1..(Len(b) + 1)
      BY <1>2, <1>4
    <2> QED  BY <2>1, <1>5 DEF Reads
  <1>13. StringsFrom(b, f, 1) = <<SubSeq(b, 3, n + 2)>> \o f[n + 3]
    <2>1. ~ (1 > Len(b)) /\ 1 # Len(b) /\ ~ (1 + 1 + n > Len(b))
      BY <1>2, <1>4
    <2>2. StringsFrom(b, f, 1) = <<SubSeq(b, 1 + 2, 1 + 1 + n)>> \o f[1 + 2 + n]
      BY <1>10, <2>1, Zenon DEF StringsFrom
    <2>3. 1 + 2 = 3 /\ 1 + 1 + n = n + 2 /\ 1 + 2 + n = n + 3
      OBVIOUS
    <2> QED  BY <2>2, <2>3, Zenon
  <1>14. k + 1 = n + 3
    OBVIOUS
  <1>15. Strings(b) = <<Text(n)>> \o Strings(r)
    BY <1>5, <1>6, <1>7, <1>11, <1>12, <1>13, <1>14, Zenon
  <1>16. Strings(r) \in Seq(Seq(Nat))
    <2>1. 1 \in 1..(Len(r) + 1)
      BY <1>2
    <2> QED  BY <1>6, <2>1
  <1> QED  BY <1>15, <1>16 DEF b

LEMMA AtSelf ==
  ASSUME NEW b \in Seq(Nat)
  PROVE  At(b, 1, b)
  <1>1. \A i \in 1..Len(b) : 1 + i - 1 = i
    OBVIOUS
  <1> QED  BY <1>1 DEF At

(* The data that follows the length of a packet that was written.          *)
LEMMA WrittenFound ==
  ASSUME NEW p \in Requests, RemLen(p) < R4
  PROVE  BrokerReads(Written(p)) =
           [header |-> HeaderOf(p), exact |-> TRUE, view |-> View(HeaderOf(p), Body(p))]
  <1> DEFINE n == RemLen(p)
             d == Body(p)
             h == HeaderOf(p)
             b == Written(p)
             size == PacketSize(RemLen(p))
  <1>1. n \in Nat /\ n < R4 /\ d \in Block(n) /\ h \in Nat
    BY BodyIs, HeaderIs
  <1>2. b \in Seq(Nat) /\ Len(b) = size
    BY WrittenIs
  <1>3. b = <<h>> \o WriteLen[n] \o d
    BY DEF Written
  <1>4. size \in Nat /\ size = 1 + LenBytes(n) + n /\ LenBytes(n) \in Nat
    <2> HIDE DEF n
    <2>1. PacketSize(n) \in Nat /\ PacketSize(n) = 1 + LenBytes(n) + n
      BY <1>1, PacketSizeIs
    <2>2. LenBytes(n) \in Nat
      BY <1>1, LenBytesIs
    <2> QED  BY <2>1, <2>2 DEF n
  <1> HIDE DEF n, d, h, b, size
  <1>5. Holds(b, h, d, n)
    BY <1>1, <1>2, <1>3, AtSelf, PacketHeld
  <1>6. b[1] = h /\ Start(b) = 2 + LenBytes(n) /\ LengthField(b).value = n /\ At(b, Start(b), d)
    BY <1>1, <1>5, Found, AtFound
  <1>7. SubSeq(b, Start(b), Len(b)) = d
    <2> DEFINE a == Start(b)
    <2>1. a \in Nat /\ a >= 1 /\ a + n = size + 1 /\ At(b, a, d)
      BY <1>1, <1>4, <1>6
    <2>2. b \in Block(size)
      BY <1>2 DEF Block
    <2> HIDE DEF a
    <2>3. SubSeq(b, a, a + n - 1) = d
      BY <1>1, <1>4, <2>1, <2>2, AtSubSeq
    <2>4. a + n - 1 = size
      BY <1>1, <1>4, <2>1
    <2> QED  BY <1>2, <2>3, <2>4, Zenon DEF a
  <1>8. (n = Len(d)) = TRUE
    BY <1>1 DEF Block
  <1>9. BrokerReads(b) = [header |-> h, exact |-> (n = Len(d)), view |-> View(h, d)]
    BY <1>6, <1>7, Zenon DEF BrokerReads
  <1> QED  BY <1>8, <1>9, Zenon DEF n, d, h, b

LEMMA FixedIs ==
  ASSUME NEW p \in Requests
  PROVE  HeaderOf(p) = Fixed(p) /\ HeaderOf(p) \div 16 = p.type
  BY RequestTypes DEF HeaderOf, Fixed, Header, CONNECT, PUBLISH, SUBSCRIBE, UNSUBSCRIBE, PUBACK,
     PINGREQ, DISCONNECT

(* The pieces of b = s \o t \o u, when the first is of k and the second of  *)
(* l bytes, by their places.                                               *)
Pieces(b, s, t, u, k, l) ==
  /\ SubSeq(b, 1, k) = s
  /\ SubSeq(b, k + 1, k + l) = t
  /\ SubSeq(b, k + l + 1, Len(b)) = u

LEMMA Slice ==
  ASSUME NEW k \in Nat, NEW l \in Nat, NEW j \in Nat,
         NEW s \in Block(k), NEW t \in Block(l), NEW u \in Block(j)
  PROVE  Pieces(s \o t \o u, s, t, u, k, l)
  <1> DEFINE b == s \o t \o u
             n == (k + l) + j
  <1>1. s \o t \in Block(k + l) /\ k + l \in Nat
    BY BlockJoined
  <1>2. b \in Block(n) /\ n \in Nat
    BY <1>1, BlockJoined
  <1>3. b \in Seq(Nat) /\ Len(b) = n
    <2> HIDE DEF b, n
    <2> QED  BY <1>2 DEF Block
  <1>4. At(b, 1, (s \o t) \o u)
    <2>1. At(b, 1, b)
      BY <1>3, AtSelf
    <2> QED  BY <2>1
  <1> HIDE DEF b
  <1>5. At(b, 1, s \o t) /\ At(b, 1 + (k + l), u)
    BY <1>1, <1>4, AtJoined
  <1>6. At(b, 1, s) /\ At(b, 1 + k, t)
    BY <1>5, AtJoined
  <1>7. SubSeq(b, 1, 1 + k - 1) = s /\ SubSeq(b, 1 + k, (1 + k) + l - 1) = t
    BY <1>2, <1>6, AtSubSeq
  <1>8. SubSeq(b, 1 + (k + l), (1 + (k + l)) + j - 1) = u
    BY <1>1, <1>2, <1>5, AtSubSeq
  <1>9. /\ 1 + k = k + 1 /\ (1 + k) + l - 1 = k + l /\ 1 + (k + l) = k + l + 1
        /\ (1 + (k + l)) + j - 1 = n /\ 1 + k - 1 = k
    OBVIOUS
  <1> QED  BY <1>3, <1>7, <1>8, <1>9, Zenon DEF b, Pieces

LEMMA Halves ==
  ASSUME NEW k \in Nat, NEW l \in Nat, NEW s \in Block(k), NEW t \in Block(l)
  PROVE  Pieces(s \o t, s, t, <<>>, k, l)
  <1> DEFINE e == <<>>
             b == s \o t
             z == 0
  <1>1. e \in Block(z) /\ z \in Nat
    BY BlockEmpty
  <1>2. b \in Seq(Nat)
    BY Joined DEF Block
  <1>3. b \o e = b
    <2> HIDE DEF b
    <2> QED  BY <1>2
  <1> HIDE DEF e, z
  <1>4. Pieces(s \o t \o e, s, t, e, k, l)
    BY <1>1, Slice
  <1> QED  BY <1>3, <1>4, Zenon DEF e

LEMMA StringAlone == \A n \in Nat : Strings(Utf8(n)) = <<Text(n)>>
  <1> TAKE n \in Nat
  <1> DEFINE e == <<>>
             u == Utf8(n)
             t == <<Text(n)>>
  <1>1. e \in Seq(Nat) /\ u \in Seq(Nat) /\ t \in Seq(Seq(Nat))
    <2>1. u \in Seq(Nat) /\ Text(n) \in Seq(Nat)
      BY BlockUtf8, BlockText DEF Block
    <2>2. \A x \in Seq(Nat) : <<x>> \in Seq(Seq(Nat))
      OBVIOUS
    <2>3. e \in Seq(Nat)
      OBVIOUS
    <2> HIDE DEF u
    <2> QED  BY <2>1, <2>2, <2>3
  <1>2. u \o e = u /\ t \o e = t
    <2> HIDE DEF u, t
    <2> QED  BY <1>1, ConcatEmptySeq
  <1>3. Strings(Utf8(n) \o e) = t \o Strings(e)
    BY <1>1, StringsJoined, Zenon
  <1> QED  BY <1>2, <1>3, StringsEmpty, Zenon

LEMMA StringsIf ==
  ASSUME NEW b \in BOOLEAN, NEW n \in Nat, NEW r \in Seq(Nat)
  PROVE  /\ If(b, Utf8(n)) \o r \in Seq(Nat)
         /\ Strings(If(b, Utf8(n)) \o r) = (IF b THEN <<Text(n)>> ELSE <<>>) \o Strings(r)
  <1>1. CASE b
    <2>1. If(b, Utf8(n)) = Utf8(n)
      BY <1>1 DEF If
    <2>2. Utf8(n) \in Seq(Nat)
      BY BlockUtf8 DEF Block
    <2> DEFINE u == Utf8(n)
    <2> HIDE DEF u
    <2>3. u \o r \in Seq(Nat)
      BY <2>2, Joined DEF u
    <2> QED  BY <1>1, <2>1, <2>3, StringsJoined, Zenon DEF u
  <1>2. CASE ~b
    <2> DEFINE e == <<>>
               z == Strings(r)
    <2>1. If(b, Utf8(n)) = e
      BY <1>2 DEF If
    <2>2. z \in Seq(Seq(Nat))
      BY StringsJoined
    <2>3. e \o r = r
      OBVIOUS
    <2>4. e \o z = z
      <3> HIDE DEF z
      <3> QED  BY <2>2
    <2> HIDE DEF e, z
    <2>5. (IF b THEN <<Text(n)>> ELSE e) \o z = z
      BY <1>2, <2>4, Zenon
    <2> QED  BY <2>1, <2>3, <2>5, Zenon DEF e, z
  <1> QED  BY <1>1, <1>2

Regroups(a, b, c, d) == a \o b \o c \o d = a \o (b \o (c \o d))

LEMMA Associates ==
  \A a, b, c \in Seq(Nat) : (a \o b) \o c = a \o (b \o c)
  BY ConcatAssociative

LEMMA Regrouped ==
  ASSUME NEW S, NEW a \in Seq(S), NEW b \in Seq(S), NEW c \in Seq(S), NEW d \in Seq(S)
  PROVE  Regroups(a, b, c, d)
  <1> DEFINE ab == a \o b
             cd == c \o d
  <1>1. ab \in Seq(S) /\ cd \in Seq(S)
    BY ConcatProperties
  <1>2. a \o (b \o cd) = ab \o cd
    <2> HIDE DEF cd
    <2>1. (a \o b) \o cd = a \o (b \o cd)
      BY <1>1, ConcatAssociative
    <2> QED  BY <2>1, Zenon
  <1>3. (ab \o c) \o d = ab \o cd
    <2> HIDE DEF ab
    <2>1. (ab \o c) \o d = ab \o (c \o d)
      BY <1>1, ConcatAssociative
    <2> QED  BY <2>1, Zenon
  <1> QED  BY <1>2, <1>3, Zenon DEF Regroups

(* The four strings, two of them a will's, that follow one another in a    *)
(* CONNECT, each but the first only if its flag is set.                    *)
IsText(t) == t.present \in BOOLEAN /\ t.len \in Nat

ConnectTail(c, w, u, q) ==
  Utf8(c) \o (If(w.present, Utf8(w.len) \o Utf8(w.len))
             \o (If(u.present, Utf8(u.len)) \o If(q.present, Utf8(q.len))))

ConnectTexts(c, w, u, q) == <<Text(c)>> \o Said(w, 2) \o Said(u, 1) \o Said(q, 1)

LEMMA ConnectStrings ==
  ASSUME NEW c \in Nat, NEW w, NEW u, NEW q, IsText(w), IsText(u), IsText(q)
  PROVE  /\ ConnectTail(c, w, u, q) \in Seq(Nat)
         /\ Strings(ConnectTail(c, w, u, q)) = ConnectTexts(c, w, u, q)
  <1> USE DEF IsText
  <1> DEFINE will == If(w.present, Utf8(w.len) \o Utf8(w.len))
             user == If(u.present, Utf8(u.len))
             pass == If(q.present, Utf8(q.len))
             e == <<>>
             V == Seq(Seq(Nat))
  <1>1. \A b \in BOOLEAN : \A n \in Nat : If(b, Utf8(n)) \in Seq(Nat)
    <2>1. \A n \in Nat : Utf8(n) \in Seq(Nat)
      BY BlockUtf8 DEF Block
    <2>2. <<>> \in Seq(Nat)
      OBVIOUS
    <2> QED  BY <2>1, <2>2 DEF If
  <1>2. user \in Seq(Nat) /\ pass \in Seq(Nat)
    BY <1>1
  <1>3. Utf8(c) \in Seq(Nat) /\ Utf8(w.len) \in Seq(Nat)
    BY BlockUtf8 DEF Block
  <1>4. will \in Seq(Nat)
    <2>1. Utf8(w.len) \o Utf8(w.len) \in Seq(Nat)
      <3> DEFINE x == Utf8(w.len)
      <3>1. x \in Seq(Nat)
        BY <1>3
      <3> HIDE DEF x
      <3>2. x \o x \in Seq(Nat)
        BY <3>1, Joined
      <3> QED  BY <3>2 DEF x
    <2>2. <<>> \in Seq(Nat)
      OBVIOUS
    <2> QED  BY <2>1, <2>2, Zenon DEF If
  <1>5. \A t : /\ t.present => Said(t, 1) = <<Text(t.len)>> /\ Said(t, 2) = <<Text(t.len)>> \o <<Text(t.len)>>
               /\ ~t.present => Said(t, 1) = <<>> /\ Said(t, 2) = <<>>
    <2> TAKE t
    <2> DEFINE x == Text(t.len)
    <2>1. [i \in 1..1 |-> x] = <<x>> /\ [i \in 1..2 |-> x] = <<x>> \o <<x>>
      <3> HIDE DEF x
      <3> QED  OBVIOUS
    <2>2. CASE t.present
      BY <2>1, <2>2, Zenon DEF Said
    <2>3. CASE ~t.present
      BY <2>3, Zenon DEF Said
    <2> QED  BY <2>2, <2>3, Zenon
  <1>6. Strings(pass) = Said(q, 1)
    <2>1. CASE q.present
      <3>1. pass = Utf8(q.len)
        BY <2>1 DEF If
      <3> HIDE DEF pass
      <3> QED  BY <1>5, <2>1, <3>1, StringAlone, Zenon
    <2>2. CASE ~q.present
      <3>1. pass = <<>>
        BY <2>2 DEF If
      <3> HIDE DEF pass
      <3> QED  BY <1>5, <2>2, <3>1, StringsEmpty, Zenon
    <2> QED  BY <2>1, <2>2
  <1>7. (IF u.present THEN <<Text(u.len)>> ELSE <<>>) = Said(u, 1)
    BY <1>5, Zenon
  <1>8. user \o pass \in Seq(Nat) /\ Strings(user \o pass) = Said(u, 1) \o Said(q, 1)
    <2> DEFINE p == pass
    <2>1. p \in Seq(Nat) /\ Strings(p) = Said(q, 1)
      BY <1>2, <1>6
    <2> HIDE DEF p
    <2>2. /\ If(u.present, Utf8(u.len)) \o p \in Seq(Nat)
          /\ Strings(If(u.present, Utf8(u.len)) \o p)
               = (IF u.present THEN <<Text(u.len)>> ELSE <<>>) \o Strings(p)
      BY <2>1, StringsIf
    <2> QED  BY <1>7, <2>1, <2>2, Zenon DEF p
  <1> DEFINE r == user \o pass
  <1>9. will \o r \in Seq(Nat) /\ Strings(will \o r) = Said(w, 2) \o Strings(r)
    <2>1. r \in Seq(Nat) /\ Strings(r) \in V
      BY <1>8, StringsJoined
    <2> HIDE DEF r
    <2>2. CASE w.present
      <3> DEFINE x == Utf8(w.len)
                 t == <<Text(w.len)>>
                 z == Strings(r)
      <3>1. will = x \o x /\ Said(w, 2) = t \o t
        BY <1>5, <2>2 DEF If
      <3>2. x \in Seq(Nat) /\ t \in V
        <4>1. Text(w.len) \in Seq(Nat)
          BY BlockText DEF Block
        <4>2. \A y \in Seq(Nat) : <<y>> \in V
          OBVIOUS
        <4> QED  BY <1>3, <4>1, <4>2, Zenon
      <3>3. Strings(x \o r) = t \o z
        BY <2>1, StringsJoined, Zenon
      <3>4. x \o r \in Seq(Nat)
        <4> HIDE DEF x
        <4> QED  BY <2>1, <3>2, Joined
      <3>5. Strings(x \o (x \o r)) = t \o Strings(x \o r)
        BY <3>4, StringsJoined, Zenon
      <3>6. (x \o x) \o r = x \o (x \o r) /\ (t \o t) \o z = t \o (t \o z)
        <4> HIDE DEF x, t, z, V
        <4>1. z \in V
          BY <2>1 DEF z
        <4>2. (x \o x) \o r = x \o (x \o r)
          BY <2>1, <3>2, Associates
        <4>3. (t \o t) \o z = t \o (t \o z)
          BY <3>2, <4>1, ConcatAssociative DEF V
        <4> QED  BY <4>2, <4>3
      <3>7. x \o (x \o r) \in Seq(Nat)
        <4> HIDE DEF x
        <4> QED  BY <3>2, <3>4, Joined
      <3> HIDE DEF x, t, will
      <3> QED  BY <3>1, <3>3, <3>5, <3>6, <3>7, Zenon
    <2>3. CASE ~w.present
      <3> DEFINE z == Strings(r)
      <3>1. will = <<>> /\ Said(w, 2) = <<>>
        BY <1>5, <2>3 DEF If
      <3>2. <<>> \o r = r /\ <<>> \o z = z
        <4>1. z \in V
          BY <2>1
        <4> HIDE DEF z
        <4> QED  BY <2>1, <4>1
      <3> HIDE DEF will
      <3> QED  BY <2>1, <3>1, <3>2, Zenon
    <2> QED  BY <2>2, <2>3
  <1>10. Strings(Utf8(c) \o (will \o r)) = <<Text(c)>> \o (Said(w, 2) \o (Said(u, 1) \o Said(q, 1)))
    <2> HIDE DEF will, r
    <2> QED  BY <1>8, <1>9, StringsJoined, Zenon DEF r
  <1>11. <<Text(c)>> \in V /\ Said(w, 2) \in V /\ Said(u, 1) \in V /\ Said(q, 1) \in V
    <2>1. \A n \in Nat : Text(n) \in Seq(Nat)
      BY BlockText DEF Block
    <2>2. \A y \in Seq(Nat) : <<y>> \in V /\ <<y>> \o <<y>> \in V /\ <<>> \in V
      OBVIOUS
    <2>3. \A t : IsText(t) => Said(t, 1) \in V /\ Said(t, 2) \in V
      <3> TAKE t
      <3> HAVE IsText(t)
      <3> HIDE DEF V
      <3>1. CASE t.present
        BY <3>1, <1>5, <2>1, <2>2, Zenon
      <3>2. CASE ~t.present
        BY <3>2, <1>5, <2>1, <2>2, Zenon
      <3> QED  BY <3>1, <3>2
    <2> HIDE DEF V
    <2> QED  BY <2>1, <2>2, <2>3, Zenon
  <1>12. <<Text(c)>> \o (Said(w, 2) \o (Said(u, 1) \o Said(q, 1)))
           = <<Text(c)>> \o Said(w, 2) \o Said(u, 1) \o Said(q, 1)
    <2> DEFINE a == <<Text(c)>>
               b == Said(w, 2)
               d == Said(u, 1)
               f == Said(q, 1)
    <2>1. a \in V /\ b \in V /\ d \in V /\ f \in V
      BY <1>11
    <2> HIDE DEF a, b, d, f
    <2>2. Regroups(a, b, d, f)
      BY <2>1, Regrouped
    <2>3. a \o b \o d \o f = a \o (b \o (d \o f))
      BY <2>2, Zenon DEF Regroups
    <2> QED  BY <2>3, Zenon DEF a, b, d, f
  <1>13. Utf8(c) \o (will \o r) \in Seq(Nat)
    <2> DEFINE x == Utf8(c)
               y == will \o r
    <2>1. x \in Seq(Nat) /\ y \in Seq(Nat)
      BY <1>3, <1>9
    <2> HIDE DEF x, y
    <2>2. x \o y \in Seq(Nat)
      BY <2>1, Joined
    <2> QED  BY <2>2 DEF x, y
  <1>14. ConnectTail(c, w, u, q) = Utf8(c) \o (will \o r)
    BY Zenon DEF ConnectTail
  <1> HIDE DEF r, will
  <1> QED  BY <1>10, <1>12, <1>13, <1>14, Zenon DEF ConnectTexts

LEMMA ViewOf ==
  ASSUME NEW h, NEW d
  PROVE  /\ h \div 16 = CONNECT => View(h, d) =
              <<Strings(SubSeq(d, 1, 6)), SubSeq(d, 7, 10), Strings(SubSeq(d, 11, Len(d)))>>
         /\ h \div 16 = PUBLISH => View(h, d) =
              LET n == Uint16At(d, 1)
                  k == IF (h \div 2) % 4 = 0 THEN 0 ELSE 2
              IN  <<SubSeq(d, 3, n + 2), SubSeq(d, n + 3, n + 2 + k), SubSeq(d, n + 3 + k, Len(d))>>
         /\ h \div 16 = SUBSCRIBE => View(h, d) =
              <<SubSeq(d, 1, 2), Strings(SubSeq(d, 3, Len(d) - 1)), d[Len(d)]>>
         /\ h \div 16 = UNSUBSCRIBE => View(h, d) = <<SubSeq(d, 1, 2), Strings(SubSeq(d, 3, Len(d)))>>
         /\ h \div 16 \notin {CONNECT, PUBLISH, SUBSCRIBE, UNSUBSCRIBE} => View(h, d) = d
  <1> DEFINE connect == <<Strings(SubSeq(d, 1, 6)), SubSeq(d, 7, 10), Strings(SubSeq(d, 11, Len(d)))>>
             publish == LET n == Uint16At(d, 1)
                            k == IF (h \div 2) % 4 = 0 THEN 0 ELSE 2
                        IN  <<SubSeq(d, 3, n + 2), SubSeq(d, n + 3, n + 2 + k), SubSeq(d, n + 3 + k, Len(d))>>
             subscribe == <<SubSeq(d, 1, 2), Strings(SubSeq(d, 3, Len(d) - 1)), d[Len(d)]>>
             unsubscribe == <<SubSeq(d, 1, 2), Strings(SubSeq(d, 3, Len(d)))>>
             type == h \div 16
  <1>1. View(h, d) = CASE type = CONNECT -> connect [] type = PUBLISH -> publish
                       [] type = SUBSCRIBE -> subscribe [] type = UNSUBSCRIBE -> unsubscribe
                       [] OTHER -> d
    BY Zenon DEF View
  <1> HIDE DEF connect, publish, subscribe, unsubscribe, type
  <1>2. /\ type = CONNECT => View(h, d) = connect
        /\ type = PUBLISH => View(h, d) = publish
        /\ type = SUBSCRIBE => View(h, d) = subscribe
        /\ type = UNSUBSCRIBE => View(h, d) = unsubscribe
        /\ type \notin {CONNECT, PUBLISH, SUBSCRIBE, UNSUBSCRIBE} => View(h, d) = d
    BY <1>1 DEF CONNECT, PUBLISH, SUBSCRIBE, UNSUBSCRIBE
  <1> QED  BY <1>2, Zenon DEF connect, publish, subscribe, unsubscribe, type

LEMMA BodyOf ==
  ASSUME NEW p
  PROVE  /\ p.type = CONNECT => Body(p) =
              Utf8(ProtocolName) \o <<Level, ConnectFlags(p)>> \o Uint16(KeepAlive)
              \o Utf8(p.clientID)
              \o If(p.will.present, Utf8(p.will.len) \o Utf8(p.will.len))
              \o If(p.user.present, Utf8(p.user.len)) \o If(p.password.present, Utf8(p.password.len))
         /\ p.type = PUBLISH => Body(p) = Utf8(p.topic) \o If(p.qos > 0, Uint16(p.id)) \o Text(p.payload)
         /\ p.type = SUBSCRIBE => Body(p) = Uint16(p.id) \o Utf8(p.topic) \o <<p.qos>>
         /\ p.type = UNSUBSCRIBE => Body(p) = Uint16(p.id) \o Utf8(p.topic)
         /\ p.type = PUBACK => Body(p) = Uint16(p.id)
         /\ p.type \in {PINGREQ, DISCONNECT} => Body(p) = <<>>
  <1> DEFINE connect == Utf8(ProtocolName) \o <<Level, ConnectFlags(p)>> \o Uint16(KeepAlive)
                        \o Utf8(p.clientID)
                        \o If(p.will.present, Utf8(p.will.len) \o Utf8(p.will.len))
                        \o If(p.user.present, Utf8(p.user.len)) \o If(p.password.present, Utf8(p.password.len))
             publish == Utf8(p.topic) \o If(p.qos > 0, Uint16(p.id)) \o Text(p.payload)
             subscribe == Uint16(p.id) \o Utf8(p.topic) \o <<p.qos>>
             unsubscribe == Uint16(p.id) \o Utf8(p.topic)
             puback == Uint16(p.id)
             none == <<>>
             type == p.type
  <1>1. Body(p) = CASE type = CONNECT -> connect [] type = PUBLISH -> publish
                    [] type = SUBSCRIBE -> subscribe [] type = UNSUBSCRIBE -> unsubscribe
                    [] type = PUBACK -> puback [] type \in {PINGREQ, DISCONNECT} -> none
    BY Zenon DEF Body
  <1> HIDE DEF connect, publish, subscribe, unsubscribe, puback, none, type
  <1>2. /\ type = CONNECT => Body(p) = connect
        /\ type = PUBLISH => Body(p) = publish
        /\ type = SUBSCRIBE => Body(p) = subscribe
        /\ type = UNSUBSCRIBE => Body(p) = unsubscribe
        /\ type = PUBACK => Body(p) = puback
        /\ type \in {PINGREQ, DISCONNECT} => Body(p) = none
    BY <1>1 DEF CONNECT, PUBLISH, SUBSCRIBE, UNSUBSCRIBE, PUBACK, PINGREQ, DISCONNECT
  <1> QED  BY <1>2, Zenon DEF connect, publish, subscribe, unsubscribe, puback, none, type

LEMMA MeantOf ==
  ASSUME NEW p
  PROVE  /\ p.type = CONNECT => MeantView(p) =
              <<<<Text(4)>>,
                <<4, 2 + (IF p.will.present THEN (IF p.retained THEN 44 ELSE 12) ELSE 0)
                       + (IF p.password.present THEN 64 ELSE 0)
                       + (IF p.user.present THEN 128 ELSE 0)>> \o Bytes2(KeepAlive),
                <<Text(p.clientID)>> \o Said(p.will, 2) \o Said(p.user, 1) \o Said(p.password, 1)>>
         /\ p.type = PUBLISH => MeantView(p) =
              <<Text(p.topic), IF p.qos = 0 THEN <<>> ELSE Bytes2(p.id), Text(p.payload)>>
         /\ p.type = SUBSCRIBE => MeantView(p) = <<Bytes2(p.id), <<Text(p.topic)>>, p.qos>>
         /\ p.type = UNSUBSCRIBE => MeantView(p) = <<Bytes2(p.id), <<Text(p.topic)>>>>
         /\ p.type = PUBACK => MeantView(p) = Bytes2(p.id)
         /\ p.type \in {PINGREQ, DISCONNECT} => MeantView(p) = <<>>
  <1> DEFINE connect == <<<<Text(4)>>,
                <<4, 2 + (IF p.will.present THEN (IF p.retained THEN 44 ELSE 12) ELSE 0)
                       + (IF p.password.present THEN 64 ELSE 0)
                       + (IF p.user.present THEN 128 ELSE 0)>> \o Bytes2(KeepAlive),
                <<Text(p.clientID)>> \o Said(p.will, 2) \o Said(p.user, 1) \o Said(p.password, 1)>>
             publish == <<Text(p.topic), IF p.qos = 0 THEN <<>> ELSE Bytes2(p.id), Text(p.payload)>>
             subscribe == <<Bytes2(p.id), <<Text(p.topic)>>, p.qos>>
             unsubscribe == <<Bytes2(p.id), <<Text(p.topic)>>>>
             puback == Bytes2(p.id)
             none == <<>>
             type == p.type
  <1>1. MeantView(p) = CASE type = CONNECT -> connect [] type = PUBLISH -> publish
                    [] type = SUBSCRIBE -> subscribe [] type = UNSUBSCRIBE -> unsubscribe
                    [] type = PUBACK -> puback [] type \in {PINGREQ, DISCONNECT} -> none
    BY Zenon DEF MeantView
  <1> HIDE DEF connect, publish, subscribe, unsubscribe, puback, none, type
  <1>2. /\ type = CONNECT => MeantView(p) = connect
        /\ type = PUBLISH => MeantView(p) = publish
        /\ type = SUBSCRIBE => MeantView(p) = subscribe
        /\ type = UNSUBSCRIBE => MeantView(p) = unsubscribe
        /\ type = PUBACK => MeantView(p) = puback
        /\ type \in {PINGREQ, DISCONNECT} => MeantView(p) = none
    BY <1>1 DEF CONNECT, PUBLISH, SUBSCRIBE, UNSUBSCRIBE, PUBACK, PINGREQ, DISCONNECT
  <1> QED  BY <1>2, Zenon DEF connect, publish, subscribe, unsubscribe, puback, none, type

LEMMA ConnectView ==
  ASSUME NEW p \in Requests, p.type = CONNECT, NEW h, h \div 16 = CONNECT
  PROVE  View(h, Body(p)) = MeantView(p)
  <1> DEFINE w == p.will
             u == p.user
             q == p.password
             c == p.clientID
             will == If(w.present, Utf8(w.len) \o Utf8(w.len))
             user == If(u.present, Utf8(u.len))
             pass == If(q.present, Utf8(q.len))
             name == Utf8(ProtocolName)
             flags == <<Level, ConnectFlags(p)>>
             keep == Uint16(KeepAlive)
             tail == ConnectTail(c, w, u, q)
             d == Body(p)
  <1>1. /\ c \in Nat /\ p.retained \in BOOLEAN
        /\ w.present \in BOOLEAN /\ w.len \in Nat /\ u.present \in BOOLEAN /\ u.len \in Nat
        /\ q.present \in BOOLEAN /\ q.len \in Nat /\ IsText(w) /\ IsText(u) /\ IsText(q)
    BY RequestTypes DEF IsText, CONNECT, PUBLISH, SUBSCRIBE, UNSUBSCRIBE, PUBACK, PINGREQ, DISCONNECT
  <1>2. d = name \o flags \o keep \o Utf8(c) \o will \o user \o pass
    BY BodyOf, Zenon
  <1>3. /\ tail \in Seq(Nat) /\ tail = Utf8(c) \o (will \o (user \o pass))
        /\ Strings(tail) = <<Text(c)>> \o Said(w, 2) \o Said(u, 1) \o Said(q, 1)
    <2>1. tail = Utf8(c) \o (will \o (user \o pass))
      BY Zenon DEF ConnectTail
    <2> HIDE DEF w, u, q, c
    <2>2. tail \in Seq(Nat) /\ Strings(tail) = ConnectTexts(c, w, u, q)
      BY <1>1, ConnectStrings
    <2> QED  BY <2>1, <2>2, Zenon DEF ConnectTexts
  <1>4. ConnectFlags(p) = 2 + (IF w.present THEN (IF p.retained THEN 44 ELSE 12) ELSE 0)
                            + (IF q.present THEN 64 ELSE 0) + (IF u.present THEN 128 ELSE 0)
        /\ ConnectFlags(p) \in Nat
    BY <1>1 DEF ConnectFlags, Bit
  <1>5. KeepAlive \in Nat /\ keep \in Block(2) /\ keep = Bytes2(KeepAlive)
    <2>1. KeepAlive \in Nat
      BY Thresholds DEF KeepAlive
    <2>2. keep = Bytes2(KeepAlive)
      BY Zenon DEF Uint16, Bytes2
    <2> QED  BY <2>1, <2>2, BlockUint16
  <1>6. name \in Block(6) /\ name = Utf8(4)
    <2>1. Utf8(4) \in Block(4 + 2) /\ 4 + 2 = 6
      BY BlockUtf8
    <2> QED  BY <2>1 DEF ProtocolName
  <1>7. flags \in Block(2)
    BY <1>4 DEF Level, Block
  <1>8. user \in Seq(Nat) /\ pass \in Seq(Nat) /\ will \in Seq(Nat) /\ Utf8(c) \in Seq(Nat)
    <2>1. \A n \in Nat : Utf8(n) \in Seq(Nat)
      BY BlockUtf8 DEF Block
    <2>2. Utf8(w.len) \o Utf8(w.len) \in Seq(Nat)
      <3> DEFINE x == Utf8(w.len)
      <3>1. x \in Seq(Nat)
        BY <1>1, <2>1
      <3> HIDE DEF x
      <3>2. x \o x \in Seq(Nat)
        BY <3>1, Joined
      <3> QED  BY <3>2 DEF x
    <2>3. <<>> \in Seq(Nat)
      OBVIOUS
    <2> HIDE DEF w, u, q, c
    <2> QED  BY <1>1, <2>1, <2>2, <2>3 DEF If
  <1> HIDE DEF name, flags, keep, will, user, pass, w, u, q, c
  <1>9. flags \o keep \in Block(4)
    <2>1. flags \o keep \in Block(2 + 2) /\ 2 + 2 = 4
      BY <1>5, <1>7, BlockJoined
    <2> QED  BY <2>1
  <1>10. d = name \o (flags \o keep) \o tail
    <2> DEFINE f == name \o flags \o keep
               x == Utf8(c)
    <2>1. name \in Seq(Nat) /\ flags \in Seq(Nat) /\ keep \in Seq(Nat)
      BY <1>5, <1>6, <1>7 DEF Block
    <2>2. f = name \o (flags \o keep)
      BY <2>1, Associates
    <2>3. f \in Seq(Nat)
      <3>1. name \o flags \in Seq(Nat)
        BY <2>1, Joined
      <3> QED  BY <2>1, <3>1, Joined
    <2> HIDE DEF f
    <2>4. f \o x \o will \o user \o pass = f \o (x \o (will \o (user \o pass)))
      <3> DEFINE fx == f \o x
                 wup == will \o (user \o pass)
      <3>1. x \in Seq(Nat)
        BY <1>8
      <3> HIDE DEF x
      <3>2. fx \in Seq(Nat) /\ wup \in Seq(Nat)
        BY <1>8, <2>3, <3>1, ConcatProperties
      <3>3. fx \o will \o user \o pass = fx \o wup
        <4> HIDE DEF fx
        <4>1. Regroups(fx, will, user, pass)
          BY <1>8, <3>2, Regrouped
        <4> QED  BY <4>1, Zenon DEF Regroups
      <3>4. (f \o x) \o wup = f \o (x \o wup)
        <4> HIDE DEF wup
        <4> QED  BY <2>3, <3>1, <3>2, Associates
      <3> QED  BY <3>3, <3>4, Zenon DEF x
    <2>5. f \o tail = f \o (x \o (will \o (user \o pass)))
      BY <1>3, Zenon
    <2> QED  BY <1>2, <2>2, <2>4, <2>5, Zenon DEF f, x
  <1> DEFINE l == Len(tail)
             fk == flags \o keep
  <1>11. tail \in Block(l) /\ l \in Nat
    <2>1. \A s \in Seq(Nat) : s \in Block(Len(s)) /\ Len(s) \in Nat
      BY DEF Block
    <2> HIDE DEF tail
    <2> QED  BY <1>3, <2>1
  <1> HIDE DEF tail, l, fk, d
  <1>13. SubSeq(d, 1, 6) = name /\ SubSeq(d, 7, 10) = fk /\ SubSeq(d, 11, Len(d)) = tail
    <2>1. fk \in Block(4)
      BY <1>9 DEF fk
    <2>2. Pieces(name \o fk \o tail, name, fk, tail, 6, 4)
      BY <1>6, <1>11, <2>1, Slice
    <2>3. 6 + 1 = 7 /\ 6 + 4 = 10 /\ 6 + 4 + 1 = 11
      OBVIOUS
    <2>4. d = name \o fk \o tail
      BY <1>10 DEF fk
    <2> QED  BY <2>2, <2>3, <2>4, Zenon DEF Pieces
  <1>14. Strings(name) = <<Text(4)>>
    BY <1>6, StringAlone
  <1>15. View(h, d) = <<Strings(SubSeq(d, 1, 6)), SubSeq(d, 7, 10), Strings(SubSeq(d, 11, Len(d)))>>
    BY ViewOf
  <1>16. View(h, d) = <<<<Text(4)>>, fk, <<Text(c)>> \o Said(w, 2) \o Said(u, 1) \o Said(q, 1)>>
    BY <1>3, <1>13, <1>14, <1>15, Zenon
  <1>17. fk = <<4, 2 + (IF w.present THEN (IF p.retained THEN 44 ELSE 12) ELSE 0)
                    + (IF q.present THEN 64 ELSE 0) + (IF u.present THEN 128 ELSE 0)>> \o Bytes2(KeepAlive)
    BY <1>4, <1>5, Zenon DEF fk, flags, Level
  <1>18. MeantView(p) =
           <<<<Text(4)>>,
             <<4, 2 + (IF w.present THEN (IF p.retained THEN 44 ELSE 12) ELSE 0)
                    + (IF q.present THEN 64 ELSE 0) + (IF u.present THEN 128 ELSE 0)>> \o Bytes2(KeepAlive),
             <<Text(c)>> \o Said(w, 2) \o Said(u, 1) \o Said(q, 1)>>
    BY MeantOf, Zenon DEF w, u, q, c
  <1> QED  BY <1>16, <1>17, <1>18, Zenon DEF d

LEMMA PublishView ==
  ASSUME NEW p \in Requests, p.type = PUBLISH
  PROVE  View(HeaderOf(p), Body(p)) = MeantView(p)
  <1> DEFINE d == Body(p)
             h == HeaderOf(p)
             t == p.topic
             x == Text(p.payload)
             n == Uint16At(d, 1)
             q == IF (h \div 2) % 4 = 0 THEN 0 ELSE 2
             k == IF p.qos > 0 THEN 2 ELSE 0
             id == If(p.qos > 0, Uint16(p.id))
             size == Uint16(t)
             text == Text(t)
  <1>1. t \in Nat /\ p.payload \in Nat /\ p.qos \in {0, 1} /\ p.id \in Nat
    BY RequestTypes DEF CONNECT, PUBLISH, SUBSCRIBE, UNSUBSCRIBE, PUBACK, PINGREQ, DISCONNECT
  <1>2. d = Utf8(t) \o id \o x
    BY BodyOf, Zenon
  <1>3. h \div 16 = PUBLISH /\ q = k
    <2>1. h = 48 + 2 * p.qos
      BY <1>1, FixedIs DEF Fixed, PUBLISH, SUBSCRIBE, UNSUBSCRIBE
    <2> HIDE DEF h
    <2>2. q = k
      BY <1>1, <2>1
    <2> QED  BY FixedIs, <2>2 DEF h
  <1>4. size \in Block(2) /\ text \in Block(t) /\ x \in Block(p.payload) /\ id \in Block(k) /\ k \in Nat
    <2>1. (p.qos > 0) \in BOOLEAN /\ Uint16(p.id) \in Block(2)
      BY <1>1, BlockUint16
    <2>2. id \in Block(k) /\ k \in Nat
      BY <2>1, BlockIf
    <2> QED  BY <1>1, <2>2, BlockUint16, BlockText
  <1>5. id = IF p.qos = 0 THEN <<>> ELSE Bytes2(p.id)
    <2>1. Uint16(p.id) = Bytes2(p.id)
      BY Zenon DEF Uint16, Bytes2
    <2> DEFINE u == Uint16(p.id)
    <2>2. id = If(p.qos > 0, u)
      OBVIOUS
    <2> HIDE DEF u
    <2>3. id = IF p.qos = 0 THEN <<>> ELSE u
      BY <1>1, <2>2 DEF If
    <2> QED  BY <2>1, <2>3, Zenon DEF u
  <1>6. d = (size \o text) \o id \o x
    BY <1>2, Zenon DEF Utf8
  <1> HIDE DEF d, h, q, k, id, size, text, x, t
  <1>7. size \o text \in Block(2 + t) /\ 2 + t \in Nat
    BY <1>1, <1>4, BlockJoined
  <1>8. SubSeq(d, 2 + t + 1, 2 + t + k) = id /\ SubSeq(d, 2 + t + k + 1, Len(d)) = x
    <2> DEFINE s == size \o text
               m == 2 + t
    <2>1. s \in Block(m) /\ m \in Nat
      BY <1>7
    <2> HIDE DEF s, m
    <2>2. Pieces(s \o id \o x, s, id, x, m, k)
      BY <1>1, <1>4, <2>1, Slice
    <2> QED  BY <1>6, <2>2, Zenon DEF Pieces, s, m
  <1>9. d \in Seq(Nat) /\ At(d, 1, size) /\ SubSeq(d, 2 + 1, 2 + t) = text
    <2> DEFINE idx == id \o x
               j == k + p.payload
    <2>1. idx \in Block(j) /\ j \in Nat
      BY <1>1, <1>4, BlockJoined
    <2>2. size \in Seq(Nat) /\ text \in Seq(Nat) /\ id \in Seq(Nat) /\ x \in Seq(Nat)
      BY <1>4 DEF Block
    <2>3. (size \o text) \o id \o x = size \o (text \o idx)
      <3>1. Regroups(size, text, id, x)
        BY <2>2, Regrouped
      <3> QED  BY <3>1, Zenon DEF Regroups
    <2>4. (size \o text) \o idx = size \o (text \o idx)
      <3>1. idx \in Seq(Nat)
        BY <2>1 DEF Block
      <3> HIDE DEF idx
      <3> QED  BY <2>2, <3>1, Associates
    <2> HIDE DEF idx, j
    <2>5. Pieces(size \o text \o idx, size, text, idx, 2, t)
      BY <1>1, <1>4, <2>1, Slice
    <2>6. SubSeq(d, 2 + 1, 2 + t) = text
      BY <1>6, <2>3, <2>4, <2>5, Zenon DEF Pieces
    <2> DEFINE z == text \o idx
    <2>7. z \in Block(t + j) /\ t + j \in Nat
      BY <1>1, <1>4, <2>1, BlockJoined
    <2> HIDE DEF z
    <2>8. size \o z \in Block(2 + (t + j))
      BY <1>4, <2>7, BlockJoined
    <2>9. size \o z \in Seq(Nat)
      BY <2>8 DEF Block
    <2>10. d = size \o z
      BY <1>6, <2>3, Zenon DEF z
    <2>11. d \in Seq(Nat) /\ At(d, 1, size \o z)
      BY <2>9, <2>10, AtSelf, Zenon
    <2>12. At(d, 1, size)
      BY <1>4, <2>7, <2>11, AtJoined
    <2> QED  BY <2>6, <2>11, <2>12
  <1>10. n = t
    BY <1>1, <1>9, AtUint16 DEF size
  <1>11. View(h, d) = <<SubSeq(d, 3, n + 2), SubSeq(d, n + 3, n + 2 + q), SubSeq(d, n + 3 + q, Len(d))>>
    BY <1>3, ViewOf, Zenon DEF q
  <1>12. /\ 2 + 1 = 3 /\ 2 + t = n + 2 /\ 2 + t + 1 = n + 3 /\ 2 + t + k = n + 2 + q
         /\ 2 + t + k + 1 = n + 3 + q
    BY <1>1, <1>3, <1>4, <1>10
  <1>13. View(h, d) = <<text, id, x>>
    <2>1. SubSeq(d, 3, n + 2) = text
      BY <1>9, <1>12, Zenon
    <2>2. SubSeq(d, n + 3, n + 2 + q) = id
      BY <1>8, <1>12, Zenon
    <2>3. SubSeq(d, n + 3 + q, Len(d)) = x
      BY <1>8, <1>12, Zenon
    <2> QED  BY <1>11, <2>1, <2>2, <2>3, Zenon
  <1>14. MeantView(p) = <<Text(t), IF p.qos = 0 THEN <<>> ELSE Bytes2(p.id), x>>
    BY MeantOf, Zenon DEF t, x
  <1> QED  BY <1>5, <1>13, <1>14, Zenon DEF d, h, text

LEMMA SubscribeView ==
  ASSUME NEW p \in Requests, p.type = SUBSCRIBE
  PROVE  View(HeaderOf(p), Body(p)) = MeantView(p)
  <1> DEFINE d == Body(p)
             h == HeaderOf(p)
             id == Uint16(p.id)
             text == Utf8(p.topic)
             qos == <<p.qos>>
             k == p.topic + 2
             e == <<>>
  <1>1. p.topic \in Nat /\ k \in Nat /\ p.qos \in Nat /\ p.id \in Nat
    BY RequestTypes DEF CONNECT, PUBLISH, SUBSCRIBE, UNSUBSCRIBE, PUBACK, PINGREQ, DISCONNECT
  <1>2. d = id \o text \o qos /\ id = Bytes2(p.id)
    BY BodyOf, Zenon DEF Uint16, Bytes2
  <1>3. id \in Block(2) /\ text \in Block(k) /\ qos \in Block(1) /\ qos[1] = p.qos
    BY <1>1, BlockUint16, BlockUtf8, BlockOne
  <1>4. h \div 16 = SUBSCRIBE
    BY FixedIs
  <1>5. View(h, d) = <<SubSeq(d, 1, 2), Strings(SubSeq(d, 3, Len(d) - 1)), d[Len(d)]>>
    BY <1>4, ViewOf
  <1>6. Strings(text) = <<Text(p.topic)>>
    BY <1>1, StringAlone
  <1>7. MeantView(p) = <<Bytes2(p.id), <<Text(p.topic)>>, p.qos>>
    BY MeantOf, Zenon
  <1> HIDE DEF d, h, id, text, qos, k
  <1>8. SubSeq(d, 1, 2) = id /\ SubSeq(d, 2 + 1, 2 + k) = text
    <2>1. Pieces(id \o text \o qos, id, text, qos, 2, k)
      BY <1>1, <1>3, Slice
    <2> QED  BY <1>2, <2>1, Zenon DEF Pieces
  <1>9. Len(d) = 2 + k + 1 /\ d[2 + k + 1] = qos[1]
    <2> DEFINE s == id \o text
    <2>1. s \in Block(2 + k) /\ 2 + k \in Nat
      BY <1>1, <1>3, BlockJoined
    <2> HIDE DEF s
    <2>2. s \in Seq(Nat) /\ qos \in Seq(Nat) /\ Len(s) = 2 + k /\ Len(qos) = 1
      BY <1>3, <2>1 DEF Block
    <2>3. Len(s \o qos) = Len(s) + Len(qos) /\ (s \o qos)[Len(s) + 1] = qos[1]
      <3>1. 1 \in 1..Len(qos)
        BY <2>2
      <3> QED  BY <2>2, <3>1, Joined
    <2> QED  BY <1>2, <2>2, <2>3, Zenon DEF s
  <1>10. 2 + 1 = 3 /\ (2 + k + 1) - 1 = 2 + k
    BY <1>1
  <1>11. View(h, d) = <<id, Strings(text), qos[1]>>
    <2>1. Len(d) - 1 = 2 + k
      BY <1>9, <1>10
    <2> QED  BY <1>5, <1>8, <1>9, <1>10, <2>1, Zenon
  <1> QED  BY <1>2, <1>3, <1>6, <1>7, <1>11, Zenon DEF d, h

LEMMA UnsubscribeView ==
  ASSUME NEW p \in Requests, p.type = UNSUBSCRIBE
  PROVE  View(HeaderOf(p), Body(p)) = MeantView(p)
  <1> DEFINE d == Body(p)
             h == HeaderOf(p)
             id == Uint16(p.id)
             text == Utf8(p.topic)
             k == p.topic + 2
             e == <<>>
  <1>1. p.topic \in Nat /\ k \in Nat /\ p.id \in Nat
    BY RequestTypes DEF CONNECT, PUBLISH, SUBSCRIBE, UNSUBSCRIBE, PUBACK, PINGREQ, DISCONNECT
  <1>2. d = id \o text /\ id = Bytes2(p.id)
    BY BodyOf, Zenon DEF Uint16, Bytes2
  <1>3. id \in Block(2) /\ text \in Block(k)
    BY <1>1, BlockUint16, BlockUtf8
  <1>4. h \div 16 = UNSUBSCRIBE
    BY FixedIs
  <1>5. View(h, d) = <<SubSeq(d, 1, 2), Strings(SubSeq(d, 3, Len(d)))>>
    BY <1>4, ViewOf
  <1>6. Strings(text) = <<Text(p.topic)>>
    BY <1>1, StringAlone
  <1>7. MeantView(p) = <<Bytes2(p.id), <<Text(p.topic)>>>>
    BY MeantOf, Zenon
  <1> HIDE DEF d, h, id, text, k
  <1>8. SubSeq(d, 1, 2) = id /\ SubSeq(d, 3, Len(d)) = text
    <2>1. Pieces(id \o text, id, text, e, 2, k)
      BY <1>1, <1>3, Halves
    <2>2. SubSeq(d, 2 + 1, 2 + k) = text
      BY <1>2, <2>1, Zenon DEF Pieces
    <2>3. id \o text \in Block(2 + k) /\ 2 + k \in Nat
      BY <1>1, <1>3, BlockJoined
    <2> DEFINE s == id \o text
    <2>4. Len(s) = 2 + k
      <3>1. s \in Block(2 + k)
        BY <2>3
      <3> HIDE DEF s
      <3> QED  BY <3>1 DEF Block
    <2>5. 2 + 1 = 3
      OBVIOUS
    <2> QED  BY <1>2, <2>1, <2>2, <2>4, <2>5, Zenon DEF Pieces
  <1> QED  BY <1>2, <1>5, <1>6, <1>7, <1>8, Zenon DEF d, h

(* What the broker reads of a packet that fits into the length field.      *)
LEMMA BrokerUnderstands ==
  ASSUME NEW p \in Requests, RemLen(p) < R4
  PROVE  BrokerReads(Written(p)) = Meant(p)
  <1>1. View(HeaderOf(p), Body(p)) = MeantView(p)
    <2>1. HeaderOf(p) \div 16 = p.type
      BY FixedIs
    <2>2. CASE p.type = CONNECT
      BY <2>1, <2>2, ConnectView
    <2>3. CASE p.type = PUBLISH
      BY <2>3, PublishView
    <2>4. CASE p.type = SUBSCRIBE
      BY <2>4, SubscribeView
    <2>5. CASE p.type = UNSUBSCRIBE
      BY <2>5, UnsubscribeView
    <2>6. CASE p.type \in {PUBACK, PINGREQ, DISCONNECT}
      <3>1. p.type \notin {CONNECT, PUBLISH, SUBSCRIBE, UNSUBSCRIBE}
        BY <2>6 DEF CONNECT, PUBLISH, SUBSCRIBE, UNSUBSCRIBE, PUBACK, PINGREQ, DISCONNECT
      <3>2. View(HeaderOf(p), Body(p)) = Body(p)
        BY <2>1, <3>1, ViewOf
      <3>3. Body(p) = MeantView(p)
        <4>1. p.type = PUBACK => Body(p) = Uint16(p.id) /\ MeantView(p) = Bytes2(p.id)
          BY BodyOf, MeantOf, Zenon
        <4>2. p.type \in {PINGREQ, DISCONNECT} => Body(p) = <<>> /\ MeantView(p) = <<>>
          BY BodyOf, MeantOf, Zenon
        <4>3. Uint16(p.id) = Bytes2(p.id)
          BY Zenon DEF Uint16, Bytes2
        <4> QED  BY <2>6, <4>1, <4>2, <4>3, Zenon
      <3> QED  BY <3>2, <3>3, Zenon
    <2> QED  BY <2>2, <2>3, <2>4, <2>5, <2>6, RequestTypes
  <1>2. HeaderOf(p) = Fixed(p)
    BY FixedIs
  <1> QED  BY <1>1, <1>2, WrittenFound, Zenon DEF Meant

(* A broker that goes by the standard reads from every packet that gets    *)
(* past the estimate what was asked for, whatever the lengths of the       *)
(* strings and of writeBuf are.                                            *)
THEOREM WriterUnderstood == Spec => []WrittenAsAsked
  <1>1. Init => OutInv
    BY DEF Init, OutInv, RefusedIfTooLong, Unsent
  <1>2. OutInv /\ [Next]_vars => OutInv'
    BY OutStep
  <1>3. OutInv => WrittenAsAsked
    <2> SUFFICES ASSUME OutInv, out.rc \in {"serialized", "sent"}
                 PROVE  BrokerReads(out.bytes) = Meant(out.asked)
      BY DEF WrittenAsAsked
    <2> DEFINE p == out.asked
               n == out.writeBufSize
    <2>1. out \in Asked
      BY DEF OutInv, Unsent
    <2>2. p \in Requests /\ n \in TxBufLens
      BY <2>1 DEF Asked
    <2>3. out.bytes = Written(p) /\ Len(Written(p)) <= n
      BY DEF OutInv
    <2> HIDE DEF p, n
    <2>4. /\ n \in Nat /\ n <= R4 /\ R4 \in Nat
          /\ RemLen(p) \in Nat /\ Len(Written(p)) \in Nat /\ Len(Written(p)) >= RemLen(p) + 2
      BY <2>2, TxBufLenIs, BodyIs, WrittenIs, Thresholds
    <2>5. RemLen(p) < R4
      BY <2>3, <2>4
    <2>6. BrokerReads(Written(p)) = Meant(p)
      BY <2>2, <2>5, BrokerUnderstands
    <2> QED  BY <2>3, <2>6, Zenon DEF p
  <1> QED  BY <1>1, <1>2, <1>3, PTL DEF Spec

----------------------------------------------------------------------------
(* Topics.  The matcher goes through a filter and a name a character at a  *)
(* time; Levels takes each apart.  First, where a level ends.              *)

LEMMA LeastIs ==
  ASSUME NEW S, S \subseteq Nat, S # {}
  PROVE  Min(S) \in S /\ \A y \in S : Min(S) <= y
  <1>1. IsWellFoundedOn(Below, Nat)
    <2>1. IsWellFoundedOn(OpToRel(<, Nat), Nat)
      BY NatLessThanWellFounded
    <2> QED  BY <2>1 DEF OpToRel, Below
  <1>2. PICK x \in S : \A y \in S : ~ (<<y, x>> \in Below)
    BY <1>1, WFMin
  <1>3. ASSUME NEW y \in S  PROVE x <= y
    <2>1. <<y, x>> \notin Below /\ y \in Nat /\ x \in Nat
      BY <1>2
    <2>2. <<y, x>> \in Nat \X Nat /\ <<y, x>>[1] = y /\ <<y, x>>[2] = x
      BY <2>1
    <2>3. ~ (y < x)
      BY <2>1, <2>2, Zenon DEF Below
    <2> QED  BY <2>1, <2>3
  <1> QED  BY <1>3 DEF Min

(* A level ends at the first slash, or behind the last character.          *)
EndsAt(s, i, k) ==
  /\ k \in i..(Len(s) + 1)
  /\ k <= Len(s) => s[k] = Slash
  /\ \A x \in i..(k - 1) : s[x] # Slash

LEMMA CutIs ==
  ASSUME NEW s \in Seq(Nat), NEW i \in 1..(Len(s) + 1)
  PROVE  EndsAt(s, i, Cut(s, i))
  <1> DEFINE S == {k \in i..(Len(s) + 1) : k = Len(s) + 1 \/ s[k] = Slash}
  <1>1. Len(s) \in Nat
    OBVIOUS
  <1>2. S \subseteq Nat /\ Len(s) + 1 \in S
    BY <1>1
  <1> HIDE DEF S
  <1>3. Min(S) \in S /\ \A y \in S : Min(S) <= y
    BY <1>2, LeastIs
  <1>4. Cut(s, i) = Min(S)
    BY DEF Cut, S
  <1>5. \A x \in i..(Min(S) - 1) : x \notin S
    BY <1>1, <1>3 DEF S
  <1>6. Cut(s, i) \in i..(Len(s) + 1) /\ (Cut(s, i) = Len(s) + 1 \/ s[Cut(s, i)] = Slash)
    BY <1>3, <1>4 DEF S
  <1>7. ASSUME NEW x \in i..(Cut(s, i) - 1)  PROVE s[x] # Slash
    <2>1. x \notin S /\ x \in i..(Len(s) + 1)
      BY <1>1, <1>4, <1>5, <1>6
    <2> QED  BY <2>1 DEF S
  <1> QED  BY <1>1, <1>6, <1>7 DEF EndsAt

LEMMA OneEnd ==
  ASSUME NEW s \in Seq(Nat), NEW i \in 1..(Len(s) + 1), NEW a, NEW b, EndsAt(s, i, a), EndsAt(s, i, b)
  PROVE  a = b
  <1>1. Len(s) \in Nat
    OBVIOUS
  <1> QED  BY <1>1 DEF EndsAt

(* The code's search for the end of a level, which a + takes, finds it.    *)
LEMMA LevelEndIs ==
  ASSUME NEW n \in Seq(Nat), NEW j \in 1..Len(n), n[j] # Slash
  PROVE  LevelEnd(n, j) = Cut(n, j)
  <1> DEFINE Good(k) == /\ k = Len(n) + 1 \/ n[k] = Slash
                        /\ \A x \in (j + 1)..(k - 1) : n[x] # Slash
             c == Cut(n, j)
  <1>1. Len(n) \in Nat
    OBVIOUS
  <1>2. EndsAt(n, j, c)
    BY CutIs
  <1> HIDE DEF c
  <1>3. c \in (j + 1)..(Len(n) + 1) /\ Good(c)
    BY <1>1, <1>2 DEF EndsAt
  <1>4. \A k \in (j + 1)..(Len(n) + 1) : Good(k) => EndsAt(n, j, k)
    BY <1>1 DEF EndsAt
  <1>5. \A k \in (j + 1)..(Len(n) + 1) : Good(k) => k = c
    BY <1>2, <1>4, OneEnd
  <1>6. LevelEnd(n, j) = CHOOSE k \in (j + 1)..(Len(n) + 1) : Good(k)
    BY DEF LevelEnd
  <1> HIDE DEF Good
  <1> QED  BY <1>3, <1>5, <1>6 DEF c

----------------------------------------------------------------------------
(* The levels from place i on, when g says what they are from later        *)
(* places.                                                                 *)
LevelsFrom(s, g, i) ==
  IF Cut(s, i) > Len(s) THEN <<SubSeq(s, i, Len(s))>>
  ELSE <<SubSeq(s, i, Cut(s, i) - 1)>> \o g[Cut(s, i) + 1]

SplitsAt(s, g) == g = [i \in 1..(Len(s) + 1) |-> LevelsFrom(s, g, i)]

LEMMA LevelsFromIs ==
  ASSUME NEW s \in Seq(Nat), NEW i \in 1..(Len(s) + 1), NEW g
  PROVE  \/ /\ Cut(s, i) = Len(s) + 1
            /\ LevelsFrom(s, g, i) = <<SubSeq(s, i, Cut(s, i) - 1)>>
         \/ /\ Cut(s, i) \in i..Len(s) /\ Cut(s, i) + 1 \in 1..(Len(s) + 1)
            /\ LevelsFrom(s, g, i) = <<SubSeq(s, i, Cut(s, i) - 1)>> \o g[Cut(s, i) + 1]
  <1>1. Len(s) \in Nat /\ Cut(s, i) \in i..(Len(s) + 1)
    BY CutIs DEF EndsAt
  <1>2. CASE Cut(s, i) > Len(s)
    <2>1. Cut(s, i) = Len(s) + 1 /\ Cut(s, i) - 1 = Len(s)
      BY <1>1, <1>2
    <2>2. LevelsFrom(s, g, i) = <<SubSeq(s, i, Len(s))>>
      BY <1>2, Zenon DEF LevelsFrom
    <2> QED  BY <2>1, <2>2
  <1>3. CASE ~ (Cut(s, i) > Len(s))
    <2>1. LevelsFrom(s, g, i) = <<SubSeq(s, i, Cut(s, i) - 1)>> \o g[Cut(s, i) + 1]
      BY <1>3, Zenon DEF LevelsFrom
    <2>2. Cut(s, i) \in i..Len(s) /\ Cut(s, i) + 1 \in 1..(Len(s) + 1)
      BY <1>1, <1>3
    <2> QED  BY <2>1, <2>2
  <1> QED  BY <1>2, <1>3

LEMMA LevelIs ==
  ASSUME NEW s \in Seq(Nat), NEW i \in 1..(Len(s) + 1)
  PROVE  /\ SubSeq(s, i, Cut(s, i) - 1) \in Seq(Nat)
         /\ Len(SubSeq(s, i, Cut(s, i) - 1)) = Cut(s, i) - i
         /\ \A x \in 1..(Cut(s, i) - i) : SubSeq(s, i, Cut(s, i) - 1)[x] = s[i + x - 1]
  <1> DEFINE y == Cut(s, i) - 1
  <1>1. i \in Nat /\ i >= 1 /\ y \in Nat /\ y <= Len(s) /\ i <= y + 1 /\ y - i + 1 = Cut(s, i) - i
    BY CutIs DEF EndsAt
  <1> HIDE DEF y
  <1>2. /\ SubSeq(s, i, y) \in Seq(Nat) /\ Len(SubSeq(s, i, y)) = y - i + 1
        /\ \A x \in 1..(y - i + 1) : SubSeq(s, i, y)[x] = s[i + x - 1]
    BY <1>1, PartIs
  <1> QED  BY <1>1, <1>2 DEF y

LevelAt(s, i) == SubSeq(s, i, Cut(s, i) - 1)

LEMMA LevelAtIs ==
  ASSUME NEW s \in Seq(Nat), NEW i \in 1..(Len(s) + 1)
  PROVE  /\ LevelAt(s, i) \in Seq(Nat)
         /\ Len(LevelAt(s, i)) = Cut(s, i) - i
         /\ \A x \in 1..(Cut(s, i) - i) : LevelAt(s, i)[x] = s[i + x - 1]
  BY LevelIs DEF LevelAt

LEMMA LevelsTyped ==
  ASSUME NEW s \in Seq(Nat), NEW g, SplitsAt(s, g)
  PROVE  g \in [1..(Len(s) + 1) -> Seq(Seq(Nat))]
  <1> DEFINE l == Len(s)
             S == 1..(l + 1)
             T == Seq(Seq(Nat))
             U == {k \in Nat : \A i \in S : l + 1 - i < k => g[i] \in T}
  <1>1. l \in Nat /\ g = [i \in S |-> LevelsFrom(s, g, i)]
    BY DEF SplitsAt
  <1>2. \A a \in Seq(Nat) : <<a>> \in T /\ \A b \in T : <<a>> \o b \in T
    OBVIOUS
  <1>3. 0 \in U
    BY <1>1
  <1>4. ASSUME NEW k \in Nat, k \in U  PROVE k + 1 \in U
    <2> SUFFICES ASSUME NEW i \in S, l + 1 - i < k + 1  PROVE g[i] \in T
      BY DEF U
    <2> DEFINE c == Cut(s, i)
               a == SubSeq(s, i, c - 1)
    <2>1. g[i] = LevelsFrom(s, g, i)
      BY <1>1
    <2>2. a \in Seq(Nat)
      BY LevelIs
    <2> HIDE DEF a
    <2>3. CASE c = l + 1 /\ LevelsFrom(s, g, i) = <<a>>
      BY <1>2, <2>1, <2>2, <2>3
    <2>4. CASE c \in i..l /\ c + 1 \in S /\ LevelsFrom(s, g, i) = <<a>> \o g[c + 1]
      <3>1. l + 1 - (c + 1) < k
        BY <1>1, <2>4
      <3>2. g[c + 1] \in T
        BY <1>4, <2>4, <3>1
      <3> HIDE DEF T, c
      <3> QED  BY <1>2, <2>1, <2>2, <2>4, <3>2
    <2>5. \/ c = l + 1 /\ LevelsFrom(s, g, i) = <<a>>
          \/ c \in i..l /\ c + 1 \in S /\ LevelsFrom(s, g, i) = <<a>> \o g[c + 1]
      BY LevelsFromIs, Zenon DEF a
    <2> QED  BY <2>3, <2>4, <2>5
  <1>5. Nat \subseteq U
    <2> HIDE DEF U
    <2> QED  BY <1>3, <1>4, Induction
  <1>6. \A i \in S : g[i] \in T
    <2> TAKE i \in S
    <2>1. l + 2 \in U /\ l + 1 - i < l + 2
      BY <1>1, <1>5
    <2> QED  BY <2>1
  <1> HIDE DEF T, S, l
  <1>7. g = [i \in S |-> LevelsFrom(s, g, i)] => g = [i \in S |-> g[i]]
    OBVIOUS
  <1> QED  BY <1>1, <1>6, <1>7 DEF T, S, l

LEMMA LevelsUnfolded ==
  ASSUME NEW s \in Seq(Nat)
  PROVE  \E g \in [1..(Len(s) + 1) -> Seq(Seq(Nat))] : SplitsAt(s, g) /\ Levels(s) = g[1]
  <1> DEFINE l == Len(s)
             S == 1..(l + 1)
             T == Seq(Seq(Nat))
             F == [S -> T]
             D == [p \in F \X S |-> LevelsFrom(s, p[1], p[2])]
             m == [i \in S |-> l + 1 - i]
  <1>1. l \in Nat
    OBVIOUS
  <1>2. \A a \in Seq(Nat) : <<a>> \in T /\ \A b \in T : <<a>> \o b \in T
    OBVIOUS
  <1>3. ASSUME NEW g \in F, NEW i \in S  PROVE D[<<g, i>>] = LevelsFrom(s, g, i) /\ LevelsFrom(s, g, i) \in T
    <2> DEFINE a == SubSeq(s, i, Cut(s, i) - 1)
    <2>1. <<g, i>> \in F \X S /\ <<g, i>>[1] = g /\ <<g, i>>[2] = i
      OBVIOUS
    <2>2. D[<<g, i>>] = LevelsFrom(s, g, i)
      <3> HIDE DEF F, S
      <3> QED  BY <2>1
    <2>3. a \in Seq(Nat)
      BY LevelIs
    <2>4. \/ LevelsFrom(s, g, i) = <<a>>
          \/ Cut(s, i) + 1 \in S /\ LevelsFrom(s, g, i) = <<a>> \o g[Cut(s, i) + 1]
      BY LevelsFromIs, Zenon
    <2>5. \A k \in S : g[k] \in T
      OBVIOUS
    <2> HIDE DEF a, S, T, F, D
    <2> QED  BY <1>2, <2>2, <2>3, <2>4, <2>5
  <1>4. D \in [F \X S -> T]
    <2>1. \A p \in F \X S : D[p] \in T
      <3> TAKE p \in F \X S
      <3>1. p[1] \in F /\ p[2] \in S /\ p = <<p[1], p[2]>>
        OBVIOUS
      <3> HIDE DEF D, F, S, T
      <3> QED  BY <1>3, <3>1
    <2> HIDE DEF F, S, T
    <2> QED  BY <2>1
  <1>5. ReadsBelow(D, m, S, T)
    <2> SUFFICES ASSUME NEW g \in F, NEW h \in F, NEW i \in S, \A y \in S : m[y] < m[i] => g[y] = h[y]
                 PROVE  D[<<g, i>>] = D[<<h, i>>]
      <3> HIDE DEF D, S, T, m
      <3> QED  BY DEF ReadsBelow, F
    <2>1. LevelsFrom(s, g, i) = LevelsFrom(s, h, i)
      <3>1. CASE Cut(s, i) > l
        BY <3>1, Zenon DEF LevelsFrom
      <3>2. CASE ~ (Cut(s, i) > l)
        <4>1. Cut(s, i) \in i..l
          BY <3>2, CutIs DEF EndsAt
        <4>2. Cut(s, i) + 1 \in S /\ m[Cut(s, i) + 1] < m[i]
          BY <1>1, <4>1
        <4>3. g[Cut(s, i) + 1] = h[Cut(s, i) + 1]
          <5> HIDE DEF S, m, F
          <5> QED  BY <4>2
        <4> QED  BY <4>3, Zenon DEF LevelsFrom
      <3> QED  BY <3>1, <3>2
    <2> HIDE DEF D, F, S
    <2> QED  BY <1>3, <2>1
  <1>6. \E f \in F : Solves(f, D, S)
    <2>1. m \in [S -> Nat]
      BY <1>1
    <2>2. T # {}
      <3>1. <<>> \in T
        OBVIOUS
      <3> QED  BY <3>1
    <2> HIDE DEF D, m, S, T
    <2> QED  BY <1>4, <1>5, <2>1, <2>2, Recursion DEF F
  <1>7. PICK f \in F : SplitsAt(s, f)
    <2>1. PICK f \in F : f = [i \in S |-> D[<<f, i>>]]
      <3> HIDE DEF D, S
      <3> QED  BY <1>6 DEF Solves
    <2>2. \A i \in S : D[<<f, i>>] = LevelsFrom(s, f, i)
      BY <1>3
    <2>3. f = [i \in S |-> LevelsFrom(s, f, i)]
      <3> HIDE DEF D, S
      <3> QED  BY <2>1, <2>2
    <2> QED  BY <2>3 DEF SplitsAt
  <1> DEFINE E(g) == g = [i \in 1..(Len(s) + 1) |->
                IF Cut(s, i) > Len(s) THEN <<SubSeq(s, i, Len(s))>>
                ELSE <<SubSeq(s, i, Cut(s, i) - 1)>> \o g[Cut(s, i) + 1]]
             c == CHOOSE g : E(g)
  <1>8. E(c)
    <2>1. E(f)
      BY <1>7, Zenon DEF SplitsAt, LevelsFrom
    <2> HIDE DEF E
    <2> QED  BY <2>1
  <1>9. SplitsAt(s, c)
    <2> HIDE DEF c
    <2> QED  BY <1>8, Zenon DEF SplitsAt, LevelsFrom
  <1>10. Levels(s) = c[1]
    BY Zenon DEF Levels
  <1> HIDE DEF c
  <1> QED  BY <1>9, <1>10, LevelsTyped

----------------------------------------------------------------------------
(* What the code makes of f from i and of n from j on, when row says what  *)
(* it makes of f from i + 1 on, and g what it makes of it from anywhere.   *)
MatchWith(f, n, row, i, j) ==
  IF i > Len(f) \/ j > Len(n) THEN i > Len(f) /\ j > Len(n)
  ELSE IF f[i] # Slash /\ n[j] = Slash THEN FALSE
  ELSE CASE f[i] = Plus -> row[LevelEnd(n, j)]
         [] f[i] = Hash -> row[Len(n) + 1]
         [] OTHER       -> f[i] = n[j] /\ row[j + 1]

MatchFrom(f, n, g, i, j) == MatchWith(f, n, g[i + 1], i, j)

Matches(f, n, g) == g = [i \in 1..(Len(f) + 1) |-> [j \in 1..(Len(n) + 1) |-> MatchFrom(f, n, g, i, j)]]

LEMMA MatchFromIs ==
  ASSUME NEW f \in Seq(Nat), NEW n \in Seq(Nat), NEW i \in 1..(Len(f) + 1), NEW j \in 1..(Len(n) + 1), NEW g
  PROVE  \/ (i > Len(f) \/ j > Len(n)) /\ MatchFrom(f, n, g, i, j) = (i > Len(f) /\ j > Len(n))
         \/ /\ i <= Len(f) /\ j <= Len(n)
            /\ \/ f[i] # Slash /\ n[j] = Slash /\ MatchFrom(f, n, g, i, j) = FALSE
               \/ f[i] = Plus /\ n[j] # Slash /\ MatchFrom(f, n, g, i, j) = g[i + 1][Cut(n, j)]
               \/ f[i] = Hash /\ n[j] # Slash /\ MatchFrom(f, n, g, i, j) = g[i + 1][Len(n) + 1]
               \/ /\ f[i] \notin {Plus, Hash} /\ ~ (f[i] # Slash /\ n[j] = Slash)
                  /\ MatchFrom(f, n, g, i, j) = (f[i] = n[j] /\ g[i + 1][j + 1])
  <1> DEFINE M == MatchFrom(f, n, g, i, j)
             x == g[i + 1][LevelEnd(n, j)]
             y == g[i + 1][Len(n) + 1]
             z == f[i] = n[j] /\ g[i + 1][j + 1]
  <1>1. Slash # Plus /\ Slash # Hash /\ Plus # Hash
    BY DEF Slash, Plus, Hash
  <1>2. M = IF i > Len(f) \/ j > Len(n) THEN i > Len(f) /\ j > Len(n)
            ELSE IF f[i] # Slash /\ n[j] = Slash THEN FALSE
            ELSE CASE f[i] = Plus -> x [] f[i] = Hash -> y [] OTHER -> z
    BY Zenon DEF MatchFrom, MatchWith
  <1> HIDE DEF M
  <1>3. CASE i > Len(f) \/ j > Len(n)
    <2>1. M = (i > Len(f) /\ j > Len(n))
      BY <1>2, <1>3, Zenon
    <2> QED  BY <1>3, <2>1, Zenon DEF M
  <1>4. CASE ~ (i > Len(f) \/ j > Len(n)) /\ f[i] # Slash /\ n[j] = Slash
    <2>1. M = FALSE
      BY <1>2, <1>4, Zenon
    <2>2. i <= Len(f) /\ j <= Len(n)
      BY <1>4
    <2> QED  BY <1>4, <2>1, <2>2, Zenon DEF M
  <1>5. CASE ~ (i > Len(f) \/ j > Len(n)) /\ ~ (f[i] # Slash /\ n[j] = Slash)
    <2>1. M = CASE f[i] = Plus -> x [] f[i] = Hash -> y [] OTHER -> z
      BY <1>2, <1>5, Zenon
    <2>2. i <= Len(f) /\ j <= Len(n)
      BY <1>5
    <2>3. CASE f[i] = Plus
      <3>1. M = x
        <4>1. f[i] # Hash
          BY <1>1, <2>3
        <4> HIDE DEF x, y, z
        <4> QED  BY <2>1, <2>3, <4>1
      <3>2. n[j] # Slash
        BY <1>1, <1>5, <2>3
      <3>3. LevelEnd(n, j) = Cut(n, j)
        BY <2>2, <3>2, LevelEndIs
      <3> QED  BY <2>2, <2>3, <3>1, <3>2, <3>3, Zenon DEF M
    <2>4. CASE f[i] = Hash
      <3>1. M = y
        <4>1. f[i] # Plus
          BY <1>1, <2>4
        <4> HIDE DEF x, y, z
        <4> QED  BY <2>1, <2>4, <4>1
      <3>2. n[j] # Slash
        BY <1>1, <1>5, <2>4
      <3> QED  BY <2>2, <2>4, <3>1, <3>2, Zenon DEF M
    <2>5. CASE f[i] \notin {Plus, Hash}
      <3>1. M = z
        <4>1. f[i] # Plus /\ f[i] # Hash
          BY <2>5
        <4> HIDE DEF x, y, z
        <4> QED  BY <2>1, <4>1, Zenon
      <3> QED  BY <1>5, <2>2, <2>5, <3>1, Zenon DEF M
    <2> QED  BY <2>3, <2>4, <2>5
  <1> QED  BY <1>3, <1>4, <1>5, Zenon

LEMMA MatchFromTyped ==
  ASSUME NEW f \in Seq(Nat), NEW n \in Seq(Nat), NEW i \in 1..(Len(f) + 1), NEW j \in 1..(Len(n) + 1), NEW g,
         i <= Len(f) => g[i + 1] \in [1..(Len(n) + 1) -> BOOLEAN]
  PROVE  MatchFrom(f, n, g, i, j) \in BOOLEAN
  <1>1. Len(n) \in Nat /\ Len(n) + 1 \in 1..(Len(n) + 1)
    OBVIOUS
  <1> DEFINE M == MatchFrom(f, n, g, i, j)
             w == i > Len(f) /\ j > Len(n)
             x == g[i + 1][Cut(n, j)]
             y == g[i + 1][Len(n) + 1]
             z == f[i] = n[j] /\ g[i + 1][j + 1]
  <1>4. \/ (i > Len(f) \/ j > Len(n)) /\ M = w
        \/ M = FALSE \/ M = x \/ M = y \/ M = z
    <2> HIDE DEF w, x, y, z, M
    <2>1. \/ (i > Len(f) \/ j > Len(n)) /\ M = w
          \/ /\ i <= Len(f) /\ j <= Len(n)
             /\ \/ f[i] # Slash /\ n[j] = Slash /\ M = FALSE
                \/ f[i] = Plus /\ n[j] # Slash /\ M = x
                \/ f[i] = Hash /\ n[j] # Slash /\ M = y
                \/ f[i] \notin {Plus, Hash} /\ ~ (f[i] # Slash /\ n[j] = Slash) /\ M = z
      BY MatchFromIs DEF w, x, y, z, M
    <2> QED  BY <2>1, Zenon
  <1> HIDE DEF M
  <1>2. CASE i > Len(f) \/ j > Len(n)
    <2>1. M = w
      <3>1. \A r : MatchWith(f, n, r, i, j) = w
        BY <1>2, Zenon DEF MatchWith
      <3> QED  BY <3>1, Zenon DEF MatchFrom, M
    <2> QED  BY <2>1, Zenon DEF M
  <1>3. CASE ~ (i > Len(f) \/ j > Len(n))
    <2>1. \A k \in 1..(Len(n) + 1) : g[i + 1][k] \in BOOLEAN
      <3>1. i <= Len(f)
        BY <1>3
      <3>2. g[i + 1] \in [1..(Len(n) + 1) -> BOOLEAN]
        BY <3>1, Zenon
      <3> DEFINE row == g[i + 1]
                 R == 1..(Len(n) + 1)
      <3>3. row \in [R -> BOOLEAN]
        BY <3>2
      <3>4. \A k \in R : row[k] \in BOOLEAN
        <4> HIDE DEF row, R
        <4> QED  BY <3>3
      <3> QED  BY <3>4
    <2>2. Cut(n, j) \in 1..(Len(n) + 1)
      BY <1>1, CutIs DEF EndsAt
    <2>4. j + 1 \in 1..(Len(n) + 1)
      BY <1>1, <1>3
    <2>3. g[i + 1][Cut(n, j)] \in BOOLEAN /\ g[i + 1][Len(n) + 1] \in BOOLEAN
      BY <1>1, <2>1, <2>2, <2>4
    <2> QED  BY <1>3, <1>4, <2>3, Zenon DEF M
  <1> QED  BY <1>2, <1>3

LEMMA MatchesTyped ==
  ASSUME NEW f \in Seq(Nat), NEW n \in Seq(Nat), NEW g, Matches(f, n, g)
  PROVE  g \in [1..(Len(f) + 1) -> [1..(Len(n) + 1) -> BOOLEAN]]
  <1> DEFINE l == Len(f)
             S == 1..(l + 1)
             R == 1..(Len(n) + 1)
             T == [R -> BOOLEAN]
             Row(i) == [j \in R |-> MatchFrom(f, n, g, i, j)]
             U == {k \in Nat : \A i \in S : l + 1 - i < k => g[i] \in T}
  <1>1. l \in Nat /\ g = [i \in S |-> Row(i)]
    <2>1. l \in Nat
      OBVIOUS
    <2>2. g = [i \in S |-> Row(i)]
      BY Zenon DEF Matches
    <2> QED  BY <2>1, <2>2, Zenon
  <1>2. \A i \in S : g[i] = Row(i)
    <2> HIDE DEF Row
    <2> QED  BY <1>1
  <1>3. 0 \in U
    BY <1>1
  <1>4. ASSUME NEW k \in Nat, k \in U  PROVE k + 1 \in U
    <2> SUFFICES ASSUME NEW i \in S, l + 1 - i < k + 1  PROVE g[i] \in T
      BY DEF U
    <2>1. i <= l => g[i + 1] \in T
      <3> SUFFICES ASSUME i <= l  PROVE g[i + 1] \in T
        OBVIOUS
      <3>1. i + 1 \in S /\ l + 1 - (i + 1) < k
        BY <1>1
      <3> HIDE DEF S, T
      <3> QED  BY <1>4, <3>1
    <2>2. \A j \in R : MatchFrom(f, n, g, i, j) \in BOOLEAN
      BY <2>1, MatchFromTyped
    <2>3. Row(i) \in T
      <3> HIDE DEF R
      <3> QED  BY <2>2
    <2> HIDE DEF Row, S, T
    <2> QED  BY <1>2, <2>3
  <1>5. Nat \subseteq U
    <2> HIDE DEF U
    <2> QED  BY <1>3, <1>4, Induction
  <1>6. \A i \in S : g[i] \in T
    <2> TAKE i \in S
    <2>1. l + 2 \in U /\ l + 1 - i < l + 2
      BY <1>1, <1>5
    <2> QED  BY <2>1
  <1> HIDE DEF T, S, l, Row
  <1>7. g = [i \in S |-> Row(i)] => g = [i \in S |-> g[i]]
    OBVIOUS
  <1>8. g \in [S -> T]
    BY <1>1, <1>6, <1>7
  <1> QED  BY <1>8 DEF T, S, l

LEMMA MatchesUnfolded ==
  ASSUME NEW f \in Seq(Nat), NEW n \in Seq(Nat)
  PROVE  \E g \in [1..(Len(f) + 1) -> [1..(Len(n) + 1) -> BOOLEAN]] :
           Matches(f, n, g) /\ IsTopicMatched(f, n) = g[1][1]
  <1> DEFINE l == Len(f)
             S == 1..(l + 1)
             R == 1..(Len(n) + 1)
             T == [R -> BOOLEAN]
             F == [S -> T]
             Row(g, i) == [j \in R |-> MatchFrom(f, n, g, i, j)]
             D == [p \in F \X S |-> Row(p[1], p[2])]
             m == [i \in S |-> l + 1 - i]
  <1>1. l \in Nat /\ R \subseteq Nat
    OBVIOUS
  <1>2. ASSUME NEW g \in F, NEW i \in S  PROVE D[<<g, i>>] = Row(g, i) /\ Row(g, i) \in T
    <2>1. <<g, i>> \in F \X S /\ <<g, i>>[1] = g /\ <<g, i>>[2] = i
      OBVIOUS
    <2>2. D[<<g, i>>] = Row(g, i)
      <3> HIDE DEF F, S, Row
      <3> QED  BY <2>1
    <2>3. i <= l => g[i + 1] \in T
      <3> SUFFICES ASSUME i <= l  PROVE g[i + 1] \in T
        OBVIOUS
      <3>1. i + 1 \in S
        BY <1>1
      <3> HIDE DEF S, T
      <3> QED  BY <3>1
    <2>4. \A j \in R : MatchFrom(f, n, g, i, j) \in BOOLEAN
      BY <2>3, MatchFromTyped
    <2>5. Row(g, i) \in T
      <3> HIDE DEF R
      <3> QED  BY <2>4
    <2> QED  BY <2>2, <2>5, Zenon
  <1>3. D \in [F \X S -> T]
    <2>1. \A p \in F \X S : D[p] \in T
      <3> TAKE p \in F \X S
      <3>1. p[1] \in F /\ p[2] \in S /\ p = <<p[1], p[2]>>
        OBVIOUS
      <3> HIDE DEF D, F, S, T, Row
      <3> QED  BY <1>2, <3>1
    <2> HIDE DEF F, S, T, Row
    <2> QED  BY <2>1
  <1>4. ReadsBelow(D, m, S, T)
    <2> SUFFICES ASSUME NEW g \in F, NEW h \in F, NEW i \in S, \A y \in S : m[y] < m[i] => g[y] = h[y]
                 PROVE  D[<<g, i>>] = D[<<h, i>>]
      <3> HIDE DEF D, S, T, m
      <3> QED  BY DEF ReadsBelow, F
    <2>1. ASSUME NEW j \in R  PROVE MatchFrom(f, n, g, i, j) = MatchFrom(f, n, h, i, j)
      <3>1. CASE i > l
        <4>1. \A r : MatchWith(f, n, r, i, j) = (i > Len(f) /\ j > Len(n))
          BY <3>1, Zenon DEF MatchWith
        <4> QED  BY <4>1, Zenon DEF MatchFrom
      <3>2. CASE ~ (i > l)
        <4>1. i + 1 \in S /\ m[i + 1] < m[i]
          BY <1>1, <3>2
        <4>2. g[i + 1] = h[i + 1]
          <5> HIDE DEF S, m, F
          <5> QED  BY <4>1
        <4> QED  BY <4>2, Zenon DEF MatchFrom
      <3> QED  BY <3>1, <3>2
    <2>2. Row(g, i) = Row(h, i)
      <3> HIDE DEF R
      <3> QED  BY <2>1
    <2> HIDE DEF D, F, S, Row
    <2> QED  BY <1>2, <2>2
  <1>5. \E g \in F : Solves(g, D, S)
    <2>1. m \in [S -> Nat]
      BY <1>1
    <2>2. T # {}
      <3>1. [j \in R |-> TRUE] \in T
        OBVIOUS
      <3> QED  BY <3>1
    <2> HIDE DEF D, m, S, T
    <2> QED  BY <1>3, <1>4, <2>1, <2>2, Recursion DEF F
  <1>6. PICK h \in F : Matches(f, n, h)
    <2>1. PICK h \in F : h = [i \in S |-> D[<<h, i>>]]
      <3> HIDE DEF D, S
      <3> QED  BY <1>5 DEF Solves
    <2>2. \A i \in S : D[<<h, i>>] = Row(h, i)
      BY <1>2
    <2>3. h = [i \in S |-> Row(h, i)]
      <3> HIDE DEF D, S, Row
      <3> QED  BY <2>1, <2>2
    <2> QED  BY <2>3 DEF Matches
  <1> DEFINE E(g) == g = [i \in 1..(Len(f) + 1) |-> [j \in 1..(Len(n) + 1) |->
                IF i > Len(f) \/ j > Len(n) THEN i > Len(f) /\ j > Len(n)
                ELSE IF f[i] # Slash /\ n[j] = Slash THEN FALSE
                ELSE CASE f[i] = Plus -> g[i + 1][LevelEnd(n, j)]
                       [] f[i] = Hash -> g[i + 1][Len(n) + 1]
                       [] OTHER       -> f[i] = n[j] /\ g[i + 1][j + 1]]]
             c == CHOOSE g : E(g)
  <1>7. E(c)
    <2>1. E(h)
      BY <1>6, Zenon DEF Matches, MatchFrom, MatchWith
    <2> HIDE DEF E
    <2> QED  BY <2>1
  <1>8. Matches(f, n, c)
    <2> HIDE DEF c
    <2> QED  BY <1>7, Zenon DEF Matches, MatchFrom, MatchWith
  <1>9. IsTopicMatched(f, n) = c[1][1]
    BY Zenon DEF IsTopicMatched
  <1> HIDE DEF c
  <1> QED  BY <1>8, <1>9, MatchesTyped

----------------------------------------------------------------------------
(* Matching by levels, a level at a time.                                  *)

(* MatchesByLevels, of what Levels gives.                                  *)
ByLevels(F, N) ==
  LET tail == F[Len(F)] = <<Hash>>
      head == IF tail THEN Len(F) - 1 ELSE Len(F)
  IN  /\ IF tail THEN Len(N) >= head ELSE Len(N) = head
      /\ \A k \in 1..head : F[k] \in {<<Plus>>, N[k]}

LEMMA ByLevelsIs ==
  ASSUME NEW F, NEW N
  PROVE  /\ F[Len(F)] = <<Hash>> =>
              (ByLevels(F, N) <=> Len(N) >= Len(F) - 1 /\ \A k \in 1..(Len(F) - 1) : F[k] \in {<<Plus>>, N[k]})
         /\ F[Len(F)] # <<Hash>> =>
              (ByLevels(F, N) <=> Len(N) = Len(F) /\ \A k \in 1..Len(F) : F[k] \in {<<Plus>>, N[k]})
  BY DEF ByLevels

LEMMA ByLevelsHash ==
  ASSUME NEW N \in Seq(Seq(Nat))
  PROVE  ByLevels(<<<<Hash>>>>, N)
  BY DEF ByLevels

LEMMA ByLevelsLast ==
  ASSUME NEW a \in Seq(Nat), a # <<Hash>>, NEW N \in Seq(Seq(Nat))
  PROVE  ByLevels(<<a>>, N) <=> Len(N) = 1 /\ a \in {<<Plus>>, N[1]}
  <1>1. Len(<<a>>) = 1 /\ <<a>>[1] = a
    OBVIOUS
  <1>2. ByLevels(<<a>>, N) <=> Len(N) = 1 /\ \A k \in 1..1 : <<a>>[k] \in {<<Plus>>, N[k]}
    BY <1>1 DEF ByLevels
  <1> QED  BY <1>1, <1>2

LEMMA Prepended ==
  ASSUME NEW a \in Seq(Nat), NEW F \in Seq(Seq(Nat))
  PROVE  /\ <<a>> \o F \in Seq(Seq(Nat)) /\ Len(<<a>> \o F) = Len(F) + 1
         /\ (<<a>> \o F)[1] = a /\ \A k \in 1..Len(F) : (<<a>> \o F)[k + 1] = F[k]
  OBVIOUS

LEMMA ByLevelsBoth ==
  ASSUME NEW a \in Seq(Nat), NEW b \in Seq(Nat), NEW F \in Seq(Seq(Nat)), NEW N \in Seq(Seq(Nat)), F # <<>>
  PROVE  ByLevels(<<a>> \o F, <<b>> \o N) <=> a \in {<<Plus>>, b} /\ ByLevels(F, N)
  <1> DEFINE P == <<a>> \o F
             Q == <<b>> \o N
             p == Len(F)
             tail == F[p] = <<Hash>>
             head == IF tail THEN p - 1 ELSE p
  <1>1. p \in Nat /\ p >= 1 /\ Len(N) \in Nat
    OBVIOUS
  <1>2. /\ Len(P) = p + 1 /\ Len(Q) = Len(N) + 1 /\ P[1] = a /\ Q[1] = b
        /\ \A k \in 1..p : P[k + 1] = F[k]
        /\ \A k \in 1..Len(N) : Q[k + 1] = N[k]
    BY Prepended
  <1>3. P[p + 1] = F[p]
    BY <1>1, <1>2
  <1>4. head \in Nat /\ head <= p /\ (IF tail THEN p + 1 - 1 ELSE p + 1) = head + 1
    BY <1>1
  <1> HIDE DEF P, Q, p, tail
  <1>5. ByLevels(F, N) <=> (IF tail THEN Len(N) >= head ELSE Len(N) = head)
                           /\ \A k \in 1..head : F[k] \in {<<Plus>>, N[k]}
    BY Zenon DEF ByLevels, tail, p
  <1>6. ByLevels(P, Q) <=> (IF tail THEN Len(N) + 1 >= head + 1 ELSE Len(N) + 1 = head + 1)
                           /\ \A k \in 1..(head + 1) : P[k] \in {<<Plus>>, Q[k]}
    <2>1. Len(P) = p + 1 /\ Len(Q) = Len(N) + 1 /\ (P[Len(P)] = <<Hash>> <=> tail)
      BY <1>2, <1>3 DEF tail
    <2>2. CASE tail
      <3>1. ByLevels(P, Q) <=> Len(Q) >= Len(P) - 1 /\ \A k \in 1..(Len(P) - 1) : P[k] \in {<<Plus>>, Q[k]}
        BY <2>1, <2>2, ByLevelsIs
      <3>2. Len(P) - 1 = head + 1
        BY <1>1, <2>1, <2>2
      <3> HIDE DEF head
      <3> QED  BY <2>1, <2>2, <3>1, <3>2, Zenon
    <2>3. CASE ~ tail
      <3>1. ByLevels(P, Q) <=> Len(Q) = Len(P) /\ \A k \in 1..Len(P) : P[k] \in {<<Plus>>, Q[k]}
        BY <2>1, <2>3, ByLevelsIs
      <3>2. Len(P) = head + 1
        BY <1>1, <2>1, <2>3
      <3> HIDE DEF head
      <3> QED  BY <2>1, <2>3, <3>1, <3>2, Zenon
    <2> QED  BY <2>2, <2>3
  <1> HIDE DEF head
  <1>7. (IF tail THEN Len(N) + 1 >= head + 1 ELSE Len(N) + 1 = head + 1)
          <=> (IF tail THEN Len(N) >= head ELSE Len(N) = head)
    BY <1>1, <1>4
  <1>8. ASSUME IF tail THEN Len(N) >= head ELSE Len(N) = head
        PROVE  (\A k \in 1..(head + 1) : P[k] \in {<<Plus>>, Q[k]})
                 <=> a \in {<<Plus>>, b} /\ \A k \in 1..head : F[k] \in {<<Plus>>, N[k]}
    <2>4. head <= Len(N)
      BY <1>1, <1>4, <1>8
    <2>5. \A k \in 1..head : k \in 1..p /\ k \in 1..Len(N)
      BY <1>1, <1>4, <2>4
    <2>1. \A k \in 1..head : P[k + 1] = F[k] /\ Q[k + 1] = N[k]
      BY <1>2, <2>5
    <2>2. ASSUME \A k \in 1..(head + 1) : P[k] \in {<<Plus>>, Q[k]}
          PROVE  a \in {<<Plus>>, b} /\ \A k \in 1..head : F[k] \in {<<Plus>>, N[k]}
      <3>1. 1 \in 1..(head + 1) /\ \A k \in 1..head : k + 1 \in 1..(head + 1)
        BY <1>4
      <3> QED  BY <1>2, <2>1, <2>2, <3>1
    <2>3. ASSUME a \in {<<Plus>>, b}, \A k \in 1..head : F[k] \in {<<Plus>>, N[k]}, NEW k \in 1..(head + 1)
          PROVE  P[k] \in {<<Plus>>, Q[k]}
      <3>1. CASE k = 1
        BY <1>2, <2>3, <3>1
      <3>2. CASE k # 1
        <4>1. k - 1 \in 1..head /\ (k - 1) + 1 = k
          BY <1>4, <3>2
        <4>2. P[k] = F[k - 1] /\ Q[k] = N[k - 1]
          BY <2>1, <4>1
        <4> QED  BY <2>3, <4>1, <4>2
      <3> QED  BY <3>1, <3>2
    <2> QED  BY <2>2, <2>3
  <1>9. ByLevels(P, Q) <=> a \in {<<Plus>>, b} /\ ByLevels(F, N)
    BY <1>5, <1>6, <1>7, <1>8, Zenon
  <1> QED  BY <1>9 DEF P, Q

----------------------------------------------------------------------------
(* A level of a filter is a +, a last #, or characters that stand for      *)
(* themselves.                                                             *)

Literal(f, i) == \A x \in i..(Cut(f, i) - 1) : f[x] \notin {Plus, Hash}

StartsLevel(s, i) == i = 1 \/ s[i - 1] = Slash

LEMMA LevelKinds ==
  ASSUME NEW f \in Seq(Nat), WellFormed(f), NEW i \in 1..(Len(f) + 1), StartsLevel(f, i)
  PROVE  \/ i <= Len(f) /\ f[i] = Plus /\ Cut(f, i) = i + 1
         \/ i = Len(f) /\ f[i] = Hash /\ Cut(f, i) = i + 1
         \/ Literal(f, i)
  <1> DEFINE c == Cut(f, i)
             l == Len(f)
  <1>1. l \in Nat /\ c \in i..(l + 1) /\ \A x \in i..(c - 1) : f[x] # Slash
    BY CutIs DEF EndsAt
  <1> SUFFICES ASSUME NEW x \in i..(c - 1), f[x] \in {Plus, Hash}
               PROVE  \/ i <= l /\ f[i] = Plus /\ c = i + 1
                      \/ i = l /\ f[i] = Hash /\ c = i + 1
    BY DEF Literal
  <1> HIDE DEF c
  <1>2. x \in 1..l
    BY <1>1
  <1>3. /\ f[x] = Hash => x = l
        /\ x = 1 \/ f[x - 1] = Slash
        /\ x = l \/ f[x + 1] = Slash
    BY <1>2 DEF WellFormed
  <1>4. x = i
    <2> SUFFICES ASSUME x # i PROVE FALSE
      OBVIOUS
    <2>1. x - 1 \in i..(c - 1) /\ x # 1
      BY <1>1
    <2> QED  BY <1>1, <1>3, <2>1
  <1>5. c = i + 1
    <2> SUFFICES ASSUME c # i + 1 PROVE FALSE
      OBVIOUS
    <2>1. i + 1 \in i..(c - 1) /\ i # l
      BY <1>1, <1>4
    <2> QED  BY <1>1, <1>3, <1>4, <2>1
  <1> QED  BY <1>2, <1>3, <1>4, <1>5

(* f from i and n from j on have d characters of a level in common.        *)
Agree(f, n, i, j, d) == d <= Cut(n, j) - j /\ \A x \in 0..(d - 1) : f[i + x] = n[j + x]

LEMMA MatchesAt ==
  ASSUME NEW f \in Seq(Nat), NEW n \in Seq(Nat), NEW g, Matches(f, n, g),
         NEW i \in 1..(Len(f) + 1), NEW j \in 1..(Len(n) + 1)
  PROVE  g[i][j] = MatchFrom(f, n, g, i, j)
  <1> DEFINE R == 1..(Len(n) + 1)
             Row(k) == [x \in R |-> MatchFrom(f, n, g, k, x)]
  <1>1. g = [k \in 1..(Len(f) + 1) |-> Row(k)]
    BY Zenon DEF Matches
  <1>2. g[i] = Row(i)
    <2> HIDE DEF Row
    <2> QED  BY <1>1
  <1> HIDE DEF R
  <1>3. j \in R
    BY DEF R
  <1> QED  BY <1>2, <1>3

LEMMA OneCharacter ==
  ASSUME NEW f \in Seq(Nat), NEW n \in Seq(Nat), NEW g, Matches(f, n, g),
         NEW i \in 1..Len(f), NEW j \in 1..(Len(n) + 1), f[i] \notin {Slash, Plus, Hash}
  PROVE  g[i][j] <=> j < Cut(n, j) /\ f[i] = n[j] /\ g[i + 1][j + 1]
  <1> DEFINE M == MatchFrom(f, n, g, i, j)
             z == f[i] = n[j] /\ g[i + 1][j + 1]
  <1>1. i \in 1..(Len(f) + 1) /\ Len(n) \in Nat /\ ~ (i > Len(f))
    OBVIOUS
  <1>2. g[i][j] = M
    BY <1>1, MatchesAt
  <1>3. \/ j > Len(n) /\ M = (i > Len(f) /\ j > Len(n))
        \/ j <= Len(n) /\ n[j] = Slash /\ M = FALSE
        \/ j <= Len(n) /\ n[j] # Slash /\ M = z
    <2> DEFINE x == g[i + 1][Cut(n, j)]
               y == g[i + 1][Len(n) + 1]
    <2>1. \/ (i > Len(f) \/ j > Len(n)) /\ M = (i > Len(f) /\ j > Len(n))
          \/ /\ i <= Len(f) /\ j <= Len(n)
             /\ \/ f[i] # Slash /\ n[j] = Slash /\ M = FALSE
                \/ f[i] = Plus /\ n[j] # Slash /\ M = x
                \/ f[i] = Hash /\ n[j] # Slash /\ M = y
                \/ f[i] \notin {Plus, Hash} /\ ~ (f[i] # Slash /\ n[j] = Slash) /\ M = z
      <3> HIDE DEF M, x, y, z
      <3> QED  BY <1>1, MatchFromIs DEF M, x, y, z
    <2>2. f[i] # Slash /\ f[i] # Plus /\ f[i] # Hash
      OBVIOUS
    <2> HIDE DEF M, x, y, z
    <2> QED  BY <1>1, <2>1, <2>2, Zenon
  <1>4. EndsAt(n, j, Cut(n, j))
    BY CutIs
  <1>5. j < Cut(n, j) <=> j <= Len(n) /\ n[j] # Slash
    <2> DEFINE b == Cut(n, j)
    <2>1. b \in j..(Len(n) + 1) /\ (b <= Len(n) => n[b] = Slash) /\ \A x \in j..(b - 1) : n[x] # Slash
      BY <1>4, Zenon DEF EndsAt
    <2> HIDE DEF b
    <2>2. j < b => j <= Len(n) /\ j \in j..(b - 1)
      BY <1>1, <2>1
    <2>3. j <= Len(n) /\ n[j] # Slash => j < b
      BY <1>1, <2>1
    <2> QED  BY <2>1, <2>2, <2>3, Zenon DEF b
  <1>6. j > Len(n) => ~ (j <= Len(n))
    BY <1>1
  <1> HIDE DEF M
  <1>7. M <=> j < Cut(n, j) /\ z
    BY <1>1, <1>3, <1>5, <1>6, Zenon
  <1> QED  BY <1>2, <1>7, Zenon

LEMMA Run ==
  ASSUME NEW f \in Seq(Nat), NEW n \in Seq(Nat), NEW g, Matches(f, n, g),
         NEW i \in 1..(Len(f) + 1), NEW j \in 1..(Len(n) + 1), Literal(f, i),
         NEW d \in Nat, d <= Cut(f, i) - i
  PROVE  g[i][j] <=> Agree(f, n, i, j, d) /\ g[i + d][j + d]
  <1> DEFINE c == Cut(f, i)
             b == Cut(n, j)
             U == {k \in Nat : k <= c - i => (g[i][j] <=> Agree(f, n, i, j, k) /\ g[i + k][j + k])}
  <1>1. /\ Len(f) \in Nat /\ Len(n) \in Nat
        /\ c \in i..(Len(f) + 1) /\ \A x \in i..(c - 1) : f[x] # Slash
        /\ EndsAt(n, j, b)
    <2>1. EndsAt(f, i, c) /\ EndsAt(n, j, b)
      BY CutIs
    <2>2. c \in i..(Len(f) + 1) /\ \A x \in i..(c - 1) : f[x] # Slash
      BY <2>1, Zenon DEF EndsAt
    <2>3. Len(f) \in Nat /\ Len(n) \in Nat
      OBVIOUS
    <2> QED  BY <2>1, <2>2, <2>3, Zenon
  <1>2. b \in j..(Len(n) + 1) /\ \A x \in j..(b - 1) : n[x] # Slash
    BY <1>1 DEF EndsAt
  <1> HIDE DEF c
  <1>3. 0 \in U
    <2>1. Agree(f, n, i, j, 0) /\ i + 0 = i /\ j + 0 = j
      BY <1>1, <1>2 DEF Agree
    <2> QED  BY <2>1
  <1>4. ASSUME NEW k \in Nat, k \in U  PROVE k + 1 \in U
    <2> SUFFICES ASSUME k + 1 <= c - i
                 PROVE  g[i][j] <=> Agree(f, n, i, j, k + 1) /\ g[i + (k + 1)][j + (k + 1)]
      OBVIOUS
    <2>1. k <= c - i
      BY <1>1
    <2>2. g[i][j] <=> Agree(f, n, i, j, k) /\ g[i + k][j + k]
      BY <1>4, <2>1
    <2>3. Agree(f, n, i, j, k + 1) <=> Agree(f, n, i, j, k) /\ k < b - j /\ f[i + k] = n[j + k]
      <3>1. k + 1 <= b - j <=> k < b - j
        BY <1>2
      <3>2. k < b - j => k <= b - j
        BY <1>2
      <3>3. 0..(k + 1 - 1) = 0..(k - 1) \cup {k}
        OBVIOUS
      <3> DEFINE before == \A x \in 0..(k - 1) : f[i + x] = n[j + x]
                 upto == \A x \in 0..(k + 1 - 1) : f[i + x] = n[j + x]
                 last == f[i + k] = n[j + k]
      <3>5. Agree(f, n, i, j, k + 1) = (k + 1 <= b - j /\ upto)
        BY DEF Agree
      <3>9. Agree(f, n, i, j, k) = (k <= b - j /\ before)
        BY DEF Agree
      <3>6. upto <=> before /\ last
        BY <3>3
      <3> HIDE DEF b, before, upto, last
      <3>7. Agree(f, n, i, j, k + 1) <=> Agree(f, n, i, j, k) /\ k < b - j /\ last
        BY <3>1, <3>2, <3>5, <3>6, <3>9, Zenon
      <3> QED  BY <3>7, Zenon DEF last
    <2>4. i + k + 1 = i + (k + 1) /\ j + k + 1 = j + (k + 1)
      OBVIOUS
    <2>5. ASSUME Agree(f, n, i, j, k)
          PROVE  g[i + k][j + k] <=> k < b - j /\ f[i + k] = n[j + k] /\ g[i + (k + 1)][j + (k + 1)]
      <3>1. i + k \in 1..Len(f) /\ i + k \in i..(c - 1)
        BY <1>1
      <3>2. f[i + k] \notin {Slash, Plus, Hash}
        BY <1>1, <3>1 DEF Literal, c
      <3>3. k <= b - j
        BY <2>5 DEF Agree
      <3>4. j + k \in 1..(Len(n) + 1)
        BY <1>2, <3>3
      <3>5. g[i + k][j + k] <=> j + k < Cut(n, j + k) /\ f[i + k] = n[j + k] /\ g[i + k + 1][j + k + 1]
        BY <3>1, <3>2, <3>4, OneCharacter
      <3>6. EndsAt(n, j + k, b)
        BY <1>1, <1>2, <3>3 DEF EndsAt
      <3>7. Cut(n, j + k) = b
        BY <3>4, <3>6, CutIs, OneEnd
      <3>8. j + k < b <=> k < b - j
        BY <1>2
      <3> QED  BY <2>4, <3>5, <3>7, <3>8, Zenon
    <2> QED  BY <2>2, <2>3, <2>5, Zenon
  <1>5. Nat \subseteq U
    <2> HIDE DEF U
    <2> QED  BY <1>3, <1>4, Induction
  <1> QED  BY <1>5 DEF c

(* What comes where both levels end.                                       *)
LEMMA AtEnds ==
  ASSUME NEW f \in Seq(Nat), NEW n \in Seq(Nat), NEW g, Matches(f, n, g),
         NEW c \in 1..(Len(f) + 1), NEW b \in 1..(Len(n) + 1),
         c <= Len(f) => f[c] = Slash
  PROVE  /\ c = Len(f) + 1 => (g[c][b] <=> b = Len(n) + 1)
         /\ c <= Len(f) /\ b <= Len(n) /\ n[b] = Slash => (g[c][b] <=> g[c + 1][b + 1])
         /\ c <= Len(f) /\ ~ (b <= Len(n) /\ n[b] = Slash) => ~ g[c][b]
  <1> DEFINE M == MatchFrom(f, n, g, c, b)
             w == c > Len(f) /\ b > Len(n)
             x == g[c + 1][Cut(n, b)]
             y == g[c + 1][Len(n) + 1]
             z == f[c] = n[b] /\ g[c + 1][b + 1]
  <1>1. Len(f) \in Nat /\ Len(n) \in Nat /\ Slash # Plus /\ Slash # Hash
    BY DEF Slash, Plus, Hash
  <1>2. g[c][b] = M
    BY MatchesAt
  <1>3. \/ (c > Len(f) \/ b > Len(n)) /\ M = w
        \/ /\ c <= Len(f) /\ b <= Len(n)
           /\ \/ f[c] # Slash /\ n[b] = Slash /\ M = FALSE
              \/ f[c] = Plus /\ n[b] # Slash /\ M = x
              \/ f[c] = Hash /\ n[b] # Slash /\ M = y
              \/ f[c] \notin {Plus, Hash} /\ ~ (f[c] # Slash /\ n[b] = Slash) /\ M = z
    <2> HIDE DEF M, w, x, y, z
    <2> QED  BY MatchFromIs DEF M, w, x, y, z
  <1> HIDE DEF M
  <1>4. CASE c = Len(f) + 1
    <2>1. c > Len(f) /\ ~ (c <= Len(f)) /\ (b > Len(n) <=> b = Len(n) + 1)
      BY <1>1, <1>4
    <2>2. M = w
      BY <1>3, <2>1, Zenon
    <2>3. M <=> b = Len(n) + 1
      BY <2>1, <2>2, Zenon
    <2> QED  BY <1>2, <2>1, <2>3, Zenon
  <1>5. CASE c <= Len(f)
    <2>1. f[c] = Slash /\ ~ (c > Len(f)) /\ c # Len(f) + 1 /\ f[c] \notin {Plus, Hash}
      BY <1>1, <1>5
    <2>2. b > Len(n) <=> ~ (b <= Len(n))
      BY <1>1
    <2>3. CASE ~ (b <= Len(n))
      <3>1. M = w
        BY <1>3, <2>3, Zenon
      <3>2. ~ M
        BY <2>1, <3>1, Zenon
      <3> QED  BY <1>2, <2>1, <2>3, <3>2, Zenon
    <2>4. CASE b <= Len(n)
      <3>1. M = z
        <4>1. f[c] # Plus /\ f[c] # Hash
          BY <2>1
        <4> HIDE DEF w, x, y, z
        <4> QED  BY <1>3, <2>1, <2>2, <2>4, <4>1, Zenon
      <3>2. n[b] = Slash => (M <=> g[c + 1][b + 1])
        BY <2>1, <3>1, Zenon
      <3>3. n[b] # Slash => ~ M
        BY <2>1, <3>1, Zenon
      <3>4. CASE n[b] = Slash
        BY <1>2, <2>1, <2>4, <3>2, <3>4, Zenon
      <3>5. CASE n[b] # Slash
        BY <1>2, <2>1, <2>4, <3>3, <3>5, Zenon
      <3> QED  BY <3>4, <3>5, Zenon
    <2> QED  BY <2>3, <2>4
  <1> QED  BY <1>1, <1>4, <1>5

LEMMA LiteralLevel ==
  ASSUME NEW f \in Seq(Nat), NEW n \in Seq(Nat), NEW g, Matches(f, n, g),
         NEW i \in 1..(Len(f) + 1), NEW j \in 1..(Len(n) + 1), Literal(f, i)
  PROVE  g[i][j] <=> /\ SubSeq(f, i, Cut(f, i) - 1) = SubSeq(n, j, Cut(n, j) - 1)
                     /\ g[Cut(f, i)][Cut(n, j)]
  <1> DEFINE c == Cut(f, i)
             b == Cut(n, j)
             d == c - i
             u == SubSeq(f, i, c - 1)
             v == SubSeq(n, j, b - 1)
  <1>1. EndsAt(f, i, c) /\ EndsAt(n, j, b)
    BY CutIs
  <1>2. /\ c \in i..(Len(f) + 1) /\ (c <= Len(f) => f[c] = Slash)
        /\ b \in j..(Len(n) + 1) /\ (b <= Len(n) => n[b] = Slash) /\ (\A x \in j..(b - 1) : n[x] # Slash)
    BY <1>1, Zenon DEF EndsAt
  <1>3. /\ u \in Seq(Nat) /\ Len(u) = c - i /\ \A x \in 1..(c - i) : u[x] = f[i + x - 1]
        /\ v \in Seq(Nat) /\ Len(v) = b - j /\ \A x \in 1..(b - j) : v[x] = n[j + x - 1]
    BY LevelIs
  <1>4. Len(f) \in Nat /\ Len(n) \in Nat
    OBVIOUS
  <1> HIDE DEF c, b, u, v
  <1>5. d \in Nat /\ d <= c - i /\ i + d = c /\ c \in 1..(Len(f) + 1)
    BY <1>2, <1>4
  <1>6. g[i][j] <=> Agree(f, n, i, j, d) /\ g[c][j + d]
    <2> HIDE DEF d
    <2>1. d <= Cut(f, i) - i
      BY <1>5 DEF c
    <2>2. g[i][j] <=> Agree(f, n, i, j, d) /\ g[i + d][j + d]
      BY <1>5, <2>1, Run
    <2> QED  BY <1>5, <2>2, Zenon
  <1>7. Agree(f, n, i, j, d) = (d <= b - j /\ \A x \in 0..(d - 1) : f[i + x] = n[j + x])
    <2> HIDE DEF d
    <2> QED  BY DEF Agree, b
  <1>8. ASSUME d <= b - j, j + d # b  PROVE ~ g[c][j + d]
    <2>1. j + d \in 1..(Len(n) + 1) /\ j + d \in j..(b - 1) /\ j + d # Len(n) + 1
      BY <1>2, <1>4, <1>5, <1>8
    <2>2. n[j + d] # Slash
      BY <1>2, <2>1
    <2>3. c = Len(f) + 1 \/ c <= Len(f)
      BY <1>4, <1>5
    <2> HIDE DEF d
    <2> QED  BY <1>2, <1>5, <2>1, <2>2, <2>3, AtEnds
  <1>9. u = v <=> j + d = b /\ \A x \in 0..(d - 1) : f[i + x] = n[j + x]
    <2>1. ASSUME u = v  PROVE j + d = b /\ \A x \in 0..(d - 1) : f[i + x] = n[j + x]
      <3>1. c - i = b - j /\ j + d = b
        BY <1>2, <1>3, <1>4, <2>1
      <3>2. ASSUME NEW x \in 0..(d - 1)  PROVE f[i + x] = n[j + x]
        <4>1. x + 1 \in 1..(c - i) /\ x + 1 \in 1..(b - j) /\ i + (x + 1) - 1 = i + x /\ j + (x + 1) - 1 = j + x
          BY <1>2, <1>4, <3>1
        <4>2. u[x + 1] = f[i + (x + 1) - 1] /\ v[x + 1] = n[j + (x + 1) - 1]
          BY <1>3, <4>1
        <4> QED  BY <2>1, <4>1, <4>2
      <3> QED  BY <3>1, <3>2
    <2>2. ASSUME j + d = b, \A x \in 0..(d - 1) : f[i + x] = n[j + x]  PROVE u = v
      <3>1. c - i = b - j
        BY <1>2, <1>4, <2>2
      <3>2. ASSUME NEW x \in 1..(c - i)  PROVE u[x] = v[x]
        <4>1. x - 1 \in 0..(d - 1) /\ x \in 1..(b - j) /\ i + (x - 1) = i + x - 1 /\ j + (x - 1) = j + x - 1
          BY <1>2, <1>4, <3>1
        <4>2. u[x] = f[i + x - 1] /\ v[x] = n[j + x - 1]
          BY <1>3, <4>1
        <4>3. f[i + (x - 1)] = n[j + (x - 1)]
          BY <2>2, <4>1
        <4> QED  BY <4>1, <4>2, <4>3
      <3> QED  BY <1>3, <3>1, <3>2, SeqEqual
    <2> QED  BY <2>1, <2>2
  <1>10. j + d = b => d <= b - j
    BY <1>2, <1>4, <1>5
  <1>11. g[i][j] <=> u = v /\ g[c][b]
    <2> DEFINE same == \A x \in 0..(d - 1) : f[i + x] = n[j + x]
    <2>1. g[i][j] <=> (d <= b - j /\ same) /\ g[c][j + d]
      BY <1>6, <1>7, Zenon
    <2>2. u = v <=> j + d = b /\ same
      BY <1>9, Zenon
    <2> HIDE DEF same, d
    <2>3. CASE j + d = b
      BY <1>10, <2>1, <2>2, <2>3, Zenon
    <2>4. CASE j + d # b
      BY <1>8, <2>1, <2>2, <2>4, Zenon
    <2> QED  BY <2>3, <2>4
  <1> QED  BY <1>11, Zenon DEF u, v, c, b

LEMMA WildLevel ==
  ASSUME NEW f \in Seq(Nat), NEW n \in Seq(Nat), NEW g, Matches(f, n, g),
         NEW i \in 1..Len(f), NEW j \in 1..(Len(n) + 1)
  PROVE  /\ f[i] = Plus => (g[i][j] <=> j < Cut(n, j) /\ g[i + 1][Cut(n, j)])
         /\ f[i] = Hash => (g[i][j] <=> j < Cut(n, j) /\ g[i + 1][Len(n) + 1])
  <1> DEFINE M == MatchFrom(f, n, g, i, j)
             w == i > Len(f) /\ j > Len(n)
             x == g[i + 1][Cut(n, j)]
             y == g[i + 1][Len(n) + 1]
             z == f[i] = n[j] /\ g[i + 1][j + 1]
             b == Cut(n, j)
  <1>1. /\ Len(f) \in Nat /\ Len(n) \in Nat /\ Slash # Plus /\ Slash # Hash /\ Plus # Hash
        /\ ~ (i > Len(f)) /\ i \in 1..(Len(f) + 1)
    BY DEF Slash, Plus, Hash
  <1>2. g[i][j] = M
    BY <1>1, MatchesAt
  <1>3. \/ (i > Len(f) \/ j > Len(n)) /\ M = w
        \/ /\ i <= Len(f) /\ j <= Len(n)
           /\ \/ f[i] # Slash /\ n[j] = Slash /\ M = FALSE
              \/ f[i] = Plus /\ n[j] # Slash /\ M = x
              \/ f[i] = Hash /\ n[j] # Slash /\ M = y
              \/ f[i] \notin {Plus, Hash} /\ ~ (f[i] # Slash /\ n[j] = Slash) /\ M = z
    <2> HIDE DEF M, w, x, y, z
    <2> QED  BY <1>1, MatchFromIs DEF M, w, x, y, z
  <1>4. b \in j..(Len(n) + 1) /\ (b <= Len(n) => n[b] = Slash) /\ \A k \in j..(b - 1) : n[k] # Slash
    <2>1. EndsAt(n, j, b)
      BY CutIs
    <2> QED  BY <2>1, Zenon DEF EndsAt
  <1> HIDE DEF M, b
  <1>5. j < b <=> j <= Len(n) /\ n[j] # Slash
    <2>1. j < b => j <= Len(n) /\ j \in j..(b - 1)
      BY <1>1, <1>4
    <2>2. j <= Len(n) /\ n[j] # Slash => j < b
      BY <1>1, <1>4
    <2> QED  BY <1>4, <2>1, <2>2, Zenon
  <1>6. j > Len(n) <=> ~ (j <= Len(n))
    BY <1>1
  <1>7. f[i] \in {Plus, Hash} /\ ~ (j < b) => ~ M
    <2> SUFFICES ASSUME ~ (j < b), f[i] \in {Plus, Hash}  PROVE ~ M
      OBVIOUS
    <2>1. f[i] # Slash
      BY <1>1
    <2> HIDE DEF x, y, z
    <2>2. CASE j > Len(n)
      <3>1. M = w
        BY <1>3, <1>6, <2>2, Zenon
      <3> QED  BY <1>1, <3>1, Zenon
    <2>3. CASE j <= Len(n)
      <3>1. n[j] = Slash
        BY <1>5, <2>3, Zenon
      <3>2. M = FALSE
        BY <1>1, <1>3, <1>6, <2>1, <2>3, <3>1, Zenon
      <3> QED  BY <3>2, Zenon
    <2> QED  BY <1>6, <2>2, <2>3, Zenon
  <1>8. j < b /\ f[i] = Plus => M = x
    <2> SUFFICES ASSUME j < b, f[i] = Plus PROVE M = x
      OBVIOUS
    <2>1. f[i] # Hash /\ f[i] \in {Plus, Hash} /\ j <= Len(n) /\ n[j] # Slash
      BY <1>1, <1>5
    <2> HIDE DEF w, x, y, z
    <2> QED  BY <1>1, <1>3, <1>6, <2>1, Zenon
  <1>9. j < b /\ f[i] = Hash => M = y
    <2> SUFFICES ASSUME j < b, f[i] = Hash PROVE M = y
      OBVIOUS
    <2>1. f[i] # Plus /\ f[i] \in {Plus, Hash} /\ j <= Len(n) /\ n[j] # Slash
      BY <1>1, <1>5
    <2> HIDE DEF w, x, y, z
    <2> QED  BY <1>1, <1>3, <1>6, <2>1, Zenon
  <1>10. f[i] = Plus => (M <=> j < b /\ x)
    BY <1>7, <1>8
  <1>11. f[i] = Hash => (M <=> j < b /\ y)
    BY <1>7, <1>9
  <1> QED  BY <1>2, <1>10, <1>11, Zenon DEF b

(* One level of a filter, other than a last #, against one of a name.      *)
LEMMA OneLevel ==
  ASSUME NEW f \in Seq(Nat), NEW n \in Seq(Nat), NEW g, Matches(f, n, g), WellFormed(f),
         NEW i \in 1..(Len(f) + 1), NEW j \in 1..(Len(n) + 1), StartsLevel(f, i)
  PROVE  \/ LevelAt(f, i) = <<Hash>> /\ Cut(f, i) = Len(f) + 1 /\ (g[i][j] <=> LevelAt(n, j) # <<>>)
         \/ /\ LevelAt(f, i) # <<Hash>>
            /\ \E ok \in BOOLEAN :
                 /\ g[i][j] <=> ok /\ g[Cut(f, i)][Cut(n, j)]
                 /\ ok => LevelAt(f, i) \in {<<Plus>>, LevelAt(n, j)}
                 /\ LevelAt(f, i) \in {<<Plus>>, LevelAt(n, j)} /\ LevelAt(n, j) # <<>> => ok
  <1> DEFINE a == LevelAt(f, i)
             b == LevelAt(n, j)
  <1>1. /\ a \in Seq(Nat) /\ Len(a) = Cut(f, i) - i /\ \A x \in 1..(Cut(f, i) - i) : a[x] = f[i + x - 1]
        /\ b \in Seq(Nat) /\ Len(b) = Cut(n, j) - j
    BY LevelAtIs
  <1>2. /\ Len(f) \in Nat /\ Len(n) \in Nat /\ Plus # Hash /\ Plus \in Nat /\ Hash \in Nat
        /\ Cut(f, i) \in i..(Len(f) + 1) /\ Cut(n, j) \in j..(Len(n) + 1)
    <2>1. EndsAt(f, i, Cut(f, i)) /\ EndsAt(n, j, Cut(n, j))
      BY CutIs
    <2>2. Cut(f, i) \in i..(Len(f) + 1) /\ Cut(n, j) \in j..(Len(n) + 1)
      BY <2>1, Zenon DEF EndsAt
    <2> QED  BY <2>2 DEF Plus, Hash
  <1>8. Literal(f, i) => (g[i][j] <=> a = b /\ g[Cut(f, i)][Cut(n, j)])
    BY LiteralLevel, Zenon DEF LevelAt
  <1> SUFFICES \/ a = <<Hash>> /\ Cut(f, i) = Len(f) + 1 /\ (g[i][j] <=> b # <<>>)
               \/ /\ a # <<Hash>>
                  /\ \E ok \in BOOLEAN :
                       /\ g[i][j] <=> ok /\ g[Cut(f, i)][Cut(n, j)]
                       /\ ok => a \in {<<Plus>>, b}
                       /\ a \in {<<Plus>>, b} /\ b # <<>> => ok
    OBVIOUS
  <1> HIDE DEF a, b
  <1>3. j < Cut(n, j) <=> b # <<>>
    BY <1>1, <1>2
  <1>4. ASSUME Cut(f, i) = i + 1  PROVE a = <<f[i]>>
    <2>1. Cut(f, i) - i = 1 /\ 1 \in 1..1 /\ i + 1 - 1 = i
      BY <1>2, <1>4
    <2>2. Len(a) = 1 /\ a[1] = f[i]
      BY <1>1, <2>1
    <2>3. f[i] \in Nat /\ a \in Seq(Nat)
      <3>1. a \in Seq(Nat) /\ Len(a) = 1
        BY <1>1, <2>2
      <3>2. 1 \in 1..Len(a)
        BY <3>1
      <3>3. a[1] \in Nat
        BY <3>1, <3>2, ElementOfSeq
      <3> QED  BY <2>2, <3>1, <3>3
    <2>4. <<f[i]>> \in Seq(Nat) /\ Len(<<f[i]>>) = 1 /\ <<f[i]>>[1] = f[i]
      BY <2>3
    <2>5. \A x \in 1..Len(a) : a[x] = <<f[i]>>[x]
      BY <2>2, <2>4
    <2> QED  BY <2>2, <2>3, <2>4, <2>5, SeqEqual
  <1>5. CASE i <= Len(f) /\ f[i] = Plus /\ Cut(f, i) = i + 1
    <2> DEFINE ok == b # <<>>
    <2>1. a = <<Plus>> /\ a # <<Hash>>
      BY <1>2, <1>4, <1>5
    <2>2. i \in 1..Len(f)
      BY <1>5
    <2>3. g[i][j] <=> j < Cut(n, j) /\ g[i + 1][Cut(n, j)]
      BY <1>5, <2>2, WildLevel
    <2>4. g[i][j] <=> ok /\ g[Cut(f, i)][Cut(n, j)]
      BY <1>3, <1>5, <2>3, Zenon
    <2>5. ok \in BOOLEAN /\ a \in {<<Plus>>, b}
      BY <2>1
    <2> HIDE DEF ok
    <2> QED  BY <2>1, <2>4, <2>5, Zenon DEF ok
  <1>6. CASE i = Len(f) /\ f[i] = Hash /\ Cut(f, i) = i + 1
    <2>1. a = <<Hash>>
      BY <1>4, <1>6
    <2>2. i \in 1..Len(f) /\ Len(f) + 1 \in 1..(Len(f) + 1) /\ Len(n) + 1 \in 1..(Len(n) + 1)
      BY <1>2, <1>6
    <2>3. g[i][j] <=> j < Cut(n, j) /\ g[i + 1][Len(n) + 1]
      BY <1>6, <2>2, WildLevel
    <2>4. ~ (Len(f) + 1 <= Len(f))
      BY <1>2
    <2>5. g[Len(f) + 1][Len(n) + 1]
      <3> DEFINE c == Len(f) + 1
                 e == Len(n) + 1
      <3>1. c \in 1..(Len(f) + 1) /\ e \in 1..(Len(n) + 1) /\ ~ (c <= Len(f)) /\ c = Len(f) + 1 /\ e = Len(n) + 1
        BY <2>2, <2>4
      <3> HIDE DEF c, e
      <3>2. c = Len(f) + 1 => (g[c][e] <=> e = Len(n) + 1)
        BY <3>1, AtEnds
      <3> QED  BY <3>1, <3>2, Zenon
    <2> QED  BY <1>3, <1>6, <2>1, <2>3, <2>5, Zenon
  <1>7. CASE Literal(f, i)
    <2> DEFINE ok == a = b
    <2>1. g[i][j] <=> ok /\ g[Cut(f, i)][Cut(n, j)]
      BY <1>7, <1>8
    <2>2. \A x \in i..(Cut(f, i) - 1) : f[x] # Plus /\ f[x] # Hash
      BY <1>7 DEF Literal
    <2>3. a # <<Hash>> /\ a # <<Plus>>
      <3> SUFFICES ASSUME Len(a) = 1 PROVE a[1] # Hash /\ a[1] # Plus
        OBVIOUS
      <3>1. Cut(f, i) - i = 1
        BY <1>1
      <3>2. 1 \in 1..(Cut(f, i) - i) /\ i + 1 - 1 = i /\ i \in i..(Cut(f, i) - 1)
        BY <1>2, <3>1
      <3>3. a[1] = f[i]
        BY <1>1, <3>2
      <3> QED  BY <2>2, <3>2, <3>3
    <2>4. ok \in BOOLEAN /\ (ok <=> a \in {<<Plus>>, b})
      BY <2>3
    <2> HIDE DEF ok
    <2> QED  BY <2>1, <2>3, <2>4, Zenon
  <1>9. \/ i <= Len(f) /\ f[i] = Plus /\ Cut(f, i) = i + 1
        \/ i = Len(f) /\ f[i] = Hash /\ Cut(f, i) = i + 1
        \/ Literal(f, i)
    BY LevelKinds
  <1> QED  BY <1>5, <1>6, <1>7, <1>9, Zenon

(* f from i on, with levels F, and n from j on, with levels N: what        *)
(* matches is what matches by levels, but for empty levels of the name and *)
(* the parent of a #.                                                      *)
NoneEmpty(N) == \A k \in 1..Len(N) : N[k] # <<>>

Agrees(matched, F, N) ==
  /\ matched => ByLevels(F, N)
  /\ ByLevels(F, N) /\ NoneEmpty(N) /\ Len(F) <= Len(N) => matched

LEMMA HashAgrees ==
  ASSUME NEW matched, NEW N \in Seq(Seq(Nat)), N # <<>>, matched <=> N[1] # <<>>
  PROVE  Agrees(matched, <<<<Hash>>>>, N)
  <1>1. 1 \in 1..Len(N)
    OBVIOUS
  <1>2. NoneEmpty(N) => matched
    BY <1>1 DEF NoneEmpty
  <1> QED  BY <1>2, ByLevelsHash DEF Agrees

LEMMA LastAgrees ==
  ASSUME NEW matched, NEW ok, NEW a \in Seq(Nat), a # <<Hash>>, NEW N \in Seq(Seq(Nat)), N # <<>>,
         matched <=> ok /\ Len(N) = 1,
         ok => a \in {<<Plus>>, N[1]}, a \in {<<Plus>>, N[1]} /\ N[1] # <<>> => ok
  PROVE  Agrees(matched, <<a>>, N)
  <1>1. 1 \in 1..Len(N)
    OBVIOUS
  <1>2. NoneEmpty(N) => N[1] # <<>>
    BY <1>1 DEF NoneEmpty
  <1>3. ByLevels(<<a>>, N) <=> Len(N) = 1 /\ a \in {<<Plus>>, N[1]}
    BY ByLevelsLast
  <1> QED  BY <1>2, <1>3, Zenon DEF Agrees

LEMMA BothAgree ==
  ASSUME NEW matched, NEW ok, NEW a \in Seq(Nat), NEW b \in Seq(Nat),
         NEW F \in Seq(Seq(Nat)), NEW N \in Seq(Seq(Nat)), F # <<>>, NEW more, Agrees(more, F, N),
         matched <=> ok /\ more,
         ok => a \in {<<Plus>>, b}, a \in {<<Plus>>, b} /\ b # <<>> => ok
  PROVE  Agrees(matched, <<a>> \o F, <<b>> \o N)
  <1> DEFINE P == <<a>> \o F
             Q == <<b>> \o N
  <1>1. Len(F) \in Nat /\ Len(N) \in Nat
    OBVIOUS
  <1>2. /\ Len(P) = Len(F) + 1 /\ Len(Q) = Len(N) + 1 /\ Q[1] = b
        /\ \A k \in 1..Len(N) : Q[k + 1] = N[k]
    BY Prepended
  <1>3. ByLevels(P, Q) <=> a \in {<<Plus>>, b} /\ ByLevels(F, N)
    BY ByLevelsBoth
  <1> HIDE DEF P, Q
  <1>4. NoneEmpty(Q) => b # <<>> /\ NoneEmpty(N)
    <2> SUFFICES ASSUME NoneEmpty(Q)  PROVE b # <<>> /\ NoneEmpty(N)
      OBVIOUS
    <2>1. 1 \in 1..Len(Q) /\ \A k \in 1..Len(N) : k + 1 \in 1..Len(Q)
      BY <1>1, <1>2
    <2>2. Q[1] # <<>>
      BY <2>1 DEF NoneEmpty
    <2>3. \A k \in 1..Len(N) : Q[k + 1] # <<>>
      BY <2>1 DEF NoneEmpty
    <2> QED  BY <1>2, <2>2, <2>3 DEF NoneEmpty
  <1>5. Len(P) <= Len(Q) => Len(F) <= Len(N)
    BY <1>1, <1>2
  <1>6. matched => ByLevels(P, Q)
    BY <1>3, Zenon DEF Agrees
  <1>7. ByLevels(P, Q) /\ NoneEmpty(Q) /\ Len(P) <= Len(Q) => matched
    BY <1>3, <1>4, <1>5, Zenon DEF Agrees
  <1>8. Agrees(matched, P, Q)
    BY <1>6, <1>7, Zenon DEF Agrees
  <1> QED  BY <1>8 DEF P, Q

LEMMA LevelsNonEmpty ==
  ASSUME NEW s \in Seq(Nat), NEW g, SplitsAt(s, g), NEW i \in 1..(Len(s) + 1)
  PROVE  g[i] \in Seq(Seq(Nat)) /\ Len(g[i]) >= 1
  <1> DEFINE a == LevelAt(s, i)
             c == Cut(s, i)
  <1>1. g \in [1..(Len(s) + 1) -> Seq(Seq(Nat))] /\ a \in Seq(Nat)
    BY LevelsTyped, LevelAtIs
  <1>2. g[i] = LevelsFrom(s, g, i)
    BY DEF SplitsAt
  <1>3. \/ g[i] = <<a>>
        \/ c + 1 \in 1..(Len(s) + 1) /\ g[i] = <<a>> \o g[c + 1]
    BY <1>2, LevelsFromIs, Zenon DEF LevelAt
  <1> HIDE DEF a, c
  <1>4. CASE g[i] = <<a>>
    BY <1>1, <1>4
  <1>5. CASE c + 1 \in 1..(Len(s) + 1) /\ g[i] = <<a>> \o g[c + 1]
    <2>1. g[c + 1] \in Seq(Seq(Nat))
      BY <1>1, <1>5
    <2>2. <<a>> \o g[c + 1] \in Seq(Seq(Nat)) /\ Len(<<a>> \o g[c + 1]) = Len(g[c + 1]) + 1
      BY <1>1, <2>1, Prepended
    <2>3. Len(g[c + 1]) \in Nat
      BY <2>1
    <2> QED  BY <1>5, <2>2, <2>3
  <1> QED  BY <1>3, <1>4, <1>5

LEMMA MatchesLevels ==
  ASSUME NEW f \in Seq(Nat), NEW n \in Seq(Nat), WellFormed(f)
  PROVE  Agrees(IsTopicMatched(f, n), Levels(f), Levels(n))
  <1>1. PICK g \in [1..(Len(f) + 1) -> [1..(Len(n) + 1) -> BOOLEAN]] :
               Matches(f, n, g) /\ IsTopicMatched(f, n) = g[1][1]
    BY MatchesUnfolded
  <1>2. PICK p \in [1..(Len(f) + 1) -> Seq(Seq(Nat))] : SplitsAt(f, p) /\ Levels(f) = p[1]
    BY LevelsUnfolded
  <1>3. PICK q \in [1..(Len(n) + 1) -> Seq(Seq(Nat))] : SplitsAt(n, q) /\ Levels(n) = q[1]
    BY LevelsUnfolded
  <1> DEFINE l == Len(f)
             U == {k \in Nat : \A i \in 1..(l + 1), j \in 1..(Len(n) + 1) :
                      l + 1 - i < k /\ StartsLevel(f, i) => Agrees(g[i][j], p[i], q[j])}
  <1>4. l \in Nat /\ Len(n) \in Nat
    OBVIOUS
  <1>5. 0 \in U
    BY <1>4
  <1>6. ASSUME NEW k \in Nat, k \in U  PROVE k + 1 \in U
    <2> SUFFICES ASSUME NEW i \in 1..(l + 1), NEW j \in 1..(Len(n) + 1), l + 1 - i < k + 1, StartsLevel(f, i)
                 PROVE  Agrees(g[i][j], p[i], q[j])
      OBVIOUS
    <2> DEFINE c == Cut(f, i)
               e == Cut(n, j)
               a == LevelAt(f, i)
               b == LevelAt(n, j)
               matched == g[i][j]
               more == g[c + 1][e + 1]
    <2>1. p[i] = LevelsFrom(f, p, i) /\ q[j] = LevelsFrom(n, q, j)
      BY <1>2, <1>3 DEF SplitsAt
    <2>2. /\ \/ c = l + 1 /\ p[i] = <<a>>
             \/ c \in i..l /\ c + 1 \in 1..(l + 1) /\ p[i] = <<a>> \o p[c + 1]
          /\ \/ e = Len(n) + 1 /\ q[j] = <<b>>
             \/ e \in j..Len(n) /\ e + 1 \in 1..(Len(n) + 1) /\ q[j] = <<b>> \o q[e + 1]
      BY <2>1, LevelsFromIs, Zenon DEF LevelAt
    <2>3. a \in Seq(Nat) /\ b \in Seq(Nat)
      BY LevelAtIs
    <2>4. EndsAt(f, i, c) /\ EndsAt(n, j, e)
      BY CutIs
    <2>5. /\ c \in 1..(l + 1) /\ (c <= l => f[c] = Slash)
          /\ e \in 1..(Len(n) + 1) /\ (e <= Len(n) => n[e] = Slash)
      <3>1. c \in i..(l + 1) /\ (c <= l => f[c] = Slash) /\ e \in j..(Len(n) + 1) /\ (e <= Len(n) => n[e] = Slash)
        BY <2>4, Zenon DEF EndsAt
      <3> HIDE DEF c, e
      <3> QED  BY <1>4, <3>1
    <2>6. /\ c = l + 1 => (g[c][e] <=> e = Len(n) + 1)
          /\ c <= l /\ e <= Len(n) => (g[c][e] <=> more)
          /\ c <= l /\ ~ (e <= Len(n)) => ~ g[c][e]
      <3> HIDE DEF c, e
      <3>1. /\ c = Len(f) + 1 => (g[c][e] <=> e = Len(n) + 1)
            /\ c <= Len(f) /\ e <= Len(n) /\ n[e] = Slash => (g[c][e] <=> g[c + 1][e + 1])
            /\ c <= Len(f) /\ ~ (e <= Len(n) /\ n[e] = Slash) => ~ g[c][e]
        BY <1>1, <2>5, AtEnds
      <3> QED  BY <2>5, <3>1, Zenon
    <2>7. \/ a = <<Hash>> /\ c = l + 1 /\ (matched <=> b # <<>>)
          \/ /\ a # <<Hash>>
             /\ \E ok \in BOOLEAN :
                  /\ matched <=> ok /\ g[c][e]
                  /\ ok => a \in {<<Plus>>, b}
                  /\ a \in {<<Plus>>, b} /\ b # <<>> => ok
      BY <1>1, OneLevel
    <2>8. \A x \in 1..(l + 1) : p[x] \in Seq(Seq(Nat)) /\ Len(p[x]) >= 1
      BY <1>2, LevelsNonEmpty
    <2>9. \A x \in 1..(Len(n) + 1) : q[x] \in Seq(Seq(Nat)) /\ Len(q[x]) >= 1
      BY <1>3, LevelsNonEmpty
    <2> HIDE DEF a, b, c, e, matched, more
    <2>10. /\ q[j] \in Seq(Seq(Nat)) /\ q[j] # <<>> /\ q[j][1] = b
           /\ Len(q[j]) = 1 <=> e = Len(n) + 1
      <3>1. CASE e = Len(n) + 1 /\ q[j] = <<b>>
        BY <2>3, <2>9, <3>1
      <3>2. CASE e \in j..Len(n) /\ e + 1 \in 1..(Len(n) + 1) /\ q[j] = <<b>> \o q[e + 1]
        <4> DEFINE N == q[e + 1]
        <4>1. N \in Seq(Seq(Nat)) /\ Len(N) >= 1 /\ Len(N) \in Nat
          <5>1. N \in Seq(Seq(Nat)) /\ Len(N) >= 1
            BY <2>9, <3>2
          <5> HIDE DEF N
          <5> QED  BY <5>1
        <4> HIDE DEF N
        <4>2. Len(<<b>> \o N) = Len(N) + 1 /\ (<<b>> \o N)[1] = b
          BY <2>3, <4>1, Prepended
        <4>5. q[j] = <<b>> \o N
          BY <3>2 DEF N
        <4>6. e # Len(n) + 1
          BY <1>4, <3>2
        <4>7. Len(N) + 1 # 1
          BY <4>1
        <4>3. Len(q[j]) # 1 /\ q[j][1] = b /\ e # Len(n) + 1
          BY <4>2, <4>5, <4>6, <4>7, Zenon
        <4>4. q[j] \in Seq(Seq(Nat)) /\ q[j] # <<>>
          BY <2>9
        <4> QED  BY <4>3, <4>4
      <3> QED  BY <2>2, <3>1, <3>2
    <2>11. CASE a = <<Hash>> /\ c = l + 1 /\ (matched <=> b # <<>>)
      <3>1. p[i] = <<<<Hash>>>>
        BY <1>4, <2>2, <2>11
      <3>2. matched <=> q[j][1] # <<>>
        BY <2>10, <2>11
      <3>3. Agrees(matched, <<<<Hash>>>>, q[j])
        BY <2>10, <3>2, HashAgrees
      <3> QED  BY <3>1, <3>3 DEF matched
    <2>12. ASSUME a # <<Hash>>, NEW ok \in BOOLEAN, matched <=> ok /\ g[c][e],
                  ok => a \in {<<Plus>>, b}, a \in {<<Plus>>, b} /\ b # <<>> => ok
           PROVE  Agrees(matched, p[i], q[j])
      <3>1. CASE c = l + 1 /\ p[i] = <<a>>
        <4>1. matched <=> ok /\ Len(q[j]) = 1
          BY <2>6, <2>10, <2>12, <3>1, Zenon
        <4>2. ok => a \in {<<Plus>>, q[j][1]}
          BY <2>10, <2>12, Zenon
        <4>3. a \in {<<Plus>>, q[j][1]} /\ q[j][1] # <<>> => ok
          BY <2>10, <2>12, Zenon
        <4>4. Agrees(matched, <<a>>, q[j])
          BY <2>3, <2>10, <2>12, <4>1, <4>2, <4>3, LastAgrees
        <4> QED  BY <3>1, <4>4
      <3>2. CASE /\ c \in i..l /\ c + 1 \in 1..(l + 1) /\ p[i] = <<a>> \o p[c + 1]
                 /\ e = Len(n) + 1
        <4>1. c <= l /\ ~ (e <= Len(n))
          BY <1>4, <3>2
        <4>2. ~ matched
          BY <2>6, <2>12, <4>1, Zenon
        <4> DEFINE F == p[c + 1]
        <4>3. F \in Seq(Seq(Nat)) /\ Len(F) >= 1 /\ Len(F) \in Nat
          <5>1. F \in Seq(Seq(Nat)) /\ Len(F) >= 1
            BY <2>8, <3>2
          <5> HIDE DEF F
          <5> QED  BY <5>1
        <4> HIDE DEF F
        <4>4. Len(<<a>> \o F) = Len(F) + 1
          BY <2>3, <4>3, Prepended
        <4>5. Len(p[i]) = Len(F) + 1
          BY <3>2, <4>4 DEF F
        <4>6. Len(q[j]) = 1
          BY <2>10, <3>2
        <4>7. ~ (Len(p[i]) <= Len(q[j]))
          BY <4>3, <4>5, <4>6
        <4> QED  BY <4>2, <4>7, Zenon DEF Agrees
      <3>3. CASE /\ c \in i..l /\ c + 1 \in 1..(l + 1) /\ p[i] = <<a>> \o p[c + 1]
                 /\ e \in j..Len(n) /\ e + 1 \in 1..(Len(n) + 1) /\ q[j] = <<b>> \o q[e + 1]
        <4>1. c <= l /\ e <= Len(n) /\ (c + 1) - 1 = c /\ l + 1 - (c + 1) < k
          BY <1>4, <3>3
        <4>2. matched <=> ok /\ more
          BY <2>6, <2>12, <4>1, Zenon
        <4>3. StartsLevel(f, c + 1)
          BY <2>5, <4>1 DEF StartsLevel
        <4>4. Agrees(g[c + 1][e + 1], p[c + 1], q[e + 1])
          BY <1>6, <3>3, <4>1, <4>3
        <4>5. Agrees(more, p[c + 1], q[e + 1])
          BY <4>4, Zenon DEF more
        <4> DEFINE F == p[c + 1]
                   N == q[e + 1]
        <4>6. F \in Seq(Seq(Nat)) /\ Len(F) >= 1 /\ N \in Seq(Seq(Nat)) /\ Agrees(more, F, N)
          BY <2>8, <2>9, <3>3, <4>5
        <4> HIDE DEF F, N
        <4>7. F # <<>>
          BY <4>6
        <4>8. Agrees(matched, <<a>> \o F, <<b>> \o N)
          BY <2>3, <2>12, <4>2, <4>6, <4>7, BothAgree
        <4> QED  BY <3>3, <4>8 DEF F, N
      <3> QED  BY <2>2, <3>1, <3>2, <3>3, Zenon
    <2> QED  BY <2>7, <2>11, <2>12, Zenon DEF matched
  <1>7. Nat \subseteq U
    <2> HIDE DEF U
    <2> QED  BY <1>5, <1>6, Induction
  <1>8. Agrees(g[1][1], p[1], q[1])
    <2>1. l + 1 \in U /\ 1 \in 1..(l + 1) /\ 1 \in 1..(Len(n) + 1) /\ l + 1 - 1 < l + 1
      BY <1>4, <1>7
    <2>2. StartsLevel(f, 1)
      BY DEF StartsLevel
    <2> QED  BY <2>1, <2>2
  <1> QED  BY <1>1, <1>2, <1>3, <1>8, Zenon

LEMMA LevelsIs ==
  ASSUME NEW s \in Seq(Nat)
  PROVE  Levels(s) \in Seq(Seq(Nat)) /\ Len(Levels(s)) >= 1
  <1>1. PICK g \in [1..(Len(s) + 1) -> Seq(Seq(Nat))] : SplitsAt(s, g) /\ Levels(s) = g[1]
    BY LevelsUnfolded
  <1>2. 1 \in 1..(Len(s) + 1)
    OBVIOUS
  <1> QED  BY <1>1, <1>2, LevelsNonEmpty

LEMMA ByLevelsSelf ==
  ASSUME NEW F \in Seq(Seq(Nat)), Len(F) >= 1
  PROVE  ByLevels(F, F)
  <1>1. Len(F) \in Nat /\ Len(F) >= Len(F) - 1
    OBVIOUS
  <1> QED  BY <1>1, ByLevelsIs

(* For every alphabet: a filter and a name match in the code only if they  *)
(* match level by level; and if they do, the name has no empty level, and  *)
(* the filter no more levels than the name, they match in the code.        *)
THEOREM MatchingIsByLevels ==
  ASSUME NEW f \in Seq(Nat), WellFormed(f), NEW n \in Seq(Nat)
  PROVE  /\ f = n \/ IsTopicMatched(f, n) => MatchesByLevels(f, n)
         /\ MatchesByLevels(f, n) /\ <<>> \notin Range(Levels(n)) /\ Len(Levels(f)) <= Len(Levels(n))
              => IsTopicMatched(f, n)
  <1>1. /\ Levels(f) \in Seq(Seq(Nat)) /\ Len(Levels(f)) >= 1
        /\ Levels(n) \in Seq(Seq(Nat))
    BY LevelsIs
  <1>2. MatchesByLevels(f, n) = ByLevels(Levels(f), Levels(n))
    BY Zenon DEF MatchesByLevels, ByLevels
  <1>3. <<>> \notin Range(Levels(n)) => NoneEmpty(Levels(n))
    <2> DEFINE N == Levels(n)
    <2> HIDE DEF N
    <2>1. N \in Seq(Seq(Nat))
      BY <1>1 DEF N
    <2>2. DOMAIN N = 1..Len(N)
      BY <2>1
    <2>3. <<>> \notin Range(N) => NoneEmpty(N)
      BY <2>2 DEF Range, NoneEmpty
    <2> QED  BY <2>3 DEF N
  <1>4. ByLevels(Levels(f), Levels(f))
    BY <1>1, ByLevelsSelf
  <1>5. Agrees(IsTopicMatched(f, n), Levels(f), Levels(n))
    BY MatchesLevels
  <1>6. f = n => MatchesByLevels(f, n)
    BY <1>2, <1>4
  <1>7. IsTopicMatched(f, n) => MatchesByLevels(f, n)
    BY <1>2, <1>5, Zenon DEF Agrees
  <1>8. MatchesByLevels(f, n) /\ <<>> \notin Range(Levels(n)) /\ Len(Levels(f)) <= Len(Levels(n))
          => IsTopicMatched(f, n)
    BY <1>2, <1>3, <1>5, Zenon DEF Agrees
  <1> QED  BY <1>6, <1>7, <1>8

LEMMA FiltersAre == \A f \in Filters : f \in Seq(Nat) /\ WellFormed(f)
  <1> TAKE f \in Filters
  <1>1. WellFormed(f) /\ f \in UNION {[1..n -> {A, Slash, Plus, Hash}] : n \in 1..MaxName}
    BY DEF Filters
  <1>2. PICK n \in 1..MaxName : f \in [1..n -> {A, Slash, Plus, Hash}]
    BY <1>1
  <1>3. n \in Nat
    BY CodecAssumption
  <1>4. f \in [1..n -> Nat]
    BY <1>2 DEF A, Slash, Plus, Hash
  <1> QED  BY <1>1, <1>3, <1>4

(* Handlers have run for the topic that was taken out of readBuf.          *)
RanInv ==
  got.rc = "MQTT_SUCCESS" /\ got.type = PUBLISH => got.topic \in Seq(Nat) /\ ran = Matching(got.topic)

LEMMA RanStep ==
  ASSUME InInv, InInv', RanInv, [Next]_vars
  PROVE  RanInv'
  <1>1. ASSUME NEW p \in Requests, NEW txBufLen \in TxBufLens, Serialize(p, txBufLen)
        PROVE  RanInv'
    BY <1>1 DEF Serialize, RanInv
  <1>2. CASE SendPacket
    BY <1>2 DEF SendPacket, RanInv
  <1>3. ASSUME NEW m \in Incoming, Receive(m)
        PROVE  RanInv'
    <2>1. got' = [rc |-> "none"]
      BY <1>3, Zenon DEF Receive
    <2> QED  BY <2>1 DEF RanInv
  <1>4. CASE Deserialize
    <2>1. came \in Incoming /\ readBuf \in Block(RxBufLen) /\ HoldsPacket(readBuf, came)
      BY <1>4 DEF Deserialize, InInv
    <2>2. TypeOf(readBuf) = came.type
      BY <2>1, Understood
    <2>3. came' = came /\ ReceivedAsSent'
      BY <1>4 DEF Deserialize, InInv
    <2>4. ran' = IF TypeOf(readBuf) = PUBLISH /\ got'.rc = "MQTT_SUCCESS" THEN Matching(got'.topic) ELSE {}
      BY <1>4, Zenon DEF Deserialize
    <2>5. CASE got'.rc = "MQTT_SUCCESS" /\ got'.type = PUBLISH
      <3>1. came.type = PUBLISH /\ got'.topic = came.topic
        BY <2>3, <2>5, Zenon DEF ReceivedAsSent
      <3>2. came.topic \in Seq(Nat)
        BY <2>1, <3>1, IncomingTypes DEF Block, PUBLISH, CONNACK, PUBACK, UNSUBACK, SUBACK
      <3>3. ran' = Matching(got'.topic)
        BY <2>2, <2>4, <2>5, <3>1, Zenon
      <3> QED  BY <3>1, <3>2, <3>3, Zenon DEF RanInv
    <2> QED  BY <2>5, Zenon DEF RanInv
  <1>5. CASE UNCHANGED vars
    BY <1>5 DEF vars, RanInv
  <1> QED  BY <1>1, <1>2, <1>3, <1>4, <1>5 DEF Next

(* A message goes to the handlers whose filters match its topic level by   *)
(* level, but for empty levels and the parent of a #.                      *)
THEOREM TopicsMatchedByLevels == Spec => []DeliveredByLevels
  <1>1. Init => InInv /\ RanInv
    BY InInit DEF Init, Failure, RanInv
  <1>2. InInv /\ RanInv /\ [Next]_vars => InInv' /\ RanInv'
    BY InStep, RanStep
  <1>3. InInv /\ RanInv => DeliveredByLevels
    <2> SUFFICES ASSUME RanInv, got.rc = "MQTT_SUCCESS", got.type = PUBLISH, NEW f \in Filters
                 PROVE  /\ f \in ran => MatchesByLevels(f, got.topic)
                        /\ /\ MatchesByLevels(f, got.topic)
                           /\ <<>> \notin Range(Levels(got.topic))
                           /\ Len(Levels(f)) <= Len(Levels(got.topic))
                           => f \in ran
      BY Zenon DEF DeliveredByLevels
    <2> DEFINE n == got.topic
    <2>1. n \in Seq(Nat) /\ ran = Matching(n)
      BY DEF RanInv
    <2>2. f \in Seq(Nat) /\ WellFormed(f)
      BY FiltersAre
    <2>3. f \in ran <=> f = n \/ IsTopicMatched(f, n)
      BY <2>1, Zenon DEF Matching
    <2> HIDE DEF n
    <2>4. /\ f = n \/ IsTopicMatched(f, n) => MatchesByLevels(f, n)
          /\ MatchesByLevels(f, n) /\ <<>> \notin Range(Levels(n)) /\ Len(Levels(f)) <= Len(Levels(n))
               => IsTopicMatched(f, n)
      BY <2>1, <2>2, MatchingIsByLevels
    <2> QED  BY <2>3, <2>4, Zenon DEF n
  <1> QED  BY <1>1, <1>2, <1>3, PTL DEF Spec
=============================================================================
