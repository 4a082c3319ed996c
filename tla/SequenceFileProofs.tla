-------------------------- MODULE SequenceFileProofs ------------------------
(***************************************************************************)
(* Proofs about Writables and SequenceFile: that integers and Writables    *)
(* are read as they were written, that CompareTo orders them, and that     *)
(* the reader stays at the records' boundaries whatever reaches the file.  *)
(***************************************************************************)
EXTENDS SequenceFile, SequenceLemmas, FiniteSetTheorems

-----------------------------------------------------------------------------
(***************************************************************************)
(* Integers and their bytes.                                               *)
(***************************************************************************)

\* Quotient and remainder are what they should be, and nothing else is.
LEMMA DivMod ==
    ASSUME NEW a \in Int, NEW b \in Nat \ {0}
    PROVE  /\ a \div b \in Int /\ a % b \in 0..(b - 1)
           /\ a = (a \div b) * b + (a % b)
OBVIOUS

LEMMA DivUnique ==
    ASSUME NEW a \in Int, NEW b \in Nat \ {0}, NEW q \in Int, NEW r \in 0..(b - 1),
           a = q * b + r
    PROVE  a \div b = q /\ a % b = r
<1> DEFINE d == a \div b
           m == a % b
<1>1. d \in Int /\ m \in 0..(b - 1) /\ a = d * b + m
  BY DivMod
<1> HIDE DEF d, m
<1>2. (q - d) * b = m - r
  BY <1>1
<1>3. ASSUME q - d >= 1 PROVE FALSE
  <2>1. (q - d) * b >= b
    BY <1>1, <1>3
  <2>2. QED
    BY <1>1, <1>2, <2>1
<1>4. ASSUME q - d <= -1 PROVE FALSE
  <2>1. (q - d) * b <= -b
    BY <1>1, <1>4
  <2>2. QED
    BY <1>1, <1>2, <2>1
<1>5. q = d
  BY <1>1, <1>3, <1>4
<1>6. m = r
  BY <1>1, <1>5
<1>7. QED
  BY <1>5, <1>6 DEF d, m

\* The number of values of up to eight bytes, as products.
LEMMA Powers ==
    /\ Power[0] = 1 /\ Power[1] = ByteBase /\ Power[2] = ByteBase * ByteBase
    /\ Power[3] = Power[2] * ByteBase /\ Power[4] = Power[3] * ByteBase
    /\ Power[5] = Power[4] * ByteBase /\ Power[6] = Power[5] * ByteBase
    /\ Power[7] = Power[6] * ByteBase /\ Power[8] = Power[7] * ByteBase
    /\ \A n \in 0..8 : Power[n] \in Nat \ {0}
<1> DEFINE B == ByteBase
           b2 == B * B
           b3 == b2 * B
           b4 == b3 * B
           b5 == b4 * B
           b6 == b5 * B
           b7 == b6 * B
           b8 == b7 * B
           F(p) == [n \in 0..8 |-> IF n = 0 THEN 1 ELSE p[n - 1] * ByteBase]
           G == [n \in 0..8 |->
                   IF n = 0 THEN 1 ELSE IF n = 1 THEN B ELSE IF n = 2 THEN b2
                   ELSE IF n = 3 THEN b3 ELSE IF n = 4 THEN b4 ELSE IF n = 5 THEN b5
                   ELSE IF n = 6 THEN b6 ELSE IF n = 7 THEN b7 ELSE b8]
<1>0. B \in Nat \ {0}
  BY WritablesAssumption
<1>1. b2 \in Nat \ {0}
  BY <1>0
<1> HIDE DEF b2
<1>2. b3 \in Nat \ {0}
  BY <1>0, <1>1
<1> HIDE DEF b3
<1>3. b4 \in Nat \ {0}
  BY <1>0, <1>2
<1> HIDE DEF b4
<1>4. b5 \in Nat \ {0}
  BY <1>0, <1>3
<1> HIDE DEF b5
<1>5. b6 \in Nat \ {0}
  BY <1>0, <1>4
<1> HIDE DEF b6
<1>6. b7 \in Nat \ {0}
  BY <1>0, <1>5
<1> HIDE DEF b7
<1>7. b8 \in Nat \ {0}
  BY <1>0, <1>6
<1> HIDE DEF b8
<1>8. \A n \in 0..8 : G[n] = IF n = 0 THEN 1 ELSE G[n - 1] * ByteBase
  <2>1. G[0] = 1 /\ G[1] = B /\ G[2] = b2 /\ G[3] = b3 /\ G[4] = b4 /\ G[5] = b5
        /\ G[6] = b6 /\ G[7] = b7 /\ G[8] = b8
    OBVIOUS
  <2> HIDE DEF G
  <2>2. G[1] = G[0] * ByteBase
    BY <1>0, <2>1
  <2>3. G[2] = G[1] * ByteBase /\ G[3] = G[2] * ByteBase /\ G[4] = G[3] * ByteBase
        /\ G[5] = G[4] * ByteBase /\ G[6] = G[5] * ByteBase /\ G[7] = G[6] * ByteBase
        /\ G[8] = G[7] * ByteBase
    BY <2>1, Zenon DEF b2, b3, b4, b5, b6, b7, b8
  <2>4. \A n \in 0..8 : n \in {0, 1, 2, 3, 4, 5, 6, 7, 8}
    OBVIOUS
  <2>5. 1 - 1 = 0 /\ 2 - 1 = 1 /\ 3 - 1 = 2 /\ 4 - 1 = 3 /\ 5 - 1 = 4 /\ 6 - 1 = 5
        /\ 7 - 1 = 6 /\ 8 - 1 = 7
    OBVIOUS
  <2> QED
    BY <2>1, <2>2, <2>3, <2>4, <2>5
<1>9. G = F(G)
  <2>1. G = [n \in 0..8 |-> G[n]]
    OBVIOUS
  <2> HIDE DEF G
  <2> QED
    BY <1>8, <2>1, Zenon
<1>10. Power = F(Power)
  <2>1. Power = CHOOSE p : p = F(p)
    BY Zenon DEF Power
  <2> HIDE DEF F, G
  <2>2. QED
    BY <1>9, <2>1, Zenon
<1>11. Power[0] = 1 /\ \A n \in 1..8 : Power[n] = Power[n - 1] * ByteBase
  <2>1. \A n \in 0..8 : Power[n] = IF n = 0 THEN 1 ELSE Power[n - 1] * ByteBase
    <3> HIDE DEF G
    <3> QED
      BY <1>10
  <2>2. QED
    BY <2>1
<1>12. /\ Power[1] = Power[0] * ByteBase /\ Power[2] = Power[1] * ByteBase
       /\ Power[3] = Power[2] * ByteBase /\ Power[4] = Power[3] * ByteBase
       /\ Power[5] = Power[4] * ByteBase /\ Power[6] = Power[5] * ByteBase
       /\ Power[7] = Power[6] * ByteBase /\ Power[8] = Power[7] * ByteBase
  BY <1>11
<1>13. Power[1] = B
  BY <1>0, <1>11, <1>12
<1>14. Power[2] = b2 /\ Power[3] = b3 /\ Power[4] = b4 /\ Power[5] = b5 /\ Power[6] = b6
       /\ Power[7] = b7 /\ Power[8] = b8
  BY <1>12, <1>13, Zenon DEF b2, b3, b4, b5, b6, b7, b8
<1>15. \A n \in 0..8 : Power[n] \in Nat \ {0}
  <2>1. \A n \in 0..8 : n \in {0, 1, 2, 3, 4, 5, 6, 7, 8}
    OBVIOUS
  <2> QED
    BY <1>0, <1>1, <1>2, <1>3, <1>4, <1>5, <1>6, <1>7, <1>11, <1>13, <1>14, <2>1
<1>16. QED
  BY <1>11, <1>12, <1>13, <1>15

\* What the bytes of a short and of an int amount to.
LEMMA UnsignedTwo ==
    ASSUME NEW s \in Seq(Int), Len(s) = 2
    PROVE  Unsigned(s) = s[1] * ByteBase + s[2]
<1> DEFINE B == ByteBase
           F(p) == [n \in 0..Len(s) |-> IF n = 0 THEN 0 ELSE p[n - 1] * ByteBase + s[n]]
           G == [n \in 0..2 |-> IF n = 0 THEN 0 ELSE IF n = 1 THEN s[1] ELSE s[1] * B + s[2]]
<1>0. B \in Nat /\ s[1] \in Int /\ s[2] \in Int
  BY WritablesAssumption
<1>1. G = F(G)
  <2>1. G[0] = 0 /\ G[1] = s[1] /\ G[2] = s[1] * B + s[2] /\ G = [n \in 0..2 |-> G[n]]
    OBVIOUS
  <2> HIDE DEF G
  <2>2. \A n \in 0..2 : G[n] = IF n = 0 THEN 0 ELSE G[n - 1] * ByteBase + s[n]
    <3>1. \A n \in 0..2 : n \in {0, 1, 2}
      OBVIOUS
    <3>2. G[1] = G[1 - 1] * ByteBase + s[1]
      BY <1>0, <2>1
    <3>3. G[2] = G[2 - 1] * ByteBase + s[2]
      BY <2>1
    <3>4. QED
      BY <2>1, <3>1, <3>2, <3>3
  <2>3. QED
    BY <2>1, <2>2, Zenon
<1>2. Unsigned(s) = (CHOOSE p : p = F(p))[Len(s)]
  BY Zenon DEF Unsigned
<1> DEFINE P == CHOOSE p : p = F(p)
<1>3. P = F(P)
  <2> HIDE DEF F, G
  <2> QED
    BY <1>1, Zenon
<1> HIDE DEF P
<1>4. \A n \in 0..2 : P[n] = IF n = 0 THEN 0 ELSE P[n - 1] * ByteBase + s[n]
  <2> HIDE DEF G
  <2> QED
    BY <1>3
<1>5. P[0] = 0 /\ P[1] = P[0] * B + s[1] /\ P[2] = P[1] * B + s[2]
  BY <1>4
<1>6. P[1] = s[1]
  BY <1>0, <1>5
<1>7. QED
  BY <1>2, <1>5, <1>6 DEF P

LEMMA UnsignedFour ==
    ASSUME NEW s \in Seq(Int), Len(s) = 4
    PROVE  Unsigned(s) = ((s[1] * ByteBase + s[2]) * ByteBase + s[3]) * ByteBase + s[4]
<1> DEFINE B == ByteBase
           u2 == s[1] * B + s[2]
           u3 == u2 * B + s[3]
           u4 == u3 * B + s[4]
           F(p) == [n \in 0..Len(s) |-> IF n = 0 THEN 0 ELSE p[n - 1] * ByteBase + s[n]]
           G == [n \in 0..4 |-> IF n = 0 THEN 0 ELSE IF n = 1 THEN s[1]
                                ELSE IF n = 2 THEN u2 ELSE IF n = 3 THEN u3 ELSE u4]
<1>0. B \in Nat /\ s[1] \in Int
  BY WritablesAssumption
<1>1. G = F(G)
  <2> HIDE DEF u2, u3, u4
  <2>1. G[0] = 0 /\ G[1] = s[1] /\ G[2] = u2 /\ G[3] = u3 /\ G[4] = u4
        /\ G = [n \in 0..4 |-> G[n]]
    OBVIOUS
  <2> HIDE DEF G
  <2>2. \A n \in 0..4 : G[n] = IF n = 0 THEN 0 ELSE G[n - 1] * ByteBase + s[n]
    <3>1. \A n \in 0..4 : n \in {0, 1, 2, 3, 4}
      OBVIOUS
    <3>2. G[1] = G[0] * ByteBase + s[1]
      BY <1>0, <2>1
    <3>3. G[2] = G[1] * ByteBase + s[2] /\ G[3] = G[2] * ByteBase + s[3]
          /\ G[4] = G[3] * ByteBase + s[4]
      BY <2>1, Zenon DEF u2, u3, u4
    <3>4. 1 - 1 = 0 /\ 2 - 1 = 1 /\ 3 - 1 = 2 /\ 4 - 1 = 3
      OBVIOUS
    <3>5. QED
      BY <2>1, <3>1, <3>2, <3>3, <3>4
  <2>3. QED
    BY <2>1, <2>2, Zenon
<1>2. Unsigned(s) = (CHOOSE p : p = F(p))[Len(s)]
  BY Zenon DEF Unsigned
<1> DEFINE P == CHOOSE p : p = F(p)
<1>3. P = F(P)
  <2> HIDE DEF F, G
  <2> QED
    BY <1>1, Zenon
<1> HIDE DEF P
<1>4. \A n \in 0..4 : P[n] = IF n = 0 THEN 0 ELSE P[n - 1] * ByteBase + s[n]
  <2> HIDE DEF G
  <2> QED
    BY <1>3
<1>5. P[0] = 0 /\ P[1] = P[0] * B + s[1] /\ P[2] = P[1] * B + s[2]
      /\ P[3] = P[2] * B + s[3] /\ P[4] = P[3] * B + s[4]
  BY <1>4
<1>6. P[1] = s[1]
  BY <1>0, <1>5
<1>7. P[4] = u4
  BY <1>5, <1>6, Zenon DEF u2, u3, u4
<1>8. QED
  BY <1>2, <1>7 DEF P

\* Dividing twice is dividing by the product.
LEMMA DivDiv ==
    ASSUME NEW v \in Int, NEW a \in Nat \ {0}, NEW b \in Nat \ {0}
    PROVE  /\ v \div (a * b) = (v \div a) \div b
           /\ v % (a * b) = ((v \div a) % b) * a + (v % a)
<1> DEFINE q == v \div a
           r == v % a
           Q == q \div b
           R == q % b
           U == R * a + r
<1>1. q \in Int /\ r \in 0..(a - 1) /\ v = q * a + r
  BY DivMod
<1> HIDE DEF q, r
<1>2. Q \in Int /\ R \in 0..(b - 1) /\ q = Q * b + R
  BY <1>1, DivMod
<1> HIDE DEF Q, R
<1>3. a * b \in Nat \ {0}
  OBVIOUS
<1>4. v = Q * (a * b) + U
  <2>1. q * a = (Q * b) * a + R * a
    BY <1>1, <1>2
  <2>2. (Q * b) * a = Q * (a * b)
    BY <1>2
  <2>3. Q * (a * b) \in Int /\ R * a \in Int
    BY <1>2, <1>3
  <2>4. QED
    BY <1>1, <2>1, <2>2, <2>3
<1>5. U \in 0..(a * b - 1)
  <2>1. R * a >= 0 /\ R * a \in Int
    BY <1>2
  <2>2. R * a <= (b - 1) * a
    BY <1>2
  <2>3. (b - 1) * a = a * b - a
    OBVIOUS
  <2>4. QED
    BY <1>1, <1>3, <2>1, <2>2, <2>3
<1> HIDE DEF U
<1>6. v \div (a * b) = Q /\ v % (a * b) = U
  <2> DEFINE c == a * b
  <2>1. c \in Nat \ {0} /\ v = Q * c + U /\ U \in 0..(c - 1)
    BY <1>3, <1>4, <1>5
  <2> HIDE DEF c
  <2>2. v \div c = Q /\ v % c = U
    BY <1>2, <2>1, DivUnique
  <2>3. QED
    BY <2>2 DEF c
<1>7. QED
  BY <1>6, Zenon DEF U, Q, R, q, r

\* WriteShort writes the low two bytes, which are read back as they are.
LEMMA ShortBytes ==
    ASSUME NEW v \in Int
    PROVE  /\ WriteShort(v) \in [1..2 -> Byte]
           /\ Unsigned(WriteShort(v)) = v % Power[2]
<1> DEFINE B == ByteBase
           q == v \div B
           s == WriteShort(v)
<1>0. B \in Nat \ {0} /\ Power[0] = 1 /\ Power[1] = B /\ Power[2] = B * B
  BY Powers, WritablesAssumption
<1>1. q \in Int /\ q % B \in Byte /\ v % B \in Byte
  BY <1>0, DivMod DEF Byte
<1>2. s = [i \in 1..2 |-> (v \div Power[2 - i]) % B]
  BY DEF WriteShort, BigEndian
<1>3. s[1] = q % B /\ s[2] = v % B
  <2>1. v \div 1 = v
    OBVIOUS
  <2>2. s[1] = (v \div Power[1]) % B /\ s[2] = (v \div Power[0]) % B
    <3> HIDE DEF q
    <3> QED
      BY <1>2
  <2>3. QED
    BY <1>0, <2>1, <2>2
<1>4. s \in [1..2 -> Byte]
  <2>1. \A i \in 1..2 : i \in {1, 2}
    OBVIOUS
  <2> HIDE DEF q
  <2>2. \A i \in 1..2 : s[i] \in Byte
    BY <1>1, <1>3, <2>1
  <2>3. s = [i \in 1..2 |-> s[i]]
    BY <1>2, Zenon
  <2> HIDE DEF s
  <2>4. QED
    BY <2>2, <2>3
<1>5. s \in Seq(Int) /\ Len(s) = 2
  <2> HIDE DEF s, q
  <2>1. \A i \in 1..2 : s[i] \in Int
    BY <1>0, <1>4 DEF Byte
  <2>2. s \in [1..2 -> Int]
    BY <1>4, <2>1
  <2>3. QED
    BY <2>2, FunSeq
<1>6. Unsigned(s) = (q % B) * B + (v % B)
  <2> HIDE DEF s
  <2>1. Unsigned(s) = s[1] * B + s[2]
    BY <1>5, UnsignedTwo
  <2>2. QED
    BY <1>3, <2>1, Zenon
<1>7. v % (B * B) = (q % B) * B + (v % B)
  BY <1>0, DivDiv
<1>8. QED
  BY <1>0, <1>4, <1>6, <1>7

\* WriteInt writes the low four bytes, which are read back as they are.
LEMMA IntBytes ==
    ASSUME NEW v \in Int
    PROVE  /\ WriteInt(v) \in [1..4 -> Byte]
           /\ Unsigned(WriteInt(v)) = v % Power[4]
<1> DEFINE B == ByteBase
           q1 == v \div B
           q2 == q1 \div B
           q3 == q2 \div B
           r1 == q1 % B
           r2 == q2 % B
           r3 == q3 % B
           s == WriteInt(v)
<1>0. /\ B \in Nat \ {0} /\ Power[0] = 1 /\ Power[1] = B /\ Power[2] = B * B
      /\ Power[3] = Power[2] * B /\ Power[4] = Power[3] * B
      /\ Power[2] \in Nat \ {0} /\ Power[3] \in Nat \ {0}
  BY Powers, WritablesAssumption
<1>1. q1 \in Int /\ v % B \in Byte
  BY <1>0, DivMod DEF Byte
<1>2. q2 \in Int /\ r1 \in Byte
  <2> HIDE DEF q1
  <2> QED
    BY <1>0, <1>1, DivMod DEF Byte
<1>3. q3 \in Int /\ r2 \in Byte
  <2> HIDE DEF q2
  <2> QED
    BY <1>0, <1>2, DivMod DEF Byte
<1>4. r3 \in Byte
  <2> HIDE DEF q3
  <2> QED
    BY <1>0, <1>3, DivMod DEF Byte
<1>5. /\ v \div Power[2] = q2 /\ v % Power[2] = r1 * B + (v % B)
  <2>1. v \div (B * B) = q2 /\ v % (B * B) = r1 * B + (v % B)
    BY <1>0, DivDiv
  <2>2. QED
    BY <1>0, <2>1, Zenon
<1>6. /\ v \div Power[3] = q3 /\ v % Power[3] = r2 * Power[2] + (v % Power[2])
  <2>1. /\ v \div (Power[2] * B) = (v \div Power[2]) \div B
        /\ v % (Power[2] * B) = ((v \div Power[2]) % B) * Power[2] + (v % Power[2])
    BY <1>0, DivDiv
  <2> HIDE DEF q2
  <2>2. QED
    BY <1>0, <1>5, <2>1
<1>7. v % Power[4] = r3 * Power[3] + (v % Power[3])
  <2>1. v % (Power[3] * B) = ((v \div Power[3]) % B) * Power[3] + (v % Power[3])
    BY <1>0, DivDiv
  <2> HIDE DEF q3
  <2>2. QED
    BY <1>0, <1>6, <2>1
<1>8. s = [i \in 1..4 |-> (v \div Power[4 - i]) % B]
  BY DEF WriteInt, BigEndian
<1>9. s[1] = r3 /\ s[2] = r2 /\ s[3] = r1 /\ s[4] = v % B
  <2> HIDE DEF q1, q2, q3
  <2>1. s[1] = (v \div Power[3]) % B /\ s[2] = (v \div Power[2]) % B
        /\ s[3] = (v \div Power[1]) % B /\ s[4] = (v \div Power[0]) % B
    BY <1>8
  <2>2. v \div 1 = v
    OBVIOUS
  <2>3. v \div Power[1] = q1 /\ v \div Power[0] = v
    BY <1>0, <2>2, Zenon DEF q1
  <2>4. QED
    BY <1>5, <1>6, <2>1, <2>3, Zenon
<1> HIDE DEF q1, q2, q3, r1, r2, r3
<1>10. s \in [1..4 -> Byte]
  <2>1. \A i \in 1..4 : i \in {1, 2, 3, 4}
    OBVIOUS
  <2>2. s = [i \in 1..4 |-> s[i]]
    BY <1>8, Zenon
  <2> HIDE DEF s
  <2>3. \A i \in 1..4 : s[i] \in Byte
    BY <1>1, <1>2, <1>3, <1>4, <1>9, <2>1
  <2>4. QED
    BY <2>2, <2>3
<1> HIDE DEF s
<1>11. s \in Seq(Int) /\ Len(s) = 4
  <2>1. \A i \in 1..4 : s[i] \in Int
    BY <1>0, <1>10 DEF Byte
  <2>2. s \in [1..4 -> Int]
    BY <1>10, <2>1
  <2>3. QED
    BY <2>2, FunSeq
<1>12. Unsigned(s) = ((r3 * B + r2) * B + r1) * B + (v % B)
  <2>1. Unsigned(s) = ((s[1] * B + s[2]) * B + s[3]) * B + s[4]
    BY <1>11, UnsignedFour
  <2> HIDE DEF B
  <2>2. QED
    BY <1>9, <2>1
<1>13. ((r3 * B + r2) * B + r1) * B + (v % B) = v % Power[4]
  <2>0. r1 \in Int /\ r2 \in Int /\ r3 \in Int /\ v % B \in Int
    BY <1>0, <1>1, <1>2, <1>3, <1>4 DEF Byte
  <2>1. ((r3 * B + r2) * B + r1) * B = (r3 * B + r2) * Power[2] + r1 * B
    BY <1>0, <2>0
  <2>2. (r3 * B + r2) * Power[2] = r3 * Power[3] + r2 * Power[2]
    BY <1>0, <2>0
  <2>3. r3 * Power[3] \in Int /\ r2 * Power[2] \in Int /\ r1 * B \in Int
    BY <1>0, <2>0
  <2> DEFINE a == r3 * Power[3]
             b == r2 * Power[2]
             c == r1 * B
             d == v % B
             x == ((r3 * B + r2) * B + r1) * B
             y == (r3 * B + r2) * Power[2]
             z == v % Power[4]
             z3 == v % Power[3]
             z2 == v % Power[2]
  <2>4. /\ a \in Int /\ b \in Int /\ c \in Int /\ d \in Int
        /\ x = y + c /\ y = a + b /\ z2 = c + d /\ z3 = b + z2 /\ z = a + z3
    BY <1>5, <1>6, <1>7, <2>0, <2>1, <2>2, <2>3, Zenon
  <2>5. x + d = z
    <3> HIDE DEF a, b, c, d, x, y, z, z2, z3
    <3> QED
      BY <2>4
  <2>6. QED
    BY <2>5, Zenon
<1>14. QED
  BY <1>10, <1>12, <1>13 DEF s

\* A signed integer of w bytes survives being written modulo Power[w].
LEMMA SignedMod ==
    ASSUME NEW w \in 0..8, NEW v \in Ints(w)
    PROVE  v \in Int /\ Signed(v % Power[w], w) = v
<1> DEFINE p == Power[w]
           h == p \div 2
<1>1. p \in Nat \ {0}
  BY Powers
<1> HIDE DEF p
<1>2. h \in Nat /\ 2 * h <= p
  BY <1>1
<1> HIDE DEF h
<1>3. v \in Int /\ -h <= v /\ v <= h - 1
  BY <1>2 DEF Ints, h, p
<1>4. CASE v >= 0
  <2>1. v % p = v
    <3>1. v = 0 * p + v /\ v \in 0..(p - 1) /\ 0 \in Int
      BY <1>1, <1>2, <1>3, <1>4
    <3>2. QED
      BY <1>1, <1>3, <3>1, DivUnique
  <2>2. QED
    BY <1>2, <1>3, <2>1 DEF Signed, h, p
<1>5. CASE v < 0
  <2>1. v % p = v + p
    <3>1. v = (-1) * p + (v + p) /\ v + p \in 0..(p - 1) /\ -1 \in Int
      BY <1>1, <1>2, <1>3, <1>5
    <3>2. QED
      BY <1>1, <1>3, <3>1, DivUnique
  <2>2. ~(v + p < h)
    BY <1>1, <1>2, <1>3
  <2>3. QED
    BY <1>1, <1>3, <2>1, <2>2 DEF Signed, h, p
<1>6. QED
  BY <1>3, <1>4, <1>5

\* A long: the two halves make up the low eight bytes.
LEMMA LongHalves ==
    ASSUME NEW v \in Int
    PROVE  /\ v \div Power[4] \in Int /\ v % Power[4] \in Int
           /\ Unsigned(WriteInt(v \div Power[4])) * Power[4]
                + Unsigned(WriteInt(v % Power[4])) = v % Power[8]
<1> DEFINE p == Power[4]
           q == v \div p
           r == v % p
<1>1. p \in Nat \ {0} /\ Power[8] = p * p
  <2> DEFINE B == ByteBase
  <2>1. B \in Nat \ {0} /\ Power[2] = B * B /\ p \in Nat \ {0}
        /\ Power[2] \in Nat \ {0} /\ Power[3] = Power[2] * B
        /\ p = Power[3] * B /\ Power[5] = p * B /\ Power[6] = Power[5] * B
        /\ Power[7] = Power[6] * B /\ Power[8] = Power[7] * B
    BY Powers, WritablesAssumption
  <2> HIDE DEF p, B
  <2>2. p = Power[2] * Power[2] /\ Power[6] = p * Power[2]
    BY <2>1
  <2>3. Power[8] = Power[6] * Power[2]
    BY <2>1, <2>2
  <2>4. (p * Power[2]) * Power[2] = p * (Power[2] * Power[2])
    BY <2>1
  <2>5. QED
    BY <2>1, <2>2, <2>3, <2>4, Zenon
<1>2. q \in Int /\ r \in 0..(p - 1)
  <2> HIDE DEF p
  <2> QED
    BY <1>1, DivMod
<1>3. r % p = r
  <2> HIDE DEF p, r
  <2>1. r = 0 * p + r
    BY <1>1, <1>2
  <2>2. QED
    BY <1>1, <1>2, <2>1, DivUnique
<1>4. v % (p * p) = (q % p) * p + r
  <2> HIDE DEF p
  <2> QED
    BY <1>1, DivDiv
<1>5. Unsigned(WriteInt(q)) = q % p /\ Unsigned(WriteInt(r)) = r % p /\ r \in Int
  <2>1. q \in Int /\ r \in Int
    <3> HIDE DEF p, q, r
    <3> QED
      BY <1>1, <1>2
  <2>2. QED
    BY <2>1, IntBytes
<1>6. QED
  BY <1>1, <1>2, <1>3, <1>4, <1>5, Zenon

-----------------------------------------------------------------------------
(***************************************************************************)
(* The reader's primitives.                                                *)
(***************************************************************************)

\* The buffer data holds the bytes b after position p, as far as it goes.
Holds(data, p, b) == \A j \in 1..Len(b) : p + j <= Len(data) => data[p + j] = b[j]

\* ReadRawBytes returns the bytes that are there, or throws at the end.
LEMMA ReadRaw ==
    ASSUME NEW data \in Seq(Byte), NEW p \in Nat, NEW b \in Seq(Byte), Holds(data, p, b)
    PROVE  ReadRawBytes([data |-> data, pos |-> p], Len(b)) =
             IF p + Len(b) <= Len(data) THEN Result(b, p + Len(b)) ELSE Thrown
<1>1. CASE p + Len(b) <= Len(data)
  <2>1. SubSeq(data, p + 1, p + Len(b)) = b
    <3> DEFINE t == SubSeq(data, p + 1, p + Len(b))
    <3>0. Len(b) \in Nat /\ Len(data) \in Nat
      BY LenProperties
    <3>1. t \in Seq(Byte) /\ Len(t) = Len(b) /\ \A j \in 1..Len(b) : t[j] = data[p + j]
      BY <1>1, <3>0, SubSeqFacts
    <3>2. \A j \in 1..Len(b) : data[p + j] = b[j]
      BY <1>1 DEF Holds
    <3> HIDE DEF t
    <3>3. \A j \in 1..Len(b) : t[j] = b[j]
      BY <3>1, <3>2
    <3>4. t = b
      BY <3>1, <3>3, SeqEqual
    <3>5. QED
      BY <3>4 DEF t
  <2>2. QED
    BY <1>1, <2>1 DEF ReadRawBytes, CheckBounds
<1>2. CASE ~(p + Len(b) <= Len(data))
  BY <1>2 DEF ReadRawBytes, CheckBounds
<1>3. QED
  BY <1>1, <1>2

\* ReadInt returns the int WriteInt wrote, or throws at the end.
LEMMA ReadIntBack ==
    ASSUME NEW data \in Seq(Byte), NEW p \in Nat, NEW n \in Ints(4),
           Holds(data, p, WriteInt(n))
    PROVE  ReadBE(data, p) = IF p + 4 <= Len(data) THEN Result(n, p + 4) ELSE Thrown
<1> DEFINE b == WriteInt(n)
           in == [data |-> data, pos |-> p]
<1>1. n \in Int /\ Signed(n % Power[4], 4) = n
  BY SignedMod
<1>2. b \in [1..4 -> Byte] /\ Unsigned(b) = n % Power[4]
  BY <1>1, IntBytes
<1>3. b \in Seq(Byte) /\ Len(b) = 4
  <2> HIDE DEF b
  <2> QED
    BY <1>2, FunSeq
<1>4. ReadRawBytes(in, 4) = IF p + 4 <= Len(data) THEN Result(b, p + 4) ELSE Thrown
  BY <1>3, ReadRaw
<1> HIDE DEF b, in
<1>5. CASE p + 4 <= Len(data)
  <2>1. ReadRawBytes(in, 4) = Result(b, p + 4)
    BY <1>4, <1>5
  <2>2. Result(b, p + 4).ok /\ Result(b, p + 4).value = b /\ Result(b, p + 4).pos = p + 4
    BY DEF Result
  <2>3. ReadInt(in) = Result(Signed(Unsigned(b), 4), p + 4)
    BY <2>1, <2>2, Zenon DEF ReadInt
  <2>4. QED
    BY <1>1, <1>2, <1>5, <2>3 DEF ReadBE, in
<1>6. CASE ~(p + 4 <= Len(data))
  <2>1. ReadRawBytes(in, 4) = Thrown /\ ~ Thrown.ok
    BY <1>4, <1>6 DEF Thrown
  <2>2. ReadInt(in) = Thrown
    BY <2>1, Zenon DEF ReadInt
  <2>3. QED
    BY <1>6, <2>2 DEF ReadBE, in
<1>7. QED
  BY <1>5, <1>6

\* Past the end every read of an int throws.
LEMMA ReadPastEnd ==
    ASSUME NEW data, NEW p, ~(p + 4 <= Len(data))
    PROVE  ReadBE(data, p) = Thrown
<1>1. ReadRawBytes([data |-> data, pos |-> p], 4) = Thrown /\ ~ Thrown.ok
  BY DEF ReadRawBytes, CheckBounds, Thrown
<1>2. QED
  BY <1>1, Zenon DEF ReadBE, ReadInt

\* -1, the escape, is an int; so is every length.
LEMMA EscapeIsInt == -1 \in Ints(4) /\ KSyncEscape = -1
<1>1. Power[4] >= 2 /\ Power[4] \in Nat
  <2>1. ByteBase \in Nat /\ ByteBase >= 2 /\ Power[3] \in Nat /\ Power[3] >= 1
        /\ Power[4] = Power[3] * ByteBase
    BY Powers, WritablesAssumption
  <2>2. QED
    BY <2>1
<1>2. QED
  BY <1>1 DEF Ints, KSyncEscape

\* An escape is at q.
Escape(data, q) == ReadBE(data, q) = Result(KSyncEscape, q + 4)

\* The loop that skips escapes ends at every position: each round moves it
\* on, and past the end there is none.
LEMMA SkipExists ==
    ASSUME NEW data \in Seq(Byte)
    PROVE  \E f : f = [q \in Nat |-> IF Escape(data, q) THEN f[q + 4 + MD5Len] ELSE q]
<1> DEFINE c == 4 + MD5Len
           Clear(q) == {n \in Nat : ~ Escape(data, q + c * n)}
           N(q) == CHOOSE n \in Clear(q) : \A m \in Clear(q) : n <= m
           F == [q \in Nat |-> q + c * N(q)]
<1>0. c \in Nat /\ c >= 1 /\ \A q : q + 4 + MD5Len = (q + 4) + MD5Len
  BY WritablesAssumption
<1>1. ASSUME NEW q \in Nat
      PROVE  N(q) \in Clear(q) /\ \A m \in Clear(q) : N(q) <= m
  <2>1. Len(data) \in Clear(q)
    <3>1. Len(data) \in Nat /\ c * Len(data) \in Nat /\ c * Len(data) >= Len(data)
      BY <1>0
    <3>2. ~((q + c * Len(data)) + 4 <= Len(data))
      BY <3>1
    <3>3. ReadBE(data, q + c * Len(data)) = Thrown
      BY <3>2, ReadPastEnd
    <3>4. ~ Escape(data, q + c * Len(data))
      <4>1. \A x, y : Thrown # Result(x, y)
        <5>1. \A x, y : Result(x, y).ok = TRUE
          BY DEF Result
        <5>2. Thrown.ok = FALSE
          BY DEF Thrown
        <5>3. QED
          BY <5>1, <5>2
      <4>2. QED
        BY <3>3, <4>1 DEF Escape
    <3>5. QED
      BY <3>1, <3>4
  <2>2. Clear(q) \subseteq Nat /\ Clear(q) # {}
    BY <2>1
  <2>3. \E n \in Clear(q) : \A m \in Clear(q) : n <= m
    <3> HIDE DEF Clear
    <3> QED
      BY <2>2, LeastOf
  <2>4. QED
    <3> HIDE DEF Clear
    <3> QED
      BY <2>3
<1>2. ASSUME NEW q \in Nat
      PROVE  F[q] = IF Escape(data, q) THEN F[q + 4 + MD5Len] ELSE q
  <2>0. N(q) \in Nat /\ q + c \in Nat /\ q + c = q + 4 + MD5Len
    <3>1. N(q) \in Clear(q)
      BY <1>1
    <3>2. q + c \in Nat /\ q + c = q + 4 + MD5Len
      BY WritablesAssumption
    <3> HIDE DEF N, c
    <3>3. QED
      BY <3>1, <3>2
  <2>1. F[q] = q + c * N(q) /\ F[q + c] = (q + c) + c * N(q + c)
    <3> HIDE DEF N, c
    <3> QED
      BY <2>0
  <2>2. CASE ~ Escape(data, q)
    <3>1. 0 \in Clear(q)
      <4>1. q + c * 0 = q
        BY <1>0
      <4>2. QED
        BY <2>2, <4>1
    <3>2. N(q) = 0
      <4>1. N(q) <= 0
        BY <1>1, <3>1
      <4> HIDE DEF N
      <4>2. QED
        BY <2>0, <4>1
    <3>3. F[q] = q
      <4> HIDE DEF N
      <4> QED
        BY <1>0, <2>1, <3>2
    <3>4. QED
      BY <2>2, <3>3
  <2>3. CASE Escape(data, q)
    <3>1. \A n \in Nat : n \in Clear(q + c) <=> n + 1 \in Clear(q)
      <4> HIDE DEF c
      <4>1. ASSUME NEW n \in Nat PROVE q + c * (n + 1) = (q + c) + c * n
        <5>1. c * (n + 1) = c + c * n /\ c * n \in Nat
          BY <1>0
        <5>2. QED
          BY <1>0, <5>1
      <4>2. ASSUME NEW n \in Nat PROVE n \in Clear(q + c) <=> n + 1 \in Clear(q)
        <5>1. n + 1 \in Nat
          OBVIOUS
        <5>2. n \in Clear(q + c) <=> ~ Escape(data, (q + c) + c * n)
          BY Zenon
        <5>3. n + 1 \in Clear(q) <=> ~ Escape(data, q + c * (n + 1))
          BY <5>1, Zenon
        <5>4. QED
          BY <4>1, <5>2, <5>3, Zenon
      <4>3. QED
        BY <4>2
    <3>2. 0 \notin Clear(q)
      <4>1. q + c * 0 = q
        BY <1>0
      <4>2. QED
        BY <2>3, <4>1
    <3>3. /\ N(q) \in Clear(q) /\ \A m \in Clear(q) : N(q) <= m
          /\ N(q + c) \in Clear(q + c) /\ \A m \in Clear(q + c) : N(q + c) <= m
      BY <1>1, <2>0
    <3>4. N(q) = N(q + c) + 1
      <4>1. Clear(q) \subseteq Nat /\ Clear(q + c) \subseteq Nat
        OBVIOUS
      <4> HIDE DEF Clear, N, c
      <4>2. N(q) - 1 \in Nat /\ N(q + c) \in Nat /\ (N(q) - 1) + 1 = N(q)
        BY <3>2, <3>3, <4>1
      <4>3. N(q) - 1 \in Clear(q + c) /\ N(q + c) + 1 \in Clear(q)
        BY <3>1, <3>3, <4>2
      <4>4. N(q + c) <= N(q) - 1 /\ N(q) <= N(q + c) + 1
        BY <3>3, <4>3
      <4>5. QED
        BY <4>2, <4>4
    <3>5. F[q] = F[q + c]
      <4>1. N(q + c) \in Nat
        BY <3>3
      <4> HIDE DEF F, N, c
      <4>2. c * (N(q + c) + 1) = c + c * N(q + c)
        BY <1>0, <4>1
      <4>3. c * N(q + c) \in Nat
        BY <1>0, <4>1
      <4>4. QED
        BY <1>0, <2>1, <3>4, <4>2, <4>3
    <3>6. QED
      <4> HIDE DEF F
      <4> QED
        BY <2>0, <2>3, <3>5
  <2>4. QED
    <3> HIDE DEF F
    <3> QED
      BY <2>2, <2>3
<1>3. F = [q \in Nat |-> IF Escape(data, q) THEN F[q + 4 + MD5Len] ELSE q]
  <2>1. F = [q \in Nat |-> F[q]]
    <3> HIDE DEF N, c
    <3> QED
      OBVIOUS
  <2> HIDE DEF F
  <2>2. QED
    BY <1>2, <2>1, Zenon
<1>4. QED
  <2> HIDE DEF F
  <2> QED
    BY <1>3

\* SkipSync steps over an escape and its marker, and stays where there is none.
LEMMA SkipSyncStep ==
    ASSUME NEW data \in Seq(Byte), NEW p \in Nat
    PROVE  SkipSync(data, p) =
             IF Escape(data, p) THEN SkipSync(data, p + 4 + MD5Len) ELSE p
<1> DEFINE F(f) == [q \in Nat |->
                      IF ReadBE(data, q) = Result(KSyncEscape, q + 4)
                        THEN f[q + 4 + MD5Len] ELSE q]
           S == CHOOSE f : f = F(f)
<1>1. \E f : f = F(f)
  BY SkipExists, Zenon DEF Escape
<1>2. S = F(S)
  <2> HIDE DEF F
  <2> QED
    BY <1>1, Zenon
<1>3. \A q \in Nat : SkipSync(data, q) = S[q]
  BY Zenon DEF SkipSync
<1> HIDE DEF S
<1>4. S[p] = IF Escape(data, p) THEN S[p + 4 + MD5Len] ELSE p
  BY <1>2, Zenon DEF Escape
<1>5. p + 4 + MD5Len \in Nat
  BY WritablesAssumption
<1>6. QED
  BY <1>3, <1>4, <1>5, Zenon

-----------------------------------------------------------------------------
(***************************************************************************)
(* One record: what Append writes, Next reads.                             *)
(***************************************************************************)

LEMMA HoldsConcat ==
    ASSUME NEW data, NEW p \in Nat, NEW x \in Seq(Byte), NEW y \in Seq(Byte),
           Holds(data, p, x \o y)
    PROVE  Holds(data, p, x) /\ Holds(data, p + Len(x), y)
<1> DEFINE z == x \o y
<1>1. /\ Len(z) = Len(x) + Len(y) /\ Len(x) \in Nat /\ Len(y) \in Nat
      /\ \A j \in 1..Len(x) : z[j] = x[j]
      /\ \A j \in 1..Len(y) : z[Len(x) + j] = y[j]
  BY ConcatFacts
<1>2. \A j \in 1..Len(z) : p + j <= Len(data) => data[p + j] = z[j]
  BY DEF Holds
<1> HIDE DEF z
<1>3. ASSUME NEW j \in 1..Len(x), p + j <= Len(data) PROVE data[p + j] = x[j]
  <2>1. j \in 1..Len(z)
    BY <1>1
  <2>2. QED
    BY <1>1, <1>2, <1>3, <2>1
<1>4. ASSUME NEW j \in 1..Len(y), (p + Len(x)) + j <= Len(data)
      PROVE  data[(p + Len(x)) + j] = y[j]
  <2>1. Len(x) + j \in 1..Len(z) /\ p + (Len(x) + j) = (p + Len(x)) + j
    BY <1>1
  <2>2. data[p + (Len(x) + j)] = z[Len(x) + j]
    BY <1>2, <1>4, <2>1
  <2>3. QED
    BY <1>1, <2>1, <2>2
<1>5. QED
  BY <1>3, <1>4 DEF Holds

\* The bytes of an int are a sequence of four.
LEMMA IntSeq ==
    ASSUME NEW n \in Int
    PROVE  WriteInt(n) \in Seq(Byte) /\ Len(WriteInt(n)) = 4
<1>1. WriteInt(n) \in [1..4 -> Byte]
  BY IntBytes
<1>2. QED
  BY <1>1, FunSeq

\* The layout of a record: both lengths, the key, the value.
LEMMA RecordLayout ==
    ASSUME NEW k \in Seq(Byte), NEW v \in Seq(Byte)
    PROVE  /\ RecordBytes(k, v) \in Seq(Byte)
           /\ Len(RecordBytes(k, v)) = 8 + Len(k) + Len(v)
           /\ \A data : \A p \in Nat : Holds(data, p, RecordBytes(k, v)) =>
                /\ Holds(data, p, WriteInt(Len(k) + Len(v)))
                /\ Holds(data, p + 4, WriteInt(Len(k)))
                /\ Holds(data, p + 8, k)
                /\ Holds(data, p + 8 + Len(k), v)
<1> DEFINE a == WriteInt(Len(k) + Len(v))
           b == WriteInt(Len(k))
           ab == a \o b
           abk == ab \o k
<1>0. Len(k) \in Nat /\ Len(v) \in Nat /\ Len(k) + Len(v) \in Int
  BY LenProperties
<1>1. a \in Seq(Byte) /\ Len(a) = 4 /\ b \in Seq(Byte) /\ Len(b) = 4
  BY <1>0, IntSeq
<1>2. RecordBytes(k, v) = abk \o v
  BY Zenon DEF RecordBytes
<1> HIDE DEF a, b
<1>3. ab \in Seq(Byte) /\ Len(ab) = 8
  <2>1. ab \in Seq(Byte) /\ Len(ab) = Len(a) + Len(b)
    BY <1>1, ConcatFacts
  <2>2. QED
    BY <1>1, <2>1
<1>4. abk \in Seq(Byte) /\ Len(abk) = 8 + Len(k)
  <2> HIDE DEF ab
  <2>1. abk \in Seq(Byte) /\ Len(abk) = Len(ab) + Len(k)
    BY <1>3, ConcatFacts
  <2>2. QED
    BY <1>3, <2>1
<1>5. abk \o v \in Seq(Byte) /\ Len(abk \o v) = 8 + Len(k) + Len(v)
  <2> HIDE DEF abk
  <2>1. abk \o v \in Seq(Byte) /\ Len(abk \o v) = Len(abk) + Len(v)
    BY <1>4, ConcatFacts
  <2>2. QED
    BY <1>4, <2>1
<1>6. ASSUME NEW data, NEW p \in Nat, Holds(data, p, abk \o v)
      PROVE  /\ Holds(data, p, a) /\ Holds(data, p + 4, b)
             /\ Holds(data, p + 8, k) /\ Holds(data, p + 8 + Len(k), v)
  <2>1. Holds(data, p, abk) /\ Holds(data, p + Len(abk), v)
    <3> HIDE DEF abk
    <3> QED
      BY <1>4, <1>6, HoldsConcat
  <2>2. Holds(data, p, ab) /\ Holds(data, p + Len(ab), k)
    <3> HIDE DEF ab
    <3> QED
      BY <1>3, <2>1, HoldsConcat
  <2>3. Holds(data, p, a) /\ Holds(data, p + Len(a), b)
    BY <1>1, <2>2, HoldsConcat
  <2> HIDE DEF ab, abk
  <2>4. p + Len(abk) = p + 8 + Len(k)
    BY <1>0, <1>4
  <2>5. QED
    BY <1>1, <1>3, <2>1, <2>2, <2>3, <2>4
<1>7. QED
  <2> HIDE DEF abk
  <2>1. \A data : \A p \in Nat : Holds(data, p, abk \o v) =>
          /\ Holds(data, p, a) /\ Holds(data, p + 4, b)
          /\ Holds(data, p + 8, k) /\ Holds(data, p + 8 + Len(k), v)
    BY <1>6
  <2>2. QED
    BY <1>2, <1>5, <2>1, Zenon DEF a, b

\* Thrown is no result.
LEMMA ThrownIsNone ==
    /\ ~ Thrown.ok
    /\ \A x, y : /\ Result(x, y).ok /\ Result(x, y).value = x /\ Result(x, y).pos = y
                 /\ Result(x, y) # Thrown
<1>1. ~ Thrown.ok
  BY DEF Thrown
<1>2. ASSUME NEW x, NEW y
      PROVE  Result(x, y).ok /\ Result(x, y).value = x /\ Result(x, y).pos = y
  BY DEF Result
<1>3. QED
  BY <1>1, <1>2

\* ReadRecord returns the key and the value of a record that is there as a
\* whole, throws for a torn one, and a record does not look like an escape.
LEMMA ReadRecordBack ==
    ASSUME NEW data \in Seq(Byte), NEW p \in Nat, NEW k \in Seq(Byte), NEW v \in Seq(Byte),
           Len(k) + Len(v) \in Ints(4), Holds(data, p, RecordBytes(k, v))
    PROVE  /\ ReadRecord(data, p) =
                IF p + Len(RecordBytes(k, v)) <= Len(data)
                  THEN Result(<<k, v>>, p + Len(RecordBytes(k, v))) ELSE Thrown
           /\ ~ Escape(data, p)
<1> DEFINE K == Len(k)
           V == Len(v)
           len == ReadBE(data, p)
           keyLen == ReadBE(data, p + 4)
           key == ReadRawBytes([data |-> data, pos |-> p + 8], keyLen.value)
           val == ReadRawBytes([data |-> data, pos |-> key.pos], len.value - keyLen.value)
<1>0. K \in Nat /\ V \in Nat /\ Len(data) \in Nat /\ K \in Ints(4)
  <2>1. K \in Nat /\ V \in Nat /\ Len(data) \in Nat
    BY LenProperties
  <2>2. Power[4] \in Nat
    BY Powers
  <2>3. QED
    BY <2>1, <2>2 DEF Ints
<1>1. /\ Len(RecordBytes(k, v)) = 8 + K + V
      /\ Holds(data, p, WriteInt(K + V)) /\ Holds(data, p + 4, WriteInt(K))
      /\ Holds(data, p + 8, k) /\ Holds(data, p + 8 + K, v)
  BY RecordLayout
<1>2. len = IF p + 4 <= Len(data) THEN Result(K + V, p + 4) ELSE Thrown
  BY <1>1, ReadIntBack
<1>3. keyLen = IF (p + 4) + 4 <= Len(data) THEN Result(K, (p + 4) + 4) ELSE Thrown
  BY <1>0, <1>1, ReadIntBack
<1>4. ReadRawBytes([data |-> data, pos |-> p + 8], K) =
        IF (p + 8) + K <= Len(data) THEN Result(k, (p + 8) + K) ELSE Thrown
  BY <1>1, ReadRaw
<1>5. ReadRawBytes([data |-> data, pos |-> p + 8 + K], V) =
        IF (p + 8 + K) + V <= Len(data) THEN Result(v, (p + 8 + K) + V) ELSE Thrown
  BY <1>0, <1>1, ReadRaw
<1>6. ReadRecord(data, p) =
        IF len.ok /\ keyLen.ok /\ 0 <= keyLen.value /\ keyLen.value <= len.value
             /\ key.ok /\ val.ok
          THEN Result(<<key.value, val.value>>, val.pos) ELSE Thrown
  BY Zenon DEF ReadRecord
<1> DEFINE rk == ReadRawBytes([data |-> data, pos |-> p + 8], K)
           rv == ReadRawBytes([data |-> data, pos |-> p + 8 + K], V)
<1>7. (p + 4 <= Len(data)) => len.ok /\ len.value = K + V
  BY <1>2, ThrownIsNone
<1>8. (p + 8 <= Len(data)) => keyLen.ok /\ keyLen.value = K /\ key = rk
  BY <1>3, ThrownIsNone
<1>9. (p + 8 + K <= Len(data)) => rk.ok /\ rk.value = k /\ rk.pos = p + 8 + K
  BY <1>4, ThrownIsNone
<1>10. ~(p + 4 <= Len(data)) => ~ len.ok
  BY <1>2, ThrownIsNone
<1>11. ~(p + 8 <= Len(data)) => ~ keyLen.ok
  BY <1>3, ThrownIsNone
<1>12. ~(p + 8 + K <= Len(data)) => ~ rk.ok
  BY <1>4, ThrownIsNone
<1>13. (p + 8 + K + V <= Len(data)) => rv.ok /\ rv.value = v /\ rv.pos = p + 8 + K + V
  BY <1>5, ThrownIsNone
<1>14. ~(p + 8 + K + V <= Len(data)) => ~ rv.ok
  BY <1>5, ThrownIsNone
<1>15. (p + 8 + K <= Len(data)) => val = rv
  <2>1. (K + V) - K = V /\ ((p + 8 + K <= Len(data)) => (p + 4 <= Len(data)) /\ (p + 8 <= Len(data)))
    BY <1>0
  <2> HIDE DEF len, keyLen
  <2>2. QED
    BY <1>7, <1>8, <1>9, <2>1, Zenon
<1> HIDE DEF len, keyLen, key, val, rk, rv, K, V
<1>16. CASE p + 8 + K + V <= Len(data)
  <2>1. (p + 4 <= Len(data)) /\ (p + 8 <= Len(data)) /\ (p + 8 + K <= Len(data))
        /\ 0 <= K /\ K <= K + V
    BY <1>0, <1>16
  <2>2. /\ len.ok /\ keyLen.ok /\ 0 <= keyLen.value /\ keyLen.value <= len.value
        /\ key.ok /\ val.ok /\ key.value = k /\ val.value = v
        /\ val.pos = p + 8 + K + V
    BY <1>7, <1>8, <1>9, <1>13, <1>15, <1>16, <2>1, Zenon
  <2>3. ReadRecord(data, p) = Result(<<k, v>>, p + 8 + K + V)
    BY <1>6, <2>2, Zenon
  <2>4. p + Len(RecordBytes(k, v)) = p + 8 + K + V
    BY <1>0, <1>1
  <2>5. QED
    <3>1. ReadRecord(data, p) = IF p + Len(RecordBytes(k, v)) <= Len(data)
            THEN Result(<<k, v>>, p + Len(RecordBytes(k, v))) ELSE Thrown
      BY <1>16, <2>3, <2>4, Zenon
    <3>2. ~ Escape(data, p)
      <4>1. len = Result(K + V, p + 4) /\ K + V # KSyncEscape
        BY <1>0, <1>2, <2>1, EscapeIsInt
      <4>2. QED
        BY <4>1, ThrownIsNone DEF Escape, len
    <3>3. QED
      BY <3>1, <3>2
<1>17. CASE ~(p + 8 + K + V <= Len(data))
  <2>1. ~(p + Len(RecordBytes(k, v)) <= Len(data))
    BY <1>0, <1>1, <1>17
  <2>2. ~(len.ok /\ keyLen.ok /\ key.ok /\ val.ok)
    <3>1. CASE ~(p + 8 <= Len(data))
      BY <1>11, <3>1
    <3>2. CASE (p + 8 <= Len(data)) /\ ~(p + 8 + K <= Len(data))
      BY <1>8, <1>12, <3>2
    <3>3. CASE p + 8 + K <= Len(data)
      BY <1>14, <1>15, <1>17, <3>3
    <3>4. QED
      BY <3>1, <3>2, <3>3
  <2>3. ReadRecord(data, p) = Thrown
    BY <1>6, <2>2, Zenon
  <2>4. ~ Escape(data, p)
    <3>1. K + V # KSyncEscape
      BY <1>0, EscapeIsInt
    <3>2. QED
      BY <1>2, <3>1, ThrownIsNone DEF Escape, len
  <2>5. QED
    BY <2>1, <2>3, <2>4
<1>18. QED
  BY <1>16, <1>17

-----------------------------------------------------------------------------
(***************************************************************************)
(* The inductive invariant: the bytes the stream has taken are the header  *)
(* and one frame per record, as far as they go, and the reader stands at   *)
(* the end of the frames of the records it has returned.                   *)
(***************************************************************************)

HeaderLen == 4 + MD5Len
Mark == WriteInt(KSyncEscape) \o sync
Record(r) == RecordBytes(Write(r.key), Write(r.value))

\* Where the frame of the i-th record starts: after the header, or the frame before.
Start(i) == IF i = 1 THEN HeaderLen ELSE ends[i - 1]

\* The i-th frame is the record, with or without a marker before it.
FrameAt(i) ==
    \E m \in {<<>>, Mark} :
      /\ ends[i] = Start(i) + Len(m \o Record(appended[i]))
      /\ Holds(out, Start(i), m \o Record(appended[i]))

SeqTypes ==
    /\ sync \in Syncs
    /\ writer \in {"new", "open", "closed", "crashed"}
    /\ good \in BOOLEAN
    /\ count \in 0..MaxCount
    /\ out \in Seq(Byte) /\ file \in 0..Len(out)
    /\ reader \in {"new", "reading", "eof", "corrupt"}
    /\ appended \in Seq(Records) /\ ends \in Seq(Nat) /\ Len(ends) = Len(appended)
    /\ got \in Seq(Seq(Byte) \X Seq(Byte))

\* The writer: every record in its frame, whole while the stream is good.
Framed ==
    /\ Holds(out, 0, Magic \o sync)
    /\ \A i \in 1..Len(ends) : FrameAt(i)
    /\ Len(out) <= Start(Len(ends) + 1)
    /\ (writer = "open" /\ good) => Len(out) = Start(Len(ends) + 1)

\* The reader: at a boundary in the file, with the records before it.
AtBoundary ==
    /\ reader \in {"new", "corrupt"} => pos = 0 /\ got = <<>> /\ whole = 0
    /\ reader = "reading" => whole = 0
    /\ reader \in {"reading", "eof"} => pos = Start(Len(got) + 1) /\ pos <= file
    /\ reader = "eof" => whole = Len(got)
    /\ Len(got) <= Len(appended)
    /\ \A i \in 1..Len(got) : got[i] = <<Write(appended[i].key), Write(appended[i].value)>>

SeqInv == SeqTypes /\ Framed /\ AtBoundary

-----------------------------------------------------------------------------
(***************************************************************************)
(* The Writable types, one by one.                                         *)
(***************************************************************************)

\* What the field of each type holds.
LEMMA WritableTypes ==
    ASSUME NEW w \in Writable
    PROVE  /\ w = [type |-> w.type, v |-> w.v]
           /\ \/ w.type \in {"Int", "Float"} /\ w.v \in Ints(4)
              \/ w.type = "Long" /\ w.v \in Ints(8)
              \/ w.type = "Bool" /\ w.v \in BOOLEAN
              \/ w.type \in {"UTF8", "Bytes"} /\ w.v \in Seq(Byte)
              \/ w.type = "MD5" /\ w.v \in [1..MD5Len -> Byte]
              \/ w.type = "Null" /\ w.v = <<>>
<1>1. \/ w \in [type : {"Int", "Float"}, v : Ints(4)]
      \/ w \in [type : {"Long"}, v : Ints(8)]
      \/ w \in [type : {"Bool"}, v : BOOLEAN]
      \/ w \in [type : {"UTF8", "Bytes"}, v : Seq(Byte)]
      \/ w \in [type : {"MD5"}, v : [1..MD5Len -> Byte]]
      \/ w \in [type : {"Null"}, v : {<<>>}]
  BY Zenon DEF Writable
<1>2. QED
  BY <1>1

\* What Write does for each type.
LEMMA WriteOf ==
    ASSUME NEW w
    PROVE  /\ w.type \in {"Int", "Float"} => Write(w) = WriteInt(w.v)
           /\ w.type = "Long" => Write(w) = WriteLong(w.v)
           /\ w.type = "Bool" => Write(w) = <<IF w.v THEN 1 ELSE 0>>
           /\ w.type = "UTF8" => Write(w) = WriteShort(Len(w.v)) \o w.v
           /\ w.type = "Bytes" => Write(w) = WriteInt(Len(w.v)) \o w.v
           /\ w.type = "MD5" => Write(w) = w.v
           /\ w.type = "Null" => Write(w) = <<>>
BY DEF Write, WriteBytes

\* The bytes of a long.
LEMMA LongSeq ==
    ASSUME NEW v \in Int
    PROVE  /\ WriteLong(v) = WriteInt(v \div Power[4]) \o WriteInt(v % Power[4])
           /\ WriteLong(v) \in Seq(Byte) /\ Len(WriteLong(v)) = 8
<1> DEFINE a == WriteInt(v \div Power[4])
           b == WriteInt(v % Power[4])
<1>1. WriteLong(v) = a \o b
  BY Zenon DEF WriteLong, WriteInt
<1>2. v \div Power[4] \in Int /\ v % Power[4] \in Int
  BY LongHalves
<1>3. a \in Seq(Byte) /\ Len(a) = 4 /\ b \in Seq(Byte) /\ Len(b) = 4
  BY <1>2, IntSeq
<1> HIDE DEF a, b
<1>4. a \o b \in Seq(Byte) /\ Len(a \o b) = Len(a) + Len(b)
  BY <1>3, ConcatFacts
<1>5. Len(a \o b) = 8
  BY <1>3, <1>4
<1>6. QED
  BY <1>1, <1>4, <1>5, Zenon DEF a, b

LEMMA ShortSeq ==
    ASSUME NEW n \in Int
    PROVE  WriteShort(n) \in Seq(Byte) /\ Len(WriteShort(n)) = 2
<1>1. WriteShort(n) \in [1..2 -> Byte]
  BY ShortBytes
<1>2. QED
  BY <1>1, FunSeq

\* Every Writable is written as bytes.
LEMMA WriteSeq ==
    ASSUME NEW w \in Writable
    PROVE  Write(w) \in Seq(Byte) /\ Len(Write(w)) \in Nat
<1> SUFFICES Write(w) \in Seq(Byte)
  BY LenProperties
<1>1. CASE w.type \in {"Int", "Float"} /\ w.v \in Ints(4)
  <2>1. 4 \in 0..8
    OBVIOUS
  <2>2. w.v \in Int
    BY <1>1, <2>1, SignedMod
  <2>3. WriteInt(w.v) \in Seq(Byte)
    BY <2>2, IntSeq
  <2>4. Write(w) = WriteInt(w.v)
    BY <1>1, WriteOf, Zenon
  <2>5. QED
    BY <2>3, <2>4
<1>2. CASE w.type = "Long" /\ w.v \in Ints(8)
  <2>1. 8 \in 0..8
    OBVIOUS
  <2>2. w.v \in Int
    BY <1>2, <2>1, SignedMod
  <2>3. WriteLong(w.v) \in Seq(Byte)
    BY <2>2, LongSeq
  <2>4. Write(w) = WriteLong(w.v)
    BY <1>2, WriteOf, Zenon
  <2>5. QED
    BY <2>3, <2>4
<1>3. CASE w.type = "Bool" /\ w.v \in BOOLEAN
  <2>1. 0 \in Byte /\ 1 \in Byte
    BY WritablesAssumption DEF Byte
  <2>2. (IF w.v THEN 1 ELSE 0) \in Byte
    BY <1>3, <2>1
  <2>3. <<IF w.v THEN 1 ELSE 0>> \in Seq(Byte)
    BY <2>2
  <2>4. QED
    BY <1>3, <2>3, WriteOf
<1>4. CASE w.type \in {"UTF8", "Bytes"} /\ w.v \in Seq(Byte)
  <2>1. Len(w.v) \in Int
    BY <1>4, LenProperties
  <2>2. WriteShort(Len(w.v)) \in Seq(Byte) /\ WriteInt(Len(w.v)) \in Seq(Byte)
    BY <2>1, IntSeq, ShortSeq
  <2>3. WriteShort(Len(w.v)) \o w.v \in Seq(Byte) /\ WriteInt(Len(w.v)) \o w.v \in Seq(Byte)
    BY <1>4, <2>2, ConcatFacts
  <2>4. QED
    BY <1>4, <2>3, WriteOf
<1>5. CASE w.type = "MD5" /\ w.v \in [1..MD5Len -> Byte]
  <2>1. Write(w) = w.v
    BY <1>5, WriteOf, Zenon
  <2>2. w.v \in Seq(Byte)
    BY <1>5, FunSeq, WritablesAssumption
  <2>3. QED
    BY <2>1, <2>2
<1>6. CASE w.type = "Null" /\ w.v = <<>>
  <2>1. Write(w) = <<>>
    BY <1>6, WriteOf, Zenon
  <2>2. QED
    BY <2>1
<1>7. QED
  BY <1>1, <1>2, <1>3, <1>4, <1>5, <1>6, WritableTypes

\* Every record a caller appends has bytes, whose number is an int.
LEMMA RecordSeq ==
    ASSUME NEW r \in Records
    PROVE  /\ Write(r.key) \in Seq(Byte) /\ Write(r.value) \in Seq(Byte)
           /\ Len(Write(r.key)) + Len(Write(r.value)) \in Ints(4)
           /\ Record(r) \in Seq(Byte) /\ Len(Record(r)) >= 8 /\ Len(Record(r)) \in Nat
           /\ r.key \in Writable /\ r.value \in Writable
<1>1. r.key \in Writable /\ r.value \in Writable
  BY SequenceFileAssumption
<1>2. /\ Write(r.key) \in Seq(Byte) /\ Write(r.value) \in Seq(Byte)
      /\ Len(Write(r.key)) \in Nat /\ Len(Write(r.value)) \in Nat
  BY <1>1, WriteSeq
<1>3. Record(r) \in Seq(Byte) /\ Len(Record(r)) = 8 + Len(Write(r.key)) + Len(Write(r.value))
  BY <1>2, RecordLayout DEF Record
<1>4. Len(Record(r)) >= 8 /\ Len(Record(r)) \in Nat
  BY <1>2, <1>3
<1>5. QED
  BY <1>1, <1>2, <1>3, <1>4, SequenceFileAssumption

\* The marker, and what a frame has of it.
LEMMA MarkSeq ==
    ASSUME sync \in Syncs
    PROVE  /\ sync \in Seq(Byte) /\ Len(sync) = MD5Len
           /\ Mark \in Seq(Byte) /\ Len(Mark) = 4 + MD5Len
           /\ WriteInt(KSyncEscape) \in Seq(Byte) /\ Len(WriteInt(KSyncEscape)) = 4
           /\ Magic \o sync \in Seq(Byte) /\ Len(Magic \o sync) = HeaderLen
           /\ Magic \in Seq(Byte) /\ Len(Magic) = 4
           /\ HeaderLen \in Nat /\ <<>> \in Seq(Byte)
<1>1. sync \in [1..MD5Len -> Byte] /\ MD5Len \in Nat /\ Magic \in [1..4 -> Byte]
  BY SequenceFileAssumption, WritablesAssumption
<1>2. sync \in Seq(Byte) /\ Len(sync) = MD5Len /\ Magic \in Seq(Byte) /\ Len(Magic) = 4
  <2>1. sync \in Seq(Byte) /\ Len(sync) = MD5Len
    BY <1>1, FunSeq
  <2>2. Magic \in Seq(Byte) /\ Len(Magic) = 4
    BY <1>1, FunSeq, ZenonT(60)
  <2>3. QED
    BY <2>1, <2>2
<1>3. WriteInt(KSyncEscape) \in Seq(Byte) /\ Len(WriteInt(KSyncEscape)) = 4
  BY IntSeq DEF KSyncEscape
<1>4. Mark \in Seq(Byte) /\ Len(Mark) = 4 + MD5Len
  <2> DEFINE e == WriteInt(KSyncEscape)
  <2>1. e \in Seq(Byte) /\ Len(e) = 4
    BY <1>3
  <2> HIDE DEF e
  <2>2. e \o sync \in Seq(Byte) /\ Len(e \o sync) = Len(e) + Len(sync)
    BY <1>2, <2>1, ConcatFacts
  <2>3. Len(e \o sync) = 4 + MD5Len
    BY <1>2, <2>1, <2>2, Zenon
  <2>4. QED
    BY <2>2, <2>3, Zenon DEF Mark, e
<1>5. Magic \o sync \in Seq(Byte) /\ Len(Magic \o sync) = 4 + MD5Len
  <2>1. Magic \o sync \in Seq(Byte) /\ Len(Magic \o sync) = Len(Magic) + Len(sync)
    BY <1>2, ConcatFacts
  <2>2. QED
    BY <1>2, <2>1, Zenon
<1>6. QED
  BY <1>1, <1>2, <1>3, <1>4, <1>5 DEF HeaderLen

\* Next at a boundary returns the frame's record if all of it is in the file,
\* and nothing if it is torn, in the marker or in the record.
LEMMA ReadFrame ==
    ASSUME sync \in Syncs, NEW r \in Records, NEW m \in {<<>>, Mark},
           NEW data \in Seq(Byte), NEW p \in Nat, Holds(data, p, m \o Record(r))
    PROVE  /\ ReadRecord(data, SkipSync(data, p)) =
                IF p + Len(m \o Record(r)) <= Len(data)
                  THEN Result(<<Write(r.key), Write(r.value)>>, p + Len(m \o Record(r)))
                  ELSE Thrown
           /\ m \o Record(r) \in Seq(Byte) /\ Len(m \o Record(r)) \in Nat
           /\ Len(m \o Record(r)) >= 8
<1> DEFINE R == Record(r)
           F == m \o R
<1>0. /\ R \in Seq(Byte) /\ Len(R) \in Nat /\ Len(R) >= 8
      /\ Write(r.key) \in Seq(Byte) /\ Write(r.value) \in Seq(Byte)
      /\ Len(Write(r.key)) + Len(Write(r.value)) \in Ints(4)
  BY RecordSeq
<1>1. m \in Seq(Byte) /\ Len(m) \in Nat
  BY MarkSeq, LenProperties
<1>2. F \in Seq(Byte) /\ Len(F) = Len(m) + Len(R)
  BY <1>0, <1>1, ConcatFacts
<1>3. Holds(data, p, m) /\ Holds(data, p + Len(m), R)
  BY <1>0, <1>1, HoldsConcat
<1>4. Len(data) \in Nat /\ p + Len(m) \in Nat
  BY <1>1, LenProperties
<1>5. /\ ReadRecord(data, p + Len(m)) =
           IF (p + Len(m)) + Len(R) <= Len(data)
             THEN Result(<<Write(r.key), Write(r.value)>>, (p + Len(m)) + Len(R)) ELSE Thrown
      /\ ~ Escape(data, p + Len(m))
  BY <1>0, <1>3, <1>4, ReadRecordBack DEF Record
<1>6. (p + Len(m)) + Len(R) = p + Len(F)
  BY <1>0, <1>1, <1>2
<1>7. SkipSync(data, p + Len(m)) = p + Len(m)
  BY <1>4, <1>5, SkipSyncStep
<1>8. CASE m = <<>>
  <2>1. p + Len(m) = p
    BY <1>8
  <2>2. QED
    BY <1>0, <1>1, <1>2, <1>5, <1>6, <1>7, <2>1
<1>9. CASE m = Mark
  <2>1. Holds(data, p, WriteInt(KSyncEscape)) /\ Len(m) = 4 + MD5Len
    BY <1>3, <1>9, MarkSeq, HoldsConcat DEF Mark
  <2>2. ReadBE(data, p) = IF p + 4 <= Len(data) THEN Result(KSyncEscape, p + 4) ELSE Thrown
    BY <2>1, EscapeIsInt, ReadIntBack
  <2>3. CASE p + 4 <= Len(data)
    <3>1. Escape(data, p)
      BY <2>2, <2>3 DEF Escape
    <3>2. p + 4 + MD5Len = p + Len(m)
      BY <2>1, WritablesAssumption
    <3>3. SkipSync(data, p) = p + Len(m)
      BY <1>7, <3>1, <3>2, SkipSyncStep
    <3>4. QED
      BY <1>0, <1>1, <1>2, <1>5, <1>6, <3>3
  <2>4. CASE ~(p + 4 <= Len(data))
    <3>1. ~ Escape(data, p) /\ ~ ReadBE(data, p).ok
      BY <2>2, <2>4, ThrownIsNone DEF Escape
    <3>2. SkipSync(data, p) = p
      BY <3>1, SkipSyncStep
    <3>3. ReadRecord(data, p) = Thrown
      BY <3>1, Zenon DEF ReadRecord
    <3>4. ~(p + Len(F) <= Len(data))
      <4>1. MD5Len \in Nat
        BY WritablesAssumption
      <4> HIDE DEF F, R
      <4>2. Len(F) >= 4 /\ Len(F) \in Nat
        BY <1>0, <1>2, <2>1, <4>1
      <4>3. QED
        BY <1>4, <2>4, <4>2
    <3>5. QED
      BY <1>0, <1>1, <1>2, <3>2, <3>3, <3>4
  <2>5. QED
    BY <2>3, <2>4
<1>10. QED
  BY <1>8, <1>9

\* At the end of the file Next returns nothing.
LEMMA ReadAtEnd ==
    ASSUME NEW data \in Seq(Byte), NEW p \in Nat, Len(data) <= p
    PROVE  ReadRecord(data, SkipSync(data, p)) = Thrown
<1>1. Len(data) \in Nat
  BY LenProperties
<1>2. ReadBE(data, p) = Thrown
  BY <1>1, ReadPastEnd
<1>3. ~ Escape(data, p) /\ ~ ReadBE(data, p).ok
  BY <1>2, ThrownIsNone DEF Escape
<1>4. SkipSync(data, p) = p
  BY <1>3, SkipSyncStep
<1>5. ReadRecord(data, p) = Thrown
  BY <1>3, Zenon DEF ReadRecord
<1>6. QED
  BY <1>4, <1>5

-----------------------------------------------------------------------------
(***************************************************************************)
(* The invariant is inductive.                                             *)
(***************************************************************************)

\* Frames follow each other: the boundaries grow.
LEMMA Boundaries ==
    ASSUME SeqTypes, Framed
    PROVE  /\ Len(ends) \in Nat /\ DOMAIN ends = 1..Len(ends)
           /\ DOMAIN appended = 1..Len(ends)
           /\ \A i \in 1..(Len(ends) + 1) : Start(i) \in Nat /\ Start(i) >= HeaderLen
           /\ \A i \in 1..Len(ends) : Start(i + 1) = ends[i] /\ Start(i) < ends[i]
           /\ \A i, j \in 1..Len(ends) : i <= j => ends[i] <= ends[j]
<1>1. Len(ends) \in Nat /\ DOMAIN ends = 1..Len(ends) /\ DOMAIN appended = 1..Len(ends)
      /\ \A i \in 1..Len(ends) : ends[i] \in Nat /\ appended[i] \in Records
  BY LenProperties, ElementOfSeq DEF SeqTypes
<1>2. HeaderLen \in Nat /\ sync \in Syncs
  BY WritablesAssumption DEF SeqTypes, HeaderLen
<1>3. \A i \in 1..(Len(ends) + 1) : Start(i) \in Nat
  <2>1. \A i \in 1..(Len(ends) + 1) : i # 1 => i - 1 \in 1..Len(ends)
    BY <1>1
  <2>2. QED
    BY <1>1, <1>2, <2>1 DEF Start
<1>4. ASSUME NEW i \in 1..Len(ends) PROVE Start(i + 1) = ends[i] /\ Start(i) < ends[i]
  <2>1. Start(i + 1) = ends[i]
    <3>1. i + 1 # 1 /\ (i + 1) - 1 = i
      BY <1>1
    <3>2. QED
      BY <3>1, Zenon DEF Start
  <2>2. PICK m \in {<<>>, Mark} :
          ends[i] = Start(i) + Len(m \o Record(appended[i]))
          /\ Holds(out, Start(i), m \o Record(appended[i]))
    BY DEF Framed, FrameAt
  <2>3. i \in 1..(Len(ends) + 1)
    BY <1>1
  <2>4. Len(m \o Record(appended[i])) \in Nat /\ Len(m \o Record(appended[i])) >= 8
    <3>1. out \in Seq(Byte) /\ Start(i) \in Nat
      BY <1>3, <2>3 DEF SeqTypes
    <3>2. QED
      BY <1>1, <1>2, <2>2, <3>1, ReadFrame
  <2>5. Start(i) < ends[i]
    BY <1>3, <2>2, <2>3, <2>4
  <2>6. QED
    BY <2>1, <2>5
<1>5. \A i, j \in 1..Len(ends) : i <= j => ends[i] <= ends[j]
  <2> DEFINE S == {d \in Nat : \A i \in 1..Len(ends) :
                                 i + d \in 1..Len(ends) => ends[i] <= ends[i + d]}
  <2>1. 0 \in S
    <3>1. \A i \in 1..Len(ends) : i + 0 = i /\ ends[i] <= ends[i]
      BY <1>1
    <3>2. QED
      BY <3>1
  <2>2. ASSUME NEW d \in Nat, d \in S PROVE d + 1 \in S
    <3>1. ASSUME NEW i \in 1..Len(ends), i + (d + 1) \in 1..Len(ends)
          PROVE  ends[i] <= ends[i + (d + 1)]
      <4>1. i + d \in 1..Len(ends) /\ (i + d) + 1 = i + (d + 1)
        BY <1>1, <3>1
      <4>2. ends[i] <= ends[i + d]
        BY <2>2, <4>1
      <4>3. Start(i + (d + 1)) = ends[i + d] /\ Start(i + (d + 1)) < ends[i + (d + 1)]
        BY <1>4, <3>1, <4>1
      <4>4. QED
        BY <1>1, <3>1, <4>1, <4>2, <4>3
    <3>2. QED
      BY <3>1
  <2>3. Nat \subseteq S
    <3> HIDE DEF S
    <3> QED
      BY <2>1, <2>2, NumbersIn
  <2>4. ASSUME NEW i \in 1..Len(ends), NEW j \in 1..Len(ends), i <= j
        PROVE  ends[i] <= ends[j]
    <3>1. j - i \in Nat /\ i + (j - i) = j
      BY <1>1, <2>4
    <3>2. j - i \in S
      BY <2>3, <3>1
    <3>3. QED
      BY <3>1, <3>2
  <2>5. QED
    BY <2>4
<1>6. ASSUME NEW i \in 1..(Len(ends) + 1) PROVE Start(i) >= HeaderLen
  <2>1. CASE i = 1
    BY <1>2, <2>1 DEF Start
  <2>2. CASE i # 1
    <3>1. i - 1 \in 1..Len(ends) /\ 1 \in 1..Len(ends) /\ 1 <= i - 1
      BY <1>1, <2>2
    <3>2. Start(1) < ends[1] /\ ends[1] <= ends[i - 1] /\ Start(1) = HeaderLen
      BY <1>4, <1>5, <3>1 DEF Start
    <3>3. Start(i) = ends[i - 1]
      BY <2>2 DEF Start
    <3>4. QED
      BY <1>1, <1>2, <3>1, <3>2, <3>3
  <2>3. QED
    BY <2>1, <2>2
<1>7. QED
  BY <1>1, <1>3, <1>4, <1>5, <1>6

\* What is cut off at the end of the bytes was not in the frames that remain.
LEMMA FramedKept ==
    ASSUME SeqTypes, Framed, UNCHANGED <<sync, appended, ends>>,
           out' \in Seq(Byte), Len(out') <= Len(out),
           \A j \in 1..Len(out') : out'[j] = out[j],
           (writer' = "open" /\ good') => writer = "open" /\ good /\ out' = out
    PROVE  Framed'
<1>0. Len(out') \in Nat /\ Len(out) \in Nat
  BY LenProperties DEF SeqTypes
<1>1. ASSUME NEW p \in Nat, NEW b \in Seq(Byte), Holds(out, p, b)
      PROVE  Holds(out', p, b)
  <2>0. Len(b) \in Nat
    BY LenProperties
  <2>1. ASSUME NEW j \in 1..Len(b), p + j <= Len(out')
        PROVE  out'[p + j] = b[j]
    <3>1. p + j \in 1..Len(out') /\ p + j <= Len(out)
      BY <1>0, <2>0, <2>1
    <3>2. out'[p + j] = out[p + j] /\ out[p + j] = b[j]
      BY <1>1, <3>1 DEF Holds
    <3>3. QED
      BY <3>2
  <2>2. QED
    BY <2>1 DEF Holds
<1>2. /\ Magic \o sync \in Seq(Byte) /\ Mark' = Mark /\ sync \in Syncs
      /\ \A i : Start(i)' = Start(i)
  BY MarkSeq DEF SeqTypes, Mark, Start
<1>3. Holds(out', 0, Magic \o sync)
  BY <1>1, <1>2 DEF Framed
<1>4. ASSUME NEW i \in 1..Len(ends) PROVE FrameAt(i)'
  <2>1. PICK m \in {<<>>, Mark} :
          ends[i] = Start(i) + Len(m \o Record(appended[i]))
          /\ Holds(out, Start(i), m \o Record(appended[i]))
    BY DEF Framed, FrameAt
  <2>2. i \in 1..(Len(ends) + 1) /\ appended[i] \in Records /\ out \in Seq(Byte)
    <3>1. DOMAIN appended = 1..Len(ends) /\ Len(ends) \in Nat
      BY Boundaries
    <3>2. QED
      BY <3>1, ElementOfSeq, LenProperties DEF SeqTypes
  <2>3. Start(i) \in Nat
    BY <2>2, Boundaries
  <2>4. m \o Record(appended[i]) \in Seq(Byte)
    BY <1>2, <2>1, <2>2, <2>3, ReadFrame
  <2>5. Holds(out', Start(i), m \o Record(appended[i]))
    BY <1>1, <2>1, <2>3, <2>4
  <2>6. QED
    BY <1>2, <2>1, <2>5, Zenon DEF FrameAt
<1>5. /\ Len(out') <= Start(Len(ends) + 1)
      /\ (writer' = "open" /\ good') => Len(out') = Start(Len(ends) + 1)
  <2>1. Len(ends) + 1 \in 1..(Len(ends) + 1)
    BY Boundaries
  <2>2. Start(Len(ends) + 1) \in Nat
    BY <2>1, Boundaries
  <2>3. Len(out) <= Start(Len(ends) + 1)
        /\ ((writer = "open" /\ good) => Len(out) = Start(Len(ends) + 1))
    BY DEF Framed
  <2>4. QED
    BY <1>0, <2>2, <2>3
<1>6. QED
  BY <1>2, <1>3, <1>4, <1>5, Zenon DEF Framed

\* A reader is where it was when the file grows or records are added.
LEMMA ReaderKept ==
    ASSUME SeqTypes, Framed, AtBoundary, UNCHANGED readerVars,
           file' \in Nat, file <= file',
           ends' \in Seq(Nat), Len(ends') = Len(appended'), Len(ends) <= Len(ends'),
           \A i \in 1..Len(ends) : ends'[i] = ends[i] /\ appended'[i] = appended[i]
    PROVE  AtBoundary'
<1>0. /\ reader' = reader /\ pos' = pos /\ got' = got /\ whole' = whole
      /\ Len(got) \in Nat /\ Len(ends) \in Nat /\ Len(got) <= Len(ends) /\ file \in Nat
      /\ Len(ends') \in Nat
  BY LenProperties DEF readerVars, SeqTypes, AtBoundary
<1>1. Start(Len(got) + 1)' = Start(Len(got) + 1)
  <2>1. CASE Len(got) = 0
    BY <1>0, <2>1 DEF Start
  <2>2. CASE Len(got) # 0
    <3>1. Len(got) \in 1..Len(ends) /\ Len(got) + 1 # 1 /\ (Len(got) + 1) - 1 = Len(got)
      BY <1>0, <2>2
    <3>2. ends'[Len(got)] = ends[Len(got)]
      BY <3>1
    <3>3. QED
      BY <1>0, <3>1, <3>2 DEF Start
  <2>3. QED
    BY <2>1, <2>2
<1>2. pos \in Nat
  <2>1. Len(got) + 1 \in 1..(Len(ends) + 1)
    BY <1>0
  <2>2. Start(Len(got) + 1) \in Nat
    BY <2>1, Boundaries
  <2>3. QED
    BY <2>2 DEF AtBoundary, SeqTypes
<1>3. \A i \in 1..Len(got) : got[i] = <<Write(appended'[i].key), Write(appended'[i].value)>>
  <2>1. \A i \in 1..Len(got) : i \in 1..Len(ends)
    BY <1>0
  <2>2. QED
    BY <2>1 DEF AtBoundary
<1>4. pos <= file => pos <= file'
  BY <1>0, <1>2
<1>5. Len(got) <= Len(appended')
  BY <1>0
<1>6. QED
  BY <1>0, <1>1, <1>3, <1>4, <1>5, Zenon DEF AtBoundary

\* The first bytes of a sequence.
LEMMA PrefixFacts ==
    ASSUME NEW S, NEW s \in Seq(S), NEW n \in 0..Len(s)
    PROVE  /\ SubSeq(s, 1, n) \in Seq(S) /\ Len(SubSeq(s, 1, n)) = n
           /\ \A j \in 1..n : SubSeq(s, 1, n)[j] = s[j]
<1>1. Len(s) \in Nat /\ n \in Nat /\ n <= Len(s)
  BY LenProperties
<1>2. 0 + 1 = 1 /\ 0 + n = n /\ \A j \in 1..n : 0 + j = j
  BY <1>1
<1>3. /\ SubSeq(s, 0 + 1, 0 + n) \in Seq(S) /\ Len(SubSeq(s, 0 + 1, 0 + n)) = n
      /\ \A j \in 1..n : SubSeq(s, 0 + 1, 0 + n)[j] = s[0 + j]
  <2>1. 0 + n <= Len(s) /\ 0 \in Nat
    BY <1>1
  <2>2. QED
    BY <1>1, <2>1, SubSeqFacts, ZenonT(60)
<1>4. QED
  BY <1>2, <1>3

LEMMA InitSeqInv == Init => SeqInv
<1> SUFFICES ASSUME Init PROVE SeqInv
  OBVIOUS
<1>1. SeqTypes
  BY SequenceFileAssumption DEF Init, SeqTypes
<1>2. Framed
  <2>1. Len(out) = 0 /\ Len(ends) = 0 /\ writer # "open"
    BY DEF Init
  <2>2. Holds(out, 0, Magic \o sync)
    <3>1. Len(Magic \o sync) \in Nat
      BY MarkSeq DEF Init
    <3>2. \A j \in 1..Len(Magic \o sync) : ~(0 + j <= Len(out))
      BY <2>1, <3>1
    <3>3. QED
      BY <3>2 DEF Holds
  <2>3. Start(Len(ends) + 1) = HeaderLen /\ HeaderLen \in Nat
    BY <2>1, WritablesAssumption DEF Start, HeaderLen
  <2>4. QED
    BY <2>1, <2>2, <2>3 DEF Framed
<1>3. AtBoundary
  BY DEF Init, AtBoundary
<1>4. QED
  BY <1>1, <1>2, <1>3 DEF SeqInv

\* Open starts the file afresh; nobody is reading it.
LEMMA OpenInv == ASSUME SeqInv, Open PROVE SeqInv'
<1> USE DEF SeqInv
<1>0. /\ sync' = sync /\ sync \in Syncs /\ reader = "new" /\ readerVars' = readerVars
      /\ out' = Magic \o sync /\ file' = 0 /\ appended' = <<>> /\ ends' = <<>>
      /\ writer' = "open" /\ good' = TRUE /\ count' = 0
      /\ reader' = reader /\ pos' = pos /\ got' = got /\ whole' = whole
  BY DEF Open, SeqTypes, readerVars
<1>1. out' \in Seq(Byte) /\ Len(out') = HeaderLen /\ HeaderLen \in Nat
  BY <1>0, MarkSeq
<1>2. SeqTypes'
  <2>1. ends' \in Seq(Nat) /\ appended' \in Seq(Records) /\ Len(ends') = Len(appended')
    BY <1>0
  <2>2. count' \in 0..MaxCount /\ file' \in 0..Len(out') /\ good' \in BOOLEAN
    BY <1>0, <1>1, SequenceFileAssumption
  <2>3. got' \in Seq(Seq(Byte) \X Seq(Byte)) /\ sync' \in Syncs
    BY <1>0 DEF SeqTypes
  <2>4. QED
    BY <1>0, <1>1, <2>1, <2>2, <2>3, Zenon DEF SeqTypes
<1>3. Framed'
  <2>1. Holds(out', 0, Magic \o sync)
    <3> DEFINE h == Magic \o sync
    <3>1. \A j \in 1..Len(h) : 0 + j = j
      BY <1>0, <1>1
    <3>2. QED
      BY <1>0, <3>1 DEF Holds
  <2>2. Len(ends') = 0 /\ Start(Len(ends) + 1)' = HeaderLen
    BY <1>0 DEF Start, HeaderLen
  <2>3. \A i \in 1..Len(ends') : FrameAt(i)'
    BY <2>2
  <2>4. Len(out') <= HeaderLen
    BY <1>1
  <2>5. QED
    BY <1>0, <1>1, <2>1, <2>2, <2>3, <2>4 DEF Framed
<1>4. AtBoundary'
  BY <1>0 DEF AtBoundary
<1>5. QED
  BY <1>2, <1>3, <1>4

\* Of the operations that hand the stream nothing: the bytes may be cut, the
\* file may grow, the records are what they were.
LEMMA QuietInv ==
    ASSUME SeqInv, UNCHANGED <<sync, appended, ends>>, UNCHANGED readerVars,
           writer' \in {"new", "open", "closed", "crashed"}, good' \in BOOLEAN,
           count' \in 0..MaxCount,
           out' = out \/ out' = SubSeq(out, 1, file),
           file' \in 0..Len(out'), file <= file',
           (writer' = "open" /\ good') => writer = "open" /\ good /\ out' = out
    PROVE  SeqInv'
<1> USE DEF SeqInv
<1>0. out \in Seq(Byte) /\ file \in 0..Len(out) /\ Len(out) \in Nat
  BY LenProperties DEF SeqTypes
<1>1. out' \in Seq(Byte) /\ Len(out') <= Len(out) /\ \A j \in 1..Len(out') : out'[j] = out[j]
  <2>1. CASE out' = out
    BY <1>0, <2>1
  <2>2. CASE out' = SubSeq(out, 1, file)
    BY <1>0, <2>2, PrefixFacts
  <2>3. QED
    BY <2>1, <2>2
<1>2. SeqTypes'
  BY <1>1 DEF SeqTypes, readerVars
<1>3. Framed'
  BY <1>1, FramedKept
<1>4. AtBoundary'
  <2>1. Len(out') \in Nat
    BY <1>1, LenProperties
  <2>2. /\ file' \in Nat /\ ends' \in Seq(Nat) /\ Len(ends') = Len(appended')
        /\ Len(ends) \in Nat /\ ends' = ends /\ appended' = appended
    BY <2>1, LenProperties DEF SeqTypes
  <2>3. Len(ends) <= Len(ends')
        /\ \A i \in 1..Len(ends) : ends'[i] = ends[i] /\ appended'[i] = appended[i]
    BY <2>2
  <2>4. QED
    BY <2>2, <2>3, ReaderKept
<1>5. QED
  BY <1>2, <1>3, <1>4

\* A record taken by the stream is the next frame.
LEMMA FrameAdded ==
    ASSUME SeqInv, NEW r \in Records, NEW m \in {<<>>, Mark},
           writer = "open", good, UNCHANGED <<sync, writer, good>>,
           out' = out \o (m \o Record(r)),
           appended' = Append(appended, r),
           ends' = Append(ends, Len(out) + Len(m \o Record(r)))
    PROVE  /\ Framed'
           /\ out' \in Seq(Byte) /\ Len(out) <= Len(out')
           /\ ends' \in Seq(Nat) /\ appended' \in Seq(Records)
           /\ Len(ends') = Len(appended') /\ Len(ends) <= Len(ends')
           /\ \A i \in 1..Len(ends) : ends'[i] = ends[i] /\ appended'[i] = appended[i]
<1> DEFINE F == m \o Record(r)
<1> USE DEF SeqInv
<1>n. PICK n \in Nat : n = Len(ends)
  BY LenProperties DEF SeqTypes
<1>0. /\ sync \in Syncs /\ out \in Seq(Byte) /\ Len(out) \in Nat /\ n \in Nat
      /\ ends \in Seq(Nat) /\ appended \in Seq(Records) /\ Len(appended) = n
  BY <1>n, LenProperties DEF SeqTypes
<1>1. F \in Seq(Byte) /\ Len(F) \in Nat
  <2>1. m \in Seq(Byte) /\ Record(r) \in Seq(Byte)
    BY <1>0, MarkSeq, RecordSeq
  <2>2. QED
    BY <2>1, ConcatFacts, LenProperties
<1> HIDE DEF F
<1>2. /\ out' = out \o F /\ ends' = Append(ends, Len(out) + Len(F))
      /\ Len(out) + Len(F) \in Nat
  BY <1>0, <1>1 DEF F
<1>3. /\ out' \in Seq(Byte) /\ Len(out') = Len(out) + Len(F)
      /\ \A j \in 1..Len(out) : out'[j] = out[j]
      /\ \A j \in 1..Len(F) : out'[Len(out) + j] = F[j]
  BY <1>0, <1>1, <1>2, ConcatFacts
<1>4. /\ ends' \in Seq(Nat) /\ Len(ends') = n + 1 /\ ends'[n + 1] = Len(out) + Len(F)
      /\ \A i \in 1..n : ends'[i] = ends[i]
  BY <1>0, <1>2, <1>n, AppendProperties
<1>5. /\ appended' \in Seq(Records) /\ Len(appended') = n + 1 /\ appended'[n + 1] = r
      /\ \A i \in 1..n : appended'[i] = appended[i]
  <2>1. /\ appended' \in Seq(Records) /\ Len(appended') = Len(appended) + 1
        /\ appended'[Len(appended) + 1] = r
        /\ \A i \in 1..Len(appended) : appended'[i] = appended[i]
    BY <1>0, AppendProperties
  <2>2. QED
    BY <1>0, <2>1, Zenon
<1>6. Mark' = Mark
  BY DEF Mark
<1>7. Len(out) = Start(n + 1) /\ \A i \in 1..(n + 1) : Start(i)' = Start(i)
  <2>1. Len(out) = Start(n + 1)
    BY <1>n DEF Framed
  <2>2. ASSUME NEW i \in 1..(n + 1) PROVE Start(i)' = Start(i)
    <3>1. CASE i = 1
      BY <3>1 DEF Start, HeaderLen
    <3>2. CASE i # 1
      <4>1. i - 1 \in 1..n
        BY <1>0, <3>2
      <4>2. QED
        BY <1>4, <3>2, <4>1 DEF Start
    <3>3. QED
      BY <3>1, <3>2
  <2>3. QED
    BY <2>1, <2>2
<1>8. Holds(out', 0, Magic \o sync')
  <2>1. Holds(out, 0, Magic \o sync) /\ Len(Magic \o sync) = HeaderLen /\ HeaderLen \in Nat
    BY <1>0, MarkSeq DEF Framed
  <2>2. HeaderLen <= Len(out)
    <3>1. n + 1 \in 1..(n + 1)
      BY <1>0
    <3>2. Start(n + 1) >= HeaderLen
      BY <1>n, <3>1, Boundaries
    <3>3. QED
      BY <1>0, <1>7, <2>1, <3>2
  <2>3. \A j \in 1..HeaderLen : 0 + j = j /\ j \in 1..Len(out) /\ 0 + j <= Len(out)
    BY <1>0, <2>1, <2>2
  <2>4. QED
    BY <1>3, <2>1, <2>3 DEF Holds
<1>9. ASSUME NEW i \in 1..n PROVE FrameAt(i)'
  <2>1. PICK k \in {<<>>, Mark} :
          ends[i] = Start(i) + Len(k \o Record(appended[i]))
          /\ Holds(out, Start(i), k \o Record(appended[i]))
    BY <1>n DEF Framed, FrameAt
  <2> DEFINE G == k \o Record(appended[i])
  <2>2. i \in 1..(n + 1) /\ n \in 1..n /\ i <= n /\ appended[i] \in Records
    BY <1>0, ElementOfSeq
  <2>3. Start(i) \in Nat
    BY <1>n, <2>2, Boundaries
  <2>4. G \in Seq(Byte) /\ Len(G) \in Nat
    BY <1>0, <2>1, <2>2, <2>3, ReadFrame
  <2>5. ends[i] <= Len(out)
    <3>1. ends[i] <= ends[n] /\ Start(n + 1) = ends[n]
      BY <1>n, <2>2, Boundaries
    <3>2. QED
      BY <1>7, <3>1
  <2> HIDE DEF G
  <2>6. Holds(out', Start(i), G)
    <3>1. \A j \in 1..Len(G) : Start(i) + j <= Len(out) /\ Start(i) + j \in 1..Len(out)
      <4>1. ends[i] = Start(i) + Len(G)
        BY <2>1 DEF G
      <4>2. QED
        BY <1>0, <2>3, <2>4, <2>5, <4>1, SMTT(30)
    <3>2. \A j \in 1..Len(G) : out[Start(i) + j] = G[j]
      BY <2>1, <3>1 DEF Holds, G
    <3>3. QED
      BY <1>3, <3>1, <3>2 DEF Holds
  <2>7. Start(i)' = Start(i) /\ appended'[i] = appended[i] /\ ends'[i] = ends[i]
    BY <1>4, <1>5, <1>7, <2>2
  <2>8. QED
    BY <1>6, <2>1, <2>6, <2>7, Zenon DEF FrameAt, G
<1>10. FrameAt(n + 1)'
  <2>1. Holds(out', Len(out), F)
    BY <1>3 DEF Holds
  <2>2. Start(n + 1)' = Len(out)
    <3>1. n + 1 \in 1..(n + 1)
      BY <1>0
    <3>2. QED
      BY <1>7, <3>1
  <2>3. ends'[n + 1] = Start(n + 1)' + Len(m \o Record(appended'[n + 1]))
        /\ Holds(out', Start(n + 1)', m \o Record(appended'[n + 1]))
    BY <1>4, <1>5, <2>1, <2>2, Zenon DEF F
  <2>4. QED
    BY <1>6, <2>3, Zenon DEF FrameAt
<1>11. Start(Len(ends) + 1)' = Len(out')
  <2>1. Start(Len(ends) + 1)' = ends'[n + 1]
    <3>1. Len(ends') = n + 1 /\ (n + 1) + 1 # 1 /\ ((n + 1) + 1) - 1 = n + 1
      BY <1>0, <1>4
    <3>2. Start(Len(ends) + 1)' =
            IF Len(ends') + 1 = 1 THEN HeaderLen ELSE ends'[(Len(ends') + 1) - 1]
      BY Zenon DEF Start, HeaderLen
    <3>3. QED
      BY <3>1, <3>2, Zenon
  <2>2. QED
    BY <1>3, <1>4, <2>1, Zenon
<1>12. \A i \in 1..Len(ends') : FrameAt(i)'
  <2>1. ASSUME NEW i \in 1..(n + 1) PROVE FrameAt(i)'
    <3>1. i \in 1..n \/ i = n + 1
      BY <1>0
    <3>2. QED
      BY <1>9, <1>10, <3>1, Zenon
  <2>2. QED
    BY <1>4, <2>1, Zenon
<1>13. Framed'
  <2>1. Len(out') <= Start(Len(ends) + 1)'
    <3>1. Len(out') \in Nat
      BY <1>3, LenProperties
    <3>2. QED
      BY <1>11, <3>1
  <2>2. QED
    BY <1>8, <1>11, <1>12, <2>1, Zenon DEF Framed
<1>14. Len(out) <= Len(out') /\ Len(ends) <= Len(ends') /\ Len(ends') = Len(appended')
  <2>1. Len(out) <= Len(out')
    BY <1>0, <1>n, <1>1, <1>3
  <2>2. Len(ends) <= Len(ends') /\ Len(ends') = Len(appended')
    BY <1>0, <1>n, <1>4, <1>5
  <2>3. QED
    BY <2>1, <2>2
<1>15. QED
  BY <1>3, <1>4, <1>5, <1>13, <1>14, <1>n, Zenon

\* Append: a record refused or dropped changes nothing but the count.
LEMMA AppendInv == ASSUME SeqInv, NEW r \in Records, Append_(r) PROVE SeqInv'
<1> DEFINE k == Write(r.key)
           v == Write(r.value)
           rec == SyncBytes \o RecordBytes(k, v)
           A == /\ k # <<>> /\ count < MaxCount /\ count' = count + 1
                /\ writer = "open" /\ good
                /\ out' = out \o rec /\ appended' = Append(appended, r)
                /\ ends' = Append(ends, Len(out) + Len(rec))
           B == /\ (count' = count \/ (count < MaxCount /\ count' = count + 1))
                /\ UNCHANGED <<out, appended, ends>>
<1> USE DEF SeqInv
<1>0. /\ sync' = sync /\ writer' = writer /\ good' = good /\ file' = file
      /\ readerVars' = readerVars
  BY DEF Append_, readerVars
<1>1. A \/ B
  <2> HIDE DEF k, v, rec
  <2>1. \/ k = <<>> /\ UNCHANGED <<count, out, appended, ends>>
        \/ /\ k # <<>> /\ count < MaxCount
           /\ count' = count + 1
           /\ IF writer = "open" /\ good
                THEN /\ out' = out \o rec
                     /\ appended' = Append(appended, r)
                     /\ ends' = Append(ends, Len(out) + Len(rec))
                ELSE UNCHANGED <<out, appended, ends>>
    BY Zenon DEF Append_, k, v, rec
  <2>2. QED
    BY <2>1
<1>2. count' \in 0..MaxCount
  <2>1. count \in 0..MaxCount /\ MaxCount \in Nat
    BY SequenceFileAssumption DEF SeqTypes
  <2>2. count' = count \/ (count < MaxCount /\ count' = count + 1)
    BY <1>1
  <2>3. QED
    BY <2>1, <2>2
<1>3. file \in 0..Len(out) /\ Len(out) \in Nat /\ file \in Nat /\ file <= file
  BY LenProperties DEF SeqTypes
<1>4. CASE A
  <2>1. PICK m \in {<<>>, Mark} : m = SyncBytes
    BY DEF SyncBytes, Mark
  <2>2. rec = m \o Record(r)
    BY <2>1 DEF Record
  <2>3. /\ Framed' /\ out' \in Seq(Byte) /\ Len(out) <= Len(out')
        /\ ends' \in Seq(Nat) /\ appended' \in Seq(Records)
        /\ Len(ends') = Len(appended') /\ Len(ends) <= Len(ends')
        /\ \A i \in 1..Len(ends) : ends'[i] = ends[i] /\ appended'[i] = appended[i]
    <3> HIDE DEF rec
    <3>1. /\ writer = "open" /\ good /\ out' = out \o (m \o Record(r))
          /\ appended' = Append(appended, r)
          /\ ends' = Append(ends, Len(out) + Len(m \o Record(r)))
      BY <1>4, <2>2
    <3>2. QED
      BY <1>0, <3>1, FrameAdded
  <2>4. SeqTypes'
    <3>1. file' \in 0..Len(out')
      <4>1. Len(out') \in Nat
        BY <2>3, LenProperties
      <4>2. QED
        BY <1>0, <1>3, <2>3, <4>1
    <3>2. sync' \in Syncs /\ writer' \in {"new", "open", "closed", "crashed"}
          /\ good' \in BOOLEAN /\ reader' \in {"new", "reading", "eof", "corrupt"}
          /\ got' \in Seq(Seq(Byte) \X Seq(Byte))
      BY <1>0 DEF SeqTypes, readerVars
    <3>3. QED
      BY <1>2, <2>3, <3>1, <3>2, Zenon DEF SeqTypes
  <2>5. AtBoundary'
    BY <1>0, <1>3, <2>3, ReaderKept
  <2>6. QED
    BY <2>3, <2>4, <2>5
<1>5. CASE B
  <2>1. /\ UNCHANGED <<sync, appended, ends>> /\ out' = out /\ file' \in 0..Len(out')
        /\ file <= file' /\ writer' \in {"new", "open", "closed", "crashed"}
        /\ good' \in BOOLEAN
        /\ (writer' = "open" /\ good') => writer = "open" /\ good /\ out' = out
    BY <1>0, <1>3, <1>5 DEF SeqTypes
  <2>2. QED
    BY <1>0, <1>2, <2>1, QuietInv
<1>6. QED
  BY <1>1, <1>4, <1>5

\* The stream's own steps, and the end of the writer.
LEMMA WriterInv ==
    ASSUME SeqInv, OpenAgain \/ Flush \/ DeviceFails \/ Close \/ Crash
    PROVE  SeqInv'
<1> USE DEF SeqInv
<1>0. /\ out \in Seq(Byte) /\ Len(out) \in Nat /\ file \in 0..Len(out)
      /\ writer \in {"new", "open", "closed", "crashed"} /\ good \in BOOLEAN
      /\ count \in 0..MaxCount
  BY LenProperties DEF SeqTypes
<1>1. /\ UNCHANGED <<sync, appended, ends>> /\ UNCHANGED readerVars /\ count' = count
  BY DEF OpenAgain, Flush, DeviceFails, Close, Crash, historyVars
<1>2. Len(SubSeq(out, 1, file)) = file
  BY <1>0, PrefixFacts
<1>3. CASE OpenAgain \/ Flush
  <2>1. /\ out' = out /\ file' \in 0..Len(out') /\ file <= file'
        /\ writer' = writer /\ good' \in BOOLEAN /\ (good' => good)
    <3>1. out' = out /\ writer' = writer /\ (good' = FALSE \/ good' = good)
          /\ (file' = file \/ (file < Len(out) /\ file' = file + 1))
      BY <1>3 DEF OpenAgain, Flush
    <3>2. file' \in 0..Len(out') /\ file <= file'
      BY <1>0, <3>1
    <3>3. good' \in BOOLEAN /\ (good' => good)
      <4>1. CASE good' = FALSE
        BY <4>1
      <4>2. CASE good' = good
        BY <1>0, <4>2
      <4>3. QED
        BY <3>1, <4>1, <4>2
    <3>4. QED
      BY <3>1, <3>2, <3>3
  <2>2. QED
    BY <1>0, <1>1, <2>1, QuietInv
<1>4. CASE DeviceFails
  <2>1. /\ out' = SubSeq(out, 1, file) /\ file' = file /\ writer' = writer /\ good' = FALSE
    BY <1>4 DEF DeviceFails
  <2>2. file' \in 0..Len(out') /\ file <= file'
    BY <1>0, <1>2, <2>1
  <2>3. QED
    BY <1>0, <1>1, <2>1, <2>2, QuietInv
<1>5. CASE Close
  <2>1. /\ out' = out /\ file' = Len(out) /\ writer' = "closed" /\ good' = good
    BY <1>5 DEF Close
  <2>2. file' \in 0..Len(out') /\ file <= file'
    BY <1>0, <2>1
  <2>3. QED
    BY <1>0, <1>1, <2>1, <2>2, QuietInv
<1>6. CASE Crash
  <2>1. /\ out' = SubSeq(out, 1, file) /\ file' = file /\ writer' = "crashed" /\ good' = good
    BY <1>6 DEF Crash
  <2>2. file' \in 0..Len(out') /\ file <= file'
    BY <1>0, <1>2, <2>1
  <2>3. QED
    BY <1>0, <1>1, <2>1, <2>2, QuietInv
<1>7. QED
  BY <1>3, <1>4, <1>5, <1>6

\* The reader leaves the writer's state alone.
LEMMA WriterKept ==
    ASSUME SeqInv, UNCHANGED <<sync, writer, good, count, out, file, historyVars>>,
           reader' \in {"new", "reading", "eof", "corrupt"},
           got' \in Seq(Seq(Byte) \X Seq(Byte))
    PROVE  SeqTypes' /\ Framed' /\ \A i : Start(i)' = Start(i)
<1> USE DEF SeqInv
<1>1. SeqTypes' /\ \A i : Start(i)' = Start(i)
  BY DEF SeqTypes, historyVars, Start
<1>2. Framed'
  <2>1. out' = out /\ out \in Seq(Byte) /\ Len(out) \in Nat
    BY LenProperties DEF SeqTypes
  <2>2. Len(out') <= Len(out)
    BY <2>1
  <2>3. QED
    BY <2>1, <2>2, FramedKept DEF historyVars
<1>3. QED
  BY <1>1, <1>2

\* The file's bytes.
LEMMA ContentsFacts ==
    ASSUME SeqTypes
    PROVE  /\ Contents \in Seq(Byte) /\ Len(Contents) = file /\ file \in Nat
           /\ \A p \in Nat : \A b \in Seq(Byte) : Holds(out, p, b) => Holds(Contents, p, b)
<1>1. out \in Seq(Byte) /\ file \in 0..Len(out) /\ Len(out) \in Nat
  BY LenProperties DEF SeqTypes
<1>2. /\ Contents \in Seq(Byte) /\ Len(Contents) = file
      /\ \A j \in 1..file : Contents[j] = out[j]
  BY <1>1, PrefixFacts DEF Contents
<1>3. ASSUME NEW p \in Nat, NEW b \in Seq(Byte), Holds(out, p, b)
      PROVE  Holds(Contents, p, b)
  <2>0. Len(b) \in Nat
    BY LenProperties
  <2>1. ASSUME NEW j \in 1..Len(b), p + j <= Len(Contents)
        PROVE  Contents[p + j] = b[j]
    <3>1. p + j \in 1..file /\ p + j <= Len(out)
      BY <1>1, <1>2, <2>0, <2>1
    <3>2. Contents[p + j] = out[p + j] /\ out[p + j] = b[j]
      BY <1>2, <1>3, <3>1 DEF Holds
    <3>3. QED
      BY <3>2
  <2>2. QED
    BY <2>1 DEF Holds
<1>4. QED
  BY <1>1, <1>2, <1>3

\* The reader opens a file with its header, or finds it corrupt.
LEMMA ReaderOpenInv == ASSUME SeqInv, ReaderOpen PROVE SeqInv'
<1> DEFINE magic == ReadRawBytes([data |-> Contents, pos |-> 0], 4)
           mark  == ReadRawBytes([data |-> Contents, pos |-> 4], MD5Len)
<1> USE DEF SeqInv
<1>0. /\ reader = "new" /\ pos = 0 /\ got = <<>> /\ whole = 0
      /\ got' = got /\ whole' = whole
      /\ UNCHANGED <<sync, writer, good, count, out, file, historyVars>>
      /\ \/ mark.ok /\ reader' = "reading" /\ pos' = mark.pos
         \/ reader' = "corrupt" /\ pos' = pos
  BY DEF ReaderOpen, AtBoundary
<1>1. SeqTypes' /\ Framed' /\ \A i : Start(i)' = Start(i)
  <2>1. reader' \in {"new", "reading", "eof", "corrupt"}
        /\ got' \in Seq(Seq(Byte) \X Seq(Byte))
    BY <1>0 DEF SeqTypes
  <2>2. QED
    BY <1>0, <2>1, WriterKept
<1>2. mark.ok => mark.pos = HeaderLen /\ HeaderLen <= file
  <2>1. Len(Contents) = file /\ file \in Nat /\ MD5Len \in Nat
    BY ContentsFacts, WritablesAssumption
  <2>2. CASE 4 + MD5Len <= Len(Contents)
    <3>1. mark = Result(SubSeq(Contents, 4 + 1, 4 + MD5Len), 4 + MD5Len)
      BY <2>2 DEF ReadRawBytes, CheckBounds
    <3>2. QED
      BY <2>1, <2>2, <3>1, ThrownIsNone DEF HeaderLen
  <2>3. CASE ~(4 + MD5Len <= Len(Contents))
    <3>1. mark = Thrown
      BY <2>3 DEF ReadRawBytes, CheckBounds
    <3>2. QED
      BY <3>1, ThrownIsNone
  <2>4. QED
    BY <2>2, <2>3
<1> HIDE DEF mark
<1>3. Len(got') = 0 /\ 0 <= Len(appended') /\ Start(Len(got) + 1)' = HeaderLen
  <2>1. Len(got') = 0
    BY <1>0
  <2>2. Len(appended') \in Nat
    BY <1>1, LenProperties DEF SeqTypes
  <2>3. Start(Len(got) + 1)' = HeaderLen
    <3>1. Len(got') + 1 = 1
      BY <2>1
    <3>2. QED
      BY <3>1 DEF Start, HeaderLen
  <2>4. QED
    BY <2>1, <2>2, <2>3
<1>4. AtBoundary'
  <2>1. /\ reader' = "reading" => pos' = HeaderLen /\ pos' <= file'
        /\ reader' = "corrupt" => pos' = 0
        /\ reader' \in {"reading", "corrupt"} /\ whole' = 0 /\ got' = <<>>
    BY <1>0, <1>2
  <2>2. \A i \in 1..Len(got') :
          got'[i] = <<Write(appended'[i].key), Write(appended'[i].value)>>
    BY <1>3
  <2>3. QED
    BY <1>3, <2>1, <2>2 DEF AtBoundary
<1>5. QED
  BY <1>1, <1>4

LEMMA ReaderCloseInv == ASSUME SeqInv, ReaderClose PROVE SeqInv'
<1> USE DEF SeqInv
<1>0. /\ reader' = "new" /\ pos' = 0 /\ got' = <<>> /\ whole' = 0
      /\ UNCHANGED <<sync, writer, good, count, out, file, historyVars>>
  BY DEF ReaderClose
<1>1. SeqTypes' /\ Framed'
  <2>1. got' \in Seq(Seq(Byte) \X Seq(Byte))
    BY <1>0
  <2>2. QED
    BY <1>0, <2>1, WriterKept
<1>2. AtBoundary'
  <2>1. Len(appended') \in Nat /\ Len(got') = 0
    BY <1>0, <1>1, LenProperties DEF SeqTypes
  <2>2. QED
    BY <1>0, <2>1 DEF AtBoundary
<1>3. QED
  BY <1>1, <1>2

\* Next: the frame at the boundary, if it is all in the file, is the record
\* after those returned; else the reader is done, with all the whole ones.
LEMMA NextInv == ASSUME SeqInv, Next_ PROVE SeqInv'
<1> DEFINE d == ReadRecord(Contents, SkipSync(Contents, pos))
<1> USE DEF SeqInv
<1>n. PICK n \in Nat : n = Len(got)
  BY LenProperties DEF SeqTypes
<1>0. /\ reader = "reading" /\ whole = 0
      /\ UNCHANGED <<sync, writer, good, count, out, file, historyVars>>
      /\ IF d.ok THEN got' = Append(got, d.value) /\ pos' = d.pos /\ reader' = reader
                      /\ whole' = whole
                 ELSE reader' = "eof" /\ whole' = WholeRecords /\ got' = got /\ pos' = pos
  BY Zenon DEF Next_, AtBoundary
<1>1. /\ Contents \in Seq(Byte) /\ Len(Contents) = file /\ file \in Nat
      /\ Len(ends) \in Nat /\ Len(appended) = Len(ends) /\ DOMAIN ends = 1..Len(ends)
      /\ n <= Len(ends) /\ got \in Seq(Seq(Byte) \X Seq(Byte)) /\ sync \in Syncs
      /\ appended' = appended /\ ends' = ends /\ file' = file
  <2>1. appended' = appended /\ ends' = ends /\ file' = file
    BY <1>0 DEF historyVars
  <2>2. /\ n <= Len(appended) /\ Len(ends) = Len(appended) /\ sync \in Syncs
        /\ got \in Seq(Seq(Byte) \X Seq(Byte))
    BY <1>n DEF SeqTypes, AtBoundary
  <2>3. QED
    BY <2>1, <2>2, ContentsFacts, Boundaries
<1>2. /\ pos = Start(n + 1) /\ pos <= file /\ pos \in Nat
  <2>1. n + 1 \in 1..(Len(ends) + 1)
    BY <1>1
  <2>2. QED
    BY <1>0, <1>n, <2>1, Boundaries DEF AtBoundary
<1>3. \A i \in 1..n : got[i] = <<Write(appended[i].key), Write(appended[i].value)>>
  BY <1>n DEF AtBoundary
<1>4. ASSUME n < Len(ends)
      PROVE  /\ n + 1 \in 1..Len(ends) /\ appended[n + 1] \in Records
             /\ d = IF ends[n + 1] <= file
                      THEN Result(<<Write(appended[n + 1].key), Write(appended[n + 1].value)>>,
                                  ends[n + 1])
                      ELSE Thrown
  <2>1. n + 1 \in 1..Len(ends) /\ n + 1 \in 1..Len(appended)
    BY <1>1, <1>4
  <2>2. PICK m \in {<<>>, Mark} :
          ends[n + 1] = Start(n + 1) + Len(m \o Record(appended[n + 1]))
          /\ Holds(out, Start(n + 1), m \o Record(appended[n + 1]))
    BY <2>1 DEF Framed, FrameAt
  <2>3. appended[n + 1] \in Records /\ out \in Seq(Byte)
    BY <2>1, ElementOfSeq DEF SeqTypes
  <2> DEFINE F == m \o Record(appended[n + 1])
  <2>4. F \in Seq(Byte)
    BY <1>1, <1>2, <2>2, <2>3, ReadFrame
  <2>5. Holds(Contents, pos, F)
    BY <1>2, <2>2, <2>4, ContentsFacts
  <2>6. d = IF pos + Len(F) <= Len(Contents)
              THEN Result(<<Write(appended[n + 1].key), Write(appended[n + 1].value)>>,
                          pos + Len(F))
              ELSE Thrown
    BY <1>1, <1>2, <2>3, <2>5, ReadFrame
  <2>7. ends[n + 1] = pos + Len(F)
    BY <1>2, <2>2
  <2> HIDE DEF F, d
  <2>8. QED
    BY <1>1, <2>1, <2>3, <2>6, <2>7, Zenon
<1>5. ASSUME ~(n < Len(ends)) PROVE d = Thrown
  <2>1. n = Len(ends)
    BY <1>1, <1>5
  <2>2. Len(out) <= pos
    BY <1>2, <2>1 DEF Framed
  <2>3. file <= Len(out) /\ Len(out) \in Nat
    BY LenProperties DEF SeqTypes
  <2>4. Len(Contents) <= pos
    BY <1>1, <1>2, <2>2, <2>3
  <2>5. QED
    BY <1>1, <1>2, <2>4, ReadAtEnd
<1> HIDE DEF d
<1>6. CASE d.ok
  <2>1. n < Len(ends) /\ ends[n + 1] <= file
        /\ d = Result(<<Write(appended[n + 1].key), Write(appended[n + 1].value)>>, ends[n + 1])
    BY <1>4, <1>5, <1>6, ThrownIsNone
  <2> DEFINE g == <<Write(appended[n + 1].key), Write(appended[n + 1].value)>>
  <2>2. got' = Append(got, g) /\ pos' = ends[n + 1] /\ reader' = "reading" /\ whole' = 0
    <3>1. d.value = g /\ d.pos = ends[n + 1]
      BY <2>1, ThrownIsNone
    <3>2. QED
      BY <1>0, <1>6, <3>1, Zenon
  <2>3. g \in Seq(Byte) \X Seq(Byte)
    BY <1>4, <2>1, RecordSeq
  <2> HIDE DEF g
  <2>4. /\ got' \in Seq(Seq(Byte) \X Seq(Byte)) /\ Len(got') = n + 1 /\ got'[n + 1] = g
        /\ \A i \in 1..n : got'[i] = got[i]
    BY <1>1, <1>n, <2>2, <2>3, AppendProperties
  <2>5. SeqTypes' /\ Framed' /\ \A i : Start(i)' = Start(i)
    BY <1>0, <2>2, <2>4, WriterKept
  <2>6. \A i \in 1..Len(got') :
          got'[i] = <<Write(appended'[i].key), Write(appended'[i].value)>>
    <3>1. ASSUME NEW i \in 1..(n + 1)
          PROVE  got'[i] = <<Write(appended[i].key), Write(appended[i].value)>>
      <4>1. i \in 1..n \/ i = n + 1
        OBVIOUS
      <4>2. CASE i \in 1..n
        BY <1>3, <2>4, <4>2, Zenon
      <4>3. CASE i = n + 1
        BY <2>4, <4>3, Zenon DEF g
      <4>4. QED
        BY <4>1, <4>2, <4>3
    <3>2. QED
      BY <1>1, <2>4, <3>1, Zenon
  <2>7. Start(Len(got) + 1)' = ends[n + 1]
    <3>1. Start(n + 2) = ends[n + 1]
      <4>1. n + 2 # 1 /\ (n + 2) - 1 = n + 1
        OBVIOUS
      <4>2. QED
        BY <4>1, Zenon DEF Start
    <3>2. Len(got') + 1 = n + 2
      BY <2>4
    <3>3. Start(Len(got) + 1)' = Start(n + 2)'
      BY <3>2, Zenon DEF Start
    <3>4. Start(n + 2)' = Start(n + 2)
      BY <2>5
    <3>5. QED
      BY <3>1, <3>3, <3>4, Zenon
  <2>8. Len(got') <= Len(appended')
    BY <1>1, <2>1, <2>4
  <2>9. AtBoundary'
    BY <1>1, <2>1, <2>2, <2>6, <2>7, <2>8 DEF AtBoundary
  <2>10. QED
    BY <2>5, <2>9
<1>7. CASE ~ d.ok
  <2>1. reader' = "eof" /\ whole' = WholeRecords /\ got' = got /\ pos' = pos
    BY <1>0, <1>7, Zenon
  <2>2. SeqTypes' /\ Framed' /\ \A i : Start(i)' = Start(i)
    BY <1>0, <1>1, <2>1, WriterKept
  <2>3. {i \in DOMAIN ends : ends[i] <= file} = 1..n
    <3>1. ASSUME NEW i \in 1..n PROVE i \in DOMAIN ends /\ ends[i] <= file
      <4>1. n \in 1..Len(ends) /\ i \in 1..Len(ends) /\ i <= n
        BY <1>1
      <4>2. ends[i] <= ends[n] /\ Start(n + 1) = ends[n] /\ ends[n] \in Nat /\ ends[i] \in Nat
        BY <4>1, Boundaries, ElementOfSeq DEF SeqTypes
      <4>3. QED
        BY <1>1, <1>2, <4>1, <4>2
    <3>2. ASSUME NEW i \in DOMAIN ends, ends[i] <= file PROVE i \in 1..n
      <4>1. CASE ~(n < Len(ends))
        BY <1>1, <4>1
      <4>2. CASE n < Len(ends) /\ ~(i <= n)
        <5>1. i \in 1..Len(ends) /\ n + 1 \in 1..Len(ends) /\ n + 1 <= i
          BY <1>1, <4>2
        <5>2. ends[n + 1] <= ends[i] /\ ends[n + 1] \in Nat /\ ends[i] \in Nat
          BY <5>1, Boundaries, ElementOfSeq DEF SeqTypes
        <5>3. ends[n + 1] <= file
          BY <1>1, <3>2, <5>2
        <5>4. d.ok
          BY <1>4, <4>2, <5>3, ThrownIsNone
        <5>5. QED
          BY <1>7, <5>4
      <4>3. QED
        BY <1>1, <4>1, <4>2
    <3>3. QED
      BY <3>1, <3>2
  <2>4. WholeRecords = n
    <3>1. 1 \in Int /\ n \in Int /\ Cardinality(1..n) = IF 1 > n THEN 0 ELSE n - 1 + 1
      BY FS_Interval
    <3>2. Cardinality(1..n) = n
      BY <3>1
    <3>3. QED
      BY <2>3, <3>2, Zenon DEF WholeRecords
  <2>5. Start(Len(got) + 1)' = Start(n + 1)
    <3>1. Len(got') = n
      BY <1>n, <2>1
    <3>2. QED
      BY <2>2, <3>1, Zenon DEF Start
  <2>6. AtBoundary'
    <3>1. Len(got') = n /\ n <= Len(appended')
      BY <1>1, <1>n, <2>1
    <3>2. \A i \in 1..Len(got') :
            got'[i] = <<Write(appended'[i].key), Write(appended'[i].value)>>
      BY <1>1, <1>3, <1>n, <2>1, Zenon
    <3>3. QED
      BY <1>1, <1>2, <2>1, <2>4, <2>5, <3>1, <3>2 DEF AtBoundary
  <2>7. QED
    BY <2>2, <2>6
<1>8. QED
  BY <1>6, <1>7

\* Every step of the writer, the stream, the device and the reader keeps the
\* invariant.
THEOREM SeqInductive == Spec => []SeqInv
<1>1. Init => SeqInv
  BY InitSeqInv
<1>2. SeqInv /\ [Next]_vars => SeqInv'
  <2> SUFFICES ASSUME SeqInv, [Next]_vars PROVE SeqInv'
    OBVIOUS
  <2>1. CASE Open
    BY <2>1, OpenInv
  <2>2. CASE OpenAgain \/ Flush \/ DeviceFails \/ Close \/ Crash
    BY <2>2, WriterInv
  <2>3. CASE \E r \in Records : Append_(r)
    BY <2>3, AppendInv
  <2>4. CASE ReaderOpen
    BY <2>4, ReaderOpenInv
  <2>5. CASE Next_
    BY <2>5, NextInv
  <2>6. CASE ReaderClose
    BY <2>6, ReaderCloseInv
  <2>7. CASE UNCHANGED vars
    <3>1. /\ UNCHANGED <<sync, writer, good, count, out, file, historyVars>>
          /\ UNCHANGED readerVars
      BY <2>7 DEF vars, historyVars, readerVars
    <3>2. SeqTypes' /\ Framed'
      BY <3>1, WriterKept DEF SeqInv, SeqTypes, readerVars
    <3>3. AtBoundary'
      BY <3>1 DEF SeqInv, AtBoundary, readerVars, historyVars, Start
    <3>4. QED
      BY <3>2, <3>3 DEF SeqInv
  <2>8. QED
    BY <2>1, <2>2, <2>3, <2>4, <2>5, <2>6, <2>7 DEF Next
<1>3. QED
  BY <1>1, <1>2, PTL DEF Spec

\* SequenceFileWriter and SequenceFileReader keep their types, and the reader
\* never stands beyond the file nor returns more than was appended.
THEOREM SeqTypeCorrect == Spec => []SeqTypeOK
<1>1. SeqInv => SeqTypeOK
  <2> SUFFICES ASSUME SeqInv PROVE SeqTypeOK
    OBVIOUS
  <2>1. Len(got) \in Nat /\ Len(appended) \in Nat /\ file \in Nat /\ Len(got) <= Len(appended)
        /\ Len(appended) = Len(ends)
    BY LenProperties DEF SeqInv, SeqTypes, AtBoundary
  <2>2. Start(Len(got) + 1) \in Nat
    <3>1. Len(got) + 1 \in 1..(Len(ends) + 1)
      BY <2>1
    <3>2. QED
      BY <3>1, Boundaries DEF SeqInv
  <2>3. pos \in 0..file
    BY <2>1, <2>2 DEF SeqInv, SeqTypes, AtBoundary
  <2>4. whole \in 0..Len(appended)
    BY <2>1 DEF SeqInv, SeqTypes, AtBoundary
  <2>5. QED
    BY <2>1, <2>3, <2>4 DEF SeqInv, SeqTypes, SeqTypeOK
<1>2. QED
  BY <1>1, SeqInductive, PTL

\* A reader at the end has returned every record that is whole in the file, and
\* no other: a flush, a failing device, a crash or a marker anywhere between
\* two bytes costs the torn record only.
THEOREM WholeRecordsAlwaysRead == Spec => []WholeRecordsRead
<1>1. SeqInv => WholeRecordsRead
  BY DEF SeqInv, AtBoundary, WholeRecordsRead
<1>2. QED
  BY <1>1, SeqInductive, PTL

-----------------------------------------------------------------------------
(***************************************************************************)
(* ReadFields of what Write wrote.                                         *)
(***************************************************************************)

\* What ReadFields does for each type.
LEMMA ReadOf ==
    ASSUME NEW t, NEW in
    PROVE  /\ t \in {"Int", "Float"} => ReadFields(t, in) = ReadInt(in)
           /\ t = "Long" => ReadFields(t, in) = ReadLong(in)
           /\ t = "Bool" => ReadFields(t, in) = ReadBool(in)
           /\ t = "UTF8" => ReadFields(t, in) = ReadUTF8(in)
           /\ t = "Bytes" => ReadFields(t, in) = ReadBytes(in)
           /\ t = "MD5" => ReadFields(t, in) = ReadRawBytes(in, MD5Len)
           /\ t = "Null" => ReadFields(t, in) = Result(<<>>, in.pos)
BY DEF ReadFields

\* Bytes hold themselves, and a concatenation its parts.
LEMMA HoldsSelf ==
    ASSUME NEW b \in Seq(Byte)
    PROVE  Holds(b, 0, b)
<1>1. Len(b) \in Nat
  BY LenProperties
<1>2. \A j \in 1..Len(b) : 0 + j = j
  BY <1>1
<1>3. QED
  BY <1>2 DEF Holds

LEMMA ReadSelf ==
    ASSUME NEW b \in Seq(Byte)
    PROVE  ReadRawBytes([data |-> b, pos |-> 0], Len(b)) = Result(b, Len(b))
<1>1. Len(b) \in Nat
  BY LenProperties
<1>2. 0 + Len(b) = Len(b) /\ 0 + Len(b) <= Len(b)
  BY <1>1
<1>3. ReadRawBytes([data |-> b, pos |-> 0], Len(b)) =
        IF 0 + Len(b) <= Len(b) THEN Result(b, 0 + Len(b)) ELSE Thrown
  BY HoldsSelf, ReadRaw
<1>4. QED
  BY <1>2, <1>3, Zenon

\* IntWritable and FloatWritable
LEMMA IntDecodes ==
    ASSUME NEW v \in Ints(4)
    PROVE  ReadInt([data |-> WriteInt(v), pos |-> 0]) = Result(v, Len(WriteInt(v)))
<1> DEFINE b == WriteInt(v)
<1>1. 4 \in 0..8
  OBVIOUS
<1>2. v \in Int
  BY <1>1, SignedMod
<1>3. b \in Seq(Byte) /\ Len(b) = 4
  BY <1>2, IntSeq
<1>4. ReadBE(b, 0) = IF 0 + 4 <= Len(b) THEN Result(v, 0 + 4) ELSE Thrown
  BY <1>3, HoldsSelf, ReadIntBack
<1> HIDE DEF b
<1>5. 0 + 4 <= Len(b) /\ 0 + 4 = Len(b)
  BY <1>3
<1>6. ReadBE(b, 0) = Result(v, Len(b))
  BY <1>4, <1>5, Zenon
<1>7. QED
  BY <1>6, Zenon DEF ReadBE, b

\* LongWritable
LEMMA LongDecodes ==
    ASSUME NEW v \in Ints(8)
    PROVE  ReadLong([data |-> WriteLong(v), pos |-> 0]) = Result(v, Len(WriteLong(v)))
<1> DEFINE b == WriteLong(v)
           x == WriteInt(v \div Power[4])
           y == WriteInt(v % Power[4])
           r == ReadRawBytes([data |-> b, pos |-> 0], 8)
<1>1. 8 \in 0..8
  OBVIOUS
<1>2. v \in Int /\ Signed(v % Power[8], 8) = v
  BY <1>1, SignedMod
<1>3. b = x \o y /\ b \in Seq(Byte) /\ Len(b) = 8
  BY <1>2, LongSeq
<1>4. /\ v \div Power[4] \in Int /\ v % Power[4] \in Int
      /\ Unsigned(x) * Power[4] + Unsigned(y) = v % Power[8]
  BY <1>2, LongHalves
<1>5. x \in Seq(Byte) /\ Len(x) = 4 /\ y \in Seq(Byte) /\ Len(y) = 4
  BY <1>4, IntSeq
<1> HIDE DEF b, x, y
<1>6. r = Result(b, 8)
  BY <1>3, ReadSelf
<1>7. Holds(b, 0, x) /\ Holds(b, 4, y)
  <2>1. Holds(b, 0, x \o y)
    BY <1>3, HoldsSelf
  <2>2. Holds(b, 0, x) /\ Holds(b, 0 + Len(x), y)
    BY <1>5, <2>1, HoldsConcat
  <2>3. QED
    BY <1>5, <2>2
<1>8. SubSeq(b, 1, 4) = x /\ SubSeq(b, 5, 8) = y
  <2>1. 0 + 4 <= Len(b) /\ 4 + 4 <= Len(b) /\ 0 + 1 = 1 /\ 0 + 4 = 4 /\ 4 + 1 = 5 /\ 4 + 4 = 8
    BY <1>3
  <2>2. ReadRawBytes([data |-> b, pos |-> 0], 4) = Result(x, 4)
    BY <1>3, <1>5, <1>7, <2>1, ReadRaw
  <2>3. ReadRawBytes([data |-> b, pos |-> 4], 4) = Result(y, 8)
    BY <1>3, <1>5, <1>7, <2>1, ReadRaw
  <2>4. ReadRawBytes([data |-> b, pos |-> 0], 4) = Result(SubSeq(b, 1, 4), 4)
    BY <2>1 DEF ReadRawBytes, CheckBounds
  <2>5. ReadRawBytes([data |-> b, pos |-> 4], 4) = Result(SubSeq(b, 5, 8), 8)
    BY <2>1 DEF ReadRawBytes, CheckBounds
  <2>6. /\ Result(x, 4).value = x /\ Result(SubSeq(b, 1, 4), 4).value = SubSeq(b, 1, 4)
        /\ Result(y, 8).value = y /\ Result(SubSeq(b, 5, 8), 8).value = SubSeq(b, 5, 8)
    BY ThrownIsNone, Zenon
  <2>7. QED
    BY <2>2, <2>3, <2>4, <2>5, <2>6, Zenon
<1> HIDE DEF r
<1>9. r.ok /\ r.value = b /\ r.pos = 8
  BY <1>6, ThrownIsNone
<1>10. ReadLong([data |-> b, pos |-> 0]) =
         IF r.ok THEN Result(Signed(Unsigned(SubSeq(r.value, 1, 4)) * Power[4]
                                      + Unsigned(SubSeq(r.value, 5, 8)), 8), r.pos) ELSE r
  BY Zenon DEF ReadLong, r
<1>11. ReadLong([data |-> b, pos |-> 0]) = Result(v, 8)
  BY <1>2, <1>4, <1>8, <1>9, <1>10, Zenon
<1>12. QED
  BY <1>3, <1>11, Zenon DEF b

\* BooleanWritable
LEMMA BoolDecodes ==
    ASSUME NEW v \in BOOLEAN
    PROVE  LET b == <<IF v THEN 1 ELSE 0>>
           IN  ReadBool([data |-> b, pos |-> 0]) = Result(v, Len(b))
<1> DEFINE n == IF v THEN 1 ELSE 0
           b == <<n>>
           r == ReadRawBytes([data |-> b, pos |-> 0], 1)
<1>1. n \in {0, 1} /\ (n # 0 <=> v)
  OBVIOUS
<1>2. n \in Byte
  BY <1>1, WritablesAssumption DEF Byte
<1> HIDE DEF n
<1>3. b \in Seq(Byte) /\ Len(b) = 1
  BY <1>2
<1>4. (b # <<0>>) = v
  <2>1. b = <<0>> <=> n = 0
    OBVIOUS
  <2> HIDE DEF b
  <2>2. (b # <<0>>) <=> v
    BY <1>1, <2>1
  <2>3. QED
    BY <2>2
<1>5. r = Result(b, 1)
  <2> HIDE DEF b
  <2> QED
    BY <1>3, ReadSelf
<1> HIDE DEF b, r
<1>6. r.ok /\ r.value = b /\ r.pos = 1
  BY <1>5, ThrownIsNone
<1>7. ReadBool([data |-> b, pos |-> 0]) = IF r.ok THEN Result(r.value # <<0>>, r.pos) ELSE r
  BY Zenon DEF ReadBool, r
<1>8. ReadBool([data |-> b, pos |-> 0]) = Result(v, 1)
  BY <1>4, <1>6, <1>7, Zenon
<1>9. QED
  BY <1>3, <1>8, Zenon DEF b, n

\* BytesWritable: the length is an int.
LEMMA BytesDecodes ==
    ASSUME NEW v \in Seq(Byte), Len(v) \in Ints(4)
    PROVE  LET b == WriteInt(Len(v)) \o v
           IN  ReadBytes([data |-> b, pos |-> 0]) = Result(v, Len(b))
<1> DEFINE h == WriteInt(Len(v))
           b == h \o v
           in == [data |-> b, pos |-> 0]
           n == ReadInt(in)
<1>0. Len(v) \in Nat
  BY LenProperties
<1>1. h \in Seq(Byte) /\ Len(h) = 4
  BY <1>0, IntSeq
<1>2. b \in Seq(Byte) /\ Len(b) = 4 + Len(v)
  <2> HIDE DEF h
  <2>1. b \in Seq(Byte) /\ Len(b) = Len(h) + Len(v)
    BY <1>1, ConcatFacts
  <2> HIDE DEF b
  <2>2. QED
    BY <1>1, <2>1
<1>3. Holds(b, 0, h) /\ Holds(b, 4, v)
  <2>1. Holds(b, 0, b)
    BY <1>2, HoldsSelf
  <2> HIDE DEF h
  <2>2. Holds(b, 0, h) /\ Holds(b, 0 + Len(h), v)
    BY <1>1, <2>1, HoldsConcat
  <2>3. 0 + Len(h) = 4
    BY <1>1
  <2>4. QED
    BY <2>2, <2>3, Zenon
<1> HIDE DEF b
<1>4. n = Result(Len(v), 4)
  <2>1. ReadBE(b, 0) = IF 0 + 4 <= Len(b) THEN Result(Len(v), 0 + 4) ELSE Thrown
    BY <1>2, <1>3, ReadIntBack
  <2>2. 0 + 4 <= Len(b) /\ 0 + 4 = 4
    BY <1>0, <1>2
  <2>3. n = ReadBE(b, 0)
    BY Zenon DEF ReadBE
  <2>4. QED
    BY <2>1, <2>2, <2>3, Zenon
<1>5. ReadRawBytes([data |-> b, pos |-> 4], Len(v)) = Result(v, 4 + Len(v))
  <2>1. ReadRawBytes([data |-> b, pos |-> 4], Len(v)) =
          IF 4 + Len(v) <= Len(b) THEN Result(v, 4 + Len(v)) ELSE Thrown
    BY <1>2, <1>3, ReadRaw
  <2>2. 4 + Len(v) <= Len(b)
    BY <1>0, <1>2
  <2>3. QED
    BY <2>1, <2>2, Zenon
<1>6. [in EXCEPT !.pos = 4] = [data |-> b, pos |-> 4]
  OBVIOUS
<1> HIDE DEF n
<1>7. n.ok /\ n.value = Len(v) /\ n.pos = 4 /\ Len(v) >= 0
  BY <1>0, <1>4, ThrownIsNone
<1>8. ReadBytes(in) = IF n.ok /\ n.value >= 0
                        THEN ReadRawBytes([in EXCEPT !.pos = n.pos], n.value) ELSE Thrown
  BY Zenon DEF ReadBytes, n
<1>9. ReadBytes(in) = Result(v, Len(b))
  <2> HIDE DEF in
  <2> QED
    BY <1>2, <1>5, <1>6, <1>7, <1>8, Zenon
<1>10. QED
  BY <1>9, Zenon DEF in, b, h

\* UTF8: a string whose length does not fit in a short is cut short.
LEMMA UTF8Decodes ==
    ASSUME NEW v \in Seq(Byte)
    PROVE  LET b == WriteShort(Len(v)) \o v
           IN  ReadUTF8([data |-> b, pos |-> 0]) = Result(v, Len(b)) <=> Len(v) < Power[2]
<1> DEFINE h == WriteShort(Len(v))
           b == h \o v
           in == [data |-> b, pos |-> 0]
           n == ReadUnsignedShort(in)
           k == Len(v) % Power[2]
<1>0. Len(v) \in Nat /\ Power[2] \in Nat \ {0}
  BY LenProperties, Powers
<1>1. h \in Seq(Byte) /\ Len(h) = 2 /\ Unsigned(h) = k
  BY <1>0, ShortSeq, ShortBytes
<1>2. b \in Seq(Byte) /\ Len(b) = 2 + Len(v)
  <2> HIDE DEF h
  <2>1. b \in Seq(Byte) /\ Len(b) = Len(h) + Len(v)
    BY <1>1, ConcatFacts
  <2> HIDE DEF b
  <2>2. QED
    BY <1>1, <2>1
<1>3. Holds(b, 0, h) /\ Holds(b, 2, v)
  <2>1. Holds(b, 0, b)
    BY <1>2, HoldsSelf
  <2> HIDE DEF h
  <2>2. Holds(b, 0, h) /\ Holds(b, 0 + Len(h), v)
    BY <1>1, <2>1, HoldsConcat
  <2>3. 0 + Len(h) = 2
    BY <1>1
  <2>4. QED
    BY <2>2, <2>3, Zenon
<1>4. k \in Nat /\ k <= Len(v) /\ k < Power[2] /\ (Len(v) < Power[2] => k = Len(v))
  <2> DEFINE p == Power[2]
             l == Len(v)
             q == l \div p
  <2>0. l \in Int /\ p \in Nat \ {0}
    BY <1>0
  <2> HIDE DEF p, l
  <2>1. k \in 0..(p - 1) /\ q \in Int /\ l = q * p + k
    <3>1. l % p \in 0..(p - 1) /\ q \in Int /\ l = q * p + (l % p)
      BY <2>0, DivMod
    <3>2. QED
      BY <3>1, Zenon DEF p, l
  <2>2. ASSUME Len(v) < Power[2] PROVE k = Len(v)
    <3>1. Len(v) = 0 * Power[2] + Len(v) /\ Len(v) \in 0..(Power[2] - 1) /\ 0 \in Int
      BY <1>0, <2>2
    <3>2. QED
      BY <1>0, <3>1, DivUnique
  <2> HIDE DEF k, q
  <2>3. k <= l
    <3>1. CASE q >= 0
      <4>1. q * p >= 0 /\ q * p \in Int
        BY <2>0, <2>1, <3>1
      <4>2. QED
        BY <2>0, <2>1, <4>1
    <3>2. CASE q <= -1
      <4>1. q * p <= -p /\ q * p \in Int
        BY <2>0, <2>1, <3>2
      <4>2. l < 0
        BY <2>0, <2>1, <4>1
      <4>3. QED
        BY <1>0, <4>2 DEF l
    <3>3. QED
      BY <2>1, <3>1, <3>2
  <2>4. k \in Nat /\ k < p
    BY <2>0, <2>1
  <2>5. QED
    BY <2>2, <2>3, <2>4 DEF l, p
<1> HIDE DEF b, h, k
<1>5. n = Result(k, 2)
  <2> DEFINE r == ReadRawBytes(in, 2)
  <2>1. r = IF 0 + Len(h) <= Len(b) THEN Result(h, 0 + Len(h)) ELSE Thrown
    BY <1>1, <1>2, <1>3, ReadRaw
  <2>2. 0 + Len(h) <= Len(b) /\ 0 + Len(h) = 2
    BY <1>0, <1>1, <1>2
  <2>3. r = Result(h, 2)
    BY <2>1, <2>2, Zenon
  <2> HIDE DEF r
  <2>4. r.ok /\ r.value = h /\ r.pos = 2
    BY <2>3, ThrownIsNone
  <2>5. n = IF r.ok THEN Result(Unsigned(r.value), r.pos) ELSE r
    BY Zenon DEF ReadUnsignedShort, r
  <2>6. QED
    BY <1>1, <2>4, <2>5, Zenon
<1>6. [in EXCEPT !.pos = 2] = [data |-> b, pos |-> 2]
  OBVIOUS
<1> HIDE DEF n
<1>7. n.ok /\ n.value = k /\ n.pos = 2
  BY <1>5, ThrownIsNone
<1>8. ReadUTF8(in) = IF n.ok THEN ReadRawBytes([in EXCEPT !.pos = n.pos], n.value) ELSE Thrown
  BY Zenon DEF ReadUTF8, n
<1>9. ReadUTF8(in) = ReadRawBytes([data |-> b, pos |-> 2], k)
  <2> HIDE DEF in
  <2> QED
    BY <1>6, <1>7, <1>8, Zenon
<1>10. CASE Len(v) < Power[2]
  <2>1. ReadRawBytes([data |-> b, pos |-> 2], Len(v)) =
          IF 2 + Len(v) <= Len(b) THEN Result(v, 2 + Len(v)) ELSE Thrown
    BY <1>2, <1>3, ReadRaw
  <2>2. 2 + Len(v) <= Len(b) /\ k = Len(v)
    BY <1>0, <1>2, <1>4, <1>10
  <2>3. ReadUTF8(in) = Result(v, Len(b))
    BY <1>2, <1>9, <2>1, <2>2, Zenon
  <2>4. QED
    BY <1>10, <2>3, Zenon DEF in, b, h
<1>11. CASE ~(Len(v) < Power[2])
  <2>1. 2 + k <= Len(b) /\ 2 + k # Len(b)
    BY <1>0, <1>2, <1>4, <1>11
  <2>2. ReadUTF8(in).pos = 2 + k
    <3>1. ReadRawBytes([data |-> b, pos |-> 2], k) = Result(SubSeq(b, 2 + 1, 2 + k), 2 + k)
      BY <2>1 DEF ReadRawBytes, CheckBounds
    <3>2. QED
      BY <1>9, <3>1, ThrownIsNone
  <2>3. ReadUTF8(in) # Result(v, Len(b))
    BY <2>1, <2>2, ThrownIsNone
  <2>4. QED
    BY <1>11, <2>3, Zenon DEF in, b, h
<1>12. QED
  BY <1>10, <1>11

\* ReadFields reads back what Write wrote exactly when the length fits.
LEMMA WritableDecodes ==
    ASSUME NEW w \in Writable, Len(Write(w)) \in Ints(4)
    PROVE  DecodesTo(Write(w), w) <=> Fits(w)
<1> DEFINE in == [data |-> Write(w), pos |-> 0]
<1>0. DecodesTo(Write(w), w) <=> ReadFields(w.type, in) = Result(w.v, Len(Write(w)))
  BY DEF DecodesTo
<1>1. CASE w.type \in {"Int", "Float"} /\ w.v \in Ints(4)
  <2>1. ReadFields(w.type, in) = ReadInt(in) /\ Write(w) = WriteInt(w.v)
    BY <1>1, ReadOf, WriteOf, Zenon
  <2>2. ReadInt([data |-> WriteInt(w.v), pos |-> 0]) = Result(w.v, Len(WriteInt(w.v)))
    BY <1>1, IntDecodes
  <2>3. w.type # "UTF8"
    BY <1>1
  <2>4. QED
    BY <1>0, <2>1, <2>2, <2>3, Zenon DEF Fits
<1>2. CASE w.type = "Long" /\ w.v \in Ints(8)
  <2>1. ReadFields(w.type, in) = ReadLong(in) /\ Write(w) = WriteLong(w.v)
    BY <1>2, ReadOf, WriteOf, Zenon
  <2>2. ReadLong([data |-> WriteLong(w.v), pos |-> 0]) = Result(w.v, Len(WriteLong(w.v)))
    BY <1>2, LongDecodes
  <2>3. w.type # "UTF8"
    BY <1>2
  <2>4. QED
    BY <1>0, <2>1, <2>2, <2>3, Zenon DEF Fits
<1>3. CASE w.type = "Bool" /\ w.v \in BOOLEAN
  <2>1. ReadFields(w.type, in) = ReadBool(in) /\ Write(w) = <<IF w.v THEN 1 ELSE 0>>
    BY <1>3, ReadOf, WriteOf, Zenon
  <2>2. ReadBool([data |-> <<IF w.v THEN 1 ELSE 0>>, pos |-> 0])
          = Result(w.v, Len(<<IF w.v THEN 1 ELSE 0>>))
    BY <1>3, BoolDecodes, Zenon
  <2>3. w.type # "UTF8"
    BY <1>3
  <2>4. QED
    BY <1>0, <2>1, <2>2, <2>3, Zenon DEF Fits
<1>4. CASE w.type = "UTF8" /\ w.v \in Seq(Byte)
  <2>1. ReadFields(w.type, in) = ReadUTF8(in) /\ Write(w) = WriteShort(Len(w.v)) \o w.v
    BY <1>4, ReadOf, WriteOf, Zenon
  <2> DEFINE b == WriteShort(Len(w.v)) \o w.v
  <2>2. ReadUTF8([data |-> b, pos |-> 0]) = Result(w.v, Len(b)) <=> Len(w.v) < Power[2]
    BY <1>4, UTF8Decodes, Zenon
  <2>3. QED
    BY <1>0, <1>4, <2>1, <2>2, Zenon DEF Fits
<1>5. CASE w.type = "Bytes" /\ w.v \in Seq(Byte)
  <2>1. ReadFields(w.type, in) = ReadBytes(in) /\ Write(w) = WriteInt(Len(w.v)) \o w.v
    BY <1>5, ReadOf, WriteOf, Zenon
  <2> DEFINE h == WriteInt(Len(w.v))
             b == h \o w.v
  <2>2. Len(w.v) \in Ints(4)
    <3>0. Power[4] \in Nat
      BY Powers
    <3>1. Len(w.v) \in Nat /\ Power[4] \in Nat
      BY <1>5, <3>0, LenProperties
    <3>2. h \in Seq(Byte) /\ Len(h) = 4
      BY <3>1, IntSeq
    <3> HIDE DEF h
    <3>3. Len(b) = Len(h) + Len(w.v)
      BY <1>5, <3>2, ConcatFacts, ZenonT(60)
    <3>4. Len(b) \in Ints(4)
      BY <2>1, Zenon DEF h
    <3> HIDE DEF b
    <3>5. QED
      BY <3>1, <3>2, <3>3, <3>4 DEF Ints
  <2>3. ReadBytes([data |-> b, pos |-> 0]) = Result(w.v, Len(b))
    BY <1>5, <2>2, BytesDecodes, Zenon
  <2>4. w.type # "UTF8"
    BY <1>5
  <2>5. QED
    BY <1>0, <2>1, <2>3, <2>4, Zenon DEF Fits
<1>6. CASE w.type = "MD5" /\ w.v \in [1..MD5Len -> Byte]
  <2>1. ReadFields(w.type, in) = ReadRawBytes(in, MD5Len) /\ Write(w) = w.v
    BY <1>6, ReadOf, WriteOf, Zenon
  <2>2. w.v \in Seq(Byte) /\ Len(w.v) = MD5Len
    BY <1>6, FunSeq, WritablesAssumption
  <2>3. ReadRawBytes([data |-> w.v, pos |-> 0], Len(w.v)) = Result(w.v, Len(w.v))
    BY <2>2, ReadSelf
  <2>4. w.type # "UTF8"
    BY <1>6
  <2>5. QED
    BY <1>0, <2>1, <2>2, <2>3, <2>4, Zenon DEF Fits
<1>7. CASE w.type = "Null" /\ w.v = <<>>
  <2>1. ReadFields(w.type, in) = Result(<<>>, in.pos) /\ Write(w) = <<>>
    BY <1>7, ReadOf, WriteOf, Zenon
  <2>2. in.pos = 0 /\ Len(<<>>) = 0 /\ w.type # "UTF8"
    BY <1>7
  <2>3. QED
    BY <1>0, <1>7, <2>1, <2>2, Zenon DEF Fits
<1>8. QED
  BY <1>1, <1>2, <1>3, <1>4, <1>5, <1>6, <1>7, WritableTypes

\* What Next returns, read by ReadFields, are the records appended, each
\* field as it was exactly when its length fits: for every record, marker,
\* interval and width of a byte.
THEOREM RecordsAlwaysRoundTrip == Spec => []RecordsRoundTrip
<1>1. SeqInv => RecordsRoundTrip
  <2> SUFFICES ASSUME SeqInv PROVE RecordsRoundTrip
    OBVIOUS
  <2>1. /\ Len(got) <= Len(appended) /\ DOMAIN got = 1..Len(got)
        /\ Len(got) \in Nat /\ Len(appended) \in Nat /\ appended \in Seq(Records)
        /\ \A i \in 1..Len(got) : got[i] = <<Write(appended[i].key), Write(appended[i].value)>>
    BY LenProperties DEF SeqInv, SeqTypes, AtBoundary
  <2>2. ASSUME NEW i \in DOMAIN got
        PROVE  /\ DecodesTo(got[i][1], appended[i].key) <=> Fits(appended[i].key)
               /\ DecodesTo(got[i][2], appended[i].value) <=> Fits(appended[i].value)
    <3> DEFINE r == appended[i]
               k == Write(r.key)
               v == Write(r.value)
    <3>1. r \in Records
      <4>1. i \in 1..Len(appended)
        BY <2>1
      <4>2. QED
        BY <2>1, <4>1, ElementOfSeq
    <3>2. got[i][1] = k /\ got[i][2] = v
      BY <2>1
    <3>3. /\ r.key \in Writable /\ r.value \in Writable /\ Len(k) + Len(v) \in Ints(4)
          /\ k \in Seq(Byte) /\ v \in Seq(Byte)
      BY <3>1, RecordSeq
    <3>4. Len(k) \in Ints(4) /\ Len(v) \in Ints(4)
      <4>1. Len(k) \in Nat /\ Len(v) \in Nat /\ Power[4] \in Nat
        BY <3>3, LenProperties, Powers
      <4> HIDE DEF k, v
      <4>2. QED
        BY <3>3, <4>1 DEF Ints
    <3>5. (DecodesTo(k, r.key) <=> Fits(r.key)) /\ (DecodesTo(v, r.value) <=> Fits(r.value))
      BY <3>3, <3>4, WritableDecodes
    <3>6. QED
      BY <3>2, <3>5, Zenon
  <2>3. QED
    BY <2>1, <2>2, Zenon DEF RecordsRoundTrip
<1>2. QED
  BY <1>1, SeqInductive, PTL

-----------------------------------------------------------------------------
(***************************************************************************)
(* CompareTo orders the keys.                                              *)
(***************************************************************************)

Differ(s, t) == {i \in DOMAIN s \intersect DOMAIN t : s[i] # t[i]}

\* memcmp at the first difference, and without one.
LEMMA CompareAt ==
    ASSUME NEW s \in Seq(Byte), NEW t \in Seq(Byte)
    PROVE  /\ \A i \in Differ(s, t) : (\A k \in 1..(i - 1) : s[k] = t[k])
                                        => CompareBytes(s, t) = s[i] - t[i]
           /\ Differ(s, t) # {} =>
                \E i \in Differ(s, t) : \A k \in 1..(i - 1) : s[k] = t[k]
           /\ Differ(s, t) = {} => CompareBytes(s, t) = Len(s) - Len(t)
           /\ \A i : i \in Differ(s, t) <=>
                       i \in 1..Len(s) /\ i \in 1..Len(t) /\ s[i] # t[i]
           /\ Len(s) \in Nat /\ Len(t) \in Nat
           /\ \A i \in 1..Len(s) : s[i] \in Int
           /\ \A i \in 1..Len(t) : t[i] \in Int
<1> DEFINE D == Differ(s, t)
<1>0. /\ Len(s) \in Nat /\ Len(t) \in Nat /\ DOMAIN s = 1..Len(s) /\ DOMAIN t = 1..Len(t)
      /\ \A i \in 1..Len(s) : s[i] \in Int
      /\ \A i \in 1..Len(t) : t[i] \in Int
  <2>1. ByteBase \in Nat
    BY WritablesAssumption
  <2>2. \A b \in Byte : b \in Int
    BY <2>1 DEF Byte
  <2>3. QED
    BY <2>2, LenProperties, ElementOfSeq
<1>1. \A i : i \in D <=> i \in 1..Len(s) /\ i \in 1..Len(t) /\ s[i] # t[i]
  BY <1>0 DEF Differ
<1>2. D \subseteq Nat
  BY <1>0 DEF Differ
<1>3. CompareBytes(s, t) = IF D = {} THEN Len(s) - Len(t) ELSE s[Min(D)] - t[Min(D)]
  BY Zenon DEF CompareBytes, Differ
<1> HIDE DEF D
<1>4. ASSUME NEW i \in D, \A k \in 1..(i - 1) : s[k] = t[k]
      PROVE  CompareBytes(s, t) = s[i] - t[i]
  <2>1. \A j \in D : i <= j
    <3>1. ASSUME NEW j \in D, ~(i <= j) PROVE FALSE
      <4>1. j \in 1..(i - 1)
        BY <1>0, <1>1, <1>2, <3>1
      <4>2. QED
        BY <1>1, <1>4, <4>1
    <3>2. QED
      BY <3>1
  <2>2. Min(D) = i
    <3>1. \A x \in D : (\A y \in D : x <= y) <=> x = i
      BY <1>2, <2>1
    <3>2. QED
      BY <3>1 DEF Min
  <2>3. QED
    BY <1>3, <2>2, Zenon
<1>5. ASSUME D # {} PROVE \E i \in D : \A k \in 1..(i - 1) : s[k] = t[k]
  <2>1. PICK i \in D : \A y \in D : i <= y
    BY <1>2, <1>5, LeastOf
  <2>2. ASSUME NEW k \in 1..(i - 1) PROVE s[k] = t[k]
    <3>1. k \in 1..Len(s) /\ k \in 1..Len(t) /\ ~(i <= k)
      BY <1>0, <1>1, <1>2, <2>1
    <3>2. k \notin D
      BY <2>1, <3>1
    <3>3. QED
      BY <1>1, <3>1, <3>2
  <2>3. QED
    BY <2>1, <2>2
<1>6. D = {} => CompareBytes(s, t) = Len(s) - Len(t)
  BY <1>3
<1>7. QED
  BY <1>0, <1>1, <1>4, <1>5, <1>6 DEF D

\* string::compare is antisymmetric, and zero for equal strings only.
LEMMA CompareAnti ==
    ASSUME NEW s \in Seq(Byte), NEW t \in Seq(Byte)
    PROVE  /\ CompareBytes(s, t) \in Int /\ CompareBytes(t, s) = - CompareBytes(s, t)
           /\ CompareBytes(s, t) = 0 <=> s = t
<1>1. CASE Differ(s, t) = {}
  <2>1. Differ(t, s) = {}
    BY <1>1 DEF Differ
  <2>2. CompareBytes(s, t) = Len(s) - Len(t) /\ CompareBytes(t, s) = Len(t) - Len(s)
    BY <1>1, <2>1, CompareAt
  <2>3. Len(s) \in Nat /\ Len(t) \in Nat
    BY CompareAt
  <2>4. ASSUME Len(s) = Len(t) PROVE s = t
    <3>1. \A i \in 1..Len(s) : s[i] = t[i]
      BY <1>1, <2>4, CompareAt
    <3>2. QED
      BY <2>4, <3>1, SeqEqual
  <2>5. QED
    BY <2>2, <2>3, <2>4
<1>2. CASE Differ(s, t) # {}
  <2>1. PICK i \in Differ(s, t) : \A k \in 1..(i - 1) : s[k] = t[k]
    BY <1>2, CompareAt
  <2>2. i \in Differ(t, s) /\ \A k \in 1..(i - 1) : t[k] = s[k]
    BY <2>1 DEF Differ
  <2>3. CompareBytes(s, t) = s[i] - t[i] /\ CompareBytes(t, s) = t[i] - s[i]
    BY <2>1, <2>2, CompareAt
  <2>4. s[i] \in Int /\ t[i] \in Int /\ s[i] # t[i]
    BY <2>1, CompareAt
  <2>5. QED
    BY <2>3, <2>4
<1>3. QED
  BY <1>1, <1>2

\* string::compare is transitive.
LEMMA CompareTrans ==
    ASSUME NEW s \in Seq(Byte), NEW t \in Seq(Byte), NEW u \in Seq(Byte),
           CompareBytes(s, t) <= 0, CompareBytes(t, u) <= 0
    PROVE  CompareBytes(s, u) <= 0
<1>0. /\ Len(s) \in Nat /\ Len(t) \in Nat /\ Len(u) \in Nat
      /\ \A i \in 1..Len(s) : s[i] \in Int
      /\ \A i \in 1..Len(t) : t[i] \in Int
      /\ \A i \in 1..Len(u) : u[i] \in Int
  BY CompareAt
<1>1. /\ \A i : i \in Differ(s, t) <=> i \in 1..Len(s) /\ i \in 1..Len(t) /\ s[i] # t[i]
      /\ \A i : i \in Differ(t, u) <=> i \in 1..Len(t) /\ i \in 1..Len(u) /\ t[i] # u[i]
      /\ \A i : i \in Differ(s, u) <=> i \in 1..Len(s) /\ i \in 1..Len(u) /\ s[i] # u[i]
  BY CompareAt
<1>2. ASSUME NEW i \in 1..Len(s), i \in 1..Len(u), s[i] < u[i],
             \A k \in 1..(i - 1) : s[k] = u[k]
      PROVE  CompareBytes(s, u) <= 0
  <2>1. i \in Differ(s, u)
    BY <1>0, <1>1, <1>2
  <2>2. CompareBytes(s, u) = s[i] - u[i]
    BY <1>2, <2>1, CompareAt
  <2>3. QED
    BY <1>0, <1>2, <2>2
<1>3. ASSUME \A k \in 1..Len(s) : s[k] = u[k], Len(s) <= Len(u)
      PROVE  CompareBytes(s, u) <= 0
  <2>1. Differ(s, u) = {}
    BY <1>1, <1>3
  <2>2. CompareBytes(s, u) = Len(s) - Len(u)
    BY <2>1, CompareAt
  <2>3. QED
    BY <1>0, <1>3, <2>2
<1>4. CASE Differ(s, t) = {}
  <2>1. Len(s) <= Len(t)
    <3>1. CompareBytes(s, t) = Len(s) - Len(t)
      BY <1>4, CompareAt
    <3>2. QED
      BY <1>0, <3>1
  <2>2. \A k \in 1..Len(s) : k \in 1..Len(t) /\ s[k] = t[k]
    BY <1>0, <1>1, <1>4, <2>1
  <2>3. CASE Differ(t, u) = {}
    <3>1. CompareBytes(t, u) = Len(t) - Len(u)
      BY <2>3, CompareAt
    <3>2. Len(t) <= Len(u)
      BY <1>0, <3>1
    <3>3. \A k \in 1..Len(s) : s[k] = u[k]
      BY <1>0, <1>1, <2>2, <2>3, <3>2
    <3>4. Len(s) <= Len(u)
      BY <1>0, <2>1, <3>2
    <3>5. QED
      BY <1>3, <3>3, <3>4
  <2>4. CASE Differ(t, u) # {}
    <3>1. PICK j \in Differ(t, u) : \A k \in 1..(j - 1) : t[k] = u[k]
      BY <2>4, CompareAt
    <3>2. t[j] < u[j] /\ j \in 1..Len(t) /\ j \in 1..Len(u)
      <4>1. CompareBytes(t, u) = t[j] - u[j]
        BY <3>1, CompareAt
      <4>2. QED
        BY <1>0, <1>1, <3>1, <4>1
    <3>3. CASE j <= Len(s)
      <4>1. j \in 1..Len(s)
        BY <1>0, <3>2, <3>3
      <4>2. s[j] < u[j]
        BY <2>2, <3>2, <4>1
      <4>3. \A k \in 1..(j - 1) : s[k] = u[k]
        BY <1>0, <2>2, <3>1, <4>1
      <4>4. QED
        BY <1>2, <3>2, <4>1, <4>2, <4>3
    <3>4. CASE Len(s) < j
      <4>1. Len(s) <= Len(u)
        BY <1>0, <3>2, <3>4
      <4>2. \A k \in 1..Len(s) : k \in 1..(j - 1)
        BY <1>0, <3>2, <3>4
      <4>3. \A k \in 1..Len(s) : s[k] = u[k]
        BY <2>2, <3>1, <4>2
      <4>4. QED
        BY <1>3, <4>1, <4>3
    <3>5. QED
      BY <1>0, <3>2, <3>3, <3>4
  <2>5. QED
    BY <2>3, <2>4
<1>5. CASE Differ(s, t) # {}
  <2>1. PICK i \in Differ(s, t) : \A k \in 1..(i - 1) : s[k] = t[k]
    BY <1>5, CompareAt
  <2>2. s[i] < t[i] /\ i \in 1..Len(s) /\ i \in 1..Len(t)
    <3>1. CompareBytes(s, t) = s[i] - t[i]
      BY <2>1, CompareAt
    <3>2. QED
      BY <1>0, <1>1, <2>1, <3>1
  <2>3. CASE Differ(t, u) = {}
    <3>1. CompareBytes(t, u) = Len(t) - Len(u)
      BY <2>3, CompareAt
    <3>2. Len(t) <= Len(u)
      BY <1>0, <3>1
    <3>3. \A k \in 1..Len(t) : k \in 1..Len(u) /\ t[k] = u[k]
      BY <1>0, <1>1, <2>3, <3>2
    <3>4. i \in 1..Len(u) /\ s[i] < u[i]
      BY <2>2, <3>3
    <3>5. \A k \in 1..(i - 1) : k \in 1..Len(t)
      BY <1>0, <2>2
    <3>6. \A k \in 1..(i - 1) : s[k] = u[k]
      BY <2>1, <3>3, <3>5
    <3>7. QED
      BY <1>2, <2>2, <3>4, <3>6
  <2>4. CASE Differ(t, u) # {}
    <3>1. PICK j \in Differ(t, u) : \A k \in 1..(j - 1) : t[k] = u[k]
      BY <2>4, CompareAt
    <3>2. t[j] < u[j] /\ j \in 1..Len(t) /\ j \in 1..Len(u)
      <4>1. CompareBytes(t, u) = t[j] - u[j]
        BY <3>1, CompareAt
      <4>2. QED
        BY <1>0, <1>1, <3>1, <4>1
    <3>3. CASE i < j
      <4>1. i \in 1..(j - 1) /\ i \in 1..Len(u) /\ \A k \in 1..(i - 1) : k \in 1..(j - 1)
        BY <1>0, <2>2, <3>2, <3>3
      <4>2. s[i] < u[i] /\ \A k \in 1..(i - 1) : s[k] = u[k]
        BY <2>1, <2>2, <3>1, <4>1
      <4>3. QED
        BY <1>2, <2>2, <4>1, <4>2
    <3>4. CASE j < i
      <4>1. j \in 1..(i - 1) /\ j \in 1..Len(s) /\ \A k \in 1..(j - 1) : k \in 1..(i - 1)
        BY <1>0, <2>2, <3>2, <3>4
      <4>2. s[j] < u[j] /\ \A k \in 1..(j - 1) : s[k] = u[k]
        BY <2>1, <3>1, <3>2, <4>1
      <4>3. QED
        BY <1>2, <3>2, <4>1, <4>2
    <3>5. CASE i = j
      <4>1. s[i] < u[i]
        <5>1. s[i] \in Int /\ t[i] \in Int /\ u[i] \in Int
          BY <1>0, <2>2, <3>2, <3>5
        <5>2. QED
          BY <2>2, <3>2, <3>5, <5>1
      <4>2. \A k \in 1..(i - 1) : s[k] = u[k]
        BY <2>1, <3>1, <3>5
      <4>3. QED
        BY <1>2, <2>2, <3>2, <3>5, <4>1, <4>2
    <3>6. QED
      BY <1>0, <2>2, <3>2, <3>3, <3>4, <3>5
  <2>5. QED
    BY <2>3, <2>4
<1>6. QED
  BY <1>4, <1>5

\* What CompareTo does for each type.
LEMMA CompareOf ==
    ASSUME NEW a, NEW b
    PROVE  /\ a.type = "Int" => CompareTo(a, b) = CompareInt(a.v, b.v)
           /\ a.type = "Long" => CompareTo(a, b) = CompareLong(a.v, b.v)
           /\ a.type = "Bool" =>
                CompareTo(a, b) = (IF a.v THEN 1 ELSE 0) - (IF b.v THEN 1 ELSE 0)
           /\ a.type \in {"UTF8", "MD5"} => CompareTo(a, b) = CompareBytes(a.v, b.v)
           /\ a.type = "Null" => CompareTo(a, b) = 0
BY DEF CompareTo

\* The fields of the types that have an order.
LEMMA KeyTypes ==
    ASSUME NEW w \in Writable, w.type \notin {"Bytes", "Float"}
    PROVE  \/ w.type = "Int" /\ w.v \in Ints(4) /\ w.v \in Int
           \/ w.type = "Long" /\ w.v \in Ints(8) /\ w.v \in Int
           \/ w.type = "Bool" /\ w.v \in BOOLEAN
           \/ w.type \in {"UTF8", "MD5"} /\ w.v \in Seq(Byte)
           \/ w.type = "Null" /\ w.v = <<>>
<1>1. 4 \in 0..8 /\ 8 \in 0..8
  OBVIOUS
<1>2. (\A v \in Ints(4) : v \in Int) /\ (\A v \in Ints(8) : v \in Int)
  BY <1>1, SignedMod
<1>3. \A v \in [1..MD5Len -> Byte] : v \in Seq(Byte)
  BY FunSeq, WritablesAssumption
<1>4. QED
  BY <1>2, <1>3, WritableTypes

\* After prefixes of one length, equal bytes are equal tails.
LEMMA ConcatTails ==
    ASSUME NEW h \in Seq(Byte), NEW g \in Seq(Byte), NEW s \in Seq(Byte), NEW t \in Seq(Byte),
           Len(h) = Len(g), h \o s = g \o t
    PROVE  s = t
<1>1. PICK z \in Seq(Byte) : z = h \o s
  BY ConcatFacts
<1>2. Len(z) = Len(h) + Len(s) /\ Len(h) \in Nat /\ Len(s) \in Nat
  BY <1>1, ConcatFacts
<1>3. Len(z) = Len(g) + Len(t) /\ Len(t) \in Nat
  <2>1. Len(g \o t) = Len(g) + Len(t) /\ Len(t) \in Nat
    BY ConcatFacts
  <2>2. QED
    BY <1>1, <2>1, Zenon
<1>4. Len(s) = Len(t)
  BY <1>2, <1>3
<1>5. Holds(z, 0, z)
  BY HoldsSelf
<1>6. Holds(z, 0 + Len(h), s)
  <2>1. Holds(z, 0, h \o s)
    BY <1>1, <1>5, Zenon
  <2>2. QED
    BY <2>1, HoldsConcat
<1>7. Holds(z, 0 + Len(g), t)
  <2>1. Holds(z, 0, g \o t)
    BY <1>1, <1>5, Zenon
  <2>2. QED
    BY <2>1, HoldsConcat
<1>8. \A j \in 1..Len(s) : s[j] = t[j]
  <2>1. ASSUME NEW j \in 1..Len(s) PROVE s[j] = t[j]
    <3>1. (0 + Len(h)) + j <= Len(z) /\ j \in 1..Len(t)
      BY <1>2, <1>4
    <3>2. z[(0 + Len(h)) + j] = s[j]
      BY <1>6, <3>1, Zenon DEF Holds
    <3>3. z[(0 + Len(g)) + j] = t[j]
      BY <1>7, <3>1, Zenon DEF Holds
    <3>4. QED
      BY <3>2, <3>3, Zenon
  <2>2. QED
    BY <2>1
<1>9. QED
  BY <1>4, <1>8, SeqEqual

\* Two values of one type are written as the same bytes only if they are equal.
LEMMA WriteInjective ==
    ASSUME NEW a \in Writable, NEW b \in Writable, a.type = b.type,
           a.type \notin {"Bytes", "Float"}, Write(a) = Write(b)
    PROVE  a.v = b.v
<1>0. b.type \notin {"Bytes", "Float"}
  OBVIOUS
<1>1. CASE a.type = "Int"
  <2>1. a.v \in Ints(4) /\ b.v \in Ints(4)
    BY <1>1, <1>0, KeyTypes
  <2>2. WriteInt(a.v) = WriteInt(b.v)
    BY <1>1, WriteOf
  <2>3. /\ ReadInt([data |-> WriteInt(a.v), pos |-> 0]) = Result(a.v, Len(WriteInt(a.v)))
        /\ ReadInt([data |-> WriteInt(b.v), pos |-> 0]) = Result(b.v, Len(WriteInt(b.v)))
    BY <2>1, IntDecodes
  <2>4. Result(a.v, Len(WriteInt(a.v))) = Result(b.v, Len(WriteInt(b.v)))
    BY <2>2, <2>3, Zenon
  <2>5. QED
    BY <2>4, ThrownIsNone
<1>2. CASE a.type = "Long"
  <2>1. a.v \in Ints(8) /\ b.v \in Ints(8)
    BY <1>2, <1>0, KeyTypes
  <2>2. WriteLong(a.v) = WriteLong(b.v)
    BY <1>2, WriteOf
  <2>3. /\ ReadLong([data |-> WriteLong(a.v), pos |-> 0]) = Result(a.v, Len(WriteLong(a.v)))
        /\ ReadLong([data |-> WriteLong(b.v), pos |-> 0]) = Result(b.v, Len(WriteLong(b.v)))
    BY <2>1, LongDecodes
  <2>4. Result(a.v, Len(WriteLong(a.v))) = Result(b.v, Len(WriteLong(b.v)))
    BY <2>2, <2>3, Zenon
  <2>5. QED
    BY <2>4, ThrownIsNone
<1>3. CASE a.type = "Bool"
  <2>1. a.v \in BOOLEAN /\ b.v \in BOOLEAN
    BY <1>3, <1>0, KeyTypes
  <2>2. <<IF a.v THEN 1 ELSE 0>> = <<IF b.v THEN 1 ELSE 0>>
    BY <1>3, WriteOf, Zenon
  <2>3. (IF a.v THEN 1 ELSE 0) = (IF b.v THEN 1 ELSE 0)
    BY <2>2
  <2>4. a.v <=> b.v
    BY <2>3
  <2>5. QED
    BY <2>1, <2>4, Zenon
<1>4. CASE a.type = "UTF8"
  <2> DEFINE s == a.v
             t == b.v
             h == WriteShort(Len(s))
             g == WriteShort(Len(t))
  <2>1. s \in Seq(Byte) /\ t \in Seq(Byte)
    BY <1>4, <1>0, KeyTypes
  <2>2. h \o s = g \o t
    BY <1>4, WriteOf, Zenon
  <2>3. Len(s) \in Nat /\ Len(t) \in Nat
    BY <2>1, LenProperties
  <2>4. h \in Seq(Byte) /\ Len(h) = 2 /\ g \in Seq(Byte) /\ Len(g) = 2
    BY <2>3, ShortSeq
  <2> HIDE DEF h, g, s, t
  <2>5. s = t
    BY <2>1, <2>2, <2>4, ConcatTails
  <2>6. QED
    BY <2>5 DEF s, t
<1>5. CASE a.type = "MD5"
  BY <1>5, WriteOf, Zenon
<1>6. CASE a.type = "Null"
  BY <1>0, <1>6, KeyTypes
<1>7. QED
  BY <1>1, <1>2, <1>3, <1>4, <1>5, <1>6, KeyTypes

\* IntWritable's subtraction is the difference when that is an int.
LEMMA CompareIntIs ==
    ASSUME NEW x \in Int, NEW y \in Int, x - y \in Ints(4)
    PROVE  CompareInt(x, y) = x - y
<1>1. 4 \in 0..8
  OBVIOUS
<1>2. Signed((x - y) % Power[4], 4) = x - y
  BY <1>1, SignedMod
<1>3. QED
  BY <1>2, Zenon DEF CompareInt

\* CompareTo, type by type: a number that orders the fields.
LEMMA CompareKeys ==
    ASSUME NEW a \in Writable, NEW b \in Writable, Comparable(a, b)
    PROVE  /\ CompareTo(a, b) \in Int
           /\ Sign(CompareTo(a, b)) = - Sign(CompareTo(b, a))
           /\ CompareTo(a, b) = 0 <=> a.v = b.v
<1>0. a.type = b.type /\ a.type \notin {"Bytes", "Float"} /\ b.type \notin {"Bytes", "Float"}
  BY DEF Comparable
<1>1. CASE a.type = "Int"
  <2>1. a.v \in Int /\ b.v \in Int
    BY <1>0, <1>1, KeyTypes
  <2>2. a.v - b.v \in Ints(4) /\ b.v - a.v \in Ints(4)
    BY <1>1 DEF Comparable
  <2>3. CompareTo(a, b) = a.v - b.v /\ CompareTo(b, a) = b.v - a.v
    <3>1. CompareInt(a.v, b.v) = a.v - b.v /\ CompareInt(b.v, a.v) = b.v - a.v
      BY <2>1, <2>2, CompareIntIs
    <3>2. QED
      BY <1>0, <1>1, <3>1, CompareOf, Zenon
  <2>4. QED
    BY <2>1, <2>3 DEF Sign
<1>2. CASE a.type = "Long"
  <2>1. a.v \in Int /\ b.v \in Int
    BY <1>0, <1>2, KeyTypes
  <2>2. CompareTo(a, b) = CompareLong(a.v, b.v) /\ CompareTo(b, a) = CompareLong(b.v, a.v)
    BY <1>0, <1>2, CompareOf
  <2>3. QED
    BY <2>1, <2>2 DEF Sign, CompareLong
<1>3. CASE a.type = "Bool"
  <2> DEFINE x == IF a.v THEN 1 ELSE 0
             y == IF b.v THEN 1 ELSE 0
  <2>1. a.v \in BOOLEAN /\ b.v \in BOOLEAN
    BY <1>0, <1>3, KeyTypes
  <2>2. CompareTo(a, b) = x - y /\ CompareTo(b, a) = y - x
    BY <1>0, <1>3, CompareOf, Zenon
  <2>3. x \in {0, 1} /\ y \in {0, 1} /\ (x = y <=> (a.v <=> b.v))
    OBVIOUS
  <2>4. (a.v <=> b.v) <=> (a.v = b.v)
    BY <2>1, Zenon
  <2> HIDE DEF x, y
  <2>5. /\ CompareTo(a, b) \in Int
        /\ Sign(CompareTo(a, b)) = - Sign(CompareTo(b, a))
        /\ CompareTo(a, b) = 0 <=> x = y
    BY <2>2, <2>3 DEF Sign
  <2>6. QED
    BY <2>3, <2>4, <2>5, Zenon
<1>4. CASE a.type \in {"UTF8", "MD5"}
  <2>1. a.v \in Seq(Byte) /\ b.v \in Seq(Byte)
    BY <1>0, <1>4, KeyTypes
  <2>2. CompareTo(a, b) = CompareBytes(a.v, b.v) /\ CompareTo(b, a) = CompareBytes(b.v, a.v)
    BY <1>0, <1>4, CompareOf, Zenon
  <2>3. /\ CompareTo(a, b) \in Int /\ CompareTo(b, a) = - CompareTo(a, b)
        /\ CompareTo(a, b) = 0 <=> a.v = b.v
    BY <2>1, <2>2, CompareAnti
  <2>4. Sign(CompareTo(a, b)) = - Sign(CompareTo(b, a))
    BY <2>3 DEF Sign
  <2>5. QED
    BY <2>3, <2>4
<1>5. CASE a.type = "Null"
  <2>1. CompareTo(a, b) = 0 /\ CompareTo(b, a) = 0 /\ a.v = <<>> /\ b.v = <<>>
    BY <1>0, <1>5, CompareOf, KeyTypes
  <2>2. Sign(0) = - Sign(0)
    <3>1. Sign(0) = 0
      <4>1. ~(0 < 0)
        OBVIOUS
      <4>2. QED
        BY <4>1, Zenon DEF Sign
    <3>2. QED
      BY <3>1
  <2>3. QED
    BY <2>1, <2>2
<1>6. QED
  BY <1>0, <1>1, <1>2, <1>3, <1>4, <1>5, KeyTypes

\* CompareTo is transitive.
LEMMA CompareKeysTrans ==
    ASSUME NEW a \in Writable, NEW b \in Writable, NEW c \in Writable,
           Comparable(a, b), Comparable(b, c), Comparable(a, c),
           CompareTo(a, b) <= 0, CompareTo(b, c) <= 0
    PROVE  CompareTo(a, c) <= 0
<1>0. /\ a.type = b.type /\ b.type = c.type /\ a.type \notin {"Bytes", "Float"}
      /\ b.type \notin {"Bytes", "Float"} /\ c.type \notin {"Bytes", "Float"}
  BY DEF Comparable
<1>1. CASE a.type = "Int"
  <2>1. a.v \in Int /\ b.v \in Int /\ c.v \in Int
    BY <1>0, <1>1, KeyTypes
  <2>2. a.v - b.v \in Ints(4) /\ b.v - c.v \in Ints(4) /\ a.v - c.v \in Ints(4)
    BY <1>0, <1>1 DEF Comparable
  <2>3. CompareTo(a, b) = a.v - b.v /\ CompareTo(b, c) = b.v - c.v
        /\ CompareTo(a, c) = a.v - c.v
    <3>1. CompareInt(a.v, b.v) = a.v - b.v /\ CompareInt(b.v, c.v) = b.v - c.v
          /\ CompareInt(a.v, c.v) = a.v - c.v
      BY <2>1, <2>2, CompareIntIs
    <3>2. QED
      BY <1>0, <1>1, <3>1, CompareOf, Zenon
  <2>4. QED
    BY <2>1, <2>3
<1>2. CASE a.type = "Long"
  <2>1. a.v \in Int /\ b.v \in Int /\ c.v \in Int
    BY <1>0, <1>2, KeyTypes
  <2>2. CompareTo(a, b) = CompareLong(a.v, b.v) /\ CompareTo(b, c) = CompareLong(b.v, c.v)
        /\ CompareTo(a, c) = CompareLong(a.v, c.v)
    BY <1>0, <1>2, CompareOf
  <2>3. QED
    BY <2>1, <2>2 DEF CompareLong
<1>3. CASE a.type = "Bool"
  <2> DEFINE x == IF a.v THEN 1 ELSE 0
             y == IF b.v THEN 1 ELSE 0
             z == IF c.v THEN 1 ELSE 0
  <2>1. CompareTo(a, b) = x - y /\ CompareTo(b, c) = y - z /\ CompareTo(a, c) = x - z
    BY <1>0, <1>3, CompareOf, Zenon
  <2>2. x \in Int /\ y \in Int /\ z \in Int
    OBVIOUS
  <2> HIDE DEF x, y, z
  <2>3. QED
    BY <2>1, <2>2
<1>4. CASE a.type \in {"UTF8", "MD5"}
  <2>1. a.v \in Seq(Byte) /\ b.v \in Seq(Byte) /\ c.v \in Seq(Byte)
    BY <1>0, <1>4, KeyTypes
  <2>2. CompareTo(a, b) = CompareBytes(a.v, b.v) /\ CompareTo(b, c) = CompareBytes(b.v, c.v)
        /\ CompareTo(a, c) = CompareBytes(a.v, c.v)
    BY <1>0, <1>4, CompareOf, Zenon
  <2>3. QED
    BY <2>1, <2>2, CompareTrans
<1>5. CASE a.type = "Null"
  <2>1. CompareTo(a, c) = 0
    BY <1>5, CompareOf
  <2>2. QED
    BY <2>1
<1>6. QED
  BY <1>0, <1>1, <1>2, <1>3, <1>4, <1>5, KeyTypes

\* CompareTo orders the keys of a type totally, and its equality is that of
\* the bytes: for all keys of the ordered types, the ints whose differences
\* overflow apart.
THEOREM KeysAlwaysOrdered == Spec => []KeysOrdered
<1>1. SeqInv => KeysOrdered
  <2> SUFFICES ASSUME SeqInv PROVE KeysOrdered
    OBVIOUS
  <2> DEFINE keys == {appended[i].key : i \in DOMAIN appended}
             peers(a) == {b \in keys : Comparable(a, b)}
  <2>1. \A k \in keys : k \in Writable
    <3>1. \A i \in DOMAIN appended : appended[i] \in Records
      BY ElementOfSeq, LenProperties DEF SeqInv, SeqTypes
    <3>2. QED
      BY <3>1, RecordSeq
  <2>2. ASSUME NEW a \in keys, NEW b \in peers(a)
        PROVE  /\ Sign(CompareTo(a, b)) = - Sign(CompareTo(b, a))
               /\ CompareTo(a, b) = 0 <=> Write(a) = Write(b)
               /\ CompareTo(a, b) <= 0 =>
                    \A c \in peers(a) \intersect peers(b) :
                      CompareTo(b, c) <= 0 => CompareTo(a, c) <= 0
    <3>1. a \in Writable /\ b \in Writable /\ Comparable(a, b)
      BY <2>1
    <3>2. Sign(CompareTo(a, b)) = - Sign(CompareTo(b, a)) /\ (CompareTo(a, b) = 0 <=> a.v = b.v)
      BY <3>1, CompareKeys
    <3>3. a.v = b.v <=> Write(a) = Write(b)
      <4>1. a.type = b.type /\ a.type \notin {"Bytes", "Float"}
        BY <3>1 DEF Comparable
      <4>2. a = [type |-> a.type, v |-> a.v] /\ b = [type |-> b.type, v |-> b.v]
        BY <3>1, WritableTypes
      <4>3. a.v = b.v => a = b
        BY <4>1, <4>2
      <4>4. QED
        BY <3>1, <4>1, <4>3, WriteInjective
    <3>4. ASSUME CompareTo(a, b) <= 0, NEW c \in peers(a) \intersect peers(b),
                 CompareTo(b, c) <= 0
          PROVE  CompareTo(a, c) <= 0
      <4>1. c \in Writable /\ Comparable(a, c) /\ Comparable(b, c)
        BY <2>1
      <4>2. QED
        BY <3>1, <3>4, <4>1, CompareKeysTrans
    <3> HIDE DEF keys, peers
    <3>5. QED
      BY <3>2, <3>3, <3>4
  <2>3. QED
    BY <2>2, Zenon DEF KeysOrdered
<1>2. QED
  BY <1>1, SeqInductive, PTL
=============================================================================
