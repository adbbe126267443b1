---------------------------- MODULE CrcCheckProofs -----------------------------
(***************************************************************************)
(* Proofs about CrcCheck, for telegrams of every length: that the register *)
(* of calculate_crc16 is the remainder of a division of polynomials, which *)
(* changes of the body it shows, and what to_crc reads of the four digits. *)
(***************************************************************************)
EXTENDS CrcCheck, SequenceTheorems, FiniteSetTheorems, WellFoundedInduction, TLAPS

LEMMA XorWord ==
    ASSUME NEW x \in Word, NEW y \in Word
    PROVE  Xor(x, y) \in Word
  BY DEF Word, Xor

LEMMA XorInjective ==
    ASSUME NEW x \in Word, NEW y \in Word, NEW z \in Word
    PROVE  Xor(x, z) = Xor(y, z) => x = y
<1> SUFFICES ASSUME Xor(x, z) = Xor(y, z) PROVE x = y
  OBVIOUS
<1>1. \A i \in 0..15 : i \in x <=> i \in y
  <2> TAKE i \in 0..15
  <2>1. i \in Xor(x, z) <=> i \in Xor(y, z)
    OBVIOUS
  <2> QED
    BY <2>1 DEF Xor
<1> QED
  BY <1>1 DEF Word

\* The top bit of a turn's result is the low bit of its argument.
LEMMA BitStepTop ==
    ASSUME NEW x \in Word
    PROVE  15 \in BitStep(x) <=> 0 \in x
<1>1. 15 \notin ShiftRight(x) /\ 15 \in Polynomial
  BY DEF ShiftRight, Polynomial
<1>2. 15 \in Xor(ShiftRight(x), Polynomial)
  BY <1>1 DEF Xor
<1> QED
  BY <1>1, <1>2, Zenon DEF BitStep

\* One turn of the inner loop loses no information.
LEMMA BitStepInjective ==
    ASSUME NEW x \in Word, NEW y \in Word
    PROVE  /\ BitStep(x) \in Word
           /\ BitStep(x) = BitStep(y) => x = y
<1>1. /\ ShiftRight(x) \in Word /\ ShiftRight(y) \in Word /\ Polynomial \in Word
      /\ 15 \notin ShiftRight(x) /\ 15 \notin ShiftRight(y) /\ 15 \in Polynomial
  BY DEF ShiftRight, Polynomial, Word
<1>2. BitStep(x) \in Word
  BY <1>1, XorWord DEF BitStep
<1>3. ASSUME BitStep(x) = BitStep(y) PROVE x = y
  <2>1. (15 \in BitStep(x) <=> 0 \in x) /\ (15 \in BitStep(y) <=> 0 \in y)
    BY BitStepTop
  <2>2. 0 \in x <=> 0 \in y
    BY <1>3, <2>1
  <2>3. ShiftRight(x) = ShiftRight(y)
    <3>1. CASE 0 \in x
      BY <1>1, <1>3, <2>2, <3>1, XorInjective DEF BitStep
    <3>2. CASE 0 \notin x
      BY <1>3, <2>2, <3>2 DEF BitStep
    <3> QED
      BY <3>1, <3>2
  <2>4. \A i \in 1..15 : i \in x <=> i \in y
    <3> TAKE i \in 1..15
    <3>1. i - 1 \in ShiftRight(x) <=> i - 1 \in ShiftRight(y)
      BY <2>3
    <3>2. i - 1 \in 0..14 /\ (i - 1) + 1 = i
      OBVIOUS
    <3> QED
      BY <3>1, <3>2 DEF ShiftRight
  <2>5. \A i \in 0..15 : i \in x <=> i \in y
    BY <2>2, <2>4
  <2> QED
    BY <2>5 DEF Word
<1> QED
  BY <1>2, <1>3

\* The inner loop as a whole loses none either.
LEMMA EightBitStepsInjective ==
    ASSUME NEW x \in Word, NEW y \in Word
    PROVE  LET F(z) == BitStep(BitStep(BitStep(BitStep(
                       BitStep(BitStep(BitStep(BitStep(z))))))))
           IN  F(x) \in Word /\ (F(x) = F(y) => x = y)
<1>1. \A z \in Word : BitStep(z) \in Word
  BY BitStepInjective
<1>2. \A u, v \in Word : BitStep(u) = BitStep(v) => u = v
  BY BitStepInjective
<1> DEFINE Two(z) == BitStep(BitStep(z))
           Four(z) == Two(Two(z))
<1>3. \A z \in Word : Two(z) \in Word
  BY <1>1
<1>4. \A u, v \in Word : Two(u) = Two(v) => u = v
  BY <1>1, <1>2
<1> HIDE DEF Two
<1>5. \A z \in Word : Four(z) \in Word
  BY <1>3
<1>6. \A u, v \in Word : Four(u) = Four(v) => u = v
  BY <1>3, <1>4
<1> HIDE DEF Four
<1>7. Four(Four(x)) \in Word /\ (Four(Four(x)) = Four(Four(y)) => x = y)
  BY <1>5, <1>6
<1> QED
  BY <1>7 DEF Four, Two

\* The outer loop tells registers apart, given the same byte; and bytes apart,
\* given the same register.
LEMMA ByteStepInjective ==
    ASSUME NEW x \in Word, NEW y \in Word, NEW u \in SUBSET (0..7), NEW v \in SUBSET (0..7)
    PROVE  /\ ByteStep(x, u) \in Word
           /\ ByteStep(x, u) = ByteStep(y, u) => x = y
           /\ ByteStep(x, u) = ByteStep(x, v) => u = v
<1>1. u \in Word /\ v \in Word
  BY DEF Word
<1>2. /\ Xor(x, u) \in Word /\ Xor(y, u) \in Word /\ Xor(x, v) \in Word
      /\ Xor(x, u) = Xor(u, x) /\ Xor(x, v) = Xor(v, x)
  BY <1>1, XorWord DEF Xor
<1>3. ByteStep(x, u) \in Word
  BY <1>2, EightBitStepsInjective DEF ByteStep
<1>4. ByteStep(x, u) = ByteStep(y, u) => Xor(x, u) = Xor(y, u)
  BY <1>2, EightBitStepsInjective DEF ByteStep
<1>5. ByteStep(x, u) = ByteStep(x, v) => Xor(x, u) = Xor(x, v)
  BY <1>2, EightBitStepsInjective DEF ByteStep
<1> QED
  BY <1>1, <1>2, <1>3, <1>4, <1>5, XorInjective


-------------------------------------------------------------------------------
(* The division.  The remainder is a recursive function of the message: what holds *)
(* of it for every length is proved by the least length at which it would not.     *)

LEMMA LeastElement ==
    ASSUME NEW T, T \subseteq Nat, T # {}
    PROVE  \E x \in T : \A y \in T : x <= y
<1> DEFINE R == OpToRel(<, Nat)
<1>1. \E x \in T : \A y \in T : ~(<<y, x>> \in R)
  BY NatLessThanWellFounded, WFMin, Zenon
<1>2. \A x, y \in Nat : y < x => <<y, x>> \in R
  BY Zenon DEF OpToRel
<1>3. \A x, y \in Nat : ~(y < x) => x <= y
  OBVIOUS
<1> QED
  BY <1>1, <1>2, <1>3

LEMMA GreatestElement ==
    ASSUME NEW n \in Nat, NEW T, T \subseteq 0..n, T # {}
    PROVE  \E x \in T : \A y \in T : y <= x
<1> DEFINE U == {k \in Nat : n - k \in T}
<1>1. \A x \in T : n - x \in U
  <2> TAKE x \in T
  <2>1. n - x \in Nat /\ n - (n - x) = x
    OBVIOUS
  <2> QED
    BY <2>1
<1>2. PICK k \in U : \A y \in U : k <= y
  BY <1>1, LeastElement
<1>3. \A y \in T : y <= n - k
  <2> TAKE y \in T
  <2>1. k <= n - y
    BY <1>1, <1>2
  <2> QED
    BY <2>1
<1> QED
  BY <1>3

LEMMA XorMember ==
    ASSUME NEW x, NEW y, NEW i
    PROVE  i \in Xor(x, y) <=> ~(i \in x <=> i \in y)
  BY Zenon DEF Xor

\* With positions on the line for powers: the bits S are the multiple of the generator
\* with the quotient q, plus the register r at position n.  The generator is at the
\* positions 0, 1, 14 and 16, and a sum of an even number of bits is nothing.
Balanced(S, q, r, n) ==
    \A p \in Nat :
        p \in S <=> (p - n \in r <=>
            (p \in q <=> (p - 1 \in q <=> (p - 14 \in q <=> p - 16 \in q))))

\* Division of S by the generator, with n bits of quotient.
Divides(S, q, r, n) ==
    /\ q \subseteq 0..(n - 1)
    /\ r \in Word
    /\ Balanced(S, q, r, n)

\* One turn of the inner loop is one step of the division.
LEMMA BitDivides ==
    ASSUME NEW S, NEW n \in Nat, NEW q, NEW r, Divides(S, q, r, n)
    PROVE  Divides(S, IF 0 \in r THEN q \cup {n} ELSE q, BitStep(r), n + 1)
<1> DEFINE q2 == IF 0 \in r THEN q \cup {n} ELSE q
<1>1. q \subseteq 0..(n - 1) /\ r \in Word /\ n \notin q
  BY DEF Divides
<1>2. q2 \subseteq 0..((n + 1) - 1)
  BY <1>1
<1>3. ShiftRight(r) \in Word /\ BitStep(r) \in Word
  <2>1. ShiftRight(r) \in Word /\ Polynomial \in Word
    BY DEF ShiftRight, Word, Polynomial
  <2>2. Xor(ShiftRight(r), Polynomial) \in Word
    BY <2>1 DEF Word, Xor
  <2> QED
    BY <2>1, <2>2 DEF BitStep
<1>4. ASSUME NEW p \in Nat
      PROVE  p \in S <=> (p - (n + 1) \in BitStep(r) <=>
                (p \in q2 <=> (p - 1 \in q2 <=> (p - 14 \in q2 <=> p - 16 \in q2))))
  <2>1. p \in S <=> (p - n \in r <=>
            (p \in q <=> (p - 1 \in q <=> (p - 14 \in q <=> p - 16 \in q))))
    BY DEF Divides, Balanced
  <2> DEFINE j == p - (n + 1)
  <2>2. j \in ShiftRight(r) <=> p - n \in r /\ p # n
    <3>1. j \in Int /\ j + 1 = p - n /\ (p = n <=> j = -1)
      OBVIOUS
    <3>2. j \in ShiftRight(r) <=> j \in 0..14 /\ j + 1 \in r
      BY DEF ShiftRight
    <3>3. j + 1 \in r => j \in 0..14 \/ j = -1
      BY <1>1, <3>1 DEF Word
    <3> QED
      BY <3>1, <3>2, <3>3
  <2>3. CASE 0 \in r
    <3>1. j \in BitStep(r) <=> ~(j \in ShiftRight(r) <=> j \in {0, 13, 15})
      <4>1. BitStep(r) = Xor(ShiftRight(r), {0, 13, 15})
        BY <2>3 DEF BitStep, Polynomial
      <4> HIDE DEF j
      <4> QED
        BY <4>1, XorMember
    <3>2. /\ p \in q2 <=> ~(p \in q <=> p = n)
          /\ p - 1 \in q2 <=> ~(p - 1 \in q <=> p - 1 = n)
          /\ p - 14 \in q2 <=> ~(p - 14 \in q <=> p - 14 = n)
          /\ p - 16 \in q2 <=> ~(p - 16 \in q <=> p - 16 = n)
      BY <1>1, <2>3
    <3>3. /\ j \in {0, 13, 15} <=> p - 1 = n \/ p - 14 = n \/ p - 16 = n
          /\ p = n => p - n \in r
      BY <2>3
    <3> QED
      BY <2>1, <2>2, <3>1, <3>2, <3>3
  <2>4. CASE 0 \notin r
    <3>1. BitStep(r) = ShiftRight(r) /\ q2 = q
      BY <2>4 DEF BitStep
    <3>2. p = n => p - n \notin r
      BY <2>4
    <3> QED
      BY <2>1, <2>2, <3>1, <3>2
  <2> QED
    BY <2>3, <2>4
<1> HIDE DEF q2
<1> QED
  BY <1>2, <1>3, <1>4 DEF Divides, Balanced, q2

IsRemainder(S, r, n) == \E q : Divides(S, q, r, n)

LEMMA BitRemainder ==
    ASSUME NEW S, NEW n \in Nat, NEW r, IsRemainder(S, r, n)
    PROVE  IsRemainder(S, BitStep(r), n + 1)
  BY BitDivides DEF IsRemainder

\* One turn of the outer loop divides eight bits more.
LEMMA ByteRemainder ==
    ASSUME NEW n \in Nat, NEW S, S \subseteq 0..(n - 1), NEW r, IsRemainder(S, r, n),
           NEW byte \in SUBSET (0..7)
    PROVE  IsRemainder(S \cup {n + i : i \in byte}, ByteStep(r, byte), n + 8)
<1> DEFINE S2 == S \cup {n + i : i \in byte}
<1>1. PICK q : Divides(S, q, r, n)
  BY DEF IsRemainder
<1>2. Xor(r, byte) \in Word
  BY <1>1 DEF Divides, Word, Xor
<1>3. ASSUME NEW p \in Nat
      PROVE  /\ p \in S2 <=> ~(p \in S <=> p - n \in byte)
             /\ p - n \in Xor(r, byte) <=> ~(p - n \in r <=> p - n \in byte)
  <2>1. p \in {n + i : i \in byte} <=> p - n \in byte
    <3>1. ASSUME p - n \in byte PROVE p \in {n + i : i \in byte}
      <4>1. p = n + (p - n)
        OBVIOUS
      <4> QED
        BY <3>1, <4>1
    <3>2. ASSUME NEW i \in byte, p = n + i PROVE p - n \in byte
      <4>1. p - n = i
        BY <3>2
      <4> QED
        BY <4>1
    <3> QED
      BY <3>1, <3>2
  <2>2. p \in S => p - n \notin byte
    OBVIOUS
  <2>3. p - n \in Xor(r, byte) <=> ~(p - n \in r <=> p - n \in byte)
    BY Zenon DEF Xor
  <2> QED
    BY <2>1, <2>2, <2>3
<1> HIDE DEF S2
<1>4. Divides(S2, q, Xor(r, byte), n)
  <2>1. \A p \in Nat : p \in S <=> (p - n \in r <=>
            (p \in q <=> (p - 1 \in q <=> (p - 14 \in q <=> p - 16 \in q))))
    BY <1>1 DEF Divides, Balanced
  <2>2. Balanced(S2, q, Xor(r, byte), n)
    <3> SUFFICES ASSUME NEW p \in Nat
                 PROVE  p \in S2 <=> (p - n \in Xor(r, byte) <=>
                            (p \in q <=> (p - 1 \in q <=> (p - 14 \in q <=> p - 16 \in q))))
      BY DEF Balanced
    <3> QED
      BY <1>3, <2>1
  <2> QED
    BY <1>1, <1>2, <2>2 DEF Divides
<1> DEFINE B(z) == BitStep(z)
           x == Xor(r, byte)
<1>5. \A z : \A m \in Nat : IsRemainder(S2, z, m) => IsRemainder(S2, B(z), m + 1)
  BY BitRemainder
<1>6. IsRemainder(S2, x, n)
  BY <1>4 DEF IsRemainder
<1> HIDE DEF B, x
<1>7. \A z : \A m \in Nat : IsRemainder(S2, z, m) => IsRemainder(S2, B(B(z)), m + 2)
  <2> TAKE z
  <2> TAKE m \in Nat
  <2>1. (m + 1) + 1 = m + 2
    OBVIOUS
  <2> QED
    BY <1>5, <2>1
<1>8. \A z : \A m \in Nat : IsRemainder(S2, z, m) => IsRemainder(S2, B(B(B(B(z)))), m + 4)
  <2> TAKE z
  <2> TAKE m \in Nat
  <2>1. (m + 2) + 2 = m + 4
    OBVIOUS
  <2> QED
    BY <1>7, <2>1
<1>9. IsRemainder(S2, B(B(B(B(B(B(B(B(x)))))))), n + 8)
  <2>1. (n + 4) + 4 = n + 8
    OBVIOUS
  <2> QED
    BY <1>6, <1>8, <2>1
<1> QED
  BY <1>9 DEF B, x, S2, ByteStep

\* Two divisions differ by a multiple of the generator.
LEMMA DifferenceIsMultiple ==
    ASSUME NEW n \in Nat, NEW S1, NEW S2, NEW q1, NEW q2, NEW r1, NEW r2,
           Divides(S1, q1, r1, n), Divides(S2, q2, r2, n),
           NEW p \in Nat
    PROVE  LET d(i) == i \in q1 <=> i \in q2
           IN  (p \in S1 <=> p \in S2) <=>
                  ((p - n \in r1 <=> p - n \in r2) <=>
                      (d(p) <=> (d(p - 1) <=> (d(p - 14) <=> d(p - 16)))))
<1>1. p \in S1 <=> (p - n \in r1 <=>
         (p \in q1 <=> (p - 1 \in q1 <=> (p - 14 \in q1 <=> p - 16 \in q1))))
  BY DEF Divides, Balanced
<1>2. p \in S2 <=> (p - n \in r2 <=>
         (p \in q2 <=> (p - 1 \in q2 <=> (p - 14 \in q2 <=> p - 16 \in q2))))
  BY DEF Divides, Balanced
<1> QED
  BY <1>1, <1>2

\* The first bit in which two quotients differ is one in which the messages differ.
LEMMA LeastDifference ==
    ASSUME NEW n \in Nat, NEW S1, NEW S2, NEW q1, NEW q2, NEW r1, NEW r2,
           Divides(S1, q1, r1, n), Divides(S2, q2, r2, n), q1 # q2
    PROVE  \E m \in Xor(q1, q2) : /\ \A i \in Xor(q1, q2) : m <= i
                                  /\ m \in Xor(S1, S2)
<1> DEFINE T == Xor(q1, q2)
<1>1. q1 \subseteq 0..(n - 1) /\ q2 \subseteq 0..(n - 1) /\ r1 \in Word /\ r2 \in Word
  BY DEF Divides
<1>2. T \subseteq 0..(n - 1) /\ T # {}
  <2>1. T # {}
    BY Zenon DEF Xor
  <2> QED
    BY <1>1, <2>1 DEF Xor
<1>3. PICK m \in T : \A i \in T : m <= i
  <2>1. T \subseteq Nat
    BY <1>2
  <2> QED
    BY <1>2, <2>1, LeastElement
<1>4. m \in Nat /\ m < n
  BY <1>2
<1>5. /\ m - 1 \notin T /\ m - 14 \notin T /\ m - 16 \notin T /\ m \in T
      /\ m - n \notin r1 /\ m - n \notin r2
  <2>1. m - n \notin 0..15
    BY <1>4
  <2>2. m - 1 \notin T /\ m - 14 \notin T /\ m - 16 \notin T
    BY <1>3, <1>4
  <2> QED
    BY <1>1, <2>1, <2>2 DEF Word
<1>6. \A i : i \in T <=> ~(i \in q1 <=> i \in q2)
  BY Zenon DEF Xor
<1> HIDE DEF T
<1>7. ~(m \in S1 <=> m \in S2)
  BY <1>4, <1>5, <1>6, DifferenceIsMultiple
<1>8. m \in Xor(S1, S2)
  BY <1>7, Zenon DEF Xor
<1> QED
  BY <1>3, <1>8 DEF T

LEMMA RemainderIsUnique ==
    ASSUME NEW n \in Nat, NEW S, NEW r1, NEW r2, IsRemainder(S, r1, n), IsRemainder(S, r2, n)
    PROVE  r1 = r2
<1>1. PICK q1 : Divides(S, q1, r1, n)
  BY DEF IsRemainder
<1>2. PICK q2 : Divides(S, q2, r2, n)
  BY DEF IsRemainder
<1>3. q1 = q2
  <2>1. Xor(S, S) = {}
    BY DEF Xor
  <2> QED
    BY <1>1, <1>2, <2>1, LeastDifference
<1>4. ASSUME NEW i \in 0..15 PROVE i \in r1 <=> i \in r2
  <2> DEFINE p == n + i
  <2>1. p \in Nat /\ p - n = i
    OBVIOUS
  <2> HIDE DEF p
  <2>2. p - n \in r1 <=> p - n \in r2
    BY <1>1, <1>2, <1>3, <2>1, DifferenceIsMultiple
  <2> QED
    BY <2>1, <2>2
<1>5. r1 \in Word /\ r2 \in Word
  BY <1>1, <1>2 DEF Divides
<1> QED
  BY <1>4, <1>5 DEF Word

\* The recursion of Remainder, up to m.
IsLeft(left, p, n, m) ==
    left = [k \in 0..m |-> IF k = 0 THEN p ELSE Subtracted(left[k - 1], n + 16 - k)]

LEMMA LeftExists ==
    ASSUME NEW p, NEW n \in Nat, NEW m \in Nat
    PROVE  \E left : IsLeft(left, p, n, m)
<1> DEFINE T == {k \in Nat : ~ \E left : IsLeft(left, p, n, k)}
<1> SUFFICES ASSUME T # {} PROVE FALSE
  OBVIOUS
<1>1. PICK j \in T : \A y \in T : j <= y
  BY LeastElement
<1>2. CASE j = 0
  <2> DEFINE l == [k \in 0..0 |-> IF k = 0 THEN p ELSE Subtracted(p, n + 16 - k)]
  <2>1. l = [k \in 0..0 |-> IF k = 0 THEN p ELSE Subtracted(l[k - 1], n + 16 - k)]
    OBVIOUS
  <2> QED
    BY <1>2, <2>1 DEF IsLeft
<1>3. CASE j # 0
  <2>1. j - 1 \in Nat /\ j - 1 \notin T
    BY <1>1, <1>3
  <2>2. PICK l : IsLeft(l, p, n, j - 1)
    BY <2>1
  <2> DEFINE h == [k \in 0..j |-> IF k = j THEN Subtracted(l[j - 1], n + 16 - k) ELSE l[k]]
  <2>3. ASSUME NEW k \in 0..j
        PROVE  h[k] = IF k = 0 THEN p ELSE Subtracted(h[k - 1], n + 16 - k)
    <3>1. CASE k = j
      BY <3>1, <1>3
    <3>2. CASE k # j
      <4>1. k \in 0..(j - 1) /\ (k # 0 => k - 1 \in 0..(j - 1))
        BY <3>2
      <4> QED
        BY <3>2, <4>1, <2>2 DEF IsLeft
    <3> QED
      BY <3>1, <3>2
  <2>4. h = [k \in 0..j |-> IF k = 0 THEN p ELSE Subtracted(h[k - 1], n + 16 - k)]
    BY <2>3
  <2> QED
    BY <2>4 DEF IsLeft
<1> QED
  BY <1>2, <1>3

LEMMA RemainderDef ==
    ASSUME NEW p, NEW n \in Nat
    PROVE  \E left : IsLeft(left, p, n, n) /\ Remainder(p, n) = left[n]
<1>1. \E left : left = [k \in 0..n |-> IF k = 0 THEN p ELSE Subtracted(left[k - 1], n + 16 - k)]
  <2>1. \E left : IsLeft(left, p, n, n)
    BY LeftExists
  <2> QED
    BY <2>1 DEF IsLeft
<1> DEFINE L == CHOOSE left :
                  left = [k \in 0..n |-> IF k = 0 THEN p ELSE Subtracted(left[k - 1], n + 16 - k)]
<1>2. L = [k \in 0..n |-> IF k = 0 THEN p ELSE Subtracted(L[k - 1], n + 16 - k)]
  BY <1>1
<1>3. Remainder(p, n) = L[n]
  BY DEF Remainder
<1> QED
  BY <1>2, <1>3 DEF IsLeft

\* After k steps of the division of S: what is left, as powers, and some quotient.
LongDivided(S, left, n, k) ==
    /\ left \subseteq 0..(n + 15 - k)
    /\ \E q \in SUBSET (0..(k - 1)) : \A p \in Nat :
        p \in S <=> (n + 15 - p \in left <=>
            (p \in q <=> (p - 1 \in q <=> (p - 14 \in q <=> p - 16 \in q))))

LEMMA SubtractedDivides ==
    ASSUME NEW S, NEW n \in Nat, NEW k \in 0..(n - 1), NEW left, LongDivided(S, left, n, k)
    PROVE  LongDivided(S, Subtracted(left, n + 15 - k), n, k + 1)
<1> DEFINE top == n + 15 - k
           left2 == Subtracted(left, top)
           multiple == {top - 16 + g : g \in Generator}
<1>1. PICK q \in SUBSET (0..(k - 1)) : \A p \in Nat :
        p \in S <=> (n + 15 - p \in left <=>
            (p \in q <=> (p - 1 \in q <=> (p - 14 \in q <=> p - 16 \in q))))
  BY DEF LongDivided
<1>2. left \subseteq 0..top
  BY DEF LongDivided
<1>3. multiple = {top, top - 1, top - 14, top - 16}
  BY DEF Generator
<1>4. CASE top \notin left
  <2>1. left2 = left
    BY <1>4 DEF Subtracted
  <2>2. left \subseteq 0..(n + 15 - (k + 1))
    BY <1>2, <1>4
  <2>3. q \in SUBSET (0..((k + 1) - 1))
    OBVIOUS
  <2> HIDE DEF left2
  <2> QED
    BY <1>1, <2>1, <2>2, <2>3 DEF LongDivided, left2
<1>5. CASE top \in left
  <2> DEFINE q2 == q \cup {k}
  <2>1. left2 = Xor(left, multiple)
    BY <1>5 DEF Subtracted
  <2>2. \A i : i \in left2 <=> ~(i \in left <=> i \in multiple)
    BY <2>1, XorMember
  <2> HIDE DEF left2, multiple
  <2>3. left2 \subseteq 0..(n + 15 - (k + 1))
    <3>1. multiple \subseteq 0..top /\ top \in multiple
      BY <1>3
    <3> HIDE DEF top
    <3>2. left2 \subseteq 0..top /\ top \notin left2
      BY <1>2, <1>5, <2>2, <3>1
    <3> QED
      BY <3>2 DEF top
  <2>4. q2 \in SUBSET (0..((k + 1) - 1)) /\ k \notin q
    OBVIOUS
  <2>5. ASSUME NEW p \in Nat
        PROVE  p \in S <=> (n + 15 - p \in left2 <=>
            (p \in q2 <=> (p - 1 \in q2 <=> (p - 14 \in q2 <=> p - 16 \in q2))))
    <3>1. /\ p \in q2 <=> ~(p \in q <=> p = k)
          /\ p - 1 \in q2 <=> ~(p - 1 \in q <=> p - 1 = k)
          /\ p - 14 \in q2 <=> ~(p - 14 \in q <=> p - 14 = k)
          /\ p - 16 \in q2 <=> ~(p - 16 \in q <=> p - 16 = k)
      BY <2>4
    <3>2. n + 15 - p \in multiple <=> p = k \/ p - 1 = k \/ p - 14 = k \/ p - 16 = k
      BY <1>3
    <3>3. n + 15 - p \in left2 <=> ~(n + 15 - p \in left <=> n + 15 - p \in multiple)
      BY <2>2
    <3>4. p \in S <=> (n + 15 - p \in left <=>
            (p \in q <=> (p - 1 \in q <=> (p - 14 \in q <=> p - 16 \in q))))
      BY <1>1
    <3> HIDE DEF q2
    <3> QED
      BY <3>1, <3>2, <3>3, <3>4
  <2> HIDE DEF q2
  <2>6. LongDivided(S, left2, n, k + 1)
    BY <2>3, <2>4, <2>5 DEF LongDivided
  <2> QED
    BY <2>6 DEF left2
<1> QED
  BY <1>4, <1>5

LEMMA RemainderIsLongDivided ==
    ASSUME NEW n \in Nat, NEW S, S \subseteq 0..(n - 1)
    PROVE  LongDivided(S, Remainder({n + 15 - b : b \in S}, n), n, n)
<1> DEFINE message == {n + 15 - b : b \in S}
<1>1. PICK left : IsLeft(left, message, n, n) /\ Remainder(message, n) = left[n]
  BY RemainderDef
<1>2. \A k \in 0..n : left[k] = IF k = 0 THEN message ELSE Subtracted(left[k - 1], n + 16 - k)
  BY <1>1 DEF IsLeft
<1> DEFINE T == {k \in 0..n : ~LongDivided(S, left[k], n, k)}
<1>3. ASSUME T # {} PROVE FALSE
  <2>1. PICK j \in T : \A y \in T : j <= y
    <3>1. T \subseteq Nat
      OBVIOUS
    <3> HIDE DEF T
    <3> QED
      BY <1>3, <3>1, LeastElement
  <2>2. CASE j = 0
    <3>1. left[0] = message
      <4>1. 0 \in 0..n
        OBVIOUS
      <4> QED
        BY <1>2, <4>1
    <3>2. message \subseteq 0..(n + 15 - 0)
      OBVIOUS
    <3>3. ASSUME NEW p \in Nat
          PROVE  p \in S <=> n + 15 - p \in message
      <4>1. ASSUME n + 15 - p \in message PROVE p \in S
        <5>1. PICK b \in S : n + 15 - p = n + 15 - b
          BY <4>1
        <5>2. b = p
          BY <5>1
        <5> QED
          BY <5>2
      <4> QED
        BY <4>1
    <3> HIDE DEF message
    <3>4. {} \in SUBSET (0..(0 - 1)) /\ \A p \in Nat :
            p \in S <=> (n + 15 - p \in message <=>
                (p \in {} <=> (p - 1 \in {} <=> (p - 14 \in {} <=> p - 16 \in {}))))
      BY <3>3
    <3>5. LongDivided(S, message, n, 0)
      BY <3>2, <3>4 DEF LongDivided
    <3> QED
      BY <2>1, <2>2, <3>1, <3>5
  <2>3. CASE j # 0
    <3> DEFINE k == j - 1
    <3>1. k \in 0..(n - 1) /\ k + 1 = j /\ n + 16 - j = n + 15 - k
      BY <2>1, <2>3
    <3>2. LongDivided(S, left[k], n, k)
      BY <2>1, <3>1
    <3>3. left[j] = Subtracted(left[k], n + 15 - k)
      BY <1>2, <2>3, <3>1
    <3> HIDE DEF k
    <3>4. LongDivided(S, left[j], n, j)
      BY <3>1, <3>2, <3>3, SubtractedDivides
    <3> QED
      BY <2>1, <3>4
  <2> QED
    BY <2>2, <2>3
<1>4. n \in 0..n
  OBVIOUS
<1>5. LongDivided(S, left[n], n, n)
  BY <1>3, <1>4
<1> QED
  BY <1>1, <1>5

LEMMA RemainderDivides ==
    ASSUME NEW n \in Nat, NEW S, S \subseteq 0..(n - 1)
    PROVE  IsRemainder(S, {15 - i : i \in Remainder({n + 15 - b : b \in S}, n)}, n)
<1> DEFINE left == Remainder({n + 15 - b : b \in S}, n)
           r == {15 - i : i \in left}
<1>1. LongDivided(S, left, n, n)
  BY RemainderIsLongDivided
<1> HIDE DEF left
<1>2. PICK q \in SUBSET (0..(n - 1)) : \A p \in Nat :
        p \in S <=> (n + 15 - p \in left <=>
            (p \in q <=> (p - 1 \in q <=> (p - 14 \in q <=> p - 16 \in q))))
  BY <1>1 DEF LongDivided
<1>3. left \subseteq 0..15
  <2>1. n + 15 - n = 15
    OBVIOUS
  <2> QED
    BY <1>1, <2>1 DEF LongDivided
<1>4. ASSUME NEW p \in Nat PROVE p - n \in r <=> n + 15 - p \in left
  <2>1. \A i \in left : p - n = 15 - i => i = n + 15 - p
    BY <1>3
  <2>2. p - n = 15 - (n + 15 - p)
    OBVIOUS
  <2> QED
    BY <2>1, <2>2
<1>5. r \in Word
  BY <1>3 DEF Word
<1> HIDE DEF r
<1>6. Balanced(S, q, r, n)
  BY <1>2, <1>4 DEF Balanced
<1>7. Divides(S, q, r, n)
  BY <1>5, <1>6 DEF Divides
<1> QED
  BY <1>7 DEF IsRemainder, r, left

LEMMA LineBitsOfBody ==
    ASSUME NEW body \in Seq(SUBSET (0..7))
    PROVE  /\ 8 * Len(body) \in Nat
           /\ LineBits(body) \subseteq 0..(8 * Len(body) - 1)
<1>1. /\ Len(body) \in Nat /\ DOMAIN body = 1..Len(body)
      /\ \A k \in 1..Len(body) : body[k] \in SUBSET (0..7)
  BY LenProperties, ElementOfSeq
<1>2. ASSUME NEW k \in 1..Len(body), NEW i \in body[k]
      PROVE  8 * (k - 1) + i \in 0..(8 * Len(body) - 1)
  <2>1. i \in 0..7
    BY <1>1
  <2> QED
    BY <1>1, <2>1
<1> QED
  BY <1>1, <1>2 DEF LineBits

LEMMA LineBitsAppend ==
    ASSUME NEW body \in Seq(SUBSET (0..7)), NEW byte \in SUBSET (0..7)
    PROVE  LineBits(Append(body, byte)) = LineBits(body) \cup {8 * Len(body) + i : i \in byte}
<1> DEFINE n == Len(body)
           longer == Append(body, byte)
<1>1. n \in Nat /\ DOMAIN body = 1..n
  BY LenProperties
<1>2. /\ DOMAIN longer = 1..(n + 1)
      /\ \A k \in 1..n : longer[k] = body[k]
      /\ longer[n + 1] = byte
  <2>1. longer \in Seq(SUBSET (0..7)) /\ Len(longer) = n + 1
    BY AppendProperties
  <2> QED
    BY <1>1, <2>1, AppendProperties, LenProperties
<1> HIDE DEF n, longer
<1>3. DOMAIN longer = DOMAIN body \cup {n + 1} /\ n + 1 \notin DOMAIN body
  BY <1>1, <1>2
<1> DEFINE bits(f, k) == {8 * (k - 1) + i : i \in f[k]}
<1>4. bits(longer, n + 1) = {8 * n + i : i \in byte}
  <2>1. 8 * ((n + 1) - 1) = 8 * n
    BY <1>1
  <2> QED
    BY <1>2, <2>1
<1>5. \A k \in DOMAIN body : bits(longer, k) = bits(body, k)
  BY <1>1, <1>2
<1>6. /\ LineBits(longer) = UNION {bits(longer, k) : k \in DOMAIN longer}
      /\ LineBits(body) = UNION {bits(body, k) : k \in DOMAIN body}
  BY DEF LineBits
<1> HIDE DEF bits
<1>7. UNION {bits(longer, k) : k \in DOMAIN longer}
        = (UNION {bits(longer, k) : k \in DOMAIN body}) \cup bits(longer, n + 1)
  BY <1>3
<1>8. {bits(longer, k) : k \in DOMAIN body} = {bits(body, k) : k \in DOMAIN body}
  BY <1>5
<1> QED
  BY <1>4, <1>6, <1>7, <1>8 DEF longer, n

LEMMA ReferenceIsRemainder ==
    ASSUME NEW body \in Seq(SUBSET (0..7))
    PROVE  IsRemainder(LineBits(body), ReferenceCrc(body), 8 * Len(body))
<1>1. 8 * Len(body) \in Nat /\ LineBits(body) \subseteq 0..(8 * Len(body) - 1)
  BY LineBitsOfBody
<1> QED
  BY <1>1, RemainderDivides DEF ReferenceCrc, MessagePolynomial

\* The remainder of a longer body is what the outer loop makes of that of the shorter.
LEMMA ByteStepIsReference ==
    ASSUME NEW body \in Seq(SUBSET (0..7)), NEW byte \in SUBSET (0..7)
    PROVE  ReferenceCrc(Append(body, byte)) = ByteStep(ReferenceCrc(body), byte)
<1> DEFINE n == 8 * Len(body)
           longer == Append(body, byte)
           S == LineBits(body)
           r == ReferenceCrc(body)
<1>1. n \in Nat /\ S \subseteq 0..(n - 1)
  BY LineBitsOfBody
<1>2. IsRemainder(S, r, n)
  BY ReferenceIsRemainder
<1>3. IsRemainder(S \cup {n + i : i \in byte}, ByteStep(r, byte), n + 8)
  <2> HIDE DEF n, S, r
  <2> QED
    BY <1>1, <1>2, ByteRemainder
<1>4. longer \in Seq(SUBSET (0..7)) /\ 8 * Len(longer) = n + 8 /\ n + 8 \in Nat
  <2>1. longer \in Seq(SUBSET (0..7)) /\ Len(longer) = Len(body) + 1 /\ Len(body) \in Nat
    BY AppendProperties, LenProperties
  <2> QED
    BY <2>1
<1>5. IsRemainder(LineBits(longer), ReferenceCrc(longer), n + 8)
  BY <1>4, ReferenceIsRemainder
<1>6. LineBits(longer) = S \cup {n + i : i \in byte}
  BY LineBitsAppend
<1> HIDE DEF n, S, r, longer
<1>7. ReferenceCrc(longer) = ByteStep(r, byte)
  BY <1>3, <1>4, <1>5, <1>6, RemainderIsUnique
<1> QED
  BY <1>7 DEF longer, r

LEMMA ReferenceOfNothing == ReferenceCrc(<<>>) = {}
<1>1. IsRemainder(LineBits(<<>>), ReferenceCrc(<<>>), 0)
  <2>1. <<>> \in Seq(SUBSET (0..7)) /\ 8 * Len(<<>>) = 0
    BY EmptySeq
  <2> QED
    BY <2>1, ReferenceIsRemainder
<1>2. Divides(LineBits(<<>>), {}, {}, 0)
  <2>1. LineBits(<<>>) = {}
    BY EmptySeq DEF LineBits
  <2> QED
    BY <2>1 DEF Divides, Balanced, Word
<1>3. IsRemainder(LineBits(<<>>), {}, 0)
  BY <1>2 DEF IsRemainder
<1> QED
  BY <1>1, <1>3, RemainderIsUnique

\* Bodies with the same remainder differ in bits more than 16 apart: a multiple of the
\* generator has a bit at both ends of it.
LEMMA BurstChangesRemainder ==
    ASSUME NEW n \in Nat, NEW S1, NEW S2, S1 \subseteq Nat, S2 \subseteq Nat,
           NEW r, IsRemainder(S1, r, n), IsRemainder(S2, r, n)
    PROVE  ~IsBurst(Xor(S1, S2))
<1> DEFINE F == Xor(S1, S2)
<1> SUFFICES ASSUME NEW first \in F, F \subseteq first..(first + 15) PROVE FALSE
  BY DEF IsBurst
<1>1. PICK q1 : Divides(S1, q1, r, n)
  BY DEF IsRemainder
<1>2. PICK q2 : Divides(S2, q2, r, n)
  BY DEF IsRemainder
<1> DEFINE T == Xor(q1, q2)
<1>3. /\ first \in Nat
      /\ \A i : i \in F <=> ~(i \in S1 <=> i \in S2)
      /\ \A i : i \in T <=> ~(i \in q1 <=> i \in q2)
  BY XorMember DEF Xor
<1>4. T \subseteq 0..n
  BY <1>1, <1>2 DEF Xor, Divides
<1>5. q1 # q2
  <2> SUFFICES ASSUME q1 = q2 PROVE FALSE
    OBVIOUS
  <2>1. first \in S1 <=> first \in S2
    BY <1>1, <1>2, <1>3, DifferenceIsMultiple
  <2> QED
    BY <1>3, <2>1
<1>6. PICK m \in T : m \in F /\ \A i \in T : m <= i
  BY <1>1, <1>2, <1>5, LeastDifference
<1>7. PICK g \in T : \A i \in T : i <= g
  BY <1>4, <1>6, GreatestElement
<1> HIDE DEF F, T
<1>8. /\ g \in Nat /\ m \in Nat /\ m <= g
      /\ g + 16 \notin T /\ g + 15 \notin T /\ g + 2 \notin T
  BY <1>4, <1>6, <1>7
<1>9. g + 16 \in F
  <2> DEFINE p == g + 16
  <2>1. p \in Nat /\ p - 16 = g /\ p - 14 = g + 2 /\ p - 1 = g + 15
    BY <1>8
  <2>2. ~(p \in S1 <=> p \in S2)
    <3> HIDE DEF p
    <3> QED
      BY <1>1, <1>2, <1>3, <1>7, <1>8, <2>1, DifferenceIsMultiple
  <2> QED
    BY <1>3, <2>2
<1> QED
  BY <1>3, <1>6, <1>8, <1>9

LEMMA XorCardinality ==
    ASSUME NEW A, NEW B, IsFiniteSet(A), IsFiniteSet(B)
    PROVE  /\ IsFiniteSet(Xor(A, B))
           /\ Cardinality(Xor(A, B)) % 2 = (Cardinality(A) + Cardinality(B)) % 2
<1>1. /\ IsFiniteSet(A \ B) /\ IsFiniteSet(B \ A) /\ IsFiniteSet(A \cap B)
  BY FS_Subset, FS_Difference, FS_Intersection
<1> DEFINE a == Cardinality(A \ B)
           b == Cardinality(B \ A)
           c == Cardinality(A \cap B)
<1>2. a \in Nat /\ b \in Nat /\ c \in Nat
  BY <1>1, FS_CardinalityType
<1>3. ASSUME NEW X, NEW Y, IsFiniteSet(X), IsFiniteSet(Y), X \cap Y = {}
      PROVE  IsFiniteSet(X \cup Y) /\ Cardinality(X \cup Y) = Cardinality(X) + Cardinality(Y)
  <2>1. Cardinality(X \cap Y) = 0
    BY <1>3, FS_EmptySet
  <2>2. Cardinality(X) \in Nat /\ Cardinality(Y) \in Nat
    BY <1>3, FS_CardinalityType
  <2>3. /\ IsFiniteSet(X \cup Y)
        /\ Cardinality(X \cup Y) = Cardinality(X) + Cardinality(Y) - Cardinality(X \cap Y)
    BY <1>3, FS_Union, Zenon
  <2> QED
    BY <2>1, <2>2, <2>3
<1>4. Cardinality(A) = a + c
  <2>1. A = (A \ B) \cup (A \cap B) /\ (A \ B) \cap (A \cap B) = {}
    OBVIOUS
  <2> QED
    BY <1>1, <1>3, <2>1
<1>5. Cardinality(B) = b + c
  <2>1. B = (B \ A) \cup (A \cap B) /\ (B \ A) \cap (A \cap B) = {}
    OBVIOUS
  <2> QED
    BY <1>1, <1>3, <2>1
<1>6. IsFiniteSet(Xor(A, B)) /\ Cardinality(Xor(A, B)) = a + b
  <2>1. (A \ B) \cap (B \ A) = {}
    OBVIOUS
  <2> QED
    BY <1>1, <1>3, <2>1 DEF Xor
<1> HIDE DEF a, b, c
<1> QED
  BY <1>2, <1>4, <1>5, <1>6

\* A set of positions moved along the line
Moved(q, k) == {i + k : i \in q}

LEMMA MovedCardinality ==
    ASSUME NEW q \in SUBSET Int, IsFiniteSet(q), NEW k \in Int
    PROVE  /\ \A p \in Int : p \in Moved(q, k) <=> p - k \in q
           /\ IsFiniteSet(Moved(q, k))
           /\ Cardinality(Moved(q, k)) = Cardinality(q)
<1>1. \A p \in Int : p \in Moved(q, k) <=> p - k \in q
  <2> TAKE p \in Int
  <2>1. p = (p - k) + k /\ \A i \in q : p = i + k => p - k = i
    OBVIOUS
  <2> QED
    BY <2>1 DEF Moved
<1> DEFINE f == [i \in q |-> i + k]
<1>2. f \in Bijection(q, Moved(q, k))
  <2>1. f \in Surjection(q, Moved(q, k))
    BY DEF Surjection, Moved
  <2>2. f \in Injection(q, Moved(q, k))
    BY DEF Injection, IsInjective, Moved
  <2> QED
    BY <2>1, <2>2 DEF Bijection
<1>3. /\ IsFiniteSet(Moved(q, k))
      /\ Cardinality(Moved(q, k)) = Cardinality(q)
  <2>1. ExistsBijection(q, Moved(q, k))
    BY <1>2 DEF ExistsBijection
  <2> QED
    BY <2>1, FS_Bijection, Zenon
<1> QED
  BY <1>1, <1>3

\* They differ in an even number of bits: the generator has four.
LEMMA OddChangesRemainder ==
    ASSUME NEW n \in Nat, NEW S1, NEW S2, S1 \subseteq Nat, S2 \subseteq Nat,
           NEW r, IsRemainder(S1, r, n), IsRemainder(S2, r, n)
    PROVE  Cardinality(Xor(S1, S2)) % 2 = 0
<1> DEFINE F == Xor(S1, S2)
<1>1. PICK q1 : Divides(S1, q1, r, n)
  BY DEF IsRemainder
<1>2. PICK q2 : Divides(S2, q2, r, n)
  BY DEF IsRemainder
<1> DEFINE d == Xor(q1, q2)
           low == Xor(d, Moved(d, 1))
           high == Xor(Moved(d, 14), Moved(d, 16))
<1>3. d \in SUBSET Int /\ d \in SUBSET Nat /\ IsFiniteSet(d)
  <2>1. d \subseteq 0..n
    BY <1>1, <1>2 DEF Xor, Divides
  <2>2. IsFiniteSet(0..n)
    BY FS_Interval
  <2>3. IsFiniteSet(d)
    BY <2>1, <2>2, FS_Subset
  <2> HIDE DEF d
  <2> QED
    BY <2>1, <2>3
<1>4. \A i : i \in d <=> ~(i \in q1 <=> i \in q2)
  BY XorMember
<1> HIDE DEF d
<1>5. Cardinality(d) \in Nat
  BY <1>3, FS_CardinalityType
<1>6. ASSUME NEW k \in Int
      PROVE /\ \A p \in Int : p \in Moved(d, k) <=> p - k \in d
            /\ IsFiniteSet(Moved(d, k)) /\ Cardinality(Moved(d, k)) = Cardinality(d)
  BY <1>3, MovedCardinality
<1>7. IsFiniteSet(low) /\ Cardinality(low) % 2 = (Cardinality(d) + Cardinality(d)) % 2
  BY <1>3, <1>6, XorCardinality
<1>8. IsFiniteSet(high) /\ Cardinality(high) % 2 = (Cardinality(d) + Cardinality(d)) % 2
  BY <1>6, XorCardinality
<1>9. Cardinality(Xor(low, high)) % 2 = 0
  <2>1. Cardinality(Xor(low, high)) % 2 = (Cardinality(low) + Cardinality(high)) % 2
    BY <1>7, <1>8, XorCardinality
  <2>2. Cardinality(low) \in Nat /\ Cardinality(high) \in Nat
    BY <1>7, <1>8, FS_CardinalityType
  <2> HIDE DEF low, high
  <2> QED
    BY <1>5, <1>7, <1>8, <2>1, <2>2
<1>10. F = Xor(low, high)
  <2>1. ASSUME NEW p \in Nat
        PROVE  p \in F <=> p \in Xor(low, high)
    <3>1. (p \in S1 <=> p \in S2) <=>
             (~(p \in d) <=> (~(p - 1 \in d) <=> (~(p - 14 \in d) <=> ~(p - 16 \in d))))
      BY <1>1, <1>2, <1>4, DifferenceIsMultiple
    <3>2. /\ p \in F <=> ~(p \in S1 <=> p \in S2)
          /\ p \in Xor(low, high) <=> ~(p \in low <=> p \in high)
          /\ p \in low <=> ~(p \in d <=> p \in Moved(d, 1))
          /\ p \in high <=> ~(p \in Moved(d, 14) <=> p \in Moved(d, 16))
      BY XorMember
    <3>3. /\ p \in Moved(d, 1) <=> p - 1 \in d
          /\ p \in Moved(d, 14) <=> p - 14 \in d
          /\ p \in Moved(d, 16) <=> p - 16 \in d
      <4>1. \A k \in Int : p \in Moved(d, k) <=> p - k \in d
        BY <1>6
      <4> QED
        BY <4>1
    <3> HIDE DEF low, high, F
    <3> QED
      BY <3>1, <3>2, <3>3
  <2>2. F \subseteq Nat
    BY DEF Xor
  <2>3. Xor(low, high) \subseteq Nat
    <3>1. Moved(d, 1) \subseteq Nat /\ Moved(d, 14) \subseteq Nat /\ Moved(d, 16) \subseteq Nat
      BY <1>3 DEF Moved
    <3>2. low \subseteq Nat /\ high \subseteq Nat
      BY <1>3, <3>1 DEF Xor
    <3> HIDE DEF low, high
    <3> QED
      BY <3>2 DEF Xor
  <2> HIDE DEF low, high, F
  <2> QED
    BY <2>1, <2>2, <2>3
<1> QED
  BY <1>9, <1>10

-------------------------------------------------------------------------------
(* The inductive invariant *)

\* One more position after those there may be.
LEMMA NextPosition ==
    ASSUME NEW m \in Nat, NEW S \in SUBSET (1..m)
    PROVE  /\ S \subseteq 1..(m + 1)
           /\ S \cup {m + 1} \subseteq 1..(m + 1)
           /\ 1..(m + 1) \subseteq Nat
           /\ \A k \in 0..m : (S \cup {m + 1}) \cap (1..k) = S \cap (1..k)
<1>1. 1..m \subseteq 1..(m + 1) /\ 1..(m + 1) \subseteq Nat /\ m + 1 \in 1..(m + 1)
  OBVIOUS
<1>2. \A k \in 0..m : m + 1 \notin 1..k
  OBVIOUS
<1> QED
  BY <1>1, <1>2

\* Two numbers below 16 with the same bits are one.
LEMMA BitsOfInjective ==
    ASSUME NEW a \in 0..15, NEW b \in 0..15, BitsOf(a) = BitsOf(b)
    PROVE  a = b
<1>1. 2^0 = 1 /\ 2^1 = 2 /\ 2^2 = 4 /\ 2^3 = 8
  BY DEF BitsOf
<1>2. \A n \in 0..15 : /\ 0 \in BitsOf(n) <=> n % 2 = 1
                       /\ 1 \in BitsOf(n) <=> (n \div 2) % 2 = 1
                       /\ 2 \in BitsOf(n) <=> (n \div 4) % 2 = 1
                       /\ 3 \in BitsOf(n) <=> (n \div 8) % 2 = 1
  <2> TAKE n \in 0..15
  <2>1. n \div 1 = n
    OBVIOUS
  <2> QED
    BY <1>1, <2>1 DEF BitsOf
<1>3. \A n \in 0..15 :
        n = (n % 2) + 2 * ((n \div 2) % 2) + 4 * ((n \div 4) % 2) + 8 * ((n \div 8) % 2)
  OBVIOUS
<1>4. \A n \in Nat : n % 2 = 0 \/ n % 2 = 1
  OBVIOUS
<1>5. \A n \in 0..15 : n \div 2 \in Nat /\ n \div 4 \in Nat /\ n \div 8 \in Nat
  OBVIOUS
<1>6. /\ a % 2 = b % 2
      /\ (a \div 2) % 2 = (b \div 2) % 2
      /\ (a \div 4) % 2 = (b \div 4) % 2
      /\ (a \div 8) % 2 = (b \div 8) % 2
  <2>1. /\ a % 2 = 1 <=> b % 2 = 1
        /\ (a \div 2) % 2 = 1 <=> (b \div 2) % 2 = 1
        /\ (a \div 4) % 2 = 1 <=> (b \div 4) % 2 = 1
        /\ (a \div 8) % 2 = 1 <=> (b \div 8) % 2 = 1
    BY <1>2
  <2> QED
    BY <1>4, <1>5, <2>1
<1> QED
  BY <1>3, <1>6

\* Two digits of four bits each can be told from the byte they make up.
Joined(low, high) == low \cup {i + 4 : i \in high}

LEMMA JoinedNibbles ==
    ASSUME NEW x, NEW y, NEW u, NEW v,
           x \subseteq 0..3, y \subseteq 0..3, u \subseteq 0..3, v \subseteq 0..3,
           Joined(x, y) = Joined(u, v)
    PROVE  x = u /\ y = v
<1> USE DEF Joined
<1>1. \A i \in 0..3 : i \in x <=> i \in u
  OBVIOUS
<1>2. \A i \in 0..3 : i \in y <=> i \in v
  <2> TAKE i \in 0..3
  <2>1. i + 4 \notin x /\ i + 4 \notin u
    OBVIOUS
  <2>2. i \in y <=> i + 4 \in {j + 4 : j \in y}
    OBVIOUS
  <2>3. i \in v <=> i + 4 \in {j + 4 : j \in v}
    OBVIOUS
  <2> QED
    BY <2>1, <2>2, <2>3
<1> QED
  BY <1>1, <1>2

\* A character is as good as its bits.
LEMMA BitsOfChar ==
    ASSUME NEW c \in Char
    PROVE  /\ Bits(c) \in SUBSET (0..7)
           /\ \A d \in Char : Bits(c) = Bits(d) => c = d
<1>1. \A n : BitsOf(n) \subseteq 0..3
  BY DEF BitsOf
<1>2. Bits(c) \in SUBSET (0..7)
  <2>1. \A i \in 0..3 : i \in 0..7 /\ i + 4 \in 0..7
    OBVIOUS
  <2> QED
    BY <1>1, <2>1 DEF Bits
<1>3. ASSUME NEW d \in Char, Bits(c) = Bits(d)
      PROVE  c = d
  <2>1. BitsOf(c % 16) = BitsOf(d % 16) /\ BitsOf(c \div 16) = BitsOf(d \div 16)
    <3>1. Joined(BitsOf(c % 16), BitsOf(c \div 16)) = Joined(BitsOf(d % 16), BitsOf(d \div 16))
      BY <1>3 DEF Bits, Joined
    <3> QED
      BY <1>1, <3>1, JoinedNibbles
  <2>2. \A n \in Char : n % 16 \in 0..15 /\ n \div 16 \in 0..15 /\ n = 16 * (n \div 16) + (n % 16)
    BY DEF Char
  <2>3. c % 16 = d % 16 /\ c \div 16 = d \div 16
    BY <2>1, <2>2, BitsOfInjective
  <2> QED
    BY <2>2, <2>3
<1> QED
  BY <1>2, <1>3

LEMMA InitIInv == Init => IInv
<1> SUFFICES ASSUME Init PROVE IInv
  OBVIOUS
<1>1. Len(received) = 0 /\ Len(sent) = 0 /\ Read = 0 /\ Sent = 0
  BY EmptySeq DEF Init, Read, Sent
<1>2. TypeOK /\ ChangedPositions
  BY <1>1, EmptySeq DEF Init, TypeOK, ChangedPositions, Word
<1>3. OneChangeIsNeverMasked
  BY DEF Init, OneChangeIsNeverMasked, InBody
<1>4. IsReferenceCrc /\ sent_crc = ReferenceCrc(sent)
  BY ReferenceOfNothing DEF Init, IsReferenceCrc
<1>5. StartSeen /\ Places
  BY DEF Init, StartSeen, Places, InStep
<1>6. DigitsRead
  BY <1>1, NulloptAssumption DEF Init, DigitsRead, Word
<1> QED
  BY <1>2, <1>3, <1>4, <1>5, <1>6 DEF IInv

\* The codes of a hexadecimal digit are those HexValue gives its value back for.
LEMMA HexDigits ==
    ASSUME NEW c \in 0..255
    PROVE  /\ IsHexDigit(c) => /\ HexValue(c) \in 0..15
                               /\ \A d \in 0..15 : c \in HexCodes(d) => d = HexValue(c)
                               /\ c \in HexCodes(HexValue(c))
           /\ ~IsHexDigit(c) => \A d \in 0..15 : c \notin HexCodes(d)
<1>1. ASSUME IsHexDigit(c)
      PROVE  /\ HexValue(c) \in 0..15
             /\ \A d \in 0..15 : c \in HexCodes(d) => d = HexValue(c)
             /\ c \in HexCodes(HexValue(c))
  <2>1. c \in 48..57 \/ c \in 65..70 \/ c \in 97..102
    BY <1>1 DEF IsHexDigit
  <2>2. HexValue(c) \in 0..15
    BY <2>1 DEF HexValue
  <2>3. \A d \in 0..15 : c \in HexCodes(d) => d = HexValue(c)
    BY <2>1 DEF HexValue, HexCodes
  <2>4. c \in HexCodes(HexValue(c))
    BY <2>1 DEF HexValue, HexCodes
  <2> QED
    BY <2>2, <2>3, <2>4
<1>2. ASSUME ~IsHexDigit(c), NEW d \in 0..15
      PROVE  c \notin HexCodes(d)
  BY <1>2 DEF IsHexDigit, HexCodes
<1> QED
  BY <1>1, <1>2

\* A turn of to_crc's loop moves the digits it has one place up and puts the new one
\* below them; nothing is pushed out while there are fewer than four.
LEMMA DigitStepNibbles ==
    ASSUME NEW w, NEW n \in 0..3, w \subseteq 0..(4 * n - 1), w # nullopt,
           NEW c \in 0..255, IsHexDigit(c)
    PROVE  LET r == DigitStep(w, c)
           IN  /\ r \in Word
               /\ r # nullopt
               /\ r \subseteq 0..(4 * (n + 1) - 1)
               /\ Nibble(r, 0) = BitsOf(HexValue(c))
               /\ \A k \in 0..(n - 1) : Nibble(r, k + 1) = Nibble(w, k)
<1> DEFINE low == BitsOf(HexValue(c))
           high == {i + 4 : i \in w \cap (0..11)}
           r == high \cup low
<1>1. DigitStep(w, c) = r
  BY DEF DigitStep
<1>2. low \subseteq 0..3
  BY DEF BitsOf
<1> HIDE DEF low
<1>3. high \subseteq 4..15 /\ high \subseteq 4..(4 * (n + 1) - 1)
  OBVIOUS
<1>4. \A j \in Int : j \in high <=> j - 4 \in w
  <2> TAKE j \in Int
  <2>1. ASSUME j - 4 \in w PROVE j \in high
    <3>1. j - 4 \in 0..11 /\ (j - 4) + 4 = j
      BY <2>1
    <3> QED
      BY <2>1, <3>1
  <2>2. ASSUME j \in high PROVE j - 4 \in w
    <3>1. PICK i \in w \cap (0..11) : j = i + 4
      BY <2>2
    <3>2. j - 4 = i
      BY <3>1
    <3> QED
      BY <3>1, <3>2
  <2> QED
    BY <2>1, <2>2
<1> HIDE DEF high
<1>5. r \in Word /\ r \subseteq 0..(4 * (n + 1) - 1)
  <2>1. \A j \in r : j \in 0..15 /\ j <= 4 * (n + 1) - 1
    BY <1>2, <1>3
  <2> QED
    BY <2>1 DEF Word
<1>6. r # nullopt
  BY <1>5, NulloptAssumption
<1>7. Nibble(r, 0) = low
  <2>1. \A i \in 0..3 : i + 4 * 0 = i /\ i \notin high
    BY <1>3
  <2>2. Nibble(r, 0) = {i \in 0..3 : i \in r}
    BY <2>1 DEF Nibble
  <2> QED
    BY <1>2, <2>1, <2>2
<1>8. ASSUME NEW k \in 0..(n - 1)
      PROVE  Nibble(r, k + 1) = Nibble(w, k)
  <2>1. ASSUME NEW i \in 0..3
        PROVE  i + 4 * (k + 1) \in r <=> i + 4 * k \in w
    <3>1. i + 4 * (k + 1) \in Int /\ i + 4 * (k + 1) - 4 = i + 4 * k /\ i + 4 * (k + 1) \notin 0..3
      OBVIOUS
    <3> QED
      BY <1>2, <1>4, <3>1
  <2> HIDE DEF r
  <2> QED
    BY <2>1 DEF Nibble
<1> HIDE DEF r
<1> QED
  BY <1>1, <1>5, <1>6, <1>7, <1>8 DEF low

LEMMA DigitStepWord ==
    ASSUME NEW w, w = nullopt \/ w \in Word, NEW c
    PROVE  DigitStep(w, c) = nullopt \/ DigitStep(w, c) \in Word
<1>1. CASE w = nullopt \/ ~IsHexDigit(c)
  BY <1>1 DEF DigitStep
<1>2. CASE w # nullopt /\ IsHexDigit(c)
  <2>1. BitsOf(HexValue(c)) \subseteq 0..15
    <3>1. BitsOf(HexValue(c)) \subseteq 0..3
      BY DEF BitsOf
    <3> QED
      BY <3>1
  <2>2. {i + 4 : i \in w \cap (0..11)} \subseteq 0..15
    OBVIOUS
  <2> QED
    BY <1>2, <2>1, <2>2 DEF DigitStep, Word
<1> QED
  BY <1>1, <1>2

\* Whatever arrives, and wherever from_bytes is, it has the CRC of what it takes for
\* the body.
LEMMA TakeKeeps ==
    ASSUME IInv, NEW c \in Char, Take(c)
    PROVE  /\ crc' \in Word
           /\ parsed' = nullopt \/ parsed' \in Word
           /\ digits' \in -1..4
           /\ received' \in Seq(SUBSET (0..7))
           /\ IsReferenceCrc'
<1>1. /\ crc \in Word
      /\ parsed = nullopt \/ parsed \in Word
      /\ digits \in -1..4
      /\ received \in Seq(SUBSET (0..7))
      /\ crc = ReferenceCrc(received)
  BY DEF IInv, TypeOK, IsReferenceCrc
<1>2. CASE TakeBody(c)
  <2>1. Bits(c) \in SUBSET (0..7)
    BY BitsOfChar
  <2>2. crc' = ByteStep(crc, Bits(c)) /\ received' = Append(received, Bits(c))
    BY <1>2 DEF TakeBody
  <2>3. crc' \in Word /\ received' \in Seq(SUBSET (0..7))
    BY <1>1, <2>1, <2>2, ByteStepInjective, AppendProperties
  <2>4. crc' = ReferenceCrc(received')
    BY <1>1, <2>1, <2>2, ByteStepIsReference
  <2>5. digits' \in -1..4 /\ parsed' = parsed
    BY <1>2 DEF TakeBody
  <2> QED
    BY <1>1, <2>3, <2>4, <2>5 DEF IsReferenceCrc
<1>3. CASE TakeDigit(c)
  <2>1. parsed' = DigitStep(parsed, c) /\ digits' \in -1..4 /\ UNCHANGED <<crc, received>>
    BY <1>3 DEF TakeDigit
  <2> QED
    BY <1>1, <2>1, DigitStepWord DEF IsReferenceCrc
<1>4. CASE TakeRest
  BY <1>1, <1>4 DEF TakeRest, IsReferenceCrc
<1> QED
  BY <1>2, <1>3, <1>4 DEF Take

\* The lengths the places are told by.
LEMMA Lengths ==
    ASSUME IInv
    PROVE  /\ Len(sent) \in Nat /\ Len(received) \in Nat
           /\ sent = <<>> <=> Len(sent) = 0
           /\ received = <<>> <=> Len(received) = 0
           /\ digits \in -1..4 /\ sent_digits \in -1..4
           /\ Sent \in 0..4 /\ Read \in 0..4
<1>1. /\ sent \in Seq(SUBSET (0..7)) /\ received \in Seq(SUBSET (0..7))
      /\ digits \in -1..4 /\ sent_digits \in -1..4
  BY DEF IInv, TypeOK
<1>2. Sent \in 0..4 /\ Read \in 0..4
  BY <1>1 DEF Sent, Read
<1> QED
  BY <1>1, <1>2, LenProperties, EmptySeq

LEMMA SendBodyIInv ==
    ASSUME IInv, NEW char \in Char, NEW c \in Char, SendBody(char, c)
    PROVE  IInv'
<1> DEFINE m == Len(sent)
           n == m + 1
           byte == Bits(char)
           got == Bits(c)
<1>1. /\ byte \in SUBSET (0..7) /\ got \in SUBSET (0..7)
      /\ got = byte <=> c = char
  BY BitsOfChar
<1>2. /\ m \in Nat /\ Len(received) \in Nat
      /\ sent = <<>> <=> m = 0
      /\ received = <<>> <=> Len(received) = 0
      /\ digits \in -1..4
  BY Lengths
<1>3. /\ sent \in Seq(SUBSET (0..7)) /\ received \in Seq(SUBSET (0..7))
      /\ crc \in Word /\ sent_crc \in Word
      /\ sent_crc = ReferenceCrc(sent)
  BY DEF IInv, TypeOK
<1>4. /\ sent_digits = -1
      /\ sent = <<>> => char = StartSymbol
      /\ sent_crc' = ByteStep(sent_crc, byte)
      /\ sent' = Append(sent, byte)
      /\ sent_digits' = IF char = EndSymbol THEN 0 ELSE -1
      /\ errors' = IF c = char THEN errors ELSE errors \cup {n}
      /\ Take(c)
  BY DEF SendBody
<1>5. sent' \in Seq(SUBSET (0..7)) /\ Len(sent') = n /\ sent' # <<>>
  <2>1. sent' \in Seq(SUBSET (0..7)) /\ Len(sent') = n
    BY <1>1, <1>3, <1>4, AppendProperties
  <2> QED
    BY <1>2, <2>1, EmptySeq
<1>6. sent_crc' \in Word /\ sent_crc' = ReferenceCrc(sent')
  BY <1>1, <1>3, <1>4, ByteStepInjective, ByteStepIsReference
<1>7. Sent = 0 /\ Sent' = 0
  BY <1>4 DEF Sent
<1>8. errors \subseteq 1..m
  BY <1>2, <1>7 DEF IInv, ChangedPositions
<1>9. /\ errors' \subseteq 1..n /\ errors' \subseteq Nat
      /\ n \notin errors
      /\ n \in errors' <=> c # char
      /\ m > 0 => (1 \in errors' <=> 1 \in errors)
  <2>1. /\ errors \subseteq 1..n
        /\ errors \cup {n} \subseteq 1..n
        /\ 1..n \subseteq Nat
    BY <1>2, <1>8, NextPosition
  <2>2. n \notin 1..m /\ (m > 0 => n # 1)
    BY <1>2
  <2> HIDE DEF n, m
  <2> QED
    BY <1>4, <1>8, <2>1, <2>2
<1>10. TypeOK'
  BY <1>3, <1>4, <1>5, <1>6, <1>9, TakeKeeps DEF TypeOK
<1>11. ChangedPositions'
  BY <1>2, <1>5, <1>7, <1>9 DEF ChangedPositions
<1>12. IsReferenceCrc'
  BY <1>4, TakeKeeps
<1>13. CASE InStep
  <2>1. digits = -1 /\ Len(received) = m /\ TakeBody(c)
    BY <1>4, <1>13 DEF InStep, Take, TakeDigit, TakeRest
  <2>2. /\ crc' = ByteStep(crc, got)
        /\ received' = Append(received, got)
        /\ digits' = IF c = EndSymbol THEN 0 ELSE -1
        /\ parsed' = parsed
    BY <2>1 DEF TakeBody
  <2>3. /\ received' \in Seq(SUBSET (0..7)) /\ Len(received') = n /\ received' # <<>>
        /\ Len(received) > 0 => received'[1] = received[1]
        /\ Len(received) = 0 => received'[1] = got
    <3>1. received' \in Seq(SUBSET (0..7)) /\ Len(received') = n
      BY <1>1, <1>3, <2>1, <2>2, AppendProperties
    <3>2. received' # <<>>
      BY <1>2, <3>1, EmptySeq
    <3>3. Len(received) > 0 => received'[1] = received[1]
      <4>1. Len(received) > 0 => 1 \in 1..Len(received)
        BY <1>2
      <4> QED
        BY <1>1, <1>3, <2>2, <4>1, AppendProperties
    <3>4. Len(received) = 0 => received'[1] = got
      <4>1. Len(received) = 0 => Len(received) + 1 = 1
        OBVIOUS
      <4> QED
        BY <1>1, <1>3, <2>2, <4>1, AppendProperties
    <3> QED
      BY <3>1, <3>2, <3>3, <3>4
  <2>4. StartSeen'
    <3>1. CASE m = 0
      <4>1. errors = {}
        BY <1>8, <3>1
      <4>2. 1 \in errors' <=> c # char
        BY <1>9, <3>1
      <4> QED
        BY <1>1, <1>2, <1>4, <2>1, <2>3, <3>1, <4>2 DEF StartSeen
    <3>2. CASE m # 0
      <4>1. received # <<>> /\ Len(received) > 0 /\ m > 0
        BY <1>2, <2>1, <3>2
      <4>2. received[1] = Bits(StartSymbol) <=> 1 \notin errors
        BY <4>1 DEF IInv, StartSeen
      <4> QED
        BY <1>9, <2>3, <4>1, <4>2 DEF StartSeen
    <3> QED
      BY <3>1, <3>2
  <2>5. Places'
    <3>1. CASE char = EndSymbol /\ c = EndSymbol
      BY <1>4, <1>5, <1>9, <2>2, <2>3, <3>1 DEF Places, InStep
    <3>2. CASE char # EndSymbol /\ c = EndSymbol
      BY <1>2, <1>4, <1>5, <1>9, <2>2, <2>3, <3>2 DEF Places, PastFalseEnd
    <3>3. CASE char = EndSymbol /\ c # EndSymbol
      <4>1. Read' = 0
        BY <2>2, <3>3 DEF Read
      <4> QED
        BY <1>2, <1>4, <1>5, <1>7, <1>9, <2>2, <2>3, <3>3, <4>1 DEF Places, BehindLostEnd
    <3>4. CASE char # EndSymbol /\ c # EndSymbol
      BY <1>4, <1>5, <2>2, <2>3, <3>4 DEF Places, InStep
    <3> QED
      BY <3>1, <3>2, <3>3, <3>4
  <2>6. OneChangeIsNeverMasked'
    <3>1. InBody' = errors' /\ InBody = errors
      <4>1. InBody' = errors' \cap (1..n) /\ InBody = errors \cap (1..m)
        BY <1>5 DEF InBody
      <4> HIDE DEF n, m
      <4> QED
        BY <1>8, <1>9, <4>1
    <3>2. /\ errors = {} => crc = sent_crc
          /\ (\E i \in errors : errors = {i}) => crc # sent_crc
      BY <2>1, <3>1 DEF IInv, OneChangeIsNeverMasked
    <3>3. CASE c = char
      <4>1. errors' = errors /\ got = byte
        BY <1>4, <3>3
      <4>2. crc # sent_crc => crc' # sent_crc'
        <5>1. crc' = ByteStep(crc, byte) /\ sent_crc' = ByteStep(sent_crc, byte)
          BY <1>4, <2>2, <4>1
        <5> HIDE DEF byte
        <5> QED
          BY <1>1, <1>3, <5>1, ByteStepInjective
      <4> QED
        BY <1>4, <2>2, <3>1, <3>2, <4>1, <4>2 DEF OneChangeIsNeverMasked
    <3>4. CASE c # char
      <4>1. errors' = errors \cup {n}
        BY <1>4, <3>4
      <4>2. CASE errors = {}
        <5>1. crc' # sent_crc'
          BY <1>1, <1>3, <1>4, <2>2, <3>2, <3>4, <4>2, ByteStepInjective
        <5> QED
          BY <3>1, <4>1, <4>2, <5>1 DEF OneChangeIsNeverMasked
      <4>3. CASE errors # {}
        <5>1. errors' # {} /\ ~\E i \in errors' : errors' = {i}
          BY <1>9, <4>1, <4>3
        <5> QED
          BY <3>1, <5>1 DEF OneChangeIsNeverMasked
      <4> QED
        BY <4>2, <4>3
    <3> QED
      BY <3>3, <3>4
  <2>7. DigitsRead'
    <3>1. Read = 0 /\ Read' = 0
      BY <2>1, <2>2 DEF Read
    <3>2. parsed' = parsed /\ parsed = {}
      BY <1>13, <2>2, <3>1, NulloptAssumption DEF IInv, DigitsRead, Word
    <3> QED
      BY <3>1, <3>2, NulloptAssumption DEF DigitsRead, Word
  <2> QED
    BY <1>6, <1>10, <1>11, <1>12, <2>4, <2>5, <2>6, <2>7 DEF IInv
<1>14. CASE PastFalseEnd
  <2>1. digits \in 0..4 /\ Len(received) <= m
    BY <1>2, <1>14 DEF PastFalseEnd
  <2>2. received' = received /\ digits' >= 0 /\ digits' \in Int
    BY <1>4, <2>1 DEF Take, TakeBody, TakeDigit, TakeRest
  <2>3. Len(received') < Len(sent')
    BY <1>2, <1>5, <2>1, <2>2
  <2>4. StartSeen'
    <3>1. received # <<>> => m > 0
      BY <1>2 DEF IInv, Places
    <3> QED
      BY <1>9, <2>2, <3>1 DEF IInv, StartSeen
  <2>5. Places'
    <3>1. received' # <<>> /\ Len(received') \in errors'
      <4>1. received # <<>> /\ Len(received) \in errors
        BY <1>14, <1>2, <2>1 DEF IInv, Places, PastFalseEnd
      <4> QED
        BY <1>4, <2>2, <4>1
    <3> QED
      BY <1>2, <1>5, <2>2, <2>3, <3>1 DEF Places, PastFalseEnd, EndedEarly
  <2>6. OneChangeIsNeverMasked' /\ DigitsRead'
    <3>1. Len(received') # Len(sent')
      BY <1>2, <1>5, <2>1, <2>2
    <3> QED
      BY <3>1 DEF OneChangeIsNeverMasked, DigitsRead, InStep
  <2> QED
    BY <1>6, <1>10, <1>11, <1>12, <2>4, <2>5, <2>6 DEF IInv
<1>15. ~BehindLostEnd
  BY <1>4 DEF BehindLostEnd
<1> QED
  BY <1>13, <1>14, <1>15 DEF IInv, Places

\* A digit arrives in step with the meter.
LEMMA DigitInStep ==
    ASSUME IInv, NEW c \in Char, SendDigit(c), InStep
    PROVE  DigitsRead'
<1> DEFINE len == Len(sent)
           here == len + digits + 1
<1>1. /\ sent' = sent /\ sent_crc' = sent_crc
      /\ digits \in 0..3 /\ digits' = digits + 1 /\ sent_digits = digits
      /\ parsed' = DigitStep(parsed, c)
  BY DEF SendDigit, Take, TakeBody, TakeDigit, TakeRest, InStep
<1>2. len \in Nat /\ Read = digits /\ Read' = digits + 1 /\ Sent = digits
  BY <1>1, Lengths DEF Read, Sent
<1>3. errors \subseteq 1..(len + digits)
  BY <1>2 DEF IInv, ChangedPositions
<1>4. errors' = IF IsSentDigit(c) THEN errors ELSE errors \cup {here}
  BY <1>1 DEF SendDigit
<1> HIDE DEF len
<1>5. c \in 0..255
  BY DEF Char
<1>6. /\ \A k \in 0..(digits - 1) : len + k + 1 \in errors' <=> len + k + 1 \in errors
      /\ here \in errors' <=> ~IsSentDigit(c)
  <2>1. here \notin errors /\ \A k \in 0..(digits - 1) : len + k + 1 # here
    BY <1>1, <1>2, <1>3
  <2> HIDE DEF here
  <2> QED
    BY <1>4, <2>1
<1>7. SentDigit = Nibble(sent_crc, 3 - digits)
  BY <1>1 DEF SentDigit, Nibble
<1>8. CASE parsed # nullopt /\ IsHexDigit(c)
  <2>1. /\ parsed \subseteq 0..(4 * digits - 1)
        /\ \A k \in 0..(digits - 1) :
            len + k + 1 \in errors <=> Nibble(parsed, digits - 1 - k) # Nibble(sent_crc, 3 - k)
    BY <1>2, <1>8 DEF IInv, DigitsRead, len
  <2>2. /\ parsed' # nullopt
        /\ parsed' \subseteq 0..(4 * (digits + 1) - 1)
        /\ Nibble(parsed', 0) = BitsOf(HexValue(c))
        /\ \A k \in 0..(digits - 1) : Nibble(parsed', k + 1) = Nibble(parsed, k)
    BY <1>1, <1>5, <1>8, <2>1, DigitStepNibbles
  <2>3. ASSUME NEW k \in 0..(digits - 1)
        PROVE  len + k + 1 \in errors' <=> Nibble(parsed', digits - k) # Nibble(sent_crc, 3 - k)
    <3> DEFINE j == digits - 1 - k
    <3>1. j \in 0..(digits - 1) /\ j + 1 = digits - k
      BY <1>1
    <3>2. Nibble(parsed', j + 1) = Nibble(parsed, j)
      BY <2>2, <3>1
    <3> QED
      BY <1>6, <2>1, <3>1, <3>2
  <2>4. here \in errors' <=> Nibble(parsed', 0) # Nibble(sent_crc, 3 - digits)
    <3>1. IsSentDigit(c) <=> BitsOf(HexValue(c)) = SentDigit
      BY <1>5, <1>8, HexDigits DEF IsSentDigit
    <3> QED
      BY <1>6, <1>7, <2>2, <3>1
  <2>5. ASSUME NEW k \in 0..digits
        PROVE  len + k + 1 \in errors' <=> Nibble(parsed', digits - k) # Nibble(sent_crc, 3 - k)
    <3>1. CASE k = digits
      <4>1. digits - k = 0 /\ len + k + 1 = here
        BY <1>1, <3>1
      <4> QED
        BY <2>4, <3>1, <4>1
    <3>2. CASE k # digits
      <4>1. k \in 0..(digits - 1)
        BY <1>1, <3>2
      <4> QED
        BY <2>3, <4>1
    <3> QED
      BY <3>1, <3>2
  <2>6. Read' - 1 = digits /\ \A k \in 0..digits : Read' - 1 - k = digits - k
    BY <1>1, <1>2
  <2>7. \A k \in 0..(Read' - 1) : Len(sent') + k + 1 \in errors'
            <=> Nibble(parsed', Read' - 1 - k) # Nibble(sent_crc', 3 - k)
    BY <1>1, <2>5, <2>6 DEF len
  <2> QED
    BY <1>2, <2>2, <2>7 DEF DigitsRead
<1>9. CASE parsed = nullopt \/ ~IsHexDigit(c)
  <2>1. parsed' = nullopt
    BY <1>1, <1>9 DEF DigitStep
  <2>2. \E k \in 0..digits : len + k + 1 \in errors'
    <3>1. CASE parsed = nullopt
      <4>1. PICK k \in 0..(digits - 1) : len + k + 1 \in errors
        BY <1>2, <3>1 DEF IInv, DigitsRead, len
      <4>2. k \in 0..digits
        BY <1>1
      <4> QED
        BY <1>6, <4>1, <4>2
    <3>2. CASE ~IsHexDigit(c)
      <4>1. ~IsSentDigit(c)
        BY <1>5, <3>2, HexDigits DEF IsSentDigit
      <4>2. digits \in 0..digits
        BY <1>1
      <4> QED
        BY <1>6, <4>1, <4>2
    <3> QED
      BY <1>9, <3>1, <3>2
  <2>3. Read' - 1 = digits
    BY <1>1, <1>2
  <2>4. \E k \in 0..(Read' - 1) : Len(sent') + k + 1 \in errors'
    BY <1>1, <2>2, <2>3 DEF len
  <2> QED
    BY <2>1, <2>4 DEF DigitsRead
<1> QED
  BY <1>8, <1>9

\* A digit takes neither end to where the other one is, unless they are in step.
LEMMA SendDigitPlaces ==
    ASSUME IInv, NEW c \in Char, SendDigit(c)
    PROVE  /\ Places'
           /\ InStep' => InStep
           /\ Len(received') = Len(sent') => Len(received) = Len(sent) /\ crc' = crc
           /\ received # <<>> => received' # <<>> /\ received'[1] = received[1]
           /\ received # <<>>
<1> DEFINE m == Len(sent)
           r == Len(received)
<1>1. /\ m \in Nat /\ r \in Nat /\ digits \in -1..4
      /\ sent = <<>> <=> m = 0
      /\ received = <<>> <=> r = 0
      /\ received \in Seq(SUBSET (0..7))
  BY Lengths DEF IInv, TypeOK
<1>2. /\ sent_digits \in 0..3 /\ sent_digits' = sent_digits + 1 /\ sent' = sent
      /\ Sent = sent_digits /\ Sent' = sent_digits + 1
      /\ Take(c)
  BY DEF SendDigit, Sent
<1>3. sent # <<>> /\ received # <<>> /\ m > 0 /\ r > 0
  BY <1>1, <1>2 DEF IInv, Places
<1>4. errors \subseteq errors' /\ (m \in errors' => m \in errors)
  <2>1. m + sent_digits + 1 # m
    BY <1>1, <1>2
  <2> QED
    BY <2>1 DEF SendDigit
<1>5. CASE TakeBody(c)
  <2>1. digits = -1 /\ digits' \in {-1, 0} /\ Read = 0 /\ Read' = 0
    BY <1>5 DEF TakeBody, Read
  <2>2. BehindLostEnd
    BY <1>2, <2>1 DEF IInv, Places, InStep, PastFalseEnd
  <2>3. Len(received') = r + 1 /\ received'[1] = received[1]
    <3>1. Bits(c) \in SUBSET (0..7) /\ received' = Append(received, Bits(c))
      BY <1>5, BitsOfChar DEF TakeBody
    <3>2. 1 \in 1..r
      BY <1>1, <1>3
    <3> QED
      BY <1>1, <3>1, <3>2, AppendProperties
  <2>4. received' # <<>>
    BY <1>1, <2>3, EmptySeq
  <2>5. r = m + sent_digits /\ m \in errors
    BY <1>2, <1>1, <2>1, <2>2 DEF BehindLostEnd
  <2>6. BehindLostEnd'
    BY <1>1, <1>2, <1>4, <2>1, <2>3, <2>5 DEF BehindLostEnd
  <2>7. Len(received') # Len(sent')
    BY <1>1, <1>2, <2>3, <2>5
  <2> QED
    BY <1>2, <1>3, <2>3, <2>4, <2>6, <2>7 DEF Places, InStep
<1>6. CASE TakeDigit(c) \/ TakeRest
  <2>1. received' = received /\ crc' = crc /\ digits \in 0..4 /\ digits' \in digits..4
    BY <1>6 DEF TakeDigit, TakeRest
  <2>2. CASE InStep
    <3>1. digits' = sent_digits'
      BY <1>2, <1>6, <2>2 DEF InStep, TakeDigit, TakeRest
    <3>2. InStep'
      BY <1>2, <1>4, <2>1, <2>2, <3>1 DEF InStep
    <3> QED
      BY <1>2, <1>3, <2>1, <2>2, <3>2 DEF Places
  <2>3. CASE PastFalseEnd
    <3>1. r < m /\ r \in errors'
      BY <1>2, <1>4, <2>3 DEF PastFalseEnd, EndedEarly
    <3>2. PastFalseEnd' /\ ~InStep'
      BY <1>1, <1>2, <2>1, <3>1 DEF PastFalseEnd, EndedEarly, InStep
    <3> QED
      BY <1>1, <1>2, <1>3, <2>1, <3>1, <3>2 DEF Places
  <2>4. CASE BehindLostEnd
    <3>1. digits < sent_digits /\ m \in errors
      BY <2>4 DEF BehindLostEnd
    <3>2. digits' = digits + 1 /\ Read = digits /\ Read' = digits + 1
      BY <1>2, <1>6, <2>1, <3>1 DEF TakeDigit, TakeRest, Read
    <3>3. r + digits = m + sent_digits
      BY <1>2, <2>4, <3>2 DEF BehindLostEnd
    <3>4. BehindLostEnd' /\ ~InStep'
      BY <1>1, <1>2, <1>4, <2>1, <3>1, <3>2, <3>3 DEF BehindLostEnd, InStep
    <3>5. r # m
      BY <1>1, <1>2, <2>1, <3>1, <3>3
    <3> QED
      BY <1>2, <1>3, <2>1, <3>4, <3>5 DEF Places
  <2> QED
    BY <2>2, <2>3, <2>4 DEF IInv, Places
<1> QED
  BY <1>2, <1>5, <1>6 DEF Take

LEMMA SendDigitIInv ==
    ASSUME IInv, NEW c \in Char, SendDigit(c)
    PROVE  IInv'
<1> DEFINE m == Len(sent)
           here == m + sent_digits + 1
<1>1. /\ m \in Nat /\ sent_digits \in 0..3 /\ sent_digits' = sent_digits + 1
      /\ sent' = sent /\ sent_crc' = sent_crc
      /\ Sent = sent_digits /\ Sent' = sent_digits + 1
      /\ Take(c)
  BY Lengths DEF SendDigit, Sent
<1>2. errors' = errors \/ errors' = errors \cup {here}
  BY DEF SendDigit
<1>3. m > 0
  BY <1>1, Lengths DEF IInv, Places
<1>4. /\ errors' \subseteq 1..here /\ errors' \subseteq Nat
      /\ errors' \cap (1..m) = errors \cap (1..m)
      /\ 1 \in errors' <=> 1 \in errors
  <2> DEFINE k == m + sent_digits
  <2>1. k \in Nat /\ errors \in SUBSET (1..k) /\ m \in 0..k /\ here = k + 1
    BY <1>1 DEF IInv, ChangedPositions
  <2>2. /\ errors \subseteq 1..(k + 1)
        /\ errors \cup {k + 1} \subseteq 1..(k + 1)
        /\ 1..(k + 1) \subseteq Nat
        /\ \A j \in 0..k : (errors \cup {k + 1}) \cap (1..j) = errors \cap (1..j)
    BY <2>1, NextPosition
  <2>3. k + 1 # 1
    BY <1>1, <1>3
  <2> HIDE DEF k, here, m
  <2> QED
    BY <1>2, <2>1, <2>2, <2>3
<1>5. TypeOK'
  BY <1>1, <1>4, TakeKeeps DEF IInv, TypeOK
<1>6. ChangedPositions'
  <2>1. Len(sent') + Sent' = here
    BY <1>1
  <2> HIDE DEF here
  <2> QED
    BY <1>4, <2>1 DEF ChangedPositions
<1>7. StartSeen'
  BY <1>4, SendDigitPlaces DEF IInv, StartSeen
<1>8. OneChangeIsNeverMasked'
  BY <1>1, <1>4, SendDigitPlaces DEF IInv, OneChangeIsNeverMasked, InBody
<1>9. IsReferenceCrc' /\ sent_crc' = ReferenceCrc(sent')
  BY <1>1, TakeKeeps DEF IInv
<1>10. DigitsRead'
  BY DigitInStep, SendDigitPlaces DEF DigitsRead
<1> QED
  BY <1>5, <1>6, <1>7, <1>8, <1>9, <1>10, SendDigitPlaces DEF IInv

LEMMA NextIInv == IInv /\ [Next]_vars => IInv'
<1> SUFFICES ASSUME IInv, [Next]_vars PROVE IInv'
  OBVIOUS
<1>1. CASE UNCHANGED vars
  BY <1>1 DEF vars, IInv, TypeOK, ChangedPositions, StartSeen, Places, InStep, PastFalseEnd,
              EndedEarly, BehindLostEnd, OneChangeIsNeverMasked, InBody, IsReferenceCrc,
              DigitsRead, Read, Sent
<1>2. CASE Next
  BY <1>2, SendBodyIInv, SendDigitIInv DEF Next
<1> QED
  BY <1>1, <1>2

\* While a telegram arrives, calculate_crc16 and the digits read agree on it with the
\* telegram the meter sent, as far as it was not changed.
THEOREM Invariance == Spec => []IInv
  BY InitIInv, NextIInv, PTL DEF Spec

\* calculate_crc16 never maps two telegrams that differ in one byte to the same
\* value, whatever their length, the byte and its place.
THEOREM OneChangeDetected == Spec => []OneChangeIsNeverMasked
<1>1. IInv => OneChangeIsNeverMasked
  BY DEF IInv
<1> QED
  BY <1>1, Invariance, PTL

\* calculate_crc16 computes CRC-16/ARC, the remainder of the message divided by the
\* generator, of every body.
THEOREM RegisterIsReference == Spec => []IsReferenceCrc
<1>1. IInv => IsReferenceCrc
  BY DEF IInv
<1> QED
  BY <1>1, Invariance, PTL

-------------------------------------------------------------------------------
(* What to_crc's four digits say of the CRC that was sent *)

\* Four digits are the whole register.
LEMMA NibblesTell ==
    ASSUME NEW x \in Word, NEW y \in Word, \A k \in 0..3 : Nibble(x, 3 - k) = Nibble(y, 3 - k)
    PROVE  x = y
<1>1. ASSUME NEW k \in 0..3, NEW i \in 0..3
      PROVE  i + 4 * k \in x <=> i + 4 * k \in y
  <2>1. 3 - k \in 0..3 /\ 3 - (3 - k) = k
    OBVIOUS
  <2>2. Nibble(x, k) = Nibble(y, k)
    BY <2>1
  <2> QED
    BY <2>2 DEF Nibble
<1>2. ASSUME NEW j \in 0..15
      PROVE  j \in x <=> j \in y
  <2>1. \E k \in 0..3, i \in 0..3 : j = i + 4 * k
    <3>1. CASE j \in 0..3
      <4>1. j \in 0..3 /\ 0 \in 0..3 /\ j = j + 4 * 0
        BY <3>1
      <4> QED
        BY <4>1
    <3>2. CASE j \in 4..7
      <4>1. j - 4 \in 0..3 /\ 1 \in 0..3 /\ j = (j - 4) + 4 * 1
        BY <3>2
      <4> QED
        BY <4>1
    <3>3. CASE j \in 8..11
      <4>1. j - 8 \in 0..3 /\ 2 \in 0..3 /\ j = (j - 8) + 4 * 2
        BY <3>3
      <4> QED
        BY <4>1
    <3>4. CASE j \in 12..15
      <4>1. j - 12 \in 0..3 /\ 3 \in 0..3 /\ j = (j - 12) + 4 * 3
        BY <3>4
      <4> QED
        BY <4>1
    <3> QED
      BY <3>1, <3>2, <3>3, <3>4
  <2> QED
    BY <1>1, <2>1
<1> QED
  BY <1>2 DEF Word

\* In step with the meter, and with its four characters read, to_crc returns the CRC
\* that was sent exactly when the line changed none of them.
LEMMA ParsedIsSent ==
    ASSUME IInv, InStep, digits = 4
    PROVE  parsed = sent_crc <=> \A k \in 0..3 : Len(sent) + k + 1 \notin errors
<1>1. Read = 4 /\ Read - 1 = 3 /\ \A k \in 0..3 : Read - 1 - k = 3 - k
  BY DEF Read
<1>2. sent_crc \in Word /\ sent_crc # nullopt
  BY NulloptAssumption DEF IInv, TypeOK
<1>3. CASE parsed = nullopt
  BY <1>1, <1>2, <1>3 DEF IInv, DigitsRead
<1>4. CASE parsed # nullopt
  <2>1. parsed \in Word
    BY <1>4 DEF IInv, TypeOK
  <2>2. \A k \in 0..3 : Len(sent) + k + 1 \in errors
            <=> Nibble(parsed, 3 - k) # Nibble(sent_crc, 3 - k)
    BY <1>1, <1>4 DEF IInv, DigitsRead
  <2> QED
    BY <1>2, <2>1, <2>2, NibblesTell
<1> QED
  BY <1>3, <1>4

\* The registers and the parsed CRC stay sets of bits, the changed positions positions.
THEOREM TypeCorrect == Spec => []TypeOK
<1>1. IInv => TypeOK
  BY DEF IInv
<1> QED
  BY <1>1, Invariance, PTL

\* Whether from_bytes has read four digits of what it takes for the CRC.
LEMMA PlaceAtEnd ==
    ASSUME IInv, sent_digits = 4
    PROVE  /\ InStep => digits = 4 /\ Len(received) = Len(sent) /\ Len(sent) \notin errors
           /\ ~InStep => /\ EndedEarly \/ (digits # 4 /\ Len(sent) \in errors)
                         /\ errors # {}
<1>1. digits \in -1..4 /\ Len(sent) \in Nat /\ Len(received) \in Nat
  BY Lengths
<1>2. InStep => digits = 4 /\ Len(received) = Len(sent) /\ Len(sent) \notin errors
  BY DEF InStep
<1>3. PastFalseEnd => EndedEarly /\ errors # {}
  BY DEF PastFalseEnd
<1>4. BehindLostEnd => digits # 4 /\ Len(sent) \in errors
  BY <1>1 DEF BehindLostEnd
<1> QED
  BY <1>2, <1>3, <1>4 DEF IInv, Places

\* Telegram::from_bytes accepts every telegram that arrives as the meter sent it, of
\* any length and in either case of the hexadecimal digits.
THEOREM IntactTelegramsAreAccepted == Spec => []IntactIsAccepted
<1>1. IInv => IntactIsAccepted
  <2> SUFFICES ASSUME IInv, sent_digits = 4, errors = {} PROVE Accepted
    BY DEF IntactIsAccepted
  <2>1. InStep /\ digits = 4 /\ Len(received) = Len(sent)
    BY PlaceAtEnd
  <2>2. parsed = sent_crc
    BY <2>1, ParsedIsSent
  <2>3. crc = sent_crc
    BY <2>1 DEF IInv, OneChangeIsNeverMasked, InBody
  <2>4. parsed # nullopt
    BY <2>2, NulloptAssumption DEF IInv, TypeOK
  <2>5. received[1] = Bits(StartSymbol)
    BY <2>1 DEF IInv, Places, StartSeen
  <2> QED
    BY <2>1, <2>2, <2>3, <2>4, <2>5 DEF Accepted
<1> QED
  BY <1>1, Invariance, PTL

\* Telegram::from_bytes rejects every telegram, of any length, whose '/' was changed;
\* and unless the line made a '!' before the meter's, every one whose '!' was, or one
\* character of its CRC, or bits of its body no more than 16 apart or of an odd number.
THEOREM ErrorsAreDetected == Spec => []ErrorIsDetected
<1>1. IInv => ErrorIsDetected
  <2> SUFFICES ASSUME IInv, sent_digits = 4, Accepted
               PROVE  /\ 1 \notin errors
                      /\ EndedEarly \/ /\ Len(sent) \notin errors
                                       /\ InBody = {} => ~\E i \in errors : errors = {i}
                                       /\ errors = InBody => /\ ~IsBurst(Flipped)
                                                             /\ Cardinality(Flipped) % 2 # 1
    BY DEF ErrorIsDetected
  <2>1. 1 \notin errors
    BY DEF Accepted, IInv, Places, StartSeen
  <2>2. SUFFICES ASSUME ~EndedEarly
                 PROVE  /\ Len(sent) \notin errors
                        /\ InBody = {} => ~\E i \in errors : errors = {i}
                        /\ errors = InBody => ~IsBurst(Flipped) /\ Cardinality(Flipped) % 2 # 1
    BY <2>1
  <2> DEFINE len == Len(sent)
             n == 8 * len
             inCrc == \E k \in 0..3 : len + k + 1 \in errors
  <2>3. InStep /\ digits = 4 /\ Len(received) = len /\ len \notin errors
    BY <2>2, PlaceAtEnd DEF Accepted
  <2>4. /\ sent \in Seq(SUBSET (0..7)) /\ received \in Seq(SUBSET (0..7))
        /\ len \in Nat
    BY Lengths DEF IInv, TypeOK
  <2>5. errors \subseteq 1..(len + 4)
    BY DEF IInv, ChangedPositions, Sent
  <2>6. parsed = sent_crc <=> ~inCrc
    BY <2>3, ParsedIsSent
  <2>7. parsed = crc
    BY DEF Accepted
  <2>8. ASSUME InBody = {}, NEW i \in errors
        PROVE  FALSE
    <3>1. i \in 1..(len + 4) /\ i \notin 1..len
      BY <2>5, <2>8 DEF InBody
    <3>2. i - len - 1 \in 0..3 /\ i = len + (i - len - 1) + 1
      BY <2>4, <3>1
    <3>3. inCrc
      BY <3>2
    <3>4. crc = sent_crc
      BY <2>3, <2>8 DEF IInv, OneChangeIsNeverMasked
    <3> QED
      BY <2>6, <2>7, <3>3, <3>4
  <2>9. ASSUME errors = InBody
        PROVE  ~IsBurst(Flipped) /\ Cardinality(Flipped) % 2 = 0
    <3>1. ~inCrc
      BY <2>4, <2>9 DEF InBody
    <3>2. ReferenceCrc(sent) = ReferenceCrc(received)
      BY <2>6, <2>7, <3>1 DEF IInv, IsReferenceCrc
    <3>3. /\ n \in Nat /\ LineBits(sent) \subseteq Nat /\ LineBits(received) \subseteq Nat
          /\ IsRemainder(LineBits(sent), ReferenceCrc(sent), n)
          /\ IsRemainder(LineBits(received), ReferenceCrc(received), n)
      <4>1. /\ IsRemainder(LineBits(sent), ReferenceCrc(sent), n)
            /\ IsRemainder(LineBits(received), ReferenceCrc(received), n)
        BY <2>3, <2>4, ReferenceIsRemainder
      <4>2. LineBits(sent) \subseteq Nat /\ LineBits(received) \subseteq Nat
        <5>1. LineBits(sent) \subseteq 0..(n - 1) /\ LineBits(received) \subseteq 0..(n - 1)
          BY <2>3, <2>4, LineBitsOfBody
        <5>2. 0..(n - 1) \subseteq Nat
          OBVIOUS
        <5> QED
          BY <5>1, <5>2
      <4> QED
        BY <2>4, <4>1, <4>2
    <3> HIDE DEF n
    <3> QED
      BY <3>2, <3>3, BurstChangesRemainder, OddChangesRemainder DEF Flipped
  <2>10. Cardinality(Flipped) % 2 = 0 => Cardinality(Flipped) % 2 # 1
    OBVIOUS
  <2> QED
    BY <2>3, <2>8, <2>9, <2>10
<1> QED
  BY <1>1, Invariance, PTL
===============================================================================
