----------------------------- MODULE BaudProofs -----------------------------
(***************************************************************************)
(* Proof that baud_divisors rounds right, for every clock and every baud.  *)
(***************************************************************************)
EXTENDS BaudDivisors, TLAPS

USE ClockAssumption, BaudsAssumption

\* Division rounds down, by less than the divisor.
LEMMA Quotient ==
    ASSUME NEW a \in Nat, NEW b \in Nat \ {0}
    PROVE  /\ a \div b \in Nat
           /\ (a \div b) * b <= a
           /\ a < (a \div b) * b + b
  BY SMTT(30)

\* Adding half the divisor before dividing rounds to the nearest.
LEMMA Rounding ==
    ASSUME NEW b \in Nat \ {0}
    PROVE  /\ Scaled(b) \in Nat
           /\ 2 * (Scaled(b) * b) <= 8 * Clock + b
           /\ 8 * Clock <= 2 * (Scaled(b) * b) + b
<1> DEFINE half == b \div 2
           sum == 4 * Clock + half
<1>1. half \in Nat /\ 2 * half <= b /\ b <= 2 * half + 1
  OBVIOUS
<1>2. sum \in Nat /\ Scaled(b) = sum \div b
  BY <1>1 DEF Scaled
<1> HIDE DEF half
<1>3. sum \div b \in Nat /\ (sum \div b) * b <= sum /\ sum < (sum \div b) * b + b
  BY <1>2, Quotient
<1> DEFINE product == Scaled(b) * b
<1>4. product \in Nat /\ product <= sum /\ sum < product + b
  BY <1>2, <1>3
<1> HIDE DEF product
<1>5. 2 * product <= 8 * Clock + b /\ 8 * Clock <= 2 * product + b
  BY <1>1, <1>4
<1> QED
  BY <1>2, <1>3, <1>5 DEF product

\* A multiple of b that exceeds 63 * b is at least 64 * b.
LEMMA AtLeast ==
    ASSUME NEW s \in Nat, NEW b \in Nat \ {0}, s < 64
    PROVE  s * b <= 63 * b
  OBVIOUS

LEMMA AtMost ==
    ASSUME NEW s \in Nat, NEW b \in Nat \ {0}, s > MaxInteger * 64
    PROVE  (MaxInteger * 64 + 1) * b <= s * b
  BY DEF MaxInteger

\* The registers hold the whole and the part of a number of 64ths.
LEMMA WholeAndPart ==
    ASSUME NEW n \in Nat
    PROVE  /\ n \div 64 \in Nat
           /\ n % 64 \in 0 .. 63
           /\ 64 * (n \div 64) + (n % 64) = n
  BY SMTT(30)

\* Between one whole and m wholes, only m itself is reached without a part.
LEMMA WholeInRange ==
    ASSUME NEW w \in Nat, NEW p \in 0 .. 63, NEW m \in Nat,
           64 <= 64 * w + p, 64 * w + p <= m * 64
    PROVE  w \in 1 .. m /\ (w = m => p = 0)
<1>1. w >= 1
  OBVIOUS
<1>2. w <= m /\ (w = m => p = 0)
  OBVIOUS
<1> QED
  BY <1>1, <1>2

\* What baud_divisors answers to one request.
LEMMA AnswerNearest ==
    ASSUME NEW b \in Nat, baud = b, divisors = Divisors(b)
    PROVE  DivisorNearest
<1> DEFINE s == Scaled(b)
           product == s * b
<1>1. CASE b = 0
  BY <1>1 DEF Divisors, DivisorNearest, None
<1>2. CASE b # 0 /\ b > Clock \div 16
  <2>1. 16 * b > Clock
    BY <1>2
  <2> QED
    BY <1>2, <2>1 DEF Divisors, DivisorNearest, None
<1>3. CASE b # 0 /\ b <= Clock \div 16
  <2>1. 16 * b <= Clock
    BY <1>3
  <2>2. s \in Nat /\ product \in Nat /\ 2 * product <= 8 * Clock + b /\ 8 * Clock <= 2 * product + b
    BY <1>3, Rounding
  <2>3. s >= 64
    <3>1. CASE s < 64
      <4>1. product <= 63 * b
        BY <1>3, <2>2, <3>1, AtLeast
      <4> QED
        BY <1>3, <2>1, <2>2, <4>1
    <3> QED
      BY <2>2, <3>1
  <2>4. CASE InRange(s)
    <3> DEFINE whole == s \div 64
               part == s % 64
    <3>1. divisors = [integer |-> whole, fraction |-> part]
      BY <1>3, <2>4 DEF Divisors
    <3> HIDE DEF s
    <3>2. 2 * Off(s) <= b
      BY <1>3, <2>2 DEF Off
    <3>3. s \in Nat /\ 64 <= s /\ s <= MaxInteger * 64
      BY <2>2, <2>4 DEF InRange
    <3>4. whole \in Nat /\ part \in 0 .. 63 /\ 64 * whole + part = s
      BY <3>3, WholeAndPart
    <3> HIDE DEF whole, part, product
    <3>5. MaxInteger \in Nat
      BY DEF MaxInteger
    <3>6. whole \in 1 .. MaxInteger /\ (whole = MaxInteger => part = 0)
      BY <3>3, <3>4, <3>5, WholeInRange
    <3>7. divisors.integer = whole /\ divisors.fraction = part
      BY <3>1
    <3>8. Combined = s
      BY <3>4, <3>7 DEF Combined
    <3>9. 2 * Off(Combined) <= baud
      BY <3>2, <3>8
    <3>10. divisors # None
      BY <3>6, <3>7 DEF None
    <3>11. divisors.integer \in 1 .. MaxInteger /\ divisors.fraction \in 0 .. 63
      BY <3>4, <3>6, <3>7
    <3>12. divisors.integer = MaxInteger => divisors.fraction = 0
      BY <3>6, <3>7
    <3> QED
      BY <3>9, <3>10, <3>11, <3>12 DEF DivisorNearest
  <2>5. CASE ~InRange(s)
    <3>1. divisors = None
      BY <2>5 DEF Divisors
    <3>2. s > MaxInteger * 64
      BY <2>2, <2>3, <2>5 DEF InRange, MaxInteger
    <3>3. (MaxInteger * 64 + 1) * b <= product
      BY <1>3, <2>2, <3>2, AtMost
    <3>4. (2 * MaxInteger * 64 + 1) * b <= 8 * Clock
      BY <1>3, <2>2, <3>3 DEF MaxInteger
    <3> QED
      BY <3>1, <3>4 DEF DivisorNearest
  <2> QED
    BY <2>4, <2>5
<1> QED
  BY <1>1, <1>2, <1>3

\* The state holds the last request and the answer to it.
AnswerInv == baud \in Nat /\ divisors = Divisors(baud)

\* Every answer of baud_divisors is the nearest divisor of its baud, and every
\* refusal is due.
THEOREM DivisorsAreNearest == Spec => []DivisorNearest
<1>1. Init => AnswerInv
  BY DEF Init, AnswerInv, Divisors
<1>2. AnswerInv /\ [Next]_vars => AnswerInv'
  <2> SUFFICES ASSUME AnswerInv, [Next]_vars PROVE AnswerInv'
    OBVIOUS
  <2>1. ASSUME NEW b \in Bauds, Ask(b) PROVE AnswerInv'
    BY <2>1 DEF Ask, AnswerInv, Divisors, Scaled
  <2>2. CASE UNCHANGED vars
    BY <2>2 DEF vars, AnswerInv, Divisors, Scaled
  <2> QED
    BY <2>1, <2>2 DEF Next
<1>3. AnswerInv => DivisorNearest
  BY AnswerNearest DEF AnswerInv
<1> QED
  BY <1>1, <1>2, <1>3, PTL DEF Spec
=============================================================================
