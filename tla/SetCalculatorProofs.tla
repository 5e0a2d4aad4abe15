-------------------------- MODULE SetCalculatorProofs --------------------------
(***************************************************************************)
(* For every session, set of names, and size of the line that the array    *)
(* can hold in four bytes a number: a line is executed exactly if it is a  *)
(* command of the language, and does to the sets what it says; the second  *)
(* scan of a line meets only numbers that a set can have, and the array    *)
(* never catches up with it.                                               *)
(***************************************************************************)
EXTENDS SetCalculator, SequenceTheorems, WellFoundedInduction, TLAPS

-----------------------------------------------------------------------------
(* Induction over sets of numbers, and recursion by it *)

\* A set of natural numbers that is not empty has a least one.
LEMMA LeastNumber ==
  ASSUME NEW T, T \subseteq Nat, T # {}
  PROVE  \E x \in T : \A y \in T : x <= y
<1>1. PICK x \in T : \A y \in T : <<y, x>> \notin OpToRel(<, Nat)
  BY WFMin, NatLessThanWellFounded, Zenon
<1>2. \A y \in T : ~(y < x)
  BY <1>1, Zenon DEF OpToRel
<1> QED  BY <1>2

\* What holds of 0, and with a number of the next one, holds of all.
LEMMA Induction ==
  ASSUME NEW T, 0 \in T, \A n \in Nat : n \in T => n + 1 \in T
  PROVE  \A n \in Nat : n \in T
<1> SUFFICES ASSUME NEW n \in Nat, n \notin T PROVE FALSE
  OBVIOUS
<1>1. PICK x \in Nat \ T : \A y \in Nat \ T : x <= y
  <2>1. Nat \ T \subseteq Nat /\ Nat \ T # {}
    OBVIOUS
  <2>2. QED  BY <2>1, LeastNumber, Zenon
<1>2. x # 0 /\ x - 1 \in Nat /\ x - 1 \in T
  BY <1>1
<1>3. QED  BY <1>1, <1>2

\* A recursion over the numbers up to a bound has a solution.
LEMMA Recursion ==
  ASSUME NEW S, NEW a \in S, NEW bound \in Nat,
         NEW step \in [1 .. bound -> [S -> S]]
  PROVE  \E g \in [0 .. bound -> S] :
           g[0] = a /\ \A p \in 1 .. bound : g[p] = step[p][g[p - 1]]
<1> DEFINE G(n) == {g \in [0 .. n -> S] :
                       /\ g[0] = a
                       /\ \A p \in 1 .. n : g[p] = step[p][g[p - 1]]}
           T == {n \in Nat : n <= bound => G(n) # {}}
<1>1. 0 \in T
  <2>1. [p \in 0 .. 0 |-> a] \in G(0)
    OBVIOUS
  <2> HIDE DEF G
  <2>2. QED  BY <2>1
<1>2. ASSUME NEW n \in Nat, n \in T
      PROVE  n + 1 \in T
  <2> SUFFICES ASSUME n + 1 <= bound PROVE \E h : h \in G(n + 1)
    OBVIOUS
  <2>1. PICK g : g \in G(n)
    <3> HIDE DEF G
    <3>1. QED  BY <1>2
  <2>2. /\ g[0] = a
        /\ \A p \in 0 .. n : g[p] \in S
        /\ \A p \in 1 .. n : g[p] = step[p][g[p - 1]]
    BY <2>1
  <2> HIDE DEF G
  <2> DEFINE h == [p \in 0 .. n + 1 |-> IF p = n + 1 THEN step[n + 1][g[n]] ELSE g[p]]
  <2>3. step[n + 1][g[n]] \in S
    <3>1. n + 1 \in 1 .. bound /\ g[n] \in S
      BY <2>2
    <3>2. QED  BY <3>1
  <2>4. h \in [0 .. n + 1 -> S]
    BY <2>2, <2>3
  <2>5. \A p \in 0 .. n : h[p] = g[p]
    OBVIOUS
  <2>6. h[n + 1] = step[n + 1][g[n]]
    OBVIOUS
  <2> HIDE DEF h
  <2>7. ASSUME NEW p \in 1 .. n + 1
        PROVE  h[p] = step[p][h[p - 1]]
    <3>1. CASE p = n + 1
      BY <3>1, <2>5, <2>6
    <3>2. CASE p # n + 1
      <4>1. p \in 1 .. n /\ p \in 0 .. n /\ p - 1 \in 0 .. n
        BY <3>2
      <4>2. QED  BY <4>1, <2>2, <2>5
    <3>3. QED  BY <3>1, <3>2
  <2>8. h[0] = a
    BY <2>2, <2>5
  <2>9. h \in G(n + 1)
    BY <2>4, <2>7, <2>8 DEF G
  <2>10. QED  BY <2>9
<1>3. bound \in T
  <2> HIDE DEF T
  <2>1. QED  BY <1>1, <1>2, Induction
<1>4. PICK g : g \in G(bound)
  <2> HIDE DEF G
  <2>1. QED  BY <1>3
<1>5. QED  BY <1>4

-----------------------------------------------------------------------------
(* What strings of digits and arrays of numbers come to *)

LEMMA DigitsHaveValues == \A c \in Digit : DigitOf(c) \in 0 .. 9
<1> SUFFICES ASSUME NEW c \in Digit PROVE DigitOf(c) \in 0 .. 9
  OBVIOUS
<1>1. \E d \in 0 .. 9 : Digits[d + 1] = c
  <2>1. PICK d \in 1 .. 10 : Digits[d] = c
    BY Zenon DEF Digit
  <2>2. d - 1 \in 0 .. 9 /\ (d - 1) + 1 = d
    OBVIOUS
  <2>3. QED  BY <2>1, <2>2, Zenon
<1>2. QED  BY <1>1, Zenon DEF DigitOf

LEMMA TenTimes ==
  ASSUME NEW v \in Nat, NEW d \in 0 .. 9
  PROVE  10 * v + d \in Nat /\ (v <= 9 => 10 * v + d <= 99)
OBVIOUS

\* What up to three digits come to.
LEMMA ValueKnown ==
  ASSUME NEW digits, digits \in Seq(Digit)
  PROVE  /\ Value(digits) \in Nat
         /\ Len(digits) = 0 => Value(digits) = 0
         /\ Len(digits) = 1 => Value(digits) = DigitOf(digits[1])
         /\ Len(digits) = 2 => Value(digits) = 10 * DigitOf(digits[1]) + DigitOf(digits[2])
         /\ Len(digits) = 3 =>
              Value(digits) = 10 * (10 * DigitOf(digits[1]) + DigitOf(digits[2]))
                                + DigitOf(digits[3])
<1> DEFINE L == Len(digits)
           step == [n \in 1 .. L |-> [v \in Nat |-> 10 * v + DigitOf(digits[n])]]
           R(f) == [n \in 0 .. L |-> IF n = 0 THEN 0 ELSE 10 * f[n - 1] + DigitOf(digits[n])]
           value == CHOOSE f : f = R(f)
<1>0. L \in Nat
  OBVIOUS
<1>1. L \in Nat /\ \A n \in 1 .. L : DigitOf(digits[n]) \in 0 .. 9
  BY DigitsHaveValues
<1>2. Value(digits) = value[L]
  BY Zenon DEF Value
<1> HIDE DEF L
<1>3. step \in [1 .. L -> [Nat -> Nat]]
  BY <1>1
<1>4. PICK g \in [0 .. L -> Nat] :
        g[0] = 0 /\ \A p \in 1 .. L : g[p] = step[p][g[p - 1]]
  <2> DEFINE S == Nat
             first == 0
  <2>1. step \in [1 .. L -> [S -> S]] /\ first \in S
    BY <1>3
  <2> HIDE DEF step, S, first
  <2>2. \E g \in [0 .. L -> S] :
          g[0] = first /\ \A p \in 1 .. L : g[p] = step[p][g[p - 1]]
    BY <1>0, <2>1, Recursion
  <2>3. QED  BY <2>2 DEF S, first
<1>5. g = R(g)
  <2>1. ASSUME NEW p \in 0 .. L
        PROVE  g[p] = R(g)[p]
    <3>1. CASE p = 0
      BY <1>1, <1>4, <3>1
    <3>2. CASE p # 0
      <4>1. p \in 1 .. L /\ p - 1 \in 0 .. L
        BY <1>1, <3>2
      <4>2. g[p - 1] \in Nat
        BY <1>4, <4>1
      <4>3. QED  BY <1>4, <3>2, <4>1, <4>2
    <3>3. QED  BY <3>1, <3>2
  <2>2. R(g) = [p \in 0 .. L |-> R(g)[p]]
    OBVIOUS
  <2>3. g = [p \in 0 .. L |-> g[p]]
    BY <1>4
  <2> HIDE DEF R
  <2>4. QED  BY <2>1, <2>2, <2>3, Zenon
<1>6. value = R(value)
  <2> HIDE DEF R
  <2>1. QED  BY <1>5, Zenon
<1>7. \A p \in 0 .. L :
        value[p] = IF p = 0 THEN 0 ELSE 10 * value[p - 1] + DigitOf(digits[p])
  <2> HIDE DEF value
  <2>1. \A p \in 0 .. L : value[p] = R(value)[p]
    BY <1>6, Zenon
  <2>2. QED  BY <2>1, Zenon
<1> HIDE DEF value, R
<1>8. value[0] = 0 /\ \A p \in 1 .. L : value[p] = 10 * value[p - 1] + DigitOf(digits[p])
  BY <1>1, <1>7
<1>9. \A n \in Nat : n <= L => value[n] \in Nat
  <2> DEFINE T == {n \in Nat : n <= L => value[n] \in Nat}
  <2>1. 0 \in T
    BY <1>8
  <2>2. ASSUME NEW n \in Nat, n \in T
        PROVE  n + 1 \in T
    <3> SUFFICES ASSUME n + 1 <= L PROVE value[n + 1] \in Nat
      OBVIOUS
    <3>1. n + 1 \in 1 .. L /\ value[n] \in Nat /\ (n + 1) - 1 = n
      BY <1>1, <2>2
    <3>2. value[n + 1] = 10 * value[n] + DigitOf(digits[n + 1])
      BY <1>8, <3>1
    <3>3. DigitOf(digits[n + 1]) \in 0 .. 9
      BY <1>1, <3>1
    <3>4. QED  BY <3>1, <3>2, <3>3, TenTimes
  <2> HIDE DEF T
  <2>3. \A n \in Nat : n \in T
    BY <2>1, <2>2, Induction
  <2>4. QED  BY <2>3 DEF T
<1>10. value[L] \in Nat
  BY <1>1, <1>9
<1>11. L \in 1 .. 3 => value[1] = DigitOf(digits[1])
  <2>1. L \in 1 .. 3 => value[1] = 10 * value[0] + DigitOf(digits[1])
    BY <1>8
  <2>2. L \in 1 .. 3 => DigitOf(digits[1]) \in 0 .. 9
    BY <1>1
  <2>3. QED  BY <1>8, <2>1, <2>2
<1>12. L \in 2 .. 3 => value[2] = 10 * DigitOf(digits[1]) + DigitOf(digits[2])
  <2> SUFFICES ASSUME L \in 2 .. 3
               PROVE  value[2] = 10 * DigitOf(digits[1]) + DigitOf(digits[2])
    OBVIOUS
  <2>1. value[2] = 10 * value[2 - 1] + DigitOf(digits[2])
    BY <1>8
  <2>2. value[2 - 1] = DigitOf(digits[1])
    BY <1>11
  <2>3. QED  BY <2>1, <2>2
<1>13. L = 3 => value[3] = 10 * (10 * DigitOf(digits[1]) + DigitOf(digits[2])) + DigitOf(digits[3])
  <2> SUFFICES ASSUME L = 3
               PROVE  value[3] = 10 * (10 * DigitOf(digits[1]) + DigitOf(digits[2]))
                                   + DigitOf(digits[3])
    OBVIOUS
  <2>1. value[3] = 10 * value[3 - 1] + DigitOf(digits[3])
    BY <1>8
  <2>2. value[3 - 1] = 10 * DigitOf(digits[1]) + DigitOf(digits[2])
    BY <1>12
  <2>3. QED  BY <2>1, <2>2
<1>14. QED
  <2>1. /\ L = 1 => value[L] = DigitOf(digits[1])
        /\ L = 2 => value[L] = 10 * DigitOf(digits[1]) + DigitOf(digits[2])
        /\ L = 3 =>
             value[L] = 10 * (10 * DigitOf(digits[1]) + DigitOf(digits[2])) + DigitOf(digits[3])
    BY <1>11, <1>12, <1>13
  <2>2. QED  BY <1>2, <1>8, <1>10, <2>1 DEF L

\* Few digits make a small number.
LEMMA ValueBounded ==
  ASSUME NEW digits, digits \in Seq(Digit)
  PROVE  /\ Value(digits) \in Nat
         /\ Len(digits) = 0 => Value(digits) = 0
         /\ Len(digits) = 1 => Value(digits) <= 9
         /\ Len(digits) = 2 => Value(digits) <= 99
<1>1. PICK v, a, b : v = Value(digits) /\ a = DigitOf(digits[1]) /\ b = DigitOf(digits[2])
  OBVIOUS
<1>2. /\ Len(digits) = 1 => a \in 0 .. 9
      /\ Len(digits) = 2 => a \in 0 .. 9 /\ b \in 0 .. 9
  BY <1>1, DigitsHaveValues
<1>3. /\ v \in Nat
      /\ Len(digits) = 0 => v = 0
      /\ Len(digits) = 1 => v = a
      /\ Len(digits) = 2 => v = 10 * a + b
  BY <1>1, ValueKnown, Zenon
<1>4. v \in Nat /\ (Len(digits) = 0 => v = 0) /\ (Len(digits) = 1 => v <= 9)
  BY <1>2, <1>3
<1>5. Len(digits) = 2 => v <= 99
  <2> SUFFICES ASSUME Len(digits) = 2 PROVE v <= 99
    OBVIOUS
  <2>1. a \in 0 .. 9 /\ b \in 0 .. 9 /\ v = 10 * a + b
    BY <1>2, <1>3
  <2>2. QED  BY <2>1
<1>6. QED  BY <1>1, <1>4, <1>5, Zenon

SetType == [0 .. NUM_OF_BYTES - 1 -> SUBSET (0 .. SIZE_OF_BYTE - 1)]

LEMMA BitSet ==
  ASSUME NEW s \in SetType, NEW n \in 0 .. NUM_OF_BITS - 1
  PROVE  SetBitOn(s, n) \in SetType
<1>1. n \div SIZE_OF_BYTE \in 0 .. NUM_OF_BYTES - 1 /\ n % SIZE_OF_BYTE \in 0 .. SIZE_OF_BYTE - 1
  BY DEF SIZE_OF_BYTE, NUM_OF_BYTES, NUM_OF_BITS
<1>2. s[n \div SIZE_OF_BYTE] \union {n % SIZE_OF_BYTE} \in SUBSET (0 .. SIZE_OF_BYTE - 1)
  BY <1>1 DEF SetType
<1>3. QED  BY <1>1, <1>2, Zenon DEF SetType, SetBitOn

\* What the array of numbers may hold.
Storable == -1 .. NUM_OF_BITS - 1
Numbers == Seq(Storable)

LEMMA SetsStepByStep ==
  ASSUME EmptySet \in SetType
  PROVE  \A bound \in Nat : \A step \in [1 .. bound -> [SetType -> SetType]] :
           \E g \in [0 .. bound -> SetType] :
             g[0] = EmptySet /\ \A p \in 1 .. bound : g[p] = step[p][g[p - 1]]
BY Recursion, SMT

\* A set is read from the numbers before the first -1, whatever follows it, one
\* bit after the other.
ReadBy(numbers, end, g) ==
  /\ end = Len(numbers) \/ numbers[end + 1] = -1
  /\ \A k \in 1 .. end : numbers[k] \in 0 .. NUM_OF_BITS - 1
  /\ g[0] = EmptySet
  /\ \A i \in 1 .. end : g[i - 1] \in SetType /\ g[i] = SetBitOn(g[i - 1], numbers[i])
  /\ g[end] \in SetType /\ ReadSet(numbers) = g[end]

LEMMA SetReadBy ==
  ASSUME NEW numbers, numbers \in Numbers
  PROVE  \E end \in 0 .. Len(numbers) : \E g : ReadBy(numbers, end, g)
<1> DEFINE Ends(e) == /\ e = Len(numbers) \/ numbers[e + 1] = -1
                      /\ \A k \in 1 .. e : numbers[k] # -1
           end == CHOOSE e \in 0 .. Len(numbers) : Ends(e)
           R(f) == [i \in 0 .. end |->
                      IF i = 0 THEN EmptySet ELSE SetBitOn(f[i - 1], numbers[i])]
           s == CHOOSE f : f = R(f)
<1>1. Len(numbers) \in Nat
  BY DEF Numbers
<1>2. end \in 0 .. Len(numbers) /\ Ends(end)
  <2> DEFINE T == {e \in 0 .. Len(numbers) : e = Len(numbers) \/ numbers[e + 1] = -1}
  <2>1. T \subseteq Nat /\ Len(numbers) \in T
    BY <1>1
  <2> HIDE DEF T
  <2>2. PICK e \in T : \A y \in T : e <= y
    BY <2>1, LeastNumber
  <2>3. e \in 0 .. Len(numbers) /\ (e = Len(numbers) \/ numbers[e + 1] = -1)
    BY <2>2 DEF T
  <2>4. \A k \in 1 .. e : numbers[k] # -1
    <3> SUFFICES ASSUME NEW k \in 1 .. e, numbers[k] = -1 PROVE FALSE
      OBVIOUS
    <3>1. k - 1 \in 0 .. Len(numbers) /\ (k - 1) + 1 = k /\ ~(e <= k - 1)
      BY <1>1, <2>3
    <3>2. k - 1 \in T
      BY <3>1 DEF T
    <3>3. QED  BY <2>2, <3>1, <3>2
  <2>5. \E x \in 0 .. Len(numbers) : Ends(x)
    BY <2>3, <2>4
  <2> HIDE DEF Ends
  <2>6. QED  BY <2>5, Zenon
<1>3. \A k \in 1 .. end : numbers[k] \in 0 .. NUM_OF_BITS - 1
  <2> HIDE DEF end
  <2>1. \A k \in 1 .. end : k \in 1 .. Len(numbers) /\ numbers[k] # -1
    BY <1>1, <1>2
  <2>2. \A k \in 1 .. Len(numbers) : numbers[k] \in Storable
    BY ElementOfSeq DEF Numbers
  <2>3. \A n \in Storable : n # -1 => n \in 0 .. NUM_OF_BITS - 1
    BY DEF Storable, NUM_OF_BITS
  <2>4. QED  BY <2>1, <2>2, <2>3
<1>4. ReadSet(numbers) = s[end]
  BY Zenon DEF ReadSet
<1> HIDE DEF end
<1>5. end \in Nat
  BY <1>1, <1>2
<1> DEFINE step == [n \in 1 .. end |-> [t \in SetType |-> SetBitOn(t, numbers[n])]]
<1>6. step \in [1 .. end -> [SetType -> SetType]]
  BY <1>3, BitSet
<1>7. EmptySet \in SetType
  BY DEF EmptySet, SetType
<1>8. PICK g \in [0 .. end -> SetType] :
        g[0] = EmptySet /\ \A p \in 1 .. end : g[p] = step[p][g[p - 1]]
  <2> HIDE DEF step, s, R, Ends
  <2>1. \A bound \in Nat : \A next \in [1 .. bound -> [SetType -> SetType]] :
          \E g \in [0 .. bound -> SetType] :
            g[0] = EmptySet /\ \A p \in 1 .. bound : g[p] = next[p][g[p - 1]]
    BY <1>7, SetsStepByStep
  <2>2. \A next \in [1 .. end -> [SetType -> SetType]] :
          \E g \in [0 .. end -> SetType] :
            g[0] = EmptySet /\ \A p \in 1 .. end : g[p] = next[p][g[p - 1]]
    BY <1>5, <2>1, Zenon
  <2>3. QED  BY <1>6, <2>2, Zenon
<1>9. g = R(g)
  <2>1. ASSUME NEW p \in 0 .. end
        PROVE  g[p] = R(g)[p]
    <3>1. CASE p = 0
      BY <1>5, <1>8, <3>1
    <3>2. CASE p # 0
      <4>1. p \in 1 .. end /\ p - 1 \in 0 .. end
        BY <1>5, <3>2
      <4>2. g[p - 1] \in SetType
        BY <1>8, <4>1
      <4>3. QED  BY <1>8, <3>2, <4>1, <4>2
    <3>3. QED  BY <3>1, <3>2
  <2>2. R(g) = [p \in 0 .. end |-> R(g)[p]]
    OBVIOUS
  <2>3. g = [p \in 0 .. end |-> g[p]]
    BY <1>8
  <2> HIDE DEF R
  <2>4. QED  BY <2>1, <2>2, <2>3, Zenon
<1>10. s = R(s)
  <2> HIDE DEF R
  <2>1. QED  BY <1>9, Zenon
<1>11. \A p \in 0 .. end : s[p] = IF p = 0 THEN EmptySet ELSE SetBitOn(s[p - 1], numbers[p])
  <2> HIDE DEF s
  <2>1. \A p \in 0 .. end : s[p] = R(s)[p]
    BY <1>10, Zenon
  <2>2. QED  BY <2>1, Zenon
<1> HIDE DEF s, R
<1> DEFINE T == {n \in Nat : n <= end => s[n] \in SetType}
<1>12. 0 \in T
  BY <1>5, <1>7, <1>11
<1>13. ASSUME NEW n \in Nat, n \in T
       PROVE  n + 1 \in T
  <2> SUFFICES ASSUME n + 1 <= end PROVE s[n + 1] \in SetType
    OBVIOUS
  <2>1. n + 1 \in 1 .. end /\ s[n] \in SetType /\ (n + 1) - 1 = n /\ n + 1 # 0
        /\ n + 1 \in 0 .. end
    BY <1>5, <1>13
  <2>2. s[n + 1] = SetBitOn(s[n], numbers[n + 1])
    BY <1>11, <2>1
  <2>3. QED  BY <1>3, <2>1, <2>2, BitSet
<1> HIDE DEF T
<1>14. \A n \in Nat : n \in T
  BY <1>12, <1>13, Induction
<1>15. \A n \in 0 .. end : s[n] \in SetType
  <2>1. \A n \in 0 .. end : n \in Nat /\ n <= end
    BY <1>5
  <2>2. QED  BY <1>14, <2>1, Zenon DEF T
<1>16. \A i \in 1 .. end : s[i - 1] \in SetType /\ s[i] = SetBitOn(s[i - 1], numbers[i])
  <2>1. \A i \in 1 .. end : i - 1 \in 0 .. end /\ i \in 0 .. end /\ i # 0
    BY <1>5
  <2>2. QED  BY <1>11, <1>15, <2>1, Zenon
<1>17. s[0] = EmptySet /\ s[end] \in SetType
  <2>1. 0 \in 0 .. end /\ end \in 0 .. end
    BY <1>5
  <2>2. QED  BY <1>11, <1>15, <2>1, Zenon
<1>18. ReadBy(numbers, end, s)
  BY <1>2, <1>3, <1>4, <1>16, <1>17, Zenon DEF ReadBy
<1>19. QED  BY <1>2, <1>18, Zenon

LEMMA SetRead ==
  ASSUME NEW numbers, numbers \in Numbers
  PROVE  ReadSet(numbers) \in SetType
BY SetReadBy, Zenon DEF ReadBy

-----------------------------------------------------------------------------
(* What is read at a place of a line, whichever line it is *)

CharAt(l, p) == IF p <= Len(l) THEN l[p] ELSE "end"

Skipped(l, p, S) == CHOOSE q \in p .. Len(l) + 1 :
                      CharAt(l, q) \notin S /\ \A r \in p .. q - 1 : CharAt(l, r) \in S

SignedIn(l, p) == IF CharAt(l, p) \in {"+", "-"} THEN p + 1 ELSE p
DigitsEnd(l, p) == Skipped(l, SignedIn(l, p), Digit)
EndIn(l, p) == IF CharAt(l, SignedIn(l, p)) \in Digit THEN DigitsEnd(l, p) ELSE p
ValueIn(l, p) == Value(SubSeq(l, SignedIn(l, p), DigitsEnd(l, p) - 1))
NumberIn(l, p) == IF CharAt(l, p) = "-" THEN -ValueIn(l, p) ELSE ValueIn(l, p)

Border == Separator \union {"end"}

\* The second scan starts to read a number at q if it stops there.
Begins(l, q) == CharAt(l, q - 1) \in Separator /\ CharAt(l, q) \notin Separator

\* What strtol reads at q is some number that a set can have.
Readable(l, q) == NumberIn(l, q) \in Storable /\ EndIn(l, q) \in q + 1 .. Len(l) + 1

Ended(l, q) == CharAt(l, EndIn(l, q)) \in Border

FirstIn(l) == Skipped(l, 1, Blank)
Set1In(l) == Skipped(l, FirstIn(l) + 1, Blank)

\* Every number before p ends before p, at a separator.
AllEnd(l, p) ==
  \A q \in Set1In(l) + 1 .. p - 1 :
    Begins(l, q) => Readable(l, q) /\ EndIn(l, q) < p /\ Ended(l, q)

\* The last number before p may end at p; or go beyond it, and then p is no border.
MayEnd(l, p) ==
  \A q \in Set1In(l) + 1 .. p - 1 :
    Begins(l, q) => /\ Readable(l, q)
                    /\ EndIn(l, q) < p => Ended(l, q)
                    /\ EndIn(l, q) > p => CharAt(l, p) \notin Border

\* The second scan goes well from p on.
Scannable(l, p) ==
  /\ CharAt(l, p) \in Border
  /\ \A q \in p + 1 .. Len(l) : Begins(l, q) => Readable(l, q) /\ Ended(l, q)

\* The first scan is behind a command and the name of a set.
HeadingRead(l, p) ==
  /\ FirstIn(l) \in 1 .. Len(l)
  /\ Set1In(l) \in FirstIn(l) + 1 .. Len(l) /\ Set1In(l) < p
  /\ CharAt(l, Set1In(l)) \in SetName
  /\ p > Set1In(l) + 1 => CharAt(l, Set1In(l) + 1) \in Separator

BlankUpTo(l, from, p) == \A r \in from .. p - 1 : CharAt(l, r) \in Blank

CommandRead(l, p, command) ==
  /\ FirstIn(l) \in 1 .. Len(l) /\ FirstIn(l) < p
  /\ CharAt(l, FirstIn(l)) = command

\* What the automaton knows in each of its states.
CmdState(l, p, s) == s = "CMD" => BlankUpTo(l, 1, p)
LaterState(l, p, s, command) == s # "CMD" => CommandRead(l, p, command)
StopState(s, command) == s = "STOP" => command = "stop"
Set1State(l, p, s) == s = "SET1" => BlankUpTo(l, FirstIn(l) + 1, p)
OtherStates == {"COMMA_AFTER_SET1", "SET2", "COMMA_AFTER_SET2", "RESULT"}
OtherState(s, command) == s \in OtherStates => command # "read_set"
ListState(l, p, s) == s \in {"COMMA_READ", "NUMBER", "MINUS1"} => HeadingRead(l, p)
BetweenState(l, p, s) == s \in {"COMMA_READ", "MINUS1"} => MayEnd(l, p)
NumberState(l, p, s) ==
  s = "NUMBER" => CharAt(l, p - 1) \in Separator /\ AllEnd(l, p)
LongState(l, p, s) == s \in {"NUMBER", "MINUS1"} => p > Set1In(l) + 1

Validated(l, p, s, command) ==
  /\ CmdState(l, p, s) /\ LaterState(l, p, s, command)
  /\ StopState(s, command) /\ Set1State(l, p, s) /\ OtherState(s, command)
  /\ ListState(l, p, s) /\ BetweenState(l, p, s) /\ NumberState(l, p, s)
  /\ LongState(l, p, s)

\* The second scan goes well from the command at p on.
ToExecute(l, p) ==
  /\ p = FirstIn(l)
  /\ CharAt(l, p) = "read_set" =>
       /\ p \in 1 .. Len(l) /\ Set1In(l) \in p + 1 .. Len(l)
       /\ CharAt(l, Set1In(l)) \in SetName
       /\ Scannable(l, Set1In(l) + 1)

\* n numbers took two places each, but for the last one perhaps.
Room(l, p, n) == 2 * n + 2 <= p /\ (CharAt(l, p) # "end" => 2 * n + 3 <= p)

Collecting(l, p, set, numbers) ==
  set \in SetName /\ Scannable(l, p) /\ Room(l, p, Len(numbers))


-----------------------------------------------------------------------------
(* Symbols and places *)

LEMMA DigitIs == Digit = {"0", "1", "2", "3", "4", "5", "6", "7", "8", "9"}
<1>1. \A d \in 1 .. 10 : Digits[d] \in {"0", "1", "2", "3", "4", "5", "6", "7", "8", "9"}
  BY DEF Digits
<1>2. /\ Digits[1] = "0" /\ Digits[2] = "1" /\ Digits[3] = "2" /\ Digits[4] = "3"
      /\ Digits[5] = "4" /\ Digits[6] = "5" /\ Digits[7] = "6" /\ Digits[8] = "7"
      /\ Digits[9] = "8" /\ Digits[10] = "9"
  BY DEF Digits
<1>3. QED  BY <1>1, <1>2 DEF Digit

\* The symbols that end a number are not in it.
LEMMA Apart ==
  /\ \A c \in Digit : c \notin Border /\ c # "-" /\ c # "+"
  /\ \A c \in {"+", "-"} : c \notin Border
  /\ \A c \in Border : c \notin Digit /\ c \notin {"+", "-"}
  /\ "end" \notin Digit /\ "end" \notin Separator /\ "end" \notin Blank
  /\ \A c \in Blank : c \in Separator
  /\ \A c \in Separator : c \in Border /\ c # "end"
  /\ \A c \in Border : c \in Separator \/ c = "end"
  /\ "0" \in Digit
BY DigitIs DEF Border, Separator, Blank

\* A name stands in a line; so does the name of a command.
LEMMA NamesStand ==
  /\ \A c \in SetName : c # "end"
  /\ \A c \in Command : c # "end" /\ c # "space"
BY NameAssumption DEF Command

LEMMA SkippedIs ==
  ASSUME NEW l, Len(l) \in Nat, NEW p \in 1 .. Len(l) + 1, NEW S, "end" \notin S
  PROVE  LET q == Skipped(l, p, S)
         IN  /\ q \in p .. Len(l) + 1
             /\ CharAt(l, q) \notin S
             /\ \A r \in p .. q - 1 : CharAt(l, r) \in S
<1> DEFINE T == {q \in p .. Len(l) + 1 : CharAt(l, q) \notin S}
<1>1. CharAt(l, Len(l) + 1) = "end"
  BY DEF CharAt
<1>2. T \subseteq Nat /\ Len(l) + 1 \in T
  BY <1>1
<1> HIDE DEF T
<1>3. PICK q \in T : \A y \in T : q <= y
  BY <1>2, LeastNumber
<1>4. q \in p .. Len(l) + 1 /\ CharAt(l, q) \notin S
  BY <1>3 DEF T
<1>5. \A r \in p .. q - 1 : CharAt(l, r) \in S
  <2> SUFFICES ASSUME NEW r \in p .. q - 1, CharAt(l, r) \notin S PROVE FALSE
    OBVIOUS
  <2>1. r \in p .. Len(l) + 1 /\ ~(q <= r)
    BY <1>4
  <2>2. r \in T
    BY <2>1 DEF T
  <2>3. QED  BY <1>3, <2>1, <2>2
<1>6. QED  BY <1>4, <1>5, Zenon DEF Skipped

\* There is no other such place.
LEMMA SkippedOnly ==
  ASSUME NEW l, Len(l) \in Nat, NEW p \in 1 .. Len(l) + 1, NEW S, "end" \notin S,
         NEW q \in p .. Len(l) + 1, CharAt(l, q) \notin S,
         \A r \in p .. q - 1 : CharAt(l, r) \in S
  PROVE  Skipped(l, p, S) = q
<1>1. PICK k : k = Skipped(l, p, S)
  OBVIOUS
<1>2. k \in p .. Len(l) + 1 /\ CharAt(l, k) \notin S
      /\ \A r \in p .. k - 1 : CharAt(l, r) \in S
  BY <1>1, SkippedIs, Zenon
<1>3. ~(k < q)
  <2>1. ASSUME k < q PROVE k \in p .. q - 1
    BY <1>2, <2>1
  <2>2. QED  BY <1>2, <2>1
<1>4. ~(q < k)
  <2>1. ASSUME q < k PROVE q \in p .. k - 1
    BY <1>2, <2>1
  <2>2. QED  BY <1>2, <2>1
<1>5. QED  BY <1>1, <1>2, <1>3, <1>4

-----------------------------------------------------------------------------
(* Numbers in a line *)

LEMMA NumberShape ==
  ASSUME NEW l, Len(l) \in Nat, NEW p \in 1 .. Len(l) + 1
  PROVE  /\ SignedIn(l, p) \in p .. p + 1 /\ SignedIn(l, p) \in 1 .. Len(l) + 1
         /\ DigitsEnd(l, p) \in SignedIn(l, p) .. Len(l) + 1
         /\ CharAt(l, DigitsEnd(l, p)) \notin Digit
         /\ \A r \in SignedIn(l, p) .. DigitsEnd(l, p) - 1 : CharAt(l, r) \in Digit
<1>1. SignedIn(l, p) \in p .. p + 1 /\ SignedIn(l, p) \in 1 .. Len(l) + 1
  <2>1. CharAt(l, p) \in {"+", "-"} => p <= Len(l)
    BY DEF CharAt
  <2>2. QED  BY <2>1 DEF SignedIn
<1>2. PICK s \in 1 .. Len(l) + 1 : s = SignedIn(l, p)
  BY <1>1
<1>3. QED  BY <1>1, <1>2, Apart, SkippedIs, Zenon DEF DigitsEnd

Lines == Seq(Symbol)

LEMMA Piece ==
  ASSUME NEW l, l \in Lines, NEW s \in 1 .. Len(l) + 1, NEW e \in s .. Len(l) + 1
  PROVE  SubSeq(l, s, e - 1) = [i \in 1 .. e - s |-> l[s + i - 1]]
BY DEF Lines

LEMMA ValueShape ==
  ASSUME NEW l, l \in Lines, NEW p \in 1 .. Len(l) + 1
  PROVE  LET n == DigitsEnd(l, p) - SignedIn(l, p)
         IN  /\ ValueIn(l, p) \in Nat
             /\ n = 0 => ValueIn(l, p) = 0
             /\ n = 1 => ValueIn(l, p) <= 9
             /\ n = 2 => ValueIn(l, p) <= 99
<1>1. Len(l) \in Nat
  BY DEF Lines
<1>2. PICK s \in 1 .. Len(l) + 1 : s = SignedIn(l, p)
  BY <1>1, NumberShape
<1>3. PICK e \in s .. Len(l) + 1 : e = DigitsEnd(l, p)
  BY <1>1, <1>2, NumberShape
<1>4. \A r \in s .. e - 1 : r \in 1 .. Len(l) /\ l[r] \in Digit
  <2>1. \A r \in s .. e - 1 : CharAt(l, r) \in Digit
    BY <1>1, <1>2, <1>3, NumberShape
  <2>2. QED  BY <1>1, <2>1 DEF CharAt
<1> DEFINE digits == SubSeq(l, s, e - 1)
<1>5. digits = [i \in 1 .. e - s |-> l[s + i - 1]]
  BY Piece, Zenon
<1>6. digits \in Seq(Digit) /\ Len(digits) = e - s
  <2>1. \A i \in 1 .. e - s : l[s + i - 1] \in Digit
    <3> SUFFICES ASSUME NEW i \in 1 .. e - s PROVE l[s + i - 1] \in Digit
      OBVIOUS
    <3>1. s + i - 1 \in s .. e - 1
      BY <1>1
    <3>2. QED  BY <1>4, <3>1
  <2>2. e - s \in Nat
    BY <1>1
  <2> HIDE DEF digits
  <2>3. QED  BY <1>5, <2>1, <2>2
<1> HIDE DEF digits
<1>7. ValueIn(l, p) = Value(digits)
  BY <1>2, <1>3 DEF ValueIn, digits
<1>8. QED  BY <1>2, <1>3, <1>6, <1>7, ValueBounded

\* strtol does not go beyond a border, and starts at none.
LEMMA NumberInside ==
  ASSUME NEW l, Len(l) \in Nat, NEW p \in 1 .. Len(l) + 1
  PROVE  /\ EndIn(l, p) \in p .. Len(l) + 1
         /\ \A r \in p .. EndIn(l, p) - 1 : CharAt(l, r) \notin Border
<1>1. PICK s \in p .. p + 1 : s = SignedIn(l, p)
  BY NumberShape
<1>2. PICK e \in s .. Len(l) + 1 : e = DigitsEnd(l, p)
  BY <1>1, NumberShape
<1>3. \A r \in s .. e - 1 : CharAt(l, r) \notin Border
  BY <1>1, <1>2, NumberShape, Apart
<1>4. s # p => CharAt(l, p) \notin Border /\ s = p + 1
  BY <1>1, Apart DEF SignedIn
<1>5. EndIn(l, p) = p \/ EndIn(l, p) = e
  BY <1>2 DEF EndIn
<1>6. \A r \in p .. e - 1 : CharAt(l, r) \notin Border
  <2> SUFFICES ASSUME NEW r \in p .. e - 1 PROVE CharAt(l, r) \notin Border
    OBVIOUS
  <2>1. r \in s .. e - 1 \/ (r = p /\ s # p)
    BY <1>1
  <2>2. QED  BY <1>3, <1>4, <2>1
<1>7. e \in p .. Len(l) + 1
  BY <1>1, <1>2
<1>8. CASE EndIn(l, p) = p
  BY <1>8
<1>9. CASE EndIn(l, p) = e
  BY <1>6, <1>7, <1>9
<1>10. QED  BY <1>5, <1>8, <1>9

\* What vldnum passes over was read by strtol.
LEMMA NumberTaken ==
  ASSUME NEW l, l \in Lines, NEW p \in 1 .. Len(l) + 1
  PROVE  /\ NumberIn(l, p) = -1 => p + 2 <= EndIn(l, p)
         /\ NumberIn(l, p) \in 1 .. 127 => p + DigitsExpected(NumberIn(l, p)) <= EndIn(l, p)
         /\ CharAt(l, p) = "0" => p + 1 <= EndIn(l, p)
<1>1. Len(l) \in Nat
  BY DEF Lines
<1>2. PICK s \in p .. p + 1 : s = SignedIn(l, p)
  BY <1>1, NumberShape
<1>3. PICK e \in s .. Len(l) + 1 : e = DigitsEnd(l, p)
  BY <1>1, <1>2, NumberShape
<1>4. PICK v : v = ValueIn(l, p)
  OBVIOUS
<1>5. /\ v \in Nat
      /\ e - s = 0 => v = 0
      /\ e - s = 1 => v <= 9
      /\ e - s = 2 => v <= 99
  BY <1>2, <1>3, <1>4, ValueShape
<1>6. EndIn(l, p) = IF e = s THEN p ELSE e
  <2>1. CharAt(l, s) \in Digit <=> e # s
    <3>1. CharAt(l, e) \notin Digit /\ \A r \in s .. e - 1 : CharAt(l, r) \in Digit
      BY <1>1, <1>2, <1>3, NumberShape
    <3>2. e # s => s \in s .. e - 1
      BY <1>1
    <3>3. QED  BY <3>1, <3>2
  <2>2. QED  BY <1>2, <1>3, <2>1 DEF EndIn
<1>7. PICK n : n = NumberIn(l, p)
  OBVIOUS
<1>8. n = IF CharAt(l, p) = "-" THEN -v ELSE v
  BY <1>4, <1>7 DEF NumberIn
<1>9. CharAt(l, p) = "-" => s = p + 1
  BY <1>2 DEF SignedIn
<1>10. ASSUME n = -1 PROVE p + 2 <= EndIn(l, p)
  BY <1>1, <1>5, <1>6, <1>8, <1>9, <1>10
<1>11. ASSUME n \in 1 .. 127 PROVE p + DigitsExpected(n) <= EndIn(l, p)
  <2>1. n = v
    BY <1>5, <1>8, <1>11
  <2>2. /\ e - s = 1 => DigitsExpected(n) = 1
        /\ e - s = 2 => DigitsExpected(n) <= 2
        /\ DigitsExpected(n) <= 3 /\ DigitsExpected(n) \in Nat
    BY <1>5, <1>11, <2>1 DEF DigitsExpected
  <2>3. e - s \in Nat /\ e - s # 0
    BY <1>1, <1>5, <1>11, <2>1
  <2>4. DigitsExpected(n) <= e - s
    BY <2>2, <2>3
  <2>5. EndIn(l, p) = e /\ s >= p
    BY <1>6, <2>3
  <2>6. QED  BY <1>1, <2>2, <2>4, <2>5
<1>12. ASSUME CharAt(l, p) = "0" PROVE p + 1 <= EndIn(l, p)
  <2>1. s = p
    BY <1>2, <1>12 DEF SignedIn
  <2>2. CharAt(l, s) \in Digit
    BY <1>12, <2>1, Apart
  <2>3. EndIn(l, p) = e /\ e # s
    <3>1. CharAt(l, e) \notin Digit
      BY <1>1, <1>3, NumberShape
    <3>2. QED  BY <1>2, <1>3, <2>2, <3>1 DEF EndIn
  <2>4. QED  BY <1>1, <2>1, <2>3
<1>13. QED  BY <1>7, <1>10, <1>11, <1>12

-----------------------------------------------------------------------------
(* The numbers of a line *)

\* Past a separator the last number has ended.
LEMMA SeparatorPassed ==
  ASSUME NEW l, Len(l) \in Nat, Set1In(l) \in 1 .. Len(l), NEW p \in 1 .. Len(l) + 1,
         CharAt(l, p) \in Separator, MayEnd(l, p)
  PROVE  AllEnd(l, p + 1)
<1> SUFFICES ASSUME NEW q \in Set1In(l) + 1 .. p, Begins(l, q)
             PROVE  Readable(l, q) /\ EndIn(l, q) < p + 1 /\ Ended(l, q)
  BY DEF AllEnd
<1>1. CharAt(l, p) \in Border
  BY Apart
<1>2. q # p
  BY DEF Begins
<1>3. q \in Set1In(l) + 1 .. p - 1
  BY <1>2
<1>4. /\ Readable(l, q)
      /\ EndIn(l, q) < p => Ended(l, q)
      /\ ~(EndIn(l, q) > p)
  BY <1>1, <1>3 DEF MayEnd
<1>5. EndIn(l, q) \in Nat
  BY <1>4 DEF Readable
<1>6. EndIn(l, q) = p => Ended(l, q)
  BY <1>1 DEF Ended
<1>7. QED  BY <1>4, <1>5, <1>6

LEMMA AllMayEnd ==
  ASSUME NEW l, Len(l) \in Nat, Set1In(l) \in 1 .. Len(l), NEW p \in 1 .. Len(l) + 1,
         AllEnd(l, p)
  PROVE  MayEnd(l, p)
<1> SUFFICES ASSUME NEW q \in Set1In(l) + 1 .. p - 1, Begins(l, q)
             PROVE  /\ Readable(l, q)
                    /\ EndIn(l, q) < p => Ended(l, q)
                    /\ EndIn(l, q) > p => CharAt(l, p) \notin Border
  BY DEF MayEnd
<1>1. Readable(l, q) /\ EndIn(l, q) < p /\ Ended(l, q)
  BY DEF AllEnd
<1>2. EndIn(l, q) \in Nat
  BY <1>1 DEF Readable
<1>3. QED  BY <1>1, <1>2

\* A number is taken at p, up to some place that strtol went over as well.
LEMMA NumberPassed ==
  ASSUME NEW l, Len(l) \in Nat, Set1In(l) \in 1 .. Len(l), NEW p \in Set1In(l) + 1 .. Len(l),
         AllEnd(l, p), CharAt(l, p) \notin Separator, CharAt(l, p - 1) \in Separator,
         NumberIn(l, p) \in Storable, NEW next \in p + 1 .. EndIn(l, p)
  PROVE  MayEnd(l, next)
<1>0. p \in 1 .. Len(l) + 1
  OBVIOUS
<1>1. PICK e \in p .. Len(l) + 1 : e = EndIn(l, p)
  BY <1>0, NumberInside, Zenon
<1>2. \A r \in p .. e - 1 : CharAt(l, r) \notin Border
  BY <1>0, <1>1, NumberInside, Zenon
<1>3. Readable(l, p)
  BY <1>1 DEF Readable
<1> SUFFICES ASSUME NEW q \in Set1In(l) + 1 .. next - 1, Begins(l, q)
             PROVE  /\ Readable(l, q)
                    /\ EndIn(l, q) < next => Ended(l, q)
                    /\ EndIn(l, q) > next => CharAt(l, next) \notin Border
  BY DEF MayEnd
<1>4. CASE q < p
  <2>1. q \in Set1In(l) + 1 .. p - 1
    BY <1>4
  <2>2. Readable(l, q) /\ EndIn(l, q) < p /\ Ended(l, q)
    BY <2>1 DEF AllEnd
  <2>3. EndIn(l, q) \in Nat
    BY <2>2 DEF Readable
  <2>4. QED  BY <1>1, <2>2, <2>3
<1>5. CASE q = p
  <2>1. ~(EndIn(l, q) < next)
    BY <1>1, <1>5
  <2>2. EndIn(l, q) > next => next \in p .. e - 1
    BY <1>1, <1>5
  <2>3. QED  BY <1>2, <1>3, <1>5, <2>1, <2>2
<1>6. CASE q > p
  <2>1. q - 1 \in p .. e - 1
    BY <1>1, <1>6
  <2>2. CharAt(l, q - 1) \in Border
    BY Apart DEF Begins
  <2>3. QED  BY <1>2, <2>1, <2>2
<1>7. QED  BY <1>4, <1>5, <1>6

\* At the end of a line that was let pass the second scan can begin.
LEMMA LineRead ==
  ASSUME NEW l, Len(l) \in Nat, NEW p \in 1 .. Len(l) + 1, HeadingRead(l, p),
         p > Set1In(l) + 1, MayEnd(l, p), CharAt(l, p) = "end", p = Len(l) + 1
  PROVE  Scannable(l, Set1In(l) + 1)
<1>1. Set1In(l) \in 1 .. Len(l) /\ CharAt(l, Set1In(l) + 1) \in Separator
  BY DEF HeadingRead
<1>2. CharAt(l, Set1In(l) + 1) \in Border /\ CharAt(l, p) \in Border
  BY <1>1, Apart DEF Border
<1>3. ASSUME NEW q \in Set1In(l) + 2 .. Len(l), Begins(l, q)
      PROVE  Readable(l, q) /\ Ended(l, q)
  <2>1. q \in Set1In(l) + 1 .. p - 1
    BY <1>1
  <2>2. Readable(l, q) /\ (EndIn(l, q) < p => Ended(l, q))
    BY <1>3, <2>1 DEF MayEnd
  <2>3. EndIn(l, q) < p \/ EndIn(l, q) = p
    BY <2>2 DEF Readable
  <2>4. QED  BY <1>2, <2>2, <2>3 DEF Ended
<1>4. (Set1In(l) + 1) + 1 = Set1In(l) + 2
  BY <1>1
<1>5. QED  BY <1>2, <1>3, <1>4 DEF Scannable

\* What the second scan reads next, and that it can go on behind it.
LEMMA NextNumber ==
  ASSUME NEW l, l \in Lines, NEW p \in 1 .. Len(l), Scannable(l, p), CharAt(l, p) # "end",
         NEW at, at = Skipped(l, p, Separator)
  PROVE  /\ at \in p + 1 .. Len(l) + 1
         /\ NumberIn(l, at) \in Storable
         /\ EndIn(l, at) \in at .. Len(l) + 1
         /\ at <= Len(l) => EndIn(l, at) >= at + 1
         /\ at = Len(l) + 1 => CharAt(l, EndIn(l, at)) = "end"
         /\ Scannable(l, EndIn(l, at))
<1>1. Len(l) \in Nat
  BY DEF Lines
<1>2. CharAt(l, p) \in Separator
  BY Apart DEF Scannable
<1>3. /\ at \in p .. Len(l) + 1 /\ CharAt(l, at) \notin Separator
      /\ \A r \in p .. at - 1 : CharAt(l, r) \in Separator
  BY <1>1, Apart, SkippedIs
<1>4. at \in p + 1 .. Len(l) + 1
  BY <1>1, <1>2, <1>3
<1>5. EndIn(l, at) \in at .. Len(l) + 1
  BY <1>1, <1>4, NumberInside
<1>6. ASSUME at <= Len(l)
      PROVE  /\ NumberIn(l, at) \in Storable /\ EndIn(l, at) >= at + 1
             /\ CharAt(l, EndIn(l, at)) \in Border
  <2>1. at \in p + 1 .. Len(l) /\ at - 1 \in p .. at - 1
    BY <1>1, <1>4, <1>6
  <2>2. Begins(l, at)
    BY <1>3, <2>1 DEF Begins
  <2>3. Readable(l, at) /\ Ended(l, at)
    BY <2>1, <2>2 DEF Scannable
  <2>4. QED  BY <2>1, <2>3 DEF Readable, Ended
<1>7. ASSUME at = Len(l) + 1
      PROVE  /\ NumberIn(l, at) = 0
             /\ CharAt(l, EndIn(l, at)) = "end"
  <2>1. EndIn(l, at) = Len(l) + 1
    BY <1>1, <1>5, <1>7
  <2>2. CharAt(l, Len(l) + 1) = "end"
    BY <1>1 DEF CharAt
  <2>3. PICK k : k = Len(l) + 1
    OBVIOUS
  <2>4. k \in 1 .. Len(l) + 1 /\ CharAt(l, k) = "end"
    BY <1>1, <2>2, <2>3
  <2>5. SignedIn(l, k) = k
    BY <2>4, Apart DEF SignedIn, Border
  <2>6. DigitsEnd(l, k) \in k .. k
    BY <1>1, <2>3, <2>4, <2>5, NumberShape
  <2>7. ValueIn(l, k) = 0
    BY <1>1, <2>3, <2>4, <2>5, <2>6, ValueShape
  <2>8. NumberIn(l, k) = 0
    BY <2>4, <2>7 DEF NumberIn
  <2>9. QED  BY <1>7, <2>1, <2>2, <2>3, <2>8
<1>8. at <= Len(l) \/ at = Len(l) + 1
  BY <1>1, <1>4
<1>9. NumberIn(l, at) \in Storable /\ CharAt(l, EndIn(l, at)) \in Border
  <2>1. 0 \in Storable /\ "end" \in Border
    BY DEF Storable, NUM_OF_BITS, Border
  <2>2. QED  BY <1>6, <1>7, <1>8, <2>1
<1>10. Scannable(l, EndIn(l, at))
  <2>1. \A q \in EndIn(l, at) + 1 .. Len(l) : q \in p + 1 .. Len(l)
    <3>1. PICK e : e = EndIn(l, at)
      OBVIOUS
    <3>2. e \in at .. Len(l) + 1
      BY <1>5, <3>1
    <3>3. \A q \in e + 1 .. Len(l) : q \in p + 1 .. Len(l)
      BY <1>1, <1>4, <3>2
    <3>4. QED  BY <3>1, <3>3
  <2>2. QED  BY <1>9, <2>1, Zenon DEF Scannable
<1>11. QED  BY <1>4, <1>5, <1>6, <1>7, <1>9, <1>10

\* What is written over a line before p does not change the numbers from p on.
LEMMA SameNumber ==
  ASSUME NEW l, NEW m, l \in Lines, m \in Lines, Len(m) = Len(l),
         NEW p \in 1 .. Len(l) + 1, \A r \in p .. Len(l) + 1 : CharAt(m, r) = CharAt(l, r),
         NEW q \in p .. Len(l) + 1
  PROVE  NumberIn(m, q) = NumberIn(l, q) /\ EndIn(m, q) = EndIn(l, q)
<1>1. Len(l) \in Nat /\ Len(m) \in Nat
  BY DEF Lines
<1>2. q \in 1 .. Len(l) + 1
  OBVIOUS
<1>3. PICK s \in q .. q + 1 : s = SignedIn(l, q) /\ s \in 1 .. Len(l) + 1
  BY <1>1, <1>2, NumberShape, Zenon
<1>4. s = SignedIn(m, q)
  BY <1>3, Zenon DEF SignedIn
<1>5. PICK e \in s .. Len(l) + 1 :
        /\ e = DigitsEnd(l, q)
        /\ CharAt(l, e) \notin Digit /\ \A r \in s .. e - 1 : CharAt(l, r) \in Digit
  BY <1>1, <1>2, <1>3, NumberShape, Zenon
<1>6. s \in p .. Len(l) + 1 /\ e \in p .. Len(l) + 1
      /\ \A r \in s .. e - 1 : r \in p .. Len(l) + 1
  BY <1>1, <1>3, <1>5
<1>7. Skipped(m, s, Digit) = e
  <2>1. s \in 1 .. Len(m) + 1 /\ e \in s .. Len(m) + 1
    BY <1>3, <1>5, Zenon
  <2>2. CharAt(m, e) \notin Digit /\ \A r \in s .. e - 1 : CharAt(m, r) \in Digit
    BY <1>5, <1>6, Zenon
  <2>3. "end" \notin Digit
    BY Apart, Zenon
  <2>4. QED  BY <1>1, <2>1, <2>2, <2>3, SkippedOnly, Zenon
<1>8. e = DigitsEnd(m, q)
  BY <1>4, <1>7, Zenon DEF DigitsEnd
<1>9. SubSeq(m, s, e - 1) = SubSeq(l, s, e - 1)
  <2>1. \A r \in s .. e - 1 : r \in 1 .. Len(l) /\ l[r] = m[r]
    <3>1. \A r \in s .. e - 1 : r \in 1 .. Len(l) /\ r \in p .. Len(l) + 1
      BY <1>1, <1>3, <1>5
    <3>2. QED  BY <3>1 DEF CharAt
  <2>2. SubSeq(m, s, e - 1) = [i \in 1 .. e - s |-> m[s + i - 1]]
    <3>1. s \in 1 .. Len(m) + 1 /\ e \in s .. Len(m) + 1
      BY <1>3, <1>5, Zenon
    <3>2. QED  BY <3>1, Piece, Zenon
  <2>3. SubSeq(l, s, e - 1) = [i \in 1 .. e - s |-> l[s + i - 1]]
    BY <1>3, Piece, Zenon
  <2>4. \A i \in 1 .. e - s : s + i - 1 \in s .. e - 1
    BY <1>1, <1>3, <1>5
  <2>5. \A i \in 1 .. e - s : m[s + i - 1] = l[s + i - 1]
    BY <2>1, <2>4, Zenon
  <2>6. QED  BY <2>2, <2>3, <2>5, Zenon
<1>10. ValueIn(m, q) = ValueIn(l, q)
  BY <1>3, <1>4, <1>5, <1>8, <1>9, Zenon DEF ValueIn
<1>11. CharAt(m, q) = CharAt(l, q) /\ CharAt(m, s) = CharAt(l, s)
  BY <1>6, Zenon
<1>12. NumberIn(m, q) = NumberIn(l, q)
  BY <1>10, <1>11, Zenon DEF NumberIn
<1>13. EndIn(m, q) = EndIn(l, q)
  BY <1>3, <1>4, <1>5, <1>8, <1>11, Zenon DEF EndIn
<1>14. QED  BY <1>12, <1>13

LEMMA StillScannable ==
  ASSUME NEW l, NEW m, l \in Lines, m \in Lines, Len(m) = Len(l),
         NEW p \in 1 .. Len(l) + 1, \A r \in p .. Len(l) + 1 : CharAt(m, r) = CharAt(l, r),
         Scannable(l, p)
  PROVE  Scannable(m, p)
<1>1. Len(l) \in Nat
  BY DEF Lines
<1>2. CharAt(m, p) \in Border
  BY <1>1 DEF Scannable
<1>3. ASSUME NEW q \in p + 1 .. Len(m), Begins(m, q)
      PROVE  Readable(m, q) /\ Ended(m, q)
  <2>1. q \in p + 1 .. Len(l) /\ q \in p .. Len(l) + 1 /\ q - 1 \in p .. Len(l) + 1
        /\ q \in 1 .. Len(l) + 1
    BY <1>1
  <2>2. Begins(l, q)
    BY <1>3, <2>1 DEF Begins
  <2>3. Readable(l, q) /\ Ended(l, q)
    BY <2>1, <2>2 DEF Scannable
  <2>4. NumberIn(m, q) = NumberIn(l, q) /\ EndIn(m, q) = EndIn(l, q)
    BY <2>1, SameNumber, Zenon
  <2>5. Readable(m, q)
    BY <2>3, <2>4, Zenon DEF Readable
  <2>6. EndIn(l, q) \in p .. Len(l) + 1
    BY <1>1, <2>1, <2>3 DEF Readable
  <2>7. CharAt(m, EndIn(m, q)) = CharAt(l, EndIn(l, q))
    BY <2>4, <2>6, Zenon
  <2>8. QED  BY <2>3, <2>5, <2>7, Zenon DEF Ended
<1>4. QED  BY <1>2, <1>3, Zenon DEF Scannable

-----------------------------------------------------------------------------
(* What the automaton knows, from state to state *)

LEMMA SpaceKnown ==
  ASSUME NEW l, Len(l) \in Nat, NEW p \in 1 .. Len(l) + 1, NEW s, NEW c,
         Validated(l, p, s, c), CharAt(l, p) = "space"
  PROVE  Validated(l, p + 1, s, c)
<1>1. CharAt(l, p) \in Separator /\ CharAt(l, p) \in Blank
  BY DEF Separator, Blank
<1>2. p \in 1 .. Len(l)
  BY DEF CharAt
<1>3. CmdState(l, p + 1, s)
  <2> SUFFICES ASSUME s = "CMD", NEW r \in 1 .. p PROVE CharAt(l, r) \in Blank
    BY DEF CmdState, BlankUpTo
  <2>1. r = p \/ r \in 1 .. p - 1
    OBVIOUS
  <2>2. QED  BY <1>1, <2>1 DEF Validated, CmdState, BlankUpTo
<1>4. LaterState(l, p + 1, s, c)
  BY DEF Validated, LaterState, CommandRead
<1>5. StopState(s, c) /\ OtherState(s, c)
  BY DEF Validated
<1>6. Set1State(l, p + 1, s)
  <2> SUFFICES ASSUME s = "SET1", NEW r \in FirstIn(l) + 1 .. p
               PROVE  CharAt(l, r) \in Blank
    BY DEF Set1State, BlankUpTo
  <2>1. FirstIn(l) \in 1 .. Len(l)
    BY DEF Validated, LaterState, CommandRead
  <2>2. r = p \/ r \in FirstIn(l) + 1 .. p - 1
    BY <2>1
  <2>3. QED  BY <1>1, <2>2 DEF Validated, Set1State, BlankUpTo
<1>7. ASSUME HeadingRead(l, p) PROVE HeadingRead(l, p + 1) /\ Set1In(l) \in 1 .. Len(l)
  <2>1. Set1In(l) \in 1 .. Len(l)
    BY <1>7 DEF HeadingRead
  <2>2. p + 1 > Set1In(l) + 1 => p = Set1In(l) + 1 \/ p > Set1In(l) + 1
    BY <2>1
  <2>3. QED  BY <1>1, <1>7, <2>1, <2>2 DEF HeadingRead
<1>8. ListState(l, p + 1, s)
  BY <1>7, Zenon DEF Validated, ListState
<1>9. ASSUME s \in {"COMMA_READ", "MINUS1"} PROVE MayEnd(l, p + 1)
  <2>1. HeadingRead(l, p) /\ MayEnd(l, p)
    BY <1>9 DEF Validated, ListState, BetweenState
  <2>2. AllEnd(l, p + 1)
    BY <1>1, <1>7, <2>1, SeparatorPassed
  <2>3. p + 1 \in 1 .. Len(l) + 1
    BY <1>2
  <2>4. QED  BY <1>7, <2>1, <2>2, <2>3, AllMayEnd
<1>10. ASSUME s = "NUMBER" PROVE CharAt(l, (p + 1) - 1) \in Separator /\ AllEnd(l, p + 1)
  <2>1. HeadingRead(l, p) /\ AllEnd(l, p)
    BY <1>10 DEF Validated, ListState, NumberState
  <2>2. MayEnd(l, p)
    BY <1>7, <2>1, AllMayEnd
  <2>3. (p + 1) - 1 = p
    OBVIOUS
  <2>4. QED  BY <1>1, <1>7, <2>1, <2>2, <2>3, SeparatorPassed
<1>11. LongState(l, p + 1, s)
  <2> SUFFICES ASSUME s \in {"NUMBER", "MINUS1"} PROVE p + 1 > Set1In(l) + 1
    BY DEF LongState
  <2>1. HeadingRead(l, p) /\ p > Set1In(l) + 1
    BY DEF Validated, ListState, LongState
  <2>2. QED  BY <1>7, <2>1
<1>12. BetweenState(l, p + 1, s) /\ NumberState(l, p + 1, s)
  BY <1>9, <1>10, Zenon DEF BetweenState, NumberState
<1>13. QED  BY <1>3, <1>4, <1>5, <1>6, <1>8, <1>11, <1>12, Zenon DEF Validated

LEMMA CommandKnown ==
  ASSUME NEW l, Len(l) \in Nat, NEW p \in 1 .. Len(l) + 1, NEW c,
         Validated(l, p, "CMD", c), CharAt(l, p) \in Command,
         NEW s, s = IF CharAt(l, p) = "stop" THEN "STOP" ELSE "SET1"
  PROVE  Validated(l, p + 1, s, CharAt(l, p))
<1>1. p \in 1 .. Len(l) /\ CharAt(l, p) \notin Blank /\ "end" \notin Blank
  BY NamesStand, Apart DEF CharAt, Blank
<1>2. \A r \in 1 .. p - 1 : CharAt(l, r) \in Blank
  BY DEF Validated, CmdState, BlankUpTo
<1>3. FirstIn(l) = p
  <2>1. 1 \in 1 .. Len(l) + 1
    OBVIOUS
  <2>2. QED  BY <1>1, <1>2, <2>1, SkippedOnly, Zenon DEF FirstIn
<1>4. CommandRead(l, p + 1, CharAt(l, p))
  BY <1>1, <1>3 DEF CommandRead
<1>5. BlankUpTo(l, FirstIn(l) + 1, p + 1)
  BY <1>3 DEF BlankUpTo
<1>6. CASE CharAt(l, p) = "stop"
  <2>1. s = "STOP"
    BY <1>6
  <2>2. QED
    BY <1>4, <1>6, <2>1 DEF Validated, CmdState, LaterState, StopState, Set1State,
       OtherState, OtherStates, ListState, BetweenState, NumberState, LongState
<1>7. CASE CharAt(l, p) # "stop"
  <2>1. s = "SET1"
    BY <1>7
  <2>2. QED
    BY <1>4, <1>5, <2>1 DEF Validated, CmdState, LaterState, StopState, Set1State,
       OtherState, OtherStates, ListState, BetweenState, NumberState, LongState
<1>8. QED  BY <1>6, <1>7

LEMMA Set1Known ==
  ASSUME NEW l, Len(l) \in Nat, NEW p \in 1 .. Len(l) + 1, NEW c,
         Validated(l, p, "SET1", c), CharAt(l, p) \in SetName, CharAt(l, p) # "space"
  PROVE  /\ c = "read_set" => Validated(l, p + 1, "COMMA_READ", c)
         /\ c # "read_set" => Validated(l, p + 1, "COMMA_AFTER_SET1", c)
<1>1. p \in 1 .. Len(l) /\ CharAt(l, p) \notin Blank /\ "end" \notin Blank
  BY NamesStand, Apart DEF CharAt, Blank
<1>2. CommandRead(l, p, c) /\ BlankUpTo(l, FirstIn(l) + 1, p)
  BY DEF Validated, LaterState, Set1State
<1>3. PICK f \in 1 .. Len(l) : f = FirstIn(l) /\ f < p
  BY <1>2 DEF CommandRead
<1>4. Set1In(l) = p
  <2>1. f + 1 \in 1 .. Len(l) + 1 /\ p \in f + 1 .. Len(l) + 1
    BY <1>1, <1>3
  <2>2. \A r \in f + 1 .. p - 1 : CharAt(l, r) \in Blank
    BY <1>2, <1>3, Zenon DEF BlankUpTo
  <2>3. Skipped(l, f + 1, Blank) = p
    BY <1>1, <2>1, <2>2, SkippedOnly, Zenon
  <2>4. QED  BY <1>3, <2>3, Zenon DEF Set1In
<1>5. CommandRead(l, p + 1, c)
  BY <1>2, <1>3 DEF CommandRead
<1>6. HeadingRead(l, p + 1)
  BY <1>1, <1>3, <1>4 DEF HeadingRead
<1>7. MayEnd(l, p + 1)
  BY <1>4 DEF MayEnd
<1>8. QED
  BY <1>5, <1>6, <1>7 DEF Validated, CmdState, LaterState, StopState, Set1State,
     OtherState, OtherStates, ListState, BetweenState, NumberState, LongState

LEMMA OtherKnown ==
  ASSUME NEW l, Len(l) \in Nat, NEW p \in 1 .. Len(l) + 1, NEW c, NEW s \in OtherStates,
         NEW next \in OtherStates, Validated(l, p, s, c)
  PROVE  Validated(l, p + 1, next, c)
<1>1. c # "read_set" /\ CommandRead(l, p, c)
  BY DEF Validated, OtherState, OtherStates, LaterState
<1>2. CommandRead(l, p + 1, c)
  BY <1>1 DEF CommandRead
<1>3. QED
  BY <1>1, <1>2 DEF Validated, CmdState, LaterState, StopState, Set1State,
     OtherState, OtherStates, ListState, BetweenState, NumberState, LongState

LEMMA CommaKnown ==
  ASSUME NEW l, Len(l) \in Nat, NEW p \in 1 .. Len(l) + 1, NEW c, NEW now,
         now = "COMMA_READ", Validated(l, p, now, c), CharAt(l, p) \in Separator,
         NEW next, next = "NUMBER"
  PROVE  Validated(l, p + 1, next, c)
<1>1. (p + 1) - 1 = p
  OBVIOUS
<1>2. HeadingRead(l, p) /\ MayEnd(l, p) /\ CommandRead(l, p, c)
  BY DEF Validated, ListState, BetweenState, LaterState
<1>3. PICK n \in 1 .. Len(l) : n = Set1In(l) /\ n < p
  BY <1>2 DEF HeadingRead
<1>4. AllEnd(l, p + 1)
  <2>1. Set1In(l) \in 1 .. Len(l)
    BY <1>3
  <2>2. QED  BY <1>1, <1>2, <2>1, SeparatorPassed
<1>5. p + 1 > Set1In(l) + 1
  BY <1>3
<1>6. HeadingRead(l, p + 1)
  <2>1. p = Set1In(l) + 1 \/ p > Set1In(l) + 1
    BY <1>3
  <2>2. CharAt(l, Set1In(l) + 1) \in Separator
    BY <1>1, <1>2, <2>1 DEF HeadingRead
  <2>3. Set1In(l) < p + 1
    BY <1>3
  <2>4. QED  BY <1>2, <2>2, <2>3 DEF HeadingRead
<1>7. CommandRead(l, p + 1, c)
  BY <1>2 DEF CommandRead
<1>8. QED
  BY <1>1, <1>4, <1>5, <1>6, <1>7 DEF Validated, CmdState, LaterState, StopState, Set1State,
     OtherState, OtherStates, ListState, BetweenState, NumberState, LongState

LEMMA NumberKnown ==
  ASSUME NEW l, Len(l) \in Nat, NEW p \in 1 .. Len(l) + 1, NEW c, NEW now,
         now = "NUMBER", Validated(l, p, now, c), CharAt(l, p) \notin Separator,
         NumberIn(l, p) \in Storable, NEW next \in p + 1 .. EndIn(l, p),
         NEW s \in {"COMMA_READ", "MINUS1"}
  PROVE  Validated(l, next, s, c)
<1>1. /\ HeadingRead(l, p) /\ AllEnd(l, p) /\ CharAt(l, p - 1) \in Separator
      /\ p > Set1In(l) + 1 /\ CommandRead(l, p, c)
  BY DEF Validated, ListState, NumberState, LongState, LaterState
<1>2. PICK n \in 1 .. Len(l) : n = Set1In(l) /\ n < p
  BY <1>1 DEF HeadingRead
<1>3. PICK e \in p .. Len(l) + 1 : e = EndIn(l, p)
  BY NumberInside, Zenon
<1>4. next \in p + 1 .. Len(l) + 1
  BY <1>3
<1>5. MayEnd(l, next)
  <2>1. Set1In(l) \in 1 .. Len(l) /\ p \in Set1In(l) + 1 .. Len(l)
    BY <1>1, <1>2, <1>4
  <2>2. CharAt(l, p) \notin Separator
    BY DEF Separator
  <2>3. QED  BY <1>1, <2>1, <2>2, NumberPassed, Zenon
<1>6. next > Set1In(l) + 1 /\ Set1In(l) < next
  BY <1>1, <1>2, <1>4
<1>7. HeadingRead(l, next)
  BY <1>1, <1>6 DEF HeadingRead
<1>8. CommandRead(l, next, c)
  BY <1>1, <1>4 DEF CommandRead
<1>9. QED
  BY <1>5, <1>6, <1>7, <1>8 DEF Validated, CmdState, LaterState, StopState, Set1State,
     OtherState, OtherStates, ListState, BetweenState, NumberState, LongState

LEMMA ListAccepted ==
  ASSUME NEW l, Len(l) \in Nat, NEW p \in 1 .. Len(l) + 1, NEW c, NEW now,
         now = "MINUS1", Validated(l, p, now, c), p = Len(l) + 1
  PROVE  ToExecute(l, FirstIn(l))
<1>1. HeadingRead(l, p) /\ MayEnd(l, p) /\ p > Set1In(l) + 1
  BY DEF Validated, ListState, BetweenState, LongState
<1>2. Scannable(l, Set1In(l) + 1)
  <2>1. CharAt(l, p) = "end"
    BY DEF CharAt
  <2>2. QED  BY <1>1, <2>1, LineRead
<1>3. QED  BY <1>1, <1>2 DEF HeadingRead, ToExecute

LEMMA OtherAccepted ==
  ASSUME NEW l, NEW p, NEW c, CommandRead(l, p, c), c # "read_set"
  PROVE  ToExecute(l, FirstIn(l))
BY DEF CommandRead, ToExecute

-----------------------------------------------------------------------------
(* The invariant *)

AtPlace == command_line \in Lines /\ cmdln \in 1 .. Len(command_line) + 1

Inv ==
  /\ TypeOK
  /\ Len(command_line) = Len(typed)
  /\ pc = "validate" => Validated(command_line, cmdln, state, command_number)
  /\ pc = "execute" => ToExecute(command_line, cmdln)
  /\ pc \in {"validate", "execute"} => num_array = <<>>
  /\ pc = "read_numbers" => Collecting(command_line, cmdln, set1, num_array)

\* The operators of the model are those of its line.
LEMMA OfTheLine ==
  /\ \A p : At(p) = CharAt(command_line, p)
  /\ \A p, S : Skip(p, S) = Skipped(command_line, p, S)
  /\ \A p : Number(p) = NumberIn(command_line, p)
  /\ \A p : NumberEnd(p) = EndIn(command_line, p)
<1>1. \A p : At(p) = CharAt(command_line, p)
  BY Zenon DEF At, CharAt
<1>2. \A p, S : Skip(p, S) = Skipped(command_line, p, S)
  BY Zenon DEF Skip, Skipped, At, CharAt
<1>3. \A p : Signed(p) = SignedIn(command_line, p)
  BY <1>1, Zenon DEF Signed, SignedIn
<1>4. \A p : Number(p) = NumberIn(command_line, p)
  BY <1>1, <1>2, <1>3, Zenon DEF Number, NumberIn, ValueIn, DigitsEnd
<1>5. \A p : NumberEnd(p) = EndIn(command_line, p)
  BY <1>1, <1>2, <1>3, Zenon DEF NumberEnd, EndIn, DigitsEnd
<1>6. QED  BY <1>1, <1>2, <1>4, <1>5, Zenon

States == {"CMD", "SET1", "COMMA_AFTER_SET1", "SET2", "COMMA_AFTER_SET2",
           "RESULT", "NUMBER", "COMMA_READ", "MINUS1", "STOP"}

\* The types of what the automaton does not touch.
StoreOK ==
  /\ input \in Seq(Seq(Symbol) \ {<<>>})
  /\ typed \in Seq(Symbol) /\ command_line \in Seq(Symbol)
  /\ Len(typed) < LineSize
  /\ set_array \in [SetName -> SetType]
  /\ set1 \in SetName \union {"none"}
  /\ num_array \in Numbers

\* And of what it does.
AutomatonOK ==
  /\ cmdln \in 1 .. Len(command_line) + 1
  /\ pc \in {"prompt", "validate", "execute", "read_numbers", "success", "failure"}
  /\ state \in States
  /\ command_number \in Command \union {"none"}
  /\ Len(output) <= 1

LEMMA TypeParts == TypeOK <=> StoreOK /\ AutomatonOK
BY DEF TypeOK, StoreOK, AutomatonOK, States, SetType, Numbers, Storable

LEMMA StoreKept == StoreOK /\ Kept => StoreOK' /\ command_line' = command_line
BY DEF StoreOK, Kept

LEMMA LineShape ==
  ASSUME Inv
  PROVE  /\ command_line \in Lines /\ Len(command_line) \in Nat
         /\ cmdln \in 1 .. Len(command_line) + 1
<1>1. StoreOK /\ AutomatonOK
  BY TypeParts DEF Inv
<1>2. command_line \in Lines /\ cmdln \in 1 .. Len(command_line) + 1
  BY <1>1 DEF StoreOK, AutomatonOK, Lines
<1>3. Len(command_line) \in Nat
  BY <1>2 DEF Lines
<1>4. QED  BY <1>2, <1>3

LEMMA Rejected ==
  ASSUME Inv, Kept, pc' \in {"prompt", "success", "failure"},
         UNCHANGED <<cmdln, state, command_number>>, Len(output') <= 1
  PROVE  Inv'
<1>1. StoreOK /\ AutomatonOK
  BY TypeParts DEF Inv
<1>2. StoreOK' /\ command_line' = command_line /\ typed' = typed
  BY <1>1, StoreKept DEF Kept
<1>3. AutomatonOK'
  BY <1>1, <1>2 DEF AutomatonOK
<1>4. TypeOK'
  BY <1>2, <1>3, TypeParts, PTL
<1>5. Len(command_line') = Len(typed')
  BY <1>2 DEF Inv
<1>6. QED  BY <1>4, <1>5, Zenon DEF Inv

LEMMA Moved ==
  ASSUME Inv, pc = "validate", Kept, NEW p \in 1 .. Len(command_line) + 1,
         NEW s \in States, NEW c \in Command \union {"none"},
         cmdln' = p, state' = s, command_number' = c, UNCHANGED <<pc, output>>,
         Validated(command_line, p, s, c)
  PROVE  Inv'
<1>1. StoreOK /\ AutomatonOK
  BY TypeParts DEF Inv
<1>2. StoreOK' /\ command_line' = command_line /\ typed' = typed /\ num_array' = num_array
  BY <1>1, StoreKept DEF Kept
<1>3. cmdln' = p /\ state' = s /\ pc' = pc /\ command_number' = c /\ output' = output
  OBVIOUS
<1>4. AutomatonOK'
  BY <1>1, <1>2, <1>3 DEF AutomatonOK
<1>5. TypeOK'
  BY <1>2, <1>4, TypeParts, PTL
<1>6. Len(command_line') = Len(typed') /\ num_array' = <<>>
  BY <1>2 DEF Inv
<1>7. Validated(command_line', cmdln', state', command_number')
  BY <1>2, <1>3, Zenon
<1>8. QED  BY <1>3, <1>5, <1>6, <1>7 DEF Inv

LEMMA Gone ==
  ASSUME Inv, pc = "validate", Kept, NEW p \in 1 .. Len(command_line) + 1,
         NEW s \in States, Go(p, s), Validated(command_line, p, s, command_number)
  PROVE  Inv'
<1>1. command_number \in Command \union {"none"}
  BY TypeParts DEF Inv, AutomatonOK
<1>2. PICK c \in Command \union {"none"} : c = command_number
  BY <1>1, Zenon
<1>3. /\ cmdln' = p /\ state' = s /\ command_number' = c /\ UNCHANGED <<pc, output>>
      /\ Validated(command_line, p, s, c)
  BY <1>2, Zenon DEF Go
<1>4. QED  BY <1>2, <1>3, Moved, Zenon

LEMMA Accepted ==
  ASSUME Inv, pc = "validate", Kept, Accept,
         ToExecute(command_line, FirstIn(command_line))
  PROVE  Inv'
<1>1. StoreOK /\ AutomatonOK
  BY TypeParts DEF Inv
<1>2. StoreOK' /\ command_line' = command_line /\ typed' = typed /\ num_array' = num_array
  BY <1>1, StoreKept DEF Kept
<1>3. /\ cmdln' = Skip(1, Blank) /\ state' = state /\ pc' = "execute"
      /\ command_number' = command_number /\ output' = output
  BY DEF Accept
<1>4. cmdln' = FirstIn(command_line)
  BY <1>3, OfTheLine, Zenon DEF FirstIn
<1>5. cmdln' \in 1 .. Len(command_line) + 1
  <2>1. Len(command_line) \in Nat /\ 1 \in 1 .. Len(command_line) + 1
    BY LineShape
  <2>2. Skipped(command_line, 1, Blank) \in 1 .. Len(command_line) + 1
    BY <2>1, Apart, SkippedIs, Zenon
  <2>3. QED  BY <1>4, <2>2, Zenon DEF FirstIn
<1>6. AutomatonOK'
  BY <1>1, <1>2, <1>3, <1>5 DEF AutomatonOK
<1>7. TypeOK'
  BY <1>2, <1>6, TypeParts, PTL
<1>8. Len(command_line') = Len(typed') /\ num_array' = <<>>
  BY <1>2 DEF Inv
<1>9. ToExecute(command_line', cmdln')
  BY <1>2, <1>4, Zenon
<1>10. QED  BY <1>3, <1>7, <1>8, <1>9 DEF Inv

-----------------------------------------------------------------------------
(* The automaton *)

LEMMA Inside ==
  ASSUME Inv, CharAt(command_line, cmdln) # "end"
  PROVE  cmdln \in 1 .. Len(command_line) /\ cmdln + 1 \in 1 .. Len(command_line) + 1
<1>1. Len(command_line) \in Nat /\ cmdln \in 1 .. Len(command_line) + 1
  BY LineShape
<1>2. cmdln <= Len(command_line)
  BY DEF CharAt
<1>3. QED  BY <1>1, <1>2

LEMMA Known ==
  ASSUME Inv, pc = "validate"
  PROVE  Validated(command_line, cmdln, state, command_number)
BY DEF Inv

LEMMA SkipSpaceKeeps == ASSUME Inv, SkipSpace PROVE Inv'
<1>1. pc = "validate" /\ CharAt(command_line, cmdln) = "space"
      /\ Go(cmdln + 1, state) /\ Kept
  BY OfTheLine, Zenon DEF SkipSpace
<1>2. cmdln + 1 \in 1 .. Len(command_line) + 1
  BY <1>1, Inside
<1>3. Validated(command_line, cmdln + 1, state, command_number)
  BY <1>1, Known, LineShape, SpaceKnown, Zenon
<1>4. state \in States
  BY TypeParts DEF Inv, AutomatonOK
<1>5. PICK p \in 1 .. Len(command_line) + 1, s \in States : p = cmdln + 1 /\ s = state
  BY <1>2, <1>4, Zenon
<1>6. Go(p, s) /\ Validated(command_line, p, s, command_number)
  BY <1>1, <1>3, <1>5, Zenon
<1>7. QED  BY <1>1, <1>6, Gone, Zenon

\* A message, and nothing else.
LEMMA RejectKeeps ==
  ASSUME Inv, Kept, NEW message, Reject(message)
  PROVE  Inv'
<1>1. pc' = "prompt" /\ UNCHANGED <<cmdln, state, command_number>> /\ output' = <<message>>
  BY DEF Reject
<1>2. Len(output') <= 1 /\ pc' \in {"prompt", "success", "failure"}
  BY <1>1
<1>3. QED  BY <1>1, <1>2, Rejected, Zenon

LEMMA ReadCommandKeeps == ASSUME Inv, ReadCommand PROVE Inv'
<1>1. CASE Reject("undefined command name")
  BY <1>1, RejectKeeps, Zenon DEF ReadCommand
<1>2. CASE /\ At(cmdln) \in Command
           /\ command_number' = At(cmdln)
           /\ state' = IF At(cmdln) = "stop" THEN "STOP" ELSE "SET1"
           /\ cmdln' = cmdln + 1
           /\ UNCHANGED <<pc, output>>
  <2>1. pc = "validate" /\ state = "CMD" /\ Kept
    BY DEF ReadCommand, Validating
  <2>2. PICK c : c = CharAt(command_line, cmdln)
    OBVIOUS
  <2>3. c \in Command /\ c # "end" /\ command_number' = c
    BY <1>2, <2>2, OfTheLine, NamesStand, Zenon
  <2>4. PICK p \in 1 .. Len(command_line) + 1 : p = cmdln + 1
    BY <2>2, <2>3, Inside, Zenon
  <2>5. PICK s \in States : s = IF c = "stop" THEN "STOP" ELSE "SET1"
    BY DEF States
  <2>6. Validated(command_line, cmdln, "CMD", command_number)
    BY <2>1, Known, Zenon
  <2>7. Validated(command_line, p, s, c)
    BY <2>2, <2>3, <2>4, <2>5, <2>6, LineShape, CommandKnown, Zenon
  <2>8. cmdln' = p /\ state' = s /\ UNCHANGED <<pc, output>>
    BY <1>2, <2>2, <2>4, <2>5, OfTheLine, Zenon
  <2>9. c \in Command \union {"none"}
    BY <2>3
  <2>10. QED  BY <2>1, <2>3, <2>7, <2>8, <2>9, Moved, Zenon
<1>3. QED  BY <1>1, <1>2, Zenon DEF ReadCommand

LEMMA EndCommandKeeps ==
  ASSUME Inv, pc = "validate", Kept, EndCommand,
         CommandRead(command_line, cmdln, command_number), command_number # "read_set"
  PROVE  Inv'
<1>1. CASE Accept
  BY <1>1, Accepted, OtherAccepted, Zenon
<1>2. CASE Reject("extraneous text")
  BY <1>2, RejectKeeps, Zenon
<1>3. QED  BY <1>1, <1>2, Zenon DEF EndCommand

LEMMA ReadSet1Keeps == ASSUME Inv, ReadSet1 PROVE Inv'
<1>1. pc = "validate" /\ state = "SET1" /\ CharAt(command_line, cmdln) # "space" /\ Kept
  BY OfTheLine, Zenon DEF ReadSet1, Validating
<1>2. ASSUME NEW message, Reject(message) PROVE Inv'
  BY <1>1, <1>2, RejectKeeps, Zenon
<1>3. Validated(command_line, cmdln, "SET1", command_number)
  BY <1>1, Known, Zenon
<1>4. ASSUME At(cmdln) \in SetName,
             CASE command_number = "print_set" -> EndCommand
               [] command_number = "read_set" -> Go(cmdln + 1, "COMMA_READ")
               [] OTHER -> Go(cmdln + 1, "COMMA_AFTER_SET1")
      PROVE  Inv'
  <2>1. CharAt(command_line, cmdln) \in SetName
    BY <1>4, OfTheLine, Zenon
  <2>2. PICK p \in 1 .. Len(command_line) + 1 : p = cmdln + 1
    BY <2>1, NamesStand, Inside, Zenon
  <2>3. /\ command_number = "read_set" => Validated(command_line, p, "COMMA_READ", command_number)
        /\ command_number # "read_set" =>
             Validated(command_line, p, "COMMA_AFTER_SET1", command_number)
    BY <1>1, <1>3, <2>1, <2>2, LineShape, Set1Known, Zenon
  <2>4. "COMMA_READ" \in States /\ "COMMA_AFTER_SET1" \in States
    BY DEF States
  <2>5. CASE command_number = "print_set"
    <3>1. EndCommand /\ command_number # "read_set"
      BY <1>4, <2>5
    <3>2. CommandRead(command_line, cmdln, command_number)
      BY <1>3 DEF Validated, LaterState
    <3>3. QED  BY <1>1, <3>1, <3>2, EndCommandKeeps, Zenon
  <2>6. CASE command_number = "read_set"
    <3>1. Go(p, "COMMA_READ")
      BY <1>4, <2>2, <2>6, Zenon
    <3>2. QED  BY <1>1, <2>3, <2>4, <2>6, <3>1, Gone, Zenon
  <2>7. CASE command_number # "print_set" /\ command_number # "read_set"
    <3>1. Go(p, "COMMA_AFTER_SET1")
      BY <1>4, <2>2, <2>7, Zenon
    <3>2. QED  BY <1>1, <2>3, <2>4, <2>7, <3>1, Gone, Zenon
  <2>8. QED  BY <2>5, <2>6, <2>7, Zenon
<1>5. QED  BY <1>2, <1>4, Zenon DEF ReadSet1

\* Between two states that only commands other than read_set reach.
LEMMA OtherGone ==
  ASSUME Inv, pc = "validate", Kept, state \in OtherStates, NEW next \in OtherStates,
         CharAt(command_line, cmdln) # "end", Go(cmdln + 1, next)
  PROVE  Inv'
<1>1. PICK p \in 1 .. Len(command_line) + 1 : p = cmdln + 1
  BY Inside, Zenon
<1>2. Validated(command_line, p, next, command_number)
  BY <1>1, Known, LineShape, OtherKnown, Zenon
<1>3. next \in States
  BY DEF States, OtherStates
<1>4. Go(p, next)
  BY <1>1, Zenon
<1>5. QED  BY <1>2, <1>3, <1>4, Gone, Zenon

LEMMA ReadCommaKeeps ==
  ASSUME Inv, NEW from \in OtherStates, NEW next \in OtherStates, ReadComma(from, next)
  PROVE  Inv'
<1>1. pc = "validate" /\ state = from /\ Kept
  BY DEF ReadComma, Validating
<1>2. CASE At(cmdln) = "," /\ Go(cmdln + 1, next)
  <2>1. CharAt(command_line, cmdln) # "end"
    BY <1>2, OfTheLine
  <2>2. QED  BY <1>1, <1>2, <2>1, OtherGone, Zenon
<1>3. CASE Reject("missing comma")
  BY <1>1, <1>3, RejectKeeps, Zenon
<1>4. QED  BY <1>2, <1>3, Zenon DEF ReadComma

LEMMA ReadSet2Keeps == ASSUME Inv, ReadSet2 PROVE Inv'
<1>1. pc = "validate" /\ state = "SET2" /\ Kept
  BY DEF ReadSet2, ReadSetName, Validating
<1>2. ASSUME NEW message, Reject(message) PROVE Inv'
  BY <1>1, <1>2, RejectKeeps, Zenon
<1>3. ASSUME At(cmdln) \in SetName, Go(cmdln + 1, "COMMA_AFTER_SET2") PROVE Inv'
  <2>1. CharAt(command_line, cmdln) # "end"
    BY <1>3, OfTheLine, NamesStand, Zenon
  <2>2. state \in OtherStates /\ "COMMA_AFTER_SET2" \in OtherStates
    BY <1>1 DEF OtherStates
  <2>3. QED  BY <1>1, <1>3, <2>1, <2>2, OtherGone, Zenon
<1>4. QED  BY <1>2, <1>3, Zenon DEF ReadSet2, ReadSetName

LEMMA ReadResultKeeps == ASSUME Inv, ReadResult PROVE Inv'
<1>1. pc = "validate" /\ state = "RESULT" /\ Kept
  BY DEF ReadResult, ReadSetName, Validating
<1>2. ASSUME NEW message, Reject(message) PROVE Inv'
  BY <1>1, <1>2, RejectKeeps, Zenon
<1>3. ASSUME EndCommand PROVE Inv'
  <2>1. Validated(command_line, cmdln, state, command_number)
    BY <1>1, Known, Zenon
  <2>2. CommandRead(command_line, cmdln, command_number) /\ command_number # "read_set"
    BY <1>1, <2>1 DEF Validated, LaterState, OtherState, OtherStates
  <2>3. QED  BY <1>1, <1>3, <2>2, EndCommandKeeps, Zenon
<1>4. QED  BY <1>2, <1>3, Zenon DEF ReadResult, ReadSetName

LEMMA ReadNumberCommaKeeps == ASSUME Inv, ReadNumberComma PROVE Inv'
<1>1. pc = "validate" /\ state = "COMMA_READ" /\ Kept
  BY DEF ReadNumberComma, Validating
<1>2. ASSUME NEW message, Reject(message) PROVE Inv'
  BY <1>1, <1>2, RejectKeeps, Zenon
<1>3. ASSUME At(cmdln) = ",", Go(cmdln + 1, "NUMBER") PROVE Inv'
  <2>1. CharAt(command_line, cmdln) = ","
    BY <1>3, OfTheLine, Zenon
  <2>2. CharAt(command_line, cmdln) \in Separator /\ CharAt(command_line, cmdln) # "end"
    BY <2>1 DEF Separator
  <2>3. PICK p \in 1 .. Len(command_line) + 1 : p = cmdln + 1
    BY <2>2, Inside, Zenon
  <2>4. Validated(command_line, p, "NUMBER", command_number)
    BY <1>1, <2>2, <2>3, Known, LineShape, CommaKnown, Zenon
  <2>5. Go(p, "NUMBER") /\ "NUMBER" \in States
    BY <1>3, <2>3, Zenon DEF States
  <2>6. QED  BY <1>1, <2>4, <2>5, Gone, Zenon
<1>4. ASSUME pc' = "prompt", UNCHANGED <<cmdln, state, command_number, output>>
      PROVE  Inv'
  <2>1. Len(output) <= 1
    BY TypeParts DEF Inv, AutomatonOK
  <2>2. /\ UNCHANGED <<cmdln, state, command_number>> /\ Len(output') <= 1
        /\ pc' \in {"prompt", "success", "failure"}
    BY <1>4, <2>1
  <2>3. QED  BY <1>1, <1>4, <2>2, Rejected, Zenon
<1>5. QED  BY <1>2, <1>3, <1>4, Zenon DEF ReadNumberComma

LEMMA ReadEndKeeps == ASSUME Inv, ReadEnd PROVE Inv'
<1>1. pc = "validate" /\ Kept
  BY DEF ReadEnd, Validating
<1>2. ASSUME NEW message, Reject(message) PROVE Inv'
  BY <1>1, <1>2, RejectKeeps, Zenon
<1>3. ASSUME At(cmdln) = "end", Accept PROVE Inv'
  <2>1. CharAt(command_line, cmdln) = "end"
    BY <1>3, OfTheLine, Zenon
  <2>2. Validated(command_line, cmdln, state, command_number)
    BY <1>1, Known, Zenon
  <2>3. cmdln = Len(command_line) + 1
    <3>1. "end" \notin Symbol
      BY NameAssumption, DigitIs DEF Symbol, Command
    <3>2. ASSUME cmdln \in 1 .. Len(command_line) PROVE FALSE
      <4>1. command_line[cmdln] \in Symbol
        BY <3>2, LineShape DEF Lines
      <4>2. QED  BY <2>1, <3>1, <3>2, <4>1, LineShape DEF CharAt
    <3>3. QED  BY <3>2, LineShape
  <2>4. ToExecute(command_line, FirstIn(command_line))
    <3>1. CASE state = "MINUS1"
      BY <2>2, <2>3, <3>1, LineShape, ListAccepted, Zenon
    <3>2. CASE state = "STOP"
      <4>1. command_number = "stop" /\ CommandRead(command_line, cmdln, command_number)
        BY <2>2, <3>2 DEF Validated, StopState, LaterState
      <4>2. command_number # "read_set"
        BY <4>1
      <4>3. QED  BY <4>1, <4>2, OtherAccepted, Zenon
    <3>3. QED  BY <3>1, <3>2, Zenon DEF ReadEnd, Validating
  <2>5. QED  BY <1>1, <1>3, <2>4, Accepted, Zenon
<1>4. QED  BY <1>2, <1>3, Zenon DEF ReadEnd

\* The automaton goes over no more than strtol did.
LEMMA NumberGone ==
  ASSUME Inv, pc = "validate", state = "NUMBER", Kept,
         CharAt(command_line, cmdln) \notin Border,
         NumberIn(command_line, cmdln) \in Storable,
         NEW next \in cmdln + 1 .. EndIn(command_line, cmdln),
         NEW s \in {"COMMA_READ", "MINUS1"}, Go(next, s)
  PROVE  Inv'
<1>1. CharAt(command_line, cmdln) \notin Separator
  BY Apart, Zenon
<1>2. Validated(command_line, next, s, command_number)
  BY <1>1, Known, LineShape, NumberKnown, Zenon
<1>3. PICK e : e = EndIn(command_line, cmdln)
  OBVIOUS
<1>4. e \in cmdln .. Len(command_line) + 1
  BY <1>3, LineShape, NumberInside, Zenon
<1>5. next \in cmdln + 1 .. e
  BY <1>3
<1>6. next \in 1 .. Len(command_line) + 1
  BY <1>4, <1>5, LineShape
<1>7. s \in States
  BY DEF States
<1>8. QED  BY <1>2, <1>6, <1>7, Gone, Zenon

LEMMA Expected == \A n \in 1 .. 127 : DigitsExpected(n) \in 1 .. 3
BY DEF DigitsExpected

LEMMA ReadNumberKeeps == ASSUME Inv, ReadNumber PROVE Inv'
<1>1. pc = "validate" /\ state = "NUMBER" /\ At(cmdln) # "space" /\ Kept
  BY DEF ReadNumber, Validating
<1>2. ASSUME NEW message, Reject(message) PROVE Inv'
  BY <1>1, <1>2, RejectKeeps, Zenon
<1>3. PICK num : num = NumberIn(command_line, cmdln)
  OBVIOUS
<1>4. Number(cmdln) = num
  BY <1>3, OfTheLine, Zenon
<1>5. PICK e : e = EndIn(command_line, cmdln)
  OBVIOUS
<1>6. /\ num = -1 => cmdln + 2 <= e
      /\ num \in 1 .. 127 => cmdln + DigitsExpected(num) <= e
      /\ CharAt(command_line, cmdln) = "0" => cmdln + 1 <= e
  BY <1>3, <1>5, LineShape, NumberTaken, Zenon
<1>7. e \in cmdln .. Len(command_line) + 1
  BY <1>5, LineShape, NumberInside, Zenon
<1>8. cmdln \in Nat /\ e \in Nat
  BY <1>7, LineShape
<1>9. ASSUME At(cmdln) \notin {"end", ","} PROVE CharAt(command_line, cmdln) \notin Border
  BY <1>1, <1>9, OfTheLine, Zenon DEF Border, Separator
<1>10. ASSUME CharAt(command_line, cmdln) \notin Border, num = -1,
              Go(cmdln + 2, "MINUS1")
       PROVE  Inv'
  <2>1. num \in Storable
    BY <1>10 DEF Storable, NUM_OF_BITS
  <2>2. PICK next \in cmdln + 1 .. e : next = cmdln + 2
    BY <1>6, <1>8, <1>10
  <2>3. QED  BY <1>1, <1>3, <1>5, <1>10, <2>1, <2>2, NumberGone, Zenon
<1>11. ASSUME CharAt(command_line, cmdln) \notin Border, num \in 1 .. 127,
              Go(cmdln + DigitsExpected(num), "COMMA_READ")
       PROVE  Inv'
  <2>1. num \in Storable
    BY <1>11 DEF Storable, NUM_OF_BITS
  <2>2. PICK d \in 1 .. 3 : d = DigitsExpected(num)
    BY <1>11, Expected
  <2>3. PICK next \in cmdln + 1 .. e : next = cmdln + d
    BY <1>6, <1>8, <1>11, <2>2
  <2>4. QED  BY <1>1, <1>3, <1>5, <1>11, <2>1, <2>2, <2>3, NumberGone, Zenon
<1>12. ASSUME CharAt(command_line, cmdln) \notin Border, num = 0, At(cmdln) = "0",
              Go(cmdln + 1, "COMMA_READ")
       PROVE  Inv'
  <2>1. num \in Storable
    BY <1>12 DEF Storable, NUM_OF_BITS
  <2>2. CharAt(command_line, cmdln) = "0"
    BY <1>12, OfTheLine, Zenon
  <2>3. PICK next \in cmdln + 1 .. e : next = cmdln + 1
    BY <1>6, <1>8, <2>2
  <2>4. QED  BY <1>1, <1>3, <1>5, <1>12, <2>1, <2>3, NumberGone, Zenon
<1>13. QED  BY <1>2, <1>4, <1>9, <1>10, <1>11, <1>12, Zenon DEF ReadNumber

LEMMA AutomatonKeeps == ASSUME Inv, Automaton PROVE Inv'
<1>1. /\ "COMMA_AFTER_SET1" \in OtherStates /\ "SET2" \in OtherStates
      /\ "COMMA_AFTER_SET2" \in OtherStates /\ "RESULT" \in OtherStates
  BY DEF OtherStates
<1>2. QED
  BY <1>1, SkipSpaceKeeps, ReadCommandKeeps, ReadSet1Keeps, ReadSet2Keeps, ReadResultKeeps,
     ReadCommaKeeps, ReadNumberKeeps, ReadNumberCommaKeeps, ReadEndKeeps, Zenon DEF Automaton

-----------------------------------------------------------------------------
(* main *)

LEMMA LineBegins ==
  ASSUME Inv, NEW line, line \in Lines, Len(line) < LineSize, Validate(line),
         input' \in Seq(Seq(Symbol) \ {<<>>})
  PROVE  Inv'
<1>1. StoreOK /\ AutomatonOK
  BY TypeParts DEF Inv
<1>2. /\ typed' = line /\ command_line' = line /\ pc' = "validate" /\ state' = "CMD"
      /\ command_number' = "none" /\ cmdln' = 1 /\ num_array' = <<>> /\ output' = <<>>
      /\ set_array' = set_array /\ set1' = set1
  BY DEF Validate
<1>3. StoreOK'
  <2>1. typed' \in Seq(Symbol) /\ command_line' \in Seq(Symbol) /\ Len(typed') < LineSize
    BY <1>2 DEF Lines
  <2>2. num_array' \in Numbers
    BY <1>2 DEF Numbers
  <2>3. QED  BY <1>1, <1>2, <2>1, <2>2 DEF StoreOK
<1>4. AutomatonOK'
  <2>1. cmdln' \in 1 .. Len(command_line') + 1
    BY <1>2 DEF Lines
  <2>2. /\ pc' = "validate" /\ state' \in States /\ command_number' = "none"
        /\ Len(output') <= 1
    BY <1>2 DEF States
  <2>3. QED  BY <2>1, <2>2, Zenon DEF AutomatonOK
<1>5. TypeOK'
  BY <1>3, <1>4, TypeParts, PTL
<1>6. Validated(line, 1, "CMD", "none")
  BY DEF Validated, CmdState, BlankUpTo, LaterState, StopState, Set1State,
     OtherState, OtherStates, ListState, BetweenState, NumberState, LongState
<1>7. QED  BY <1>2, <1>5, <1>6 DEF Inv

LEMMA ReadLineKeeps == ASSUME Inv, ReadLine PROVE Inv'
<1> DEFINE Text == Seq(Symbol) \ {<<>>}
<1>1. input \in Seq(Text) /\ input # <<>>
  BY TypeParts DEF Inv, StoreOK, ReadLine
<1>2. LineSize \in Nat /\ LineSize > 1
  BY SizeAssumption
<1>3. PICK head \in Text : head = Head(input)
  <2> HIDE DEF Text
  <2>1. QED  BY <1>1, HeadTailProperties
<1>4. PICK tail \in Seq(Text) : tail = Tail(input)
  <2> HIDE DEF Text
  <2>1. QED  BY <1>1, HeadTailProperties
<1>5. head \in Lines /\ head # <<>> /\ Len(head) \in Nat
  BY DEF Lines
<1>6. ASSUME Len(head) < LineSize, Validate(head), input' = tail
      PROVE  Inv'
  <2>1. input' \in Seq(Seq(Symbol) \ {<<>>})
    BY <1>4, <1>6, Zenon
  <2>2. QED  BY <1>5, <1>6, <2>1, LineBegins, Zenon
<1>7. ASSUME ~(Len(head) < LineSize), Validate(SubSeq(head, 1, LineSize - 1)),
             input' = <<SubSeq(head, LineSize, Len(head))>> \o tail
      PROVE  Inv'
  <2>1. PICK first : first = SubSeq(head, 1, LineSize - 1)
    OBVIOUS
  <2>2. PICK rest : rest = SubSeq(head, LineSize, Len(head))
    OBVIOUS
  <2>3. \A k \in 1 .. Len(head) : head[k] \in Symbol
    BY <1>5, ElementOfSeq, Zenon DEF Lines
  <2>4. first \in Lines /\ Len(first) < LineSize
    <3>1. 1 \in Int /\ LineSize - 1 \in Int
          /\ \A k \in 1 .. LineSize - 1 : head[k] \in Symbol
      BY <1>2, <1>5, <1>7, <2>3
    <3>2. /\ first \in Seq(Symbol)
          /\ Len(first) = IF 1 <= LineSize - 1 THEN (LineSize - 1) - 1 + 1 ELSE 0
      BY <2>1, <3>1, SubSeqProperties
    <3>3. QED  BY <1>2, <3>2 DEF Lines
  <2>5. rest \in Text
    <3>1. LineSize \in Int /\ Len(head) \in Int
          /\ \A k \in LineSize .. Len(head) : head[k] \in Symbol
      BY <1>2, <1>5, <1>7, <2>3
    <3>2. /\ rest \in Seq(Symbol)
          /\ Len(rest) = IF LineSize <= Len(head) THEN Len(head) - LineSize + 1 ELSE 0
      BY <2>2, <3>1, SubSeqProperties
    <3>3. Len(rest) # 0
      BY <1>2, <1>5, <1>7, <3>2
    <3>4. QED  BY <3>2, <3>3
  <2>6. input' \in Seq(Text)
    <3>1. input' = <<rest>> \o tail
      BY <1>7, <2>2, Zenon
    <3> HIDE DEF Text
    <3>2. <<rest>> \in Seq(Text)
      BY <2>5
    <3>3. QED  BY <1>4, <3>1, <3>2, ConcatProperties
  <2>7. Validate(first) /\ input' \in Seq(Seq(Symbol) \ {<<>>})
    BY <1>7, <2>1, <2>6, Zenon
  <2>8. QED  BY <2>4, <2>7, LineBegins, Zenon
<1>8. QED  BY <1>3, <1>4, <1>6, <1>7, Zenon DEF ReadLine

LEMMA EndOfInputKeeps == ASSUME Inv, EndOfInput PROVE Inv'
<1>1. /\ Kept /\ UNCHANGED <<cmdln, state, command_number>>
      /\ pc' \in {"prompt", "success", "failure"}
      /\ output' = output \/ output' = <<"no stop command">>
  BY DEF EndOfInput
<1>2. Len(output) <= 1
  BY TypeParts DEF Inv, AutomatonOK
<1>3. PICK message : output' = output \/ output' = <<message>>
  BY <1>1, Zenon
<1>4. Len(<<message>>) <= 1
  OBVIOUS
<1>5. Len(output') <= 1
  BY <1>2, <1>3, <1>4, Zenon
<1>6. QED  BY <1>1, <1>5, Rejected, Zenon

LEMMA StopKeeps == ASSUME Inv, Stop PROVE Inv'
<1>1. /\ Kept /\ UNCHANGED <<cmdln, state, command_number>>
      /\ pc' \in {"prompt", "success", "failure"} /\ output' = <<"bye">>
  BY DEF Stop
<1>2. Len(output') <= 1
  BY <1>1
<1>3. QED  BY <1>1, <1>2, Rejected, Zenon

-----------------------------------------------------------------------------
(* The second scan *)

LEMMA BeginReadKeeps == ASSUME Inv, BeginRead PROVE Inv'
<1>1. StoreOK /\ AutomatonOK
  BY TypeParts DEF Inv
<1>2. /\ pc = "execute" /\ At(cmdln) \in {"read_set"}
      /\ set1' = At(Set1Place) /\ cmdln' = Set1Place + 1 /\ pc' = "read_numbers"
      /\ UNCHANGED <<input, typed, command_line, state, command_number, set_array,
                     num_array, output>>
  BY DEF BeginRead, Executing
<1>3. PICK n : n = Set1In(command_line)
  OBVIOUS
<1>4. Set1Place = n
  <2>1. cmdln = FirstIn(command_line)
    BY <1>2 DEF Inv, ToExecute
  <2>2. QED  BY <1>3, <2>1, OfTheLine, Zenon DEF Set1Place, Set1In
<1>5. /\ n \in 1 .. Len(command_line) /\ n + 1 >= 3
      /\ CharAt(command_line, n) \in SetName /\ Scannable(command_line, n + 1)
  <2>1. ToExecute(command_line, cmdln) /\ CharAt(command_line, cmdln) = "read_set"
    BY <1>2, OfTheLine DEF Inv
  <2>2. /\ cmdln \in 1 .. Len(command_line) /\ n \in cmdln + 1 .. Len(command_line)
        /\ CharAt(command_line, n) \in SetName /\ Scannable(command_line, n + 1)
    BY <1>3, <2>1, Zenon DEF ToExecute
  <2>3. n \in 1 .. Len(command_line) /\ n + 1 >= 3
    BY <2>2, LineShape
  <2>4. QED  BY <2>2, <2>3
<1>6. /\ set1' \in SetName /\ cmdln' = n + 1
      /\ set1' = CharAt(command_line, n)
  BY <1>2, <1>4, <1>5, OfTheLine, Zenon
<1>7. num_array = <<>>
  BY <1>2 DEF Inv
<1>8. StoreOK'
  <2>1. set1' \in SetName \union {"none"}
    BY <1>6, Zenon
  <2>2. QED  BY <1>1, <1>2, <2>1, Zenon DEF StoreOK
<1>9. AutomatonOK'
  <2>1. n + 1 \in 1 .. Len(command_line) + 1
    BY <1>5, LineShape
  <2>2. cmdln' \in 1 .. Len(command_line') + 1
    BY <1>2, <1>6, <2>1, Zenon
  <2>3. /\ pc' \in {"prompt", "validate", "execute", "read_numbers", "success", "failure"}
        /\ state' = state /\ command_number' = command_number /\ output' = output
    BY <1>2
  <2>4. QED  BY <1>1, <2>2, <2>3, Zenon DEF AutomatonOK
<1>10. TypeOK'
  BY <1>8, <1>9, TypeParts, PTL
<1>11. Collecting(command_line', cmdln', set1', num_array')
  <2>1. Room(command_line, n + 1, Len(<<>>))
    BY <1>5, LineShape DEF Room
  <2>2. Scannable(command_line, n + 1) /\ set1' \in SetName
    BY <1>5, <1>6
  <2>3. num_array' = <<>> /\ command_line' = command_line /\ cmdln' = n + 1
    BY <1>2, <1>6, <1>7
  <2>4. QED  BY <2>1, <2>2, <2>3, Zenon DEF Collecting
<1>12. Len(command_line') = Len(typed')
  BY <1>2 DEF Inv
<1>13. QED  BY <1>2, <1>10, <1>11, <1>12 DEF Inv

\* The sets, when a command was executed.
LEMMA DoneKeeps ==
  ASSUME Inv, NEW message, Done(message), set_array' \in [SetName -> SetType]
  PROVE  Inv'
<1>1. StoreOK /\ AutomatonOK
  BY TypeParts DEF Inv
<1>2. /\ pc' = "prompt" /\ output' = <<message>>
      /\ UNCHANGED <<input, typed, command_line, cmdln, state, command_number, set1,
                     num_array>>
  BY DEF Done
<1>3. StoreOK'
  BY <1>1, <1>2, Zenon DEF StoreOK
<1>4. AutomatonOK'
  <2>1. Len(output') <= 1 /\ cmdln' \in 1 .. Len(command_line') + 1
    BY <1>1, <1>2 DEF AutomatonOK
  <2>2. /\ pc' \in {"prompt", "validate", "execute", "read_numbers", "success", "failure"}
        /\ state' = state /\ command_number' = command_number
    BY <1>2
  <2>3. QED  BY <1>1, <2>1, <2>2, Zenon DEF AutomatonOK
<1>5. TypeOK'
  BY <1>3, <1>4, TypeParts, PTL
<1>6. Len(command_line') = Len(typed')
  BY <1>2 DEF Inv
<1>7. QED  BY <1>2, <1>5, <1>6 DEF Inv

LEMMA SetsTyped == ASSUME Inv PROVE set_array \in [SetName -> SetType]
BY TypeParts DEF Inv, StoreOK

LEMMA OneSetTyped ==
  ASSUME NEW sets \in [SetName -> SetType], NEW name, NEW set \in SetType
  PROVE  [sets EXCEPT ![name] = set] \in [SetName -> SetType]
OBVIOUS

LEMMA FinishReadKeeps == ASSUME Inv, FinishRead PROVE Inv'
<1>1. num_array \in Numbers
  BY TypeParts DEF Inv, StoreOK
<1>2. ReadSet(num_array) \in SetType
  BY <1>1, SetRead, Zenon
<1>3. set_array' = [set_array EXCEPT ![set1] = ReadSet(num_array)] /\ Done("done")
  BY Zenon DEF FinishRead
<1>4. set_array' \in [SetName -> SetType]
  BY <1>2, <1>3, SetsTyped, OneSetTyped, Zenon
<1>5. QED  BY <1>3, <1>4, DoneKeeps, Zenon

LEMMA PrintSetKeeps == ASSUME Inv, PrintSet PROVE Inv'
<1>1. set_array' = set_array /\ Done("set")
  BY DEF PrintSet
<1>2. QED  BY <1>1, SetsTyped, DoneKeeps, Zenon

LEMMA CombinedTyped == \A command, s, t : Combined(command, s, t) \in SetType
<1> SUFFICES ASSUME NEW command, NEW s, NEW t PROVE Combined(command, s, t) \in SetType
  OBVIOUS
<1> DEFINE On(b, k) == Chosen(command, BitIsOn(s, b * SIZE_OF_BYTE + k),
                              BitIsOn(t, b * SIZE_OF_BYTE + k))
<1>1. Combined(command, s, t) =
        [b \in 0 .. NUM_OF_BYTES - 1 |-> {k \in 0 .. SIZE_OF_BYTE - 1 : On(b, k)}]
  BY Zenon DEF Combined
<1> HIDE DEF On
<1>2. QED  BY <1>1, Zenon DEF SetType

LEMMA OperateKeeps == ASSUME Inv, Operate PROVE Inv'
<1>1. PICK s, t, name :
        set_array' = [set_array EXCEPT ![name] = Combined(At(cmdln), s, t)]
  BY Zenon DEF Operate
<1>2. PICK set \in SetType : set = Combined(At(cmdln), s, t)
  BY CombinedTyped, Zenon
<1>3. set_array' \in [SetName -> SetType]
  BY <1>1, <1>2, SetsTyped, OneSetTyped, Zenon
<1>4. Done("done")
  BY DEF Operate
<1>5. QED  BY <1>3, <1>4, DoneKeeps, Zenon

\* Where the numbers have come so far is before the place of the scan.
LEMMA RoomLeft ==
  ASSUME NEW p \in Nat, NEW n \in Nat, 2 * n + 2 <= p, p <= LineSize
  PROVE  INT_SIZE * (n - ArraySize) < p
<1>1. ArraySize \in Nat /\ LineSize \in Nat /\ LineSize <= 4 * ArraySize
  BY SizeAssumption DEF INT_SIZE
<1>2. 4 * (n - ArraySize) = 4 * n - 4 * ArraySize
  BY <1>1
<1>3. QED  BY <1>1, <1>2 DEF INT_SIZE

LEMMA PlaceInLine ==
  ASSUME Inv
  PROVE  Len(command_line) + 1 <= LineSize /\ Len(command_line) < LineSize
<1>1. Len(command_line) < LineSize
  BY TypeParts DEF Inv, StoreOK
<1>2. QED  BY <1>1, LineShape, SizeAssumption

Covered(l, P) == [p \in 1 .. Len(l) |-> IF p \in P THEN "other" ELSE l[p]]

\* What is stored over the line leaves the rest of it as it was.
LEMMA OverwrittenBehind ==
  ASSUME NEW l, l \in Lines, NEW e \in 1 .. Len(l) + 1, NEW P, P \subseteq 1 .. e - 1,
         NEW m, m = Covered(l, P)
  PROVE  /\ m \in Lines /\ Len(m) = Len(l)
         /\ \A r \in e .. Len(l) + 1 : CharAt(m, r) = CharAt(l, r)
<1>1. Len(l) \in Nat
  BY DEF Lines
<1>2. \A p \in 1 .. Len(l) : l[p] \in Symbol
  BY ElementOfSeq DEF Lines
<1>3. "other" \in Symbol
  BY DEF Symbol
<1>4. \A p \in 1 .. Len(l) : m[p] \in Symbol
  BY <1>2, <1>3 DEF Covered
<1>5. m = [p \in 1 .. Len(l) |-> m[p]]
  BY DEF Covered
<1>6. m \in [1 .. Len(l) -> Symbol]
  BY <1>4, <1>5, Zenon
<1>7. m \in Seq(Symbol) /\ Len(m) = Len(l)
  BY <1>1, <1>6
<1>8. ASSUME NEW r \in e .. Len(l) + 1
      PROVE  CharAt(m, r) = CharAt(l, r)
  <2>1. r \notin P
    BY <1>1
  <2>2. CASE r <= Len(l)
    <3>1. m[r] = l[r]
      BY <1>1, <2>1, <2>2 DEF Covered
    <3>2. QED  BY <1>7, <2>2, <3>1 DEF CharAt
  <2>3. CASE ~(r <= Len(l))
    BY <1>7, <2>3 DEF CharAt
  <2>4. QED  BY <2>2, <2>3
<1>9. QED  BY <1>7, <1>8 DEF Lines

\* What is collected at p from the line l, and the line m that is left: behind
\* the number at is the place e, and as the line was from there on.
Collected(l, p, at, e, n, m) ==
  /\ l = command_line /\ p = cmdln /\ n = Len(num_array) /\ m = command_line'
  /\ at = Skipped(l, p, Separator) /\ e = EndIn(l, at)
  /\ pc = "read_numbers" /\ CharAt(l, p) # "end"
  /\ cmdln' = e /\ num_array' = Append(num_array, NumberIn(l, at))
  /\ UNCHANGED <<input, typed, pc, state, command_number, set_array, set1, output>>
  /\ l \in Lines /\ Len(l) \in Nat /\ p \in 1 .. Len(l)
  /\ set1 \in SetName /\ Scannable(l, p) /\ NumberIn(l, at) \in Storable
  /\ at \in p + 1 .. Len(l) + 1 /\ (at <= Len(l) => e >= at + 1)
  /\ e \in at .. Len(l) + 1 /\ e \in 1 .. Len(l) + 1
  /\ Scannable(l, e) /\ Room(l, e, n + 1)
  /\ m \in Lines /\ Len(m) = Len(l)
  /\ \A r \in e .. Len(l) + 1 : CharAt(m, r) = CharAt(l, r)

LEMMA NumberCollected ==
  ASSUME Inv, CollectNumber
  PROVE  \E l, p, at, e, m : \E n \in Nat : Collected(l, p, at, e, n, m)
<1>1. StoreOK /\ AutomatonOK
  BY TypeParts DEF Inv
<1>2. PICK l : l = command_line
  OBVIOUS
<1>3. PICK p : p = cmdln
  OBVIOUS
<1>4. PICK at : at = Skipped(l, p, Separator)
  OBVIOUS
<1>5. PICK e : e = EndIn(l, at)
  OBVIOUS
<1>6. /\ pc = "read_numbers" /\ CharAt(l, p) # "end"
      /\ cmdln' = e /\ num_array' = Append(num_array, NumberIn(l, at))
      /\ command_line' = [r \in 1 .. Len(l) |->
                            IF r \in Overwritten(Len(num_array) + 1) THEN "other" ELSE l[r]]
      /\ UNCHANGED <<input, typed, pc, state, command_number, set_array, set1, output>>
  BY <1>2, <1>3, <1>4, <1>5, OfTheLine, Zenon DEF CollectNumber
<1>7. PICK n \in Nat : n = Len(num_array)
  <2>1. num_array \in Numbers
    BY <1>1 DEF StoreOK
  <2>2. Len(num_array) \in Nat
    BY <2>1 DEF Numbers
  <2>3. QED  BY <2>2
<1>8. l \in Lines /\ Len(l) \in Nat /\ p \in 1 .. Len(l) /\ Len(l) + 1 <= LineSize
  BY <1>2, <1>3, <1>6, LineShape, Inside, PlaceInLine, Zenon
<1>9. set1 \in SetName /\ Scannable(l, p) /\ Room(l, p, n)
  BY <1>2, <1>3, <1>6, <1>7, Zenon DEF Inv, Collecting
<1>10. /\ at \in p + 1 .. Len(l) + 1
       /\ NumberIn(l, at) \in Storable
       /\ e \in at .. Len(l) + 1
       /\ at <= Len(l) => e >= at + 1
       /\ at = Len(l) + 1 => CharAt(l, e) = "end"
       /\ Scannable(l, e)
  BY <1>4, <1>5, <1>6, <1>8, <1>9, NextNumber, Zenon
<1>11. 2 * n + 3 <= p
  BY <1>6, <1>9 DEF Room
<1>12. Room(l, e, n + 1)
  <2>1. CASE at <= Len(l)
    <3>1. 2 * (n + 1) + 3 <= e
      BY <1>8, <1>10, <1>11, <2>1
    <3>2. QED  BY <1>8, <1>10, <3>1 DEF Room
  <2>2. CASE at = Len(l) + 1
    <3>1. 2 * (n + 1) + 2 <= e
      BY <1>8, <1>10, <1>11, <2>2
    <3>2. QED  BY <1>10, <2>2, <3>1 DEF Room
  <2>3. QED  BY <1>8, <1>10, <2>1, <2>2
<1>13. e \in 1 .. Len(l) + 1 /\ e \in Nat /\ e <= LineSize
  <2>1. LineSize \in Nat
    BY SizeAssumption
  <2>2. QED  BY <1>8, <1>10, <2>1
<1>14. Overwritten(n + 1) \subseteq 1 .. e - 1
  <2>1. 2 * (n + 1) + 2 <= e
    BY <1>12 DEF Room
  <2>2. INT_SIZE * ((n + 1) - ArraySize) < e
    BY <1>13, <2>1, RoomLeft
  <2>3. INT_SIZE * ((n + 1) - ArraySize) \in Int
    BY SizeAssumption DEF INT_SIZE
  <2>4. \A r \in 1 .. Len(l) : r <= INT_SIZE * ((n + 1) - ArraySize) => r \in 1 .. e - 1
    BY <1>8, <1>13, <2>2, <2>3
  <2>5. QED  BY <1>2, <2>4, Zenon DEF Overwritten
<1>15. PICK m : m = command_line'
  OBVIOUS
<1>16. m = [r \in 1 .. Len(l) |-> IF r \in Overwritten(n + 1) THEN "other" ELSE l[r]]
  BY <1>6, <1>7, <1>15, Zenon
<1>17. /\ m \in Lines /\ Len(m) = Len(l)
       /\ \A r \in e .. Len(l) + 1 : CharAt(m, r) = CharAt(l, r)
  <2>1. PICK P : P = Overwritten(n + 1)
    OBVIOUS
  <2>2. P \subseteq 1 .. e - 1
        /\ m = Covered(l, P)
    BY <1>14, <1>16, <2>1, Zenon DEF Covered
  <2>3. l \in Lines /\ e \in 1 .. Len(l) + 1
    BY <1>8, <1>13, Zenon
  <2>4. QED  BY <2>2, <2>3, OverwrittenBehind
<1>18. Collected(l, p, at, e, n, m)
  BY <1>2, <1>3, <1>4, <1>5, <1>6, <1>7, <1>8, <1>9, <1>10, <1>12, <1>13, <1>15, <1>17, Zenon
     DEF Collected
<1>19. QED  BY <1>18, Zenon

LEMMA CollectNumberKeeps == ASSUME Inv, CollectNumber PROVE Inv'
<1>1. StoreOK /\ AutomatonOK
  BY TypeParts DEF Inv
<1>2. PICK l, p, at, e, m : \E n \in Nat : Collected(l, p, at, e, n, m)
  BY NumberCollected, Zenon
<1>3. PICK n \in Nat : Collected(l, p, at, e, n, m)
  BY <1>2, Zenon
<1>4. l = command_line /\ p = cmdln /\ n = Len(num_array) /\ m = command_line'
  BY <1>3, Zenon DEF Collected
<1>5. /\ pc = "read_numbers" /\ CharAt(l, p) # "end"
      /\ cmdln' = e /\ num_array' = Append(num_array, NumberIn(l, at))
      /\ UNCHANGED <<input, typed, pc, state, command_number, set_array, set1, output>>
      /\ l \in Lines /\ Len(l) \in Nat /\ set1 \in SetName
      /\ NumberIn(l, at) \in Storable
      /\ e \in 1 .. Len(l) + 1 /\ Scannable(l, e) /\ Room(l, e, n + 1)
      /\ m \in Lines /\ Len(m) = Len(l)
      /\ \A r \in e .. Len(l) + 1 : CharAt(m, r) = CharAt(l, r)
  BY <1>3, Zenon DEF Collected
<1>6. Scannable(m, e)
  BY <1>5, StillScannable, Zenon
<1>7. num_array' \in Numbers /\ Len(num_array') = n + 1
  <2>1. num_array \in Seq(Storable)
    BY <1>1 DEF StoreOK, Numbers
  <2>2. QED  BY <1>4, <1>5, <2>1, AppendProperties DEF Numbers
<1>8. Room(m, e, n + 1)
  <2>1. CharAt(m, e) = CharAt(l, e)
    BY <1>5
  <2>2. QED  BY <1>5, <2>1 DEF Room
<1>9. Collecting(command_line', cmdln', set1', num_array')
  <2>1. set1' = set1 /\ cmdln' = e
    BY <1>5
  <2>2. QED  BY <1>4, <1>5, <1>6, <1>7, <1>8, <2>1, Zenon DEF Collecting
<1>10. StoreOK'
  <2>1. command_line' \in Seq(Symbol)
    BY <1>4, <1>5, Zenon DEF Lines
  <2>2. QED  BY <1>1, <1>5, <1>7, <2>1, Zenon DEF StoreOK
<1>11. AutomatonOK'
  <2>1. cmdln' \in 1 .. Len(command_line') + 1
    BY <1>4, <1>5, Zenon
  <2>2. pc' = pc /\ state' = state /\ command_number' = command_number /\ output' = output
    BY <1>5
  <2>3. QED  BY <1>1, <2>1, <2>2, Zenon DEF AutomatonOK
<1>12. TypeOK'
  BY <1>10, <1>11, TypeParts, PTL
<1>13. Len(command_line') = Len(typed')
  BY <1>4, <1>5 DEF Inv
<1>14. pc' = "read_numbers"
  BY <1>5
<1>15. QED  BY <1>9, <1>12, <1>13, <1>14 DEF Inv

-----------------------------------------------------------------------------
(* The theorems *)

LEMMA InitInv == Init => Inv
<1> SUFFICES ASSUME Init PROVE Inv
  OBVIOUS
<1>1. input \in Seq(Seq(Symbol) \ {<<>>})
  BY SessionsAssumption, Zenon DEF Init
<1>2. set_array \in [SetName -> SetType]
  <2>1. EmptySet \in SetType
    BY DEF EmptySet, SetType
  <2>2. QED  BY <2>1, Zenon DEF Init
<1>3. /\ typed = <<>> /\ command_line = <<>> /\ cmdln = 1 /\ pc = "prompt" /\ state = "CMD"
      /\ command_number = "none" /\ set1 = "none" /\ num_array = <<>> /\ output = <<>>
  BY DEF Init
<1>4. StoreOK
  <2>1. Len(typed) < LineSize
    BY <1>3, SizeAssumption
  <2>2. typed \in Seq(Symbol) /\ command_line \in Seq(Symbol) /\ num_array \in Numbers
    BY <1>3 DEF Numbers
  <2>3. set1 \in SetName \union {"none"}
    BY <1>3
  <2>4. QED  BY <1>1, <1>2, <2>1, <2>2, <2>3, Zenon DEF StoreOK
<1>5. AutomatonOK
  BY <1>3 DEF AutomatonOK, States
<1>6. QED  BY <1>3, <1>4, <1>5, TypeParts DEF Inv

LEMMA Stutter == ASSUME Inv, UNCHANGED vars PROVE Inv'
<1>1. /\ UNCHANGED <<input, typed, command_line, cmdln, pc, state, command_number>>
      /\ UNCHANGED <<set_array, set1, num_array, output>>
  BY DEF vars
<1>2. TypeOK'
  BY <1>1, Zenon DEF Inv, TypeOK
<1>3. QED  BY <1>1, <1>2, Zenon DEF Inv

LEMMA NextInv == Inv /\ [Next]_vars => Inv'
<1> SUFFICES ASSUME Inv, [Next]_vars PROVE Inv'
  OBVIOUS
<1>1. CASE Next
  BY <1>1, ReadLineKeeps, EndOfInputKeeps, AutomatonKeeps, BeginReadKeeps, CollectNumberKeeps,
     FinishReadKeeps, PrintSetKeeps, OperateKeeps, StopKeeps, Zenon DEF Next
<1>2. CASE UNCHANGED vars
  BY <1>2, Stutter, Zenon
<1>3. QED  BY <1>1, <1>2, Zenon

LEMMA Invariant == Spec => []Inv
BY InitInv, NextInv, PTL DEF Spec

\* What the program keeps is what its types say: above all, what the second
\* scan of a read_set collects are numbers that a set can have, or -1, because
\* the first scan let the line pass.
THEOREM TypeCorrect == Spec => []TypeOK
<1>1. Inv => TypeOK
  BY DEF Inv
<1>2. QED  BY <1>1, Invariant, PTL

\* However many numbers a line holds, those that num_array has no room for are
\* stored over symbols that the scan has left behind.
THEOREM NumbersBehindScan == Spec => []ScanAheadOfNumbers
<1>1. ASSUME Inv PROVE ScanAheadOfNumbers
  <2> SUFFICES ASSUME pc = "read_numbers"
               PROVE  INT_SIZE * (Len(num_array) - ArraySize) < cmdln
    BY DEF ScanAheadOfNumbers
  <2>1. PICK n : n = Len(num_array)
    OBVIOUS
  <2>2. num_array \in Numbers
    BY <1>1, TypeParts DEF Inv, StoreOK
  <2>3. n \in Nat
    BY <2>1, <2>2 DEF Numbers
  <2>4. 2 * n + 2 <= cmdln
    BY <1>1, <2>1, Zenon DEF Inv, Collecting, Room
  <2>5. LineSize \in Nat
    BY SizeAssumption
  <2>6. cmdln \in Nat /\ cmdln <= LineSize
    BY <1>1, <2>5, LineShape, PlaceInLine
  <2>7. INT_SIZE * (n - ArraySize) < cmdln
    BY <2>3, <2>4, <2>6, RoomLeft
  <2>8. QED  BY <2>1, <2>7, Zenon
<1>2. Inv => ScanAheadOfNumbers
  BY <1>1
<1>3. QED  BY <1>2, Invariant, PTL

-----------------------------------------------------------------------------
(* The words of a line *)

\* The words up to each place come from those up to the one before.
LEMMA WordsStep ==
  ASSUME NEW l, l \in Lines
  PROVE  /\ \A p \in 0 .. Len(l) : WordsTo(l, p) \in Seq(Symbol)
         /\ WordsTo(l, 0) = <<>>
         /\ \A p \in 1 .. Len(l) :
              WordsTo(l, p) = IF l[p] = "space" THEN WordsTo(l, p - 1)
                              ELSE Append(WordsTo(l, p - 1), l[p])
<1> DEFINE L == Len(l)
           S == Seq(Symbol)
           step == [p \in 1 .. L |-> [w \in S |-> IF l[p] = "space" THEN w ELSE Append(w, l[p])]]
           R(f) == [q \in 0 .. L |->
                      IF q = 0 THEN <<>>
                      ELSE IF l[q] = "space" THEN f[q - 1] ELSE Append(f[q - 1], l[q])]
           words == CHOOSE f : f = R(f)
<1>1. L \in Nat /\ \A p \in 1 .. L : l[p] \in Symbol
  BY ElementOfSeq DEF Lines
<1>2. \A p : WordsTo(l, p) = words[p]
  BY Zenon DEF WordsTo
<1> HIDE DEF L
<1>3. step \in [1 .. L -> [S -> S]] /\ <<>> \in S
  <2>1. \A p \in 1 .. L : \A w \in S : Append(w, l[p]) \in S
    BY <1>1
  <2> HIDE DEF S
  <2>2. step \in [1 .. L -> [S -> S]]
    BY <2>1
  <2>3. QED  BY <2>2 DEF S
<1>4. PICK g \in [0 .. L -> S] : g[0] = <<>> /\ \A p \in 1 .. L : g[p] = step[p][g[p - 1]]
  <2> HIDE DEF step, S
  <2>1. \A bound \in Nat : \A next \in [1 .. bound -> [S -> S]] :
          \E g \in [0 .. bound -> S] :
            g[0] = <<>> /\ \A p \in 1 .. bound : g[p] = next[p][g[p - 1]]
    <3>1. <<>> \in S
      BY <1>3
    <3>2. PICK a : a = <<>>
      OBVIOUS
    <3>3. \A bound \in Nat : \A next \in [1 .. bound -> [S -> S]] :
            \E g \in [0 .. bound -> S] :
              g[0] = a /\ \A p \in 1 .. bound : g[p] = next[p][g[p - 1]]
      BY <3>1, <3>2, Recursion, SMT
    <3>4. QED  BY <3>2, <3>3, Zenon
  <2>2. \A next \in [1 .. L -> [S -> S]] :
          \E g \in [0 .. L -> S] :
            g[0] = <<>> /\ \A p \in 1 .. L : g[p] = next[p][g[p - 1]]
    BY <1>1, <2>1, Zenon
  <2>3. QED  BY <1>3, <2>2, Zenon
<1> HIDE DEF S
<1>5. g = R(g)
  <2>1. ASSUME NEW p \in 0 .. L
        PROVE  g[p] = R(g)[p]
    <3>1. CASE p = 0
      BY <1>1, <1>4, <3>1
    <3>2. CASE p # 0
      <4>1. p \in 1 .. L /\ p - 1 \in 0 .. L
        BY <1>1, <3>2
      <4>2. g[p - 1] \in S
        BY <1>4, <4>1
      <4>3. QED  BY <1>4, <3>2, <4>1, <4>2
    <3>3. QED  BY <3>1, <3>2
  <2>2. R(g) = [p \in 0 .. L |-> R(g)[p]]
    OBVIOUS
  <2>3. g = [p \in 0 .. L |-> g[p]]
    BY <1>4
  <2> HIDE DEF R
  <2>4. QED  BY <2>1, <2>2, <2>3, Zenon
<1>6. words = R(words)
  <2> HIDE DEF R
  <2>1. QED  BY <1>5, Zenon
<1>7. \A p \in 0 .. L :
        words[p] = IF p = 0 THEN <<>>
                   ELSE IF l[p] = "space" THEN words[p - 1] ELSE Append(words[p - 1], l[p])
  <2> HIDE DEF words
  <2>1. \A p \in 0 .. L : words[p] = R(words)[p]
    BY <1>6, Zenon
  <2>2. QED  BY <2>1, Zenon
<1> HIDE DEF words, R, step
<1>8. /\ words[0] = <<>>
      /\ \A p \in 1 .. L :
           words[p] = IF l[p] = "space" THEN words[p - 1] ELSE Append(words[p - 1], l[p])
  BY <1>1, <1>7
<1>9. \A n \in Nat : n <= L => words[n] \in S
  <2> DEFINE T == {n \in Nat : n <= L => words[n] \in S}
  <2>1. 0 \in T
    BY <1>3, <1>8
  <2>2. ASSUME NEW n \in Nat, n \in T
        PROVE  n + 1 \in T
    <3> SUFFICES ASSUME n + 1 <= L PROVE words[n + 1] \in S
      OBVIOUS
    <3>1. n + 1 \in 1 .. L /\ words[n] \in S /\ (n + 1) - 1 = n
      BY <1>1, <2>2
    <3>2. words[n + 1] = IF l[n + 1] = "space" THEN words[n] ELSE Append(words[n], l[n + 1])
      BY <1>8, <3>1
    <3>3. l[n + 1] \in Symbol
      BY <1>1, <3>1
    <3>4. Append(words[n], l[n + 1]) \in S
      BY <3>1, <3>3 DEF S
    <3>5. QED  BY <3>1, <3>2, <3>4
  <2> HIDE DEF T
  <2>3. \A n \in Nat : n \in T
    BY <2>1, <2>2, Induction
  <2>4. QED  BY <2>3 DEF T
<1>10. \A p \in 0 .. L : words[p] \in S
  BY <1>1, <1>9
<1>11. QED  BY <1>2, <1>8, <1>10, Zenon DEF L, S

\* What a line begins with stays the beginning of its words.
LEMMA WordsGrow ==
  ASSUME NEW l, l \in Lines, NEW p \in 0 .. Len(l), NEW q \in p .. Len(l)
  PROVE  /\ Len(WordsTo(l, p)) \in Nat /\ Len(WordsTo(l, q)) \in Nat
         /\ Len(WordsTo(l, p)) <= Len(WordsTo(l, q))
         /\ \A k \in 1 .. Len(WordsTo(l, p)) : WordsTo(l, q)[k] = WordsTo(l, p)[k]
<1>1. Len(l) \in Nat
  BY DEF Lines
<1> DEFINE Grown(w) == /\ Len(WordsTo(l, p)) <= Len(w)
                       /\ \A k \in 1 .. Len(WordsTo(l, p)) : w[k] = WordsTo(l, p)[k]
           T == {n \in Nat : p + n <= Len(l) => Grown(WordsTo(l, p + n))}
<1>2. \A r \in 0 .. Len(l) : WordsTo(l, r) \in Seq(Symbol)
  BY WordsStep
<1>3. Len(WordsTo(l, p)) \in Nat
  BY <1>2
<1>4. 0 \in T
  <2>1. p + 0 = p
    OBVIOUS
  <2>2. Grown(WordsTo(l, p))
    BY <1>3
  <2>3. QED  BY <2>1, <2>2
<1>5. ASSUME NEW n \in Nat, n \in T
      PROVE  n + 1 \in T
  <2> SUFFICES ASSUME p + (n + 1) <= Len(l) PROVE Grown(WordsTo(l, p + (n + 1)))
    OBVIOUS
  <2>1. PICK r : r = p + (n + 1)
    OBVIOUS
  <2>2. r \in 1 .. Len(l) /\ r - 1 = p + n /\ r - 1 \in 0 .. Len(l)
    BY <1>1, <2>1
  <2>3. Grown(WordsTo(l, r - 1))
    BY <1>1, <1>5, <2>1, <2>2
  <2>4. WordsTo(l, r) = WordsTo(l, r - 1) \/ WordsTo(l, r) = Append(WordsTo(l, r - 1), l[r])
    BY <2>2, WordsStep
  <2>5. WordsTo(l, r - 1) \in Seq(Symbol)
    BY <1>2, <2>2
  <2>6. ASSUME NEW w \in Seq(Symbol), NEW c, Grown(w)
        PROVE  Grown(Append(w, c))
    <3>1. Len(Append(w, c)) = Len(w) + 1 /\ \A k \in 1 .. Len(w) : Append(w, c)[k] = w[k]
      <4>1. w \in Seq(Symbol \union {c})
        OBVIOUS
      <4>2. QED  BY <4>1, AppendProperties
    <3>2. Len(w) \in Nat
      OBVIOUS
    <3>3. QED  BY <1>3, <2>6, <3>1, <3>2
  <2> HIDE DEF Grown
  <2>7. QED  BY <2>1, <2>3, <2>4, <2>5, <2>6, Zenon
<1>6. q - p \in T
  <2> HIDE DEF T
  <2>1. q - p \in Nat
    BY <1>1
  <2>2. QED  BY <1>4, <1>5, <2>1, Induction
<1>7. Grown(WordsTo(l, q))
  <2>1. p + (q - p) = q /\ q <= Len(l)
    BY <1>1
  <2> HIDE DEF Grown
  <2>2. QED  BY <1>6, <2>1
<1>8. Len(WordsTo(l, q)) \in Nat
  <2>1. q \in 0 .. Len(l)
    BY <1>1
  <2>2. QED  BY <1>2, <2>1
<1>9. QED  BY <1>3, <1>7, <1>8

\* White space adds no word.
LEMMA NoWords ==
  ASSUME NEW l, l \in Lines, NEW p \in 0 .. Len(l), NEW q \in p .. Len(l),
         \A r \in p + 1 .. q : CharAt(l, r) \in Blank
  PROVE  WordsTo(l, q) = WordsTo(l, p)
<1>1. Len(l) \in Nat
  BY DEF Lines
<1> DEFINE T == {n \in Nat : p + n <= q => WordsTo(l, p + n) = WordsTo(l, p)}
<1>2. 0 \in T
  <2>1. p + 0 = p
    OBVIOUS
  <2>2. QED  BY <2>1
<1>3. ASSUME NEW n \in Nat, n \in T
      PROVE  n + 1 \in T
  <2> SUFFICES ASSUME p + (n + 1) <= q PROVE WordsTo(l, p + (n + 1)) = WordsTo(l, p)
    OBVIOUS
  <2>1. PICK r : r = p + (n + 1)
    OBVIOUS
  <2>2. r \in 1 .. Len(l) /\ r - 1 = p + n /\ r \in p + 1 .. q /\ p + n <= q
    BY <1>1, <2>1
  <2>3. l[r] = "space"
    BY <1>1, <2>2 DEF CharAt, Blank
  <2>4. WordsTo(l, r) = WordsTo(l, r - 1)
    BY <2>2, <2>3, WordsStep
  <2>5. QED  BY <1>3, <2>1, <2>2, <2>4
<1>4. q - p \in T
  <2> HIDE DEF T
  <2>1. q - p \in Nat
    BY <1>1
  <2>2. QED  BY <1>2, <1>3, <2>1, Induction
<1>5. p + (q - p) = q
  BY <1>1
<1>6. QED  BY <1>1, <1>4, <1>5

\* One more place.
LEMMA WordAdded ==
  ASSUME NEW l, l \in Lines, NEW p \in 1 .. Len(l)
  PROVE  /\ CharAt(l, p) \in Blank => WordsTo(l, p) = WordsTo(l, p - 1)
         /\ CharAt(l, p) \notin Blank =>
              WordsTo(l, p) = Append(WordsTo(l, p - 1), CharAt(l, p))
<1>1. CharAt(l, p) = l[p]
  BY DEF CharAt
<1>2. QED  BY <1>1, WordsStep DEF Blank

\* If the line has more words than there are before a place that is not white,
\* the next one stands there.
LEMMA NextWord ==
  ASSUME NEW l, l \in Lines, NEW p \in 1 .. Len(l) + 1, CharAt(l, p) \notin Blank,
         NEW n, n = Len(WordsTo(l, p - 1))
  PROVE  /\ n \in Nat /\ n <= Len(Words(l)) /\ Len(Words(l)) \in Nat
         /\ \A k \in 1 .. n : Words(l)[k] = WordsTo(l, p - 1)[k]
         /\ p <= Len(l) => Len(Words(l)) > n
         /\ Len(Words(l)) > n => CharAt(l, p) = Words(l)[n + 1]
<1>1. Len(l) \in Nat
  BY DEF Lines
<1>2. PICK k : k = p - 1
  OBVIOUS
<1>3. k \in 0 .. Len(l) /\ Len(l) \in k .. Len(l)
  BY <1>1, <1>2
<1>4. /\ n \in Nat /\ Len(Words(l)) \in Nat /\ n <= Len(Words(l))
      /\ \A j \in 1 .. n : Words(l)[j] = WordsTo(l, k)[j]
  BY <1>2, <1>3, WordsGrow, Zenon DEF Words
<1>5. ASSUME p <= Len(l)
      PROVE  Len(Words(l)) > n /\ CharAt(l, p) = Words(l)[n + 1]
  <2>1. p \in 1 .. Len(l) /\ p \in 0 .. Len(l) /\ Len(l) \in p .. Len(l)
    BY <1>1, <1>5
  <2>2. WordsTo(l, p) = Append(WordsTo(l, k), CharAt(l, p))
    BY <1>2, <2>1, WordAdded
  <2>3. WordsTo(l, k) \in Seq(Symbol)
    BY <1>3, WordsStep
  <2>4. Len(WordsTo(l, p)) = n + 1 /\ WordsTo(l, p)[n + 1] = CharAt(l, p)
    <3>1. WordsTo(l, k) \in Seq(Symbol \union {CharAt(l, p)})
      BY <2>3
    <3>2. n = Len(WordsTo(l, k))
      BY <1>2
    <3>3. QED  BY <2>2, <3>1, <3>2, AppendProperties
  <2>5. /\ Len(WordsTo(l, p)) <= Len(Words(l))
        /\ \A j \in 1 .. Len(WordsTo(l, p)) : Words(l)[j] = WordsTo(l, p)[j]
    BY <2>1, WordsGrow, Zenon DEF Words
  <2>6. n + 1 \in 1 .. n + 1
    BY <1>4
  <2>7. QED  BY <1>4, <2>4, <2>5, <2>6
<1>6. ASSUME ~(p <= Len(l)) PROVE ~(Len(Words(l)) > n)
  <2>1. p - 1 = Len(l)
    BY <1>1, <1>6
  <2>2. QED  BY <1>4, <2>1 DEF Words
<1>7. QED  BY <1>2, <1>4, <1>5, <1>6

-----------------------------------------------------------------------------
(* The words of a command *)

CommandShape(w) ==
  /\ Len(w) >= 1 /\ w[1] \in Command
  /\ w[1] = "stop" => Len(w) = 1
  /\ w[1] # "stop" => Len(w) >= 2 /\ w[2] \in SetName
  /\ w[1] = "print_set" => Len(w) = 2
  /\ w[1] = "read_set" => Len(w) >= 3 /\ w[3] = ","
  /\ w[1] \in Operation =>
       Len(w) = 6 /\ w[3] = "," /\ w[4] \in SetName /\ w[5] = "," /\ w[6] \in SetName

LEMMA ShapeOfStop == CommandShape(<<"stop">>)
<1>1. PICK w : w = <<"stop">>
  OBVIOUS
<1>2. w[1] = "stop" /\ Len(w) = 1
  BY <1>1
<1>3. CommandShape(w)
  BY <1>2 DEF CommandShape, Operation, Command
<1>4. QED  BY <1>1, <1>3

LEMMA ShapeOfPrint == \A name \in SetName : CommandShape(<<"print_set", name>>)
<1> SUFFICES ASSUME NEW name \in SetName PROVE CommandShape(<<"print_set", name>>)
  OBVIOUS
<1>1. PICK w : w = <<"print_set", name>>
  OBVIOUS
<1>2. w[1] = "print_set" /\ w[2] = name /\ Len(w) = 2
  BY <1>1
<1>3. CommandShape(w)
  BY <1>2 DEF CommandShape, Operation, Command
<1>4. QED  BY <1>1, <1>3

LEMMA ShapeOfOperation ==
  \A command \in Operation, a, b, c \in SetName :
    CommandShape(<<command, a, ",", b, ",", c>>)
<1> SUFFICES ASSUME NEW command \in Operation,
                    NEW a \in SetName, NEW b \in SetName, NEW c \in SetName
             PROVE  CommandShape(<<command, a, ",", b, ",", c>>)
  OBVIOUS
<1>1. PICK w : w = <<command, a, ",", b, ",", c>>
  OBVIOUS
<1>2. /\ w[1] = command /\ w[2] = a /\ w[3] = "," /\ w[4] = b /\ w[5] = "," /\ w[6] = c
      /\ Len(w) = 6
  BY <1>1
<1>3. command # "stop" /\ command # "print_set" /\ command # "read_set" /\ command \in Command
  BY DEF Operation, Command
<1>4. Len(w) >= 1 /\ Len(w) >= 2
  <2>1. Len(w) = 6
    BY <1>2, Zenon
  <2>2. QED  BY <2>1
<1>5. CommandShape(w)
  BY <1>2, <1>3, <1>4, Zenon DEF CommandShape
<1>6. QED  BY <1>1, <1>5

LEMMA ThreeAtLeast ==
  /\ \A n \in Nat : 3 <= n => n >= 1 /\ n >= 2 /\ n >= 3
  /\ 1 \in 1 .. 3 /\ 2 \in 1 .. 3 /\ 3 \in 1 .. 3
OBVIOUS

LEMMA ShapeOfList ==
  ASSUME NEW w, w[1] = "read_set", w[2] \in SetName, w[3] = ",", Len(w) \in Nat, 3 <= Len(w)
  PROVE  CommandShape(w)
<1>1. w[1] \in Command /\ w[1] # "stop" /\ w[1] # "print_set" /\ w[1] \notin Operation
  BY DEF Operation, Command
<1>2. Len(w) >= 1 /\ Len(w) >= 2 /\ Len(w) >= 3
  BY ThreeAtLeast, Zenon
<1>3. QED  BY <1>1, <1>2, Zenon DEF CommandShape

LEMMA PlaceOfComma ==
  ASSUME NEW l, NEW c \in Commas(l)
  PROVE  c \in 1 .. Len(l) /\ l[c] = ","
BY Zenon DEF Commas

\* A sequence begins with the words.
Begun(w, v) == Len(w) \in Nat /\ Len(v) <= Len(w) /\ \A k \in 1 .. Len(v) : w[k] = v[k]

LEMMA ListBegun ==
  ASSUME NEW w, NEW name, Begun(w, <<"read_set", name, ",">>)
  PROVE  w[1] = "read_set" /\ w[2] = name /\ w[3] = "," /\ Len(w) \in Nat /\ 3 <= Len(w)
<1>1. PICK v : v = <<"read_set", name, ",">>
  OBVIOUS
<1>2. v[1] = "read_set" /\ v[2] = name /\ v[3] = "," /\ Len(v) = 3
  BY <1>1
<1>3. Len(w) \in Nat /\ 3 <= Len(w) /\ \A k \in 1 .. 3 : w[k] = v[k]
  BY <1>1, <1>2, Zenon DEF Begun
<1>4. QED  BY <1>2, <1>3, ThreeAtLeast, Zenon

LEMMA WordsBegun ==
  ASSUME NEW l, l \in Lines, NEW p \in 0 .. Len(l)
  PROVE  Begun(Words(l), WordsTo(l, p))
<1>1. Len(l) \in p .. Len(l)
  BY DEF Lines
<1>2. QED  BY <1>1, WordsGrow, Zenon DEF Begun, Words

LEMMA CommandShaped ==
  ASSUME NEW l, l \in Lines, IsCommand(l)
  PROVE  CommandShape(Words(l)) /\ (Words(l)[1] = "read_set" => IsList(l))
<1>1. ASSUME NEW w, \/ w = <<"stop">>
                    \/ \E name \in SetName : w = <<"print_set", name>>
                    \/ \E command \in Operation, a, b, c \in SetName :
                         w = <<command, a, ",", b, ",", c>>
      PROVE  CommandShape(w) /\ w[1] # "read_set"
  <2>1. CommandShape(w)
    BY <1>1, ShapeOfStop, ShapeOfPrint, ShapeOfOperation, Zenon
  <2>2. w[1] = "stop" \/ w[1] = "print_set" \/ w[1] \in Operation
    <3>1. CASE w = <<"stop">>
      BY <3>1
    <3>2. ASSUME NEW name \in SetName, w = <<"print_set", name>> PROVE w[1] = "print_set"
      BY <3>2
    <3>3. ASSUME NEW command \in Operation, NEW a, NEW b, NEW c,
                 w = <<command, a, ",", b, ",", c>>
          PROVE  w[1] \in Operation
      BY <3>3
    <3>4. QED  BY <1>1, <3>1, <3>2, <3>3, Zenon
  <2>3. QED  BY <2>1, <2>2 DEF Operation
<1>2. ASSUME IsList(l) PROVE CommandShape(Words(l))
  <2>1. PICK c \in Commas(l), name \in SetName : WordsTo(l, c) = <<"read_set", name, ",">>
    BY <1>2, Zenon DEF IsList
  <2>2. c \in 1 .. Len(l)
    BY PlaceOfComma
  <2>3. c \in 0 .. Len(l)
    BY <2>2
  <2>4. Begun(Words(l), <<"read_set", name, ",">>)
    BY <2>1, <2>3, WordsBegun
  <2>5. QED  BY <2>4, ListBegun, ShapeOfList, Zenon
<1>3. QED  BY <1>1, <1>2, Zenon DEF IsCommand

\* The words before the place at which the automaton is in a state.
WordsRead(w, s, c) ==
  /\ s = "CMD" => w = <<>>
  /\ s = "STOP" => w = <<"stop">>
  /\ s = "SET1" => c \in Command \ {"stop"} /\ w = <<c>>
  /\ s \in OtherStates => c \in Operation
  /\ s = "COMMA_AFTER_SET1" => \E a \in SetName : w = <<c, a>>
  /\ s = "SET2" => \E a \in SetName : w = <<c, a, ",">>
  /\ s = "COMMA_AFTER_SET2" => \E a, b \in SetName : w = <<c, a, ",", b>>
  /\ s = "RESULT" => \E a, b \in SetName : w = <<c, a, ",", b, ",">>

\* And how many they are.
LEMMA WordsCounted ==
  ASSUME NEW w, NEW s, NEW c, WordsRead(w, s, c)
  PROVE  /\ s = "CMD" => Len(w) = 0
         /\ s = "STOP" => Len(w) = 1 /\ w[1] = "stop"
         /\ s = "SET1" => Len(w) = 1 /\ w[1] # "stop"
         /\ s \in OtherStates => w[1] \in Operation
         /\ s = "COMMA_AFTER_SET1" => Len(w) = 2
         /\ s = "SET2" => Len(w) = 3
         /\ s = "COMMA_AFTER_SET2" => Len(w) = 4
         /\ s = "RESULT" => Len(w) = 5
<1>1. s = "CMD" => Len(w) = 0
  BY DEF WordsRead
<1>2. s = "STOP" => Len(w) = 1 /\ w[1] = "stop"
  BY DEF WordsRead
<1>3. s = "SET1" => Len(w) = 1 /\ w[1] # "stop"
  BY DEF WordsRead
<1>4. s = "COMMA_AFTER_SET1" => Len(w) = 2 /\ w[1] = c
  BY DEF WordsRead
<1>5. s = "SET2" => Len(w) = 3 /\ w[1] = c
  <2>1. ASSUME s = "SET2" PROVE \E a \in SetName : w = <<c, a, ",">>
    BY <2>1, Zenon DEF WordsRead
  <2>2. ASSUME NEW a, w = <<c, a, ",">> PROVE Len(w) = 3 /\ w[1] = c
    BY <2>2
  <2>3. QED  BY <2>1, <2>2, Zenon
<1>6. s = "COMMA_AFTER_SET2" => Len(w) = 4 /\ w[1] = c
  <2>1. ASSUME s = "COMMA_AFTER_SET2" PROVE \E a, b \in SetName : w = <<c, a, ",", b>>
    BY <2>1, Zenon DEF WordsRead
  <2>2. ASSUME NEW a, NEW b, w = <<c, a, ",", b>> PROVE Len(w) = 4 /\ w[1] = c
    BY <2>2
  <2>3. QED  BY <2>1, <2>2, Zenon
<1>7. s = "RESULT" => Len(w) = 5 /\ w[1] = c
  <2>1. ASSUME s = "RESULT" PROVE \E a, b \in SetName : w = <<c, a, ",", b, ",">>
    BY <2>1, Zenon DEF WordsRead
  <2>2. ASSUME NEW a, NEW b, w = <<c, a, ",", b, ",">> PROVE Len(w) = 5 /\ w[1] = c
    BY <2>2
  <2>3. QED  BY <2>1, <2>2, Zenon
<1>8. s \in OtherStates => c \in Operation
  BY DEF WordsRead
<1>9. s \in OtherStates => w[1] \in Operation
  BY <1>4, <1>5, <1>6, <1>7, <1>8 DEF OtherStates
<1>10. QED  BY <1>1, <1>2, <1>3, <1>4, <1>5, <1>6, <1>7, <1>9, Zenon

\* One word more of a command.
LEMMA NextInShape ==
  ASSUME NEW v, NEW w, Begun(w, v), CommandShape(w), Len(v) \in Nat
  PROVE  /\ Len(v) = 0 => Len(w) > 0 /\ w[1] \in Command
         /\ Len(v) = 1 /\ v[1] = "stop" => Len(w) = 1
         /\ Len(v) = 1 /\ v[1] # "stop" => Len(w) > 1 /\ w[2] \in SetName
         /\ Len(v) > 0 /\ v[1] \in Operation =>
              /\ Len(w) = 6
              /\ w[3] = "," /\ w[4] \in SetName /\ w[5] = "," /\ w[6] \in SetName
<1>1. Len(v) > 0 => w[1] = v[1]
  BY DEF Begun
<1>2. /\ Len(v) = 0 => Len(w) > 0
      /\ Len(v) = 1 => Len(v) > 0
  <2>1. Len(w) >= 1
    BY Zenon DEF CommandShape
  <2>2. QED  BY <2>1 DEF Begun
<1>3. Len(w) >= 2 => Len(w) > 1
  BY DEF Begun
<1>4. QED  BY <1>1, <1>2, <1>3, Zenon DEF CommandShape

LEMMA NextOfWords ==
  ASSUME NEW v, NEW w, NEW x, NEW s, NEW c, WordsRead(v, s, c), CommandShape(w), Begun(w, v),
         Len(v) \in Nat, Len(w) > Len(v) => x = w[Len(v) + 1]
  PROVE  /\ s = "CMD" => x \in Command
         /\ s = "STOP" => ~(Len(w) > Len(v))
         /\ s \in {"SET1", "SET2", "RESULT"} => x \in SetName
         /\ s \in {"COMMA_AFTER_SET1", "COMMA_AFTER_SET2"} => x = ","
<1>1. PICK n : n = Len(v)
  OBVIOUS
<1>2. PICK m : m = Len(w)
  OBVIOUS
<1>3. n \in Nat /\ (m > n => x = w[n + 1])
  BY <1>1, <1>2
<1>4. /\ n = 0 => m > 0 /\ w[1] \in Command
      /\ n = 1 /\ v[1] = "stop" => m = 1
      /\ n = 1 /\ v[1] # "stop" => m > 1 /\ w[2] \in SetName
      /\ n > 0 /\ v[1] \in Operation =>
           m = 6 /\ w[3] = "," /\ w[4] \in SetName /\ w[5] = "," /\ w[6] \in SetName
  <2>1. /\ Len(v) = 0 => Len(w) > 0 /\ w[1] \in Command
        /\ Len(v) = 1 /\ v[1] = "stop" => Len(w) = 1
        /\ Len(v) = 1 /\ v[1] # "stop" => Len(w) > 1 /\ w[2] \in SetName
        /\ Len(v) > 0 /\ v[1] \in Operation =>
             /\ Len(w) = 6
             /\ w[3] = "," /\ w[4] \in SetName /\ w[5] = "," /\ w[6] \in SetName
    BY NextInShape, Zenon
  <2>2. n = 0 => m > 0 /\ w[1] \in Command
    BY <1>1, <1>2, <2>1, Zenon
  <2>3. n = 1 /\ v[1] = "stop" => m = 1
    BY <1>1, <1>2, <2>1, Zenon
  <2>4. n = 1 /\ v[1] # "stop" => m > 1 /\ w[2] \in SetName
    BY <1>1, <1>2, <2>1, Zenon
  <2>5. n > 0 /\ v[1] \in Operation =>
          m = 6 /\ w[3] = "," /\ w[4] \in SetName /\ w[5] = "," /\ w[6] \in SetName
    BY <1>1, <1>2, <2>1, Zenon
  <2>6. QED  BY <2>2, <2>3, <2>4, <2>5, Zenon
<1>5. /\ s = "CMD" => n = 0
      /\ s = "STOP" => n = 1 /\ v[1] = "stop"
      /\ s = "SET1" => n = 1 /\ v[1] # "stop"
      /\ s \in OtherStates => v[1] \in Operation
      /\ s = "COMMA_AFTER_SET1" => n = 2
      /\ s = "SET2" => n = 3
      /\ s = "COMMA_AFTER_SET2" => n = 4
      /\ s = "RESULT" => n = 5
  BY <1>1, WordsCounted, Zenon
<1>6. /\ n = 0 /\ m > n => x = w[1]
      /\ n = 1 /\ m > n => x = w[2]
      /\ n = 2 /\ m = 6 => x = w[3]
      /\ n = 3 /\ m = 6 => x = w[4]
      /\ n = 4 /\ m = 6 => x = w[5]
      /\ n = 5 /\ m = 6 => x = w[6]
      /\ n = 1 /\ m = 1 => ~(m > n)
      /\ n \in {2, 3, 4, 5} => n > 0
  BY <1>3
<1>7. CASE s = "CMD"
  BY <1>4, <1>5, <1>6, <1>7
<1>8. CASE s = "STOP"
  <2>1. n = 1 /\ m = 1
    BY <1>4, <1>5, <1>8, Zenon
  <2>2. ~(m > n)
    BY <1>6, <2>1, Zenon
  <2>3. QED  BY <1>1, <1>2, <1>8, <2>2
<1>9. CASE s = "SET1"
  <2>1. n = 1 /\ m > 1 /\ w[2] \in SetName
    BY <1>4, <1>5, <1>9, Zenon
  <2>2. x \in SetName
    BY <1>6, <2>1, Zenon
  <2>3. QED  BY <1>9, <2>2
<1>10. ASSUME s \in OtherStates, n \in {2, 3, 4, 5}
       PROVE  /\ m = 6 /\ w[3] = "," /\ w[4] \in SetName /\ w[5] = "," /\ w[6] \in SetName
  BY <1>4, <1>5, <1>6, <1>10, Zenon
<1>11. CASE s = "COMMA_AFTER_SET1"
  <2>1. n = 2 /\ s \in OtherStates
    BY <1>5, <1>11 DEF OtherStates
  <2>2. x = ","
    BY <1>6, <1>10, <2>1, Zenon
  <2>3. QED  BY <1>11, <2>2
<1>12. CASE s = "SET2"
  <2>1. n = 3 /\ s \in OtherStates
    BY <1>5, <1>12 DEF OtherStates
  <2>2. x \in SetName
    BY <1>6, <1>10, <2>1, Zenon
  <2>3. QED  BY <1>12, <2>2
<1>13. CASE s = "COMMA_AFTER_SET2"
  <2>1. n = 4 /\ s \in OtherStates
    BY <1>5, <1>13 DEF OtherStates
  <2>2. x = ","
    BY <1>6, <1>10, <2>1, Zenon
  <2>3. QED  BY <1>13, <2>2
<1>14. CASE s = "RESULT"
  <2>1. n = 5 /\ s \in OtherStates
    BY <1>5, <1>14 DEF OtherStates
  <2>2. x \in SetName
    BY <1>6, <1>10, <2>1, Zenon
  <2>3. QED  BY <1>14, <2>2
<1>15. QED  BY <1>7, <1>8, <1>9, <1>11, <1>12, <1>13, <1>14, Zenon

\* What comes next in a command.
LEMMA Continued ==
  ASSUME NEW l, l \in Lines, NEW p \in 1 .. Len(l) + 1, CharAt(l, p) \notin Blank, IsCommand(l),
         NEW s, NEW c, WordsRead(WordsTo(l, p - 1), s, c)
  PROVE  /\ s = "CMD" => CharAt(l, p) \in Command
         /\ s = "STOP" => ~(p <= Len(l))
         /\ s \in {"SET1", "SET2", "RESULT"} => CharAt(l, p) \in SetName
         /\ s \in {"COMMA_AFTER_SET1", "COMMA_AFTER_SET2"} => CharAt(l, p) = ","
<1>1. PICK v : v = WordsTo(l, p - 1)
  OBVIOUS
<1>2. PICK w : w = Words(l)
  OBVIOUS
<1>3. PICK x : x = CharAt(l, p)
  OBVIOUS
<1>4. /\ Len(v) \in Nat /\ Begun(w, v)
      /\ p <= Len(l) => Len(w) > Len(v)
      /\ Len(w) > Len(v) => x = w[Len(v) + 1]
  BY <1>1, <1>2, <1>3, NextWord, Zenon DEF Begun
<1>5. CommandShape(w)
  BY <1>2, CommandShaped
<1>6. WordsRead(v, s, c)
  BY <1>1
<1>7. /\ s = "CMD" => x \in Command
      /\ s = "STOP" => ~(Len(w) > Len(v))
      /\ s \in {"SET1", "SET2", "RESULT"} => x \in SetName
      /\ s \in {"COMMA_AFTER_SET1", "COMMA_AFTER_SET2"} => x = ","
  BY <1>4, <1>5, <1>6, NextOfWords, Zenon
<1>8. QED  BY <1>3, <1>4, <1>7, Zenon

\* Only behind a line it is at its end.
LEMMA EndIsBehind ==
  ASSUME NEW l, l \in Lines, NEW p \in 1 .. Len(l) + 1
  PROVE  CharAt(l, p) = "end" <=> p = Len(l) + 1
<1>1. "end" \notin Symbol
  BY NameAssumption, DigitIs DEF Symbol, Command
<1>2. ASSUME p \in 1 .. Len(l) PROVE CharAt(l, p) # "end"
  <2>1. l[p] \in Symbol
    BY <1>2, ElementOfSeq DEF Lines
  <2>2. QED  BY <1>1, <1>2, <2>1 DEF CharAt
<1>3. ASSUME p = Len(l) + 1 PROVE CharAt(l, p) = "end"
  <2>1. ~(p <= Len(l))
    BY <1>3 DEF Lines
  <2>2. QED  BY <2>1, Zenon DEF CharAt
<1>4. p \in 1 .. Len(l) \/ p = Len(l) + 1
  BY DEF Lines
<1>5. QED
  <2>1. PICK k : k = Len(l) + 1
    OBVIOUS
  <2>2. p \in 1 .. Len(l) => p # Len(l) + 1
    BY DEF Lines
  <2>3. QED  BY <1>2, <1>3, <1>4, <2>2, Zenon

\* The words of a command that is a whole line.
WholeCommand(w) ==
  \/ \E a \in SetName : w = <<"print_set", a>>
  \/ \E command \in Operation, a, b, c \in SetName : w = <<command, a, ",", b, ",", c>>

LEMMA WholeShape ==
  ASSUME NEW v, NEW w, WholeCommand(v), Begun(w, v), CommandShape(w)
  PROVE  ~(Len(w) > Len(v))
<1>1. ASSUME NEW a, v = <<"print_set", a>> PROVE v[1] = "print_set" /\ Len(v) = 2
  BY <1>1
<1>2. ASSUME NEW command \in Operation, NEW a, NEW b, NEW c, v = <<command, a, ",", b, ",", c>>
      PROVE  v[1] \in Operation /\ Len(v) = 6
  BY <1>2
<1>3. \/ v[1] = "print_set" /\ Len(v) = 2
      \/ v[1] \in Operation /\ Len(v) = 6
  BY <1>1, <1>2, Zenon DEF WholeCommand
<1>4. w[1] = v[1]
  <2>1. Len(v) = 2 \/ Len(v) = 6
    BY <1>3, Zenon
  <2>2. QED  BY <2>1 DEF Begun
<1>5. Len(w) = Len(v)
  BY <1>3, <1>4, Zenon DEF CommandShape
<1>6. QED  BY <1>5 DEF Begun

\* Behind the last name of a command there is only white space.
LEMMA CommandEnds ==
  ASSUME NEW l, l \in Lines, NEW p \in 1 .. Len(l), WholeCommand(WordsTo(l, p))
  PROVE  IsCommand(l) <=> CharAt(l, Skipped(l, p + 1, Blank)) = "end"
<1>1. Len(l) \in Nat /\ p + 1 \in 1 .. Len(l) + 1
  BY DEF Lines
<1>2. PICK q : q = Skipped(l, p + 1, Blank)
  OBVIOUS
<1>3. /\ q \in p + 1 .. Len(l) + 1 /\ CharAt(l, q) \notin Blank
      /\ \A r \in p + 1 .. q - 1 : CharAt(l, r) \in Blank
  BY <1>1, <1>2, Apart, SkippedIs, Zenon
<1>4. PICK k : k = q - 1
  OBVIOUS
<1>5. p \in 0 .. Len(l) /\ k \in p .. Len(l) /\ q \in 1 .. Len(l) + 1
  BY <1>1, <1>3, <1>4
<1>6. WordsTo(l, k) = WordsTo(l, p)
  BY <1>3, <1>4, <1>5, NoWords, Zenon
<1>7. ASSUME CharAt(l, q) = "end" PROVE IsCommand(l)
  <2>1. q = Len(l) + 1
    BY <1>5, <1>7, EndIsBehind, Zenon
  <2>2. k = Len(l)
    BY <1>1, <1>4, <2>1
  <2>3. Words(l) = WordsTo(l, p)
    BY <1>6, <2>2, Zenon DEF Words
  <2>4. QED  BY <2>3, Zenon DEF IsCommand, WholeCommand
<1>8. ASSUME CharAt(l, q) # "end", IsCommand(l) PROVE FALSE
  <2>1. q # Len(l) + 1
    BY <1>5, <1>8, EndIsBehind, Zenon
  <2>2. q <= Len(l)
    BY <1>1, <1>5, <2>1
  <2>3. Len(Words(l)) > Len(WordsTo(l, k)) /\ Begun(Words(l), WordsTo(l, k))
    <3>1. PICK n : n = Len(WordsTo(l, q - 1))
      OBVIOUS
    <3>2. /\ n \in Nat /\ n <= Len(Words(l)) /\ Len(Words(l)) \in Nat
          /\ \A j \in 1 .. n : Words(l)[j] = WordsTo(l, q - 1)[j]
          /\ Len(Words(l)) > n
      BY <1>3, <1>5, <2>2, <3>1, NextWord, Zenon
    <3>3. n = Len(WordsTo(l, k)) /\ \A j \in 1 .. n : Words(l)[j] = WordsTo(l, k)[j]
      BY <1>4, <3>1, <3>2, Zenon
    <3>4. QED  BY <3>2, <3>3, Zenon DEF Begun
  <2>4. CommandShape(Words(l))
    BY <1>8, CommandShaped
  <2>5. QED  BY <1>6, <2>3, <2>4, WholeShape
<1>9. QED  BY <1>2, <1>7, <1>8, Zenon

-----------------------------------------------------------------------------
(* Numbers and how they are written *)

LEMMA DigitsDiffer ==
  /\ \A d, e \in 0 .. 9 : Digits[d + 1] = Digits[e + 1] => d = e
  /\ Digits[0 + 1] = "0" /\ Digits[1 + 1] = "1"
<1>1. /\ Digits[1] = "0" /\ Digits[2] = "1" /\ Digits[3] = "2" /\ Digits[4] = "3"
      /\ Digits[5] = "4" /\ Digits[6] = "5" /\ Digits[7] = "6" /\ Digits[8] = "7"
      /\ Digits[9] = "8" /\ Digits[10] = "9"
  BY DEF Digits
<1>2. QED  BY <1>1

LEMMA DigitRead ==
  /\ \A d \in 0 .. 9 : DigitOf(Digits[d + 1]) = d /\ Digits[d + 1] \in Digit
  /\ \A c \in Digit : Digits[DigitOf(c) + 1] = c
<1>1. ASSUME NEW d \in 0 .. 9
      PROVE  DigitOf(Digits[d + 1]) = d /\ Digits[d + 1] \in Digit
  <2>1. d + 1 \in 1 .. 10
    OBVIOUS
  <2>2. Digits[d + 1] \in Digit
    BY <2>1, Zenon DEF Digit
  <2>3. \A e \in 0 .. 9 : Digits[e + 1] = Digits[d + 1] => e = d
    BY DigitsDiffer, Zenon
  <2>4. DigitOf(Digits[d + 1]) = d
    BY <2>3, Zenon DEF DigitOf
  <2>5. QED  BY <2>2, <2>4
<1>2. ASSUME NEW c \in Digit
      PROVE  Digits[DigitOf(c) + 1] = c
  <2>1. PICK d \in 1 .. 10 : Digits[d] = c
    BY Zenon DEF Digit
  <2>2. PICK e : e = d - 1
    OBVIOUS
  <2>3. e \in 0 .. 9 /\ e + 1 = d
    BY <2>2
  <2>4. \E x \in 0 .. 9 : Digits[x + 1] = c
    BY <2>1, <2>3, Zenon
  <2>5. QED  BY <2>4, Zenon DEF DigitOf
<1>3. QED  BY <1>1, <1>2, Zenon

\* A number that a set can have has up to three digits.
LEMMA DecimalIs ==
  ASSUME NEW n \in Member
  PROVE  \/ /\ n \in 0 .. 9 /\ DigitsExpected(n) = 1
            /\ Decimal(n) = <<Digits[n + 1]>>
         \/ \E a, b \in 0 .. 9 :
              /\ n \in 10 .. 99 /\ n = 10 * a + b /\ DigitsExpected(n) = 2
              /\ Decimal(n) = <<Digits[a + 1], Digits[b + 1]>>
         \/ \E a, b, c \in 0 .. 9 :
              /\ n \in 100 .. 127 /\ n = 10 * (10 * a + b) + c /\ DigitsExpected(n) = 3
              /\ Decimal(n) = <<Digits[a + 1], Digits[b + 1], Digits[c + 1]>>
<1>1. n \in 0 .. 127
  BY DEF Member, NUM_OF_BITS
<1>2. CASE n \in 0 .. 9
  <2>1. n < 10 /\ n % 10 = n
    BY <1>2
  <2>2. Decimal(n) = <<Digits[n + 1]>>
    <3>1. n \notin 10 .. 99 /\ ~(n > 99)
      BY <1>2
    <3>2. Decimal(n) = <<Digits[(n % 10) + 1]>>
      BY <2>1, <3>1, Zenon DEF Decimal
    <3>3. QED  BY <2>1, <3>2
  <2>3. DigitsExpected(n) = 1
    BY <1>2 DEF DigitsExpected
  <2>4. QED  BY <1>2, <2>2, <2>3
<1>3. CASE n \in 10 .. 99
  <2>1. PICK a, b : a = n \div 10 /\ b = n % 10
    OBVIOUS
  <2>2. a \in 0 .. 9 /\ b \in 0 .. 9 /\ n = 10 * a + b /\ a % 10 = a
    BY <1>3, <2>1
  <2>3. Decimal(n) = <<Digits[a + 1], Digits[b + 1]>>
    <3>1. ~(n < 10) /\ ~(n > 99)
      BY <1>3
    <3>2. Decimal(n) = <<Digits[((n \div 10) % 10) + 1], Digits[(n % 10) + 1]>>
      BY <1>3, <3>1, Zenon DEF Decimal
    <3>3. QED  BY <2>1, <2>2, <3>2, Zenon
  <2>4. DigitsExpected(n) = 2
    BY <1>3 DEF DigitsExpected
  <2>5. QED  BY <1>3, <2>2, <2>3, <2>4, Zenon
<1>4. CASE n \in 100 .. 127
  <2>1. PICK a, b, c : a = n \div 100 /\ b = (n \div 10) % 10 /\ c = n % 10
    OBVIOUS
  <2>2. /\ a \in 0 .. 9 /\ b \in 0 .. 9 /\ c \in 0 .. 9 /\ n = 10 * (10 * a + b) + c
        /\ a % 10 = a
    BY <1>4, <2>1
  <2>3. Decimal(n) = <<Digits[a + 1], Digits[b + 1], Digits[c + 1]>>
    <3>1. ~(n < 10) /\ n > 99 /\ n \notin 10 .. 99
      BY <1>4
    <3>2. Decimal(n) = <<Digits[((n \div 100) % 10) + 1], Digits[((n \div 10) % 10) + 1],
                         Digits[(n % 10) + 1]>>
      BY <1>4, <3>1, Zenon DEF Decimal
    <3>3. QED  BY <2>1, <2>2, <3>2, Zenon
  <2>4. DigitsExpected(n) = 3
    BY <1>4 DEF DigitsExpected
  <2>5. QED  BY <1>4, <2>2, <2>3, <2>4, Zenon
<1>5. n \in 0 .. 9 \/ n \in 10 .. 99 \/ n \in 100 .. 127
  BY <1>1
<1>6. QED  BY <1>2, <1>3, <1>4, <1>5

DigitAt(l, p) == DigitOf(CharAt(l, p))

\* What up to three digits of a line come to.
LEMMA ValueThere ==
  ASSUME NEW l, l \in Lines, NEW p \in 1 .. Len(l) + 1,
         NEW s, s = SignedIn(l, p), NEW e, e = DigitsEnd(l, p)
  PROVE  /\ \A r \in s .. e - 1 : DigitAt(l, r) \in 0 .. 9
         /\ e = s + 1 => ValueIn(l, p) = DigitAt(l, s)
         /\ e = s + 2 => ValueIn(l, p) = 10 * DigitAt(l, s) + DigitAt(l, s + 1)
         /\ e = s + 3 => ValueIn(l, p) = 10 * (10 * DigitAt(l, s) + DigitAt(l, s + 1))
                                           + DigitAt(l, s + 2)
<1>1. Len(l) \in Nat
  BY DEF Lines
<1>2. s \in 1 .. Len(l) + 1 /\ e \in s .. Len(l) + 1
  BY <1>1, NumberShape
<1>3. \A r \in s .. e - 1 : CharAt(l, r) \in Digit
  BY <1>1, NumberShape, Zenon
<1>4. \A r \in s .. e - 1 : r \in 1 .. Len(l) /\ CharAt(l, r) = l[r]
  BY <1>1, <1>2 DEF CharAt
<1> DEFINE digits == SubSeq(l, s, e - 1)
<1>5. digits = [i \in 1 .. e - s |-> l[s + i - 1]]
  BY <1>2, Piece, Zenon
<1>6. \A i \in 1 .. e - s : s + i - 1 \in s .. e - 1
  BY <1>1, <1>2
<1>7. digits \in Seq(Digit) /\ Len(digits) = e - s
  <2>1. \A i \in 1 .. e - s : l[s + i - 1] \in Digit
    BY <1>3, <1>4, <1>6, Zenon
  <2>2. e - s \in Nat
    BY <1>1, <1>2
  <2> HIDE DEF digits
  <2>3. QED  BY <1>5, <2>1, <2>2
<1>8. \A i \in 1 .. e - s : digits[i] = CharAt(l, s + i - 1)
  <2> HIDE DEF digits
  <2>1. \A i \in 1 .. e - s : digits[i] = l[s + i - 1]
    BY <1>5
  <2>2. QED  BY <1>4, <1>6, <2>1, Zenon
<1> HIDE DEF digits
<1>9. ValueIn(l, p) = Value(digits)
  BY DEF ValueIn, digits
<1>10. PICK v, a, b, c : /\ v = Value(digits) /\ a = DigitOf(digits[1])
                         /\ b = DigitOf(digits[2]) /\ c = DigitOf(digits[3])
  OBVIOUS
<1>11. /\ Len(digits) = 1 => v = a
       /\ Len(digits) = 2 => v = 10 * a + b
       /\ Len(digits) = 3 => v = 10 * (10 * a + b) + c
  BY <1>7, <1>10, ValueKnown, Zenon
<1>12. \A r \in s .. e - 1 : DigitAt(l, r) \in 0 .. 9
  BY <1>3, DigitsHaveValues, Zenon DEF DigitAt
<1>13. /\ e \in {s + 1, s + 2, s + 3} => 1 \in 1 .. e - s /\ s + 1 - 1 = s
       /\ e \in {s + 2, s + 3} => 2 \in 1 .. e - s /\ s + 2 - 1 = s + 1
       /\ e = s + 3 => 3 \in 1 .. e - s /\ s + 3 - 1 = s + 2
       /\ e = s + 1 => Len(digits) = 1
       /\ e = s + 2 => Len(digits) = 2
       /\ e = s + 3 => Len(digits) = 3
  BY <1>2, <1>7
<1>14. /\ e \in {s + 1, s + 2, s + 3} => a = DigitAt(l, s)
       /\ e \in {s + 2, s + 3} => b = DigitAt(l, s + 1)
       /\ e = s + 3 => c = DigitAt(l, s + 2)
  <2>1. e \in {s + 1, s + 2, s + 3} => digits[1] = CharAt(l, s)
    BY <1>8, <1>13
  <2>2. e \in {s + 2, s + 3} => digits[2] = CharAt(l, s + 1)
    BY <1>8, <1>13
  <2>3. e = s + 3 => digits[3] = CharAt(l, s + 2)
    BY <1>8, <1>13
  <2>4. QED  BY <1>10, <2>1, <2>2, <2>3, Zenon DEF DigitAt
<1>15. QED
  <2>1. e = s + 1 => v = DigitAt(l, s)
    BY <1>11, <1>13, <1>14
  <2>2. e = s + 2 => v = 10 * DigitAt(l, s) + DigitAt(l, s + 1)
    BY <1>11, <1>13, <1>14
  <2>3. e = s + 3 => v = 10 * (10 * DigitAt(l, s) + DigitAt(l, s + 1)) + DigitAt(l, s + 2)
    BY <1>11, <1>13, <1>14
  <2>4. QED  BY <1>9, <1>10, <1>12, <2>1, <2>2, <2>3, Zenon

\* How strtol reads at a place without a sign, when some digits are there.
LEMMA Unsigned ==
  ASSUME NEW l, l \in Lines, NEW q \in 1 .. Len(l), CharAt(l, q) \in Digit,
         NEW e \in q + 1 .. Len(l) + 1, CharAt(l, e) \notin Digit,
         \A r \in q .. e - 1 : CharAt(l, r) \in Digit
  PROVE  /\ SignedIn(l, q) = q /\ DigitsEnd(l, q) = e /\ EndIn(l, q) = e
         /\ NumberIn(l, q) = ValueIn(l, q)
<1>1. Len(l) \in Nat /\ q \in 1 .. Len(l) + 1 /\ e \in q .. Len(l) + 1
  BY DEF Lines
<1>2. CharAt(l, q) # "-" /\ CharAt(l, q) # "+"
  BY Apart, Zenon
<1>3. SignedIn(l, q) = q
  BY <1>2 DEF SignedIn
<1>4. Skipped(l, q, Digit) = e
  BY <1>1, Apart, SkippedOnly, Zenon
<1>5. DigitsEnd(l, q) = e
  BY <1>3, <1>4, Zenon DEF DigitsEnd
<1>6. EndIn(l, q) = e
  BY <1>3, <1>5, Zenon DEF EndIn
<1>7. NumberIn(l, q) = ValueIn(l, q)
  BY <1>2, Zenon DEF NumberIn
<1>8. QED  BY <1>3, <1>5, <1>6, <1>7

\* What is taken for a number of k digits is one, if no other digit follows.
LEMMA DigitsTaken ==
  ASSUME NEW l, l \in Lines, NEW q \in 1 .. Len(l) + 1,
         NumberIn(l, q) \in Member, NumberIn(l, q) = 0 => CharAt(l, q) = "0",
         NEW k, k = DigitsExpected(NumberIn(l, q)),
         q + k <= EndIn(l, q), CharAt(l, q + k) \notin Digit
  PROVE  /\ SignedIn(l, q) = q /\ DigitsEnd(l, q) = q + k
         /\ NumberIn(l, q) = ValueIn(l, q)
<1>1. Len(l) \in Nat
  BY DEF Lines
<1>2. PICK n : n = NumberIn(l, q)
  OBVIOUS
<1>3. PICK s : s = SignedIn(l, q)
  OBVIOUS
<1>4. PICK e : e = DigitsEnd(l, q)
  OBVIOUS
<1>5. PICK v : v = ValueIn(l, q)
  OBVIOUS
<1>6. /\ s \in q .. q + 1 /\ s \in 1 .. Len(l) + 1 /\ e \in s .. Len(l) + 1
      /\ CharAt(l, e) \notin Digit
      /\ \A r \in s .. e - 1 : CharAt(l, r) \in Digit
  BY <1>1, <1>3, <1>4, NumberShape
<1>7. v \in Nat /\ (e = s + 1 => v <= 9) /\ (e = s + 2 => v <= 99)
  <2>1. /\ v \in Nat
        /\ e - s = 1 => v <= 9
        /\ e - s = 2 => v <= 99
    BY <1>3, <1>4, <1>5, ValueShape
  <2>2. (e = s + 1 => e - s = 1) /\ (e = s + 2 => e - s = 2)
    BY <1>6
  <2>3. QED  BY <2>1, <2>2, Zenon
<1>8. n \in 0 .. 127 /\ k = DigitsExpected(n)
  BY <1>2 DEF Member, NUM_OF_BITS
<1>9. /\ k \in 1 .. 3
      /\ k = 2 => n > 9
      /\ k = 3 => n > 99
  BY <1>8 DEF DigitsExpected
<1>10. n = v
  <2>1. CharAt(l, q) = "-" => n = 0
    <3>1. CharAt(l, q) = "-" => n = -v
      BY <1>2, <1>5, Zenon DEF NumberIn
    <3>2. n = -v => n = 0
      BY <1>7, <1>8
    <3>3. QED  BY <3>1, <3>2, Zenon
  <2>2. CharAt(l, q) # "-"
    BY <1>2, <2>1
  <2>3. QED  BY <1>2, <1>5, <2>2, Zenon DEF NumberIn
<1>11. EndIn(l, q) = q \/ EndIn(l, q) = e
  BY <1>4, Zenon DEF EndIn
<1>12. q + k <= e
  <2>1. ~(q + k <= q)
    BY <1>9
  <2>2. QED  BY <1>11, <2>1
<1>13. e = q + k
  <2>1. e # q + k => q + k \in s .. e - 1
    BY <1>6, <1>9, <1>12
  <2>2. QED  BY <1>6, <2>1
<1>14. s = q
  <2>1. ASSUME s = q + 1 PROVE FALSE
    <3>1. CASE k = 1
      <4>1. e = s
        BY <1>13, <2>1, <3>1
      <4>2. CharAt(l, s) \notin Digit
        BY <1>6, <4>1
      <4>3. EndIn(l, q) = q
        BY <1>3, <4>2, Zenon DEF EndIn
      <4>4. QED  BY <1>9, <4>3
    <3>2. CASE k = 2
      BY <1>7, <1>9, <1>10, <1>13, <2>1, <3>2
    <3>3. CASE k = 3
      BY <1>7, <1>9, <1>10, <1>13, <2>1, <3>3
    <3>4. QED  BY <1>9, <3>1, <3>2, <3>3
  <2>2. s = q \/ s = q + 1
    BY <1>6
  <2>3. QED  BY <2>1, <2>2, Zenon
<1>15. QED  BY <1>2, <1>3, <1>4, <1>5, <1>10, <1>13, <1>14, Zenon

\* How a number in an array is written, -1 included, and its length.
Word(n) == IF n = -1 THEN <<"-", "1">> ELSE Decimal(n)
Width(n) == IF n = -1 THEN 2 ELSE DigitsExpected(n)

Written(l, q, n) == \A j \in 1 .. Len(Word(n)) : CharAt(l, q + j - 1) = Word(n)[j]

LEMMA WordIs ==
  ASSUME NEW n \in Storable
  PROVE  /\ n = -1 \/ n \in Member
         /\ Len(Word(n)) = Width(n) /\ Width(n) \in 1 .. 3
         /\ \A j \in 1 .. Width(n) : Word(n)[j] \notin Border
<1>1. n = -1 \/ n \in Member
  BY DEF Storable, Member, NUM_OF_BITS
<1>2. CASE n = -1
  <2>1. Word(n) = <<"-", "1">> /\ Width(n) = 2
    BY <1>2 DEF Word, Width
  <2>2. "-" \notin Border /\ "1" \notin Border
    BY DEF Border, Separator
  <2>3. Word(n)[1] = "-" /\ Word(n)[2] = "1" /\ Len(Word(n)) = 2
    BY <2>1
  <2>4. \A j \in 1 .. 2 : j = 1 \/ j = 2
    OBVIOUS
  <2>5. \A j \in 1 .. 2 : Word(n)[j] \notin Border
    BY <2>2, <2>3, <2>4, Zenon
  <2>6. 2 \in 1 .. 3
    OBVIOUS
  <2>7. QED  BY <1>2, <2>1, <2>3, <2>5, <2>6, Zenon
<1>3. CASE n \in Member
  <2>1. n # -1
    BY <1>3 DEF Member
  <2>2. Word(n) = Decimal(n) /\ Width(n) = DigitsExpected(n)
    BY <2>1 DEF Word, Width
  <2>3. \A d \in 0 .. 9 : Digits[d + 1] \notin Border
    BY DigitRead, Apart, Zenon
  <2>4. CASE n \in 0 .. 9 /\ DigitsExpected(n) = 1 /\ Decimal(n) = <<Digits[n + 1]>>
    BY <1>3, <2>2, <2>3, <2>4 DEF Border
  <2>5. ASSUME NEW a \in 0 .. 9, NEW b \in 0 .. 9, DigitsExpected(n) = 2,
               Decimal(n) = <<Digits[a + 1], Digits[b + 1]>>
        PROVE  /\ Len(Word(n)) = Width(n) /\ Width(n) \in 1 .. 3
               /\ \A j \in 1 .. Width(n) : Word(n)[j] \notin Border
    BY <2>2, <2>3, <2>5
  <2>6. ASSUME NEW a \in 0 .. 9, NEW b \in 0 .. 9, NEW c \in 0 .. 9, DigitsExpected(n) = 3,
               Decimal(n) = <<Digits[a + 1], Digits[b + 1], Digits[c + 1]>>
        PROVE  /\ Len(Word(n)) = Width(n) /\ Width(n) \in 1 .. 3
               /\ \A j \in 1 .. Width(n) : Word(n)[j] \notin Border
    BY <2>2, <2>3, <2>6
  <2>7. /\ Len(Word(n)) = Width(n) /\ Width(n) \in 1 .. 3
        /\ \A j \in 1 .. Width(n) : Word(n)[j] \notin Border
    BY <1>3, <2>4, <2>5, <2>6, DecimalIs, Zenon
  <2>8. QED  BY <1>3, <2>7 DEF Border
<1>4. QED  BY <1>1, <1>2, <1>3, Zenon

\* What was taken for a number is written like one, if no other digit follows.
LEMMA TakenAsWritten ==
  ASSUME NEW l, l \in Lines, NEW q \in 1 .. Len(l) + 1, NEW n \in Storable,
         NumberIn(l, q) = n, n = 0 => CharAt(l, q) = "0",
         q + Width(n) <= EndIn(l, q), CharAt(l, q + Width(n)) \notin Digit
  PROVE  Written(l, q, n)
<1>1. Len(l) \in Nat
  BY DEF Lines
<1>2. PICK e : e = DigitsEnd(l, q)
  OBVIOUS
<1>3. PICK v : v = ValueIn(l, q)
  OBVIOUS
<1>4. CASE n \in Member
  <2>1. PICK k : k = DigitsExpected(n)
    OBVIOUS
  <2>2. n # -1
    BY <1>4 DEF Member
  <2>3. Width(n) = k /\ Word(n) = Decimal(n)
    BY <2>1, <2>2 DEF Width, Word
  <2>4. SignedIn(l, q) = q /\ e = q + k /\ n = v
    BY <1>2, <1>3, <1>4, <2>1, <2>3, DigitsTaken
  <2>5. /\ \A r \in q .. e - 1 : DigitAt(l, r) \in 0 .. 9
        /\ e = q + 1 => v = DigitAt(l, q)
        /\ e = q + 2 => v = 10 * DigitAt(l, q) + DigitAt(l, q + 1)
        /\ e = q + 3 => v = 10 * (10 * DigitAt(l, q) + DigitAt(l, q + 1)) + DigitAt(l, q + 2)
    <3>1. PICK s : s = SignedIn(l, q)
      OBVIOUS
    <3>2. /\ \A r \in s .. e - 1 : DigitAt(l, r) \in 0 .. 9
          /\ e = s + 1 => v = DigitAt(l, s)
          /\ e = s + 2 => v = 10 * DigitAt(l, s) + DigitAt(l, s + 1)
          /\ e = s + 3 => v = 10 * (10 * DigitAt(l, s) + DigitAt(l, s + 1)) + DigitAt(l, s + 2)
      BY <1>2, <1>3, <3>1, ValueThere, Zenon
    <3>3. s = q
      BY <2>4, <3>1
    <3>4. QED  BY <3>2, <3>3, Zenon
  <2>6. \A r \in q .. e - 1 : Digits[DigitAt(l, r) + 1] = CharAt(l, r)
    <3>1. \A r \in q .. e - 1 : CharAt(l, r) \in Digit
      BY <1>1, <1>2, <2>4, NumberShape, Zenon
    <3>2. QED  BY <3>1, DigitRead, Zenon DEF DigitAt
  <2>7. PICK x, y, z : x = DigitAt(l, q) /\ y = DigitAt(l, q + 1) /\ z = DigitAt(l, q + 2)
    OBVIOUS
  <2>8. CASE k = 1 /\ Decimal(n) = <<Digits[n + 1]>>
    <3>1. q \in q .. e - 1 /\ e = q + 1
      BY <2>4, <2>8
    <3>2. CharAt(l, q) = Digits[n + 1]
      BY <2>4, <2>5, <2>6, <3>1
    <3>3. q + 1 - 1 = q
      OBVIOUS
    <3>4. QED  BY <2>3, <2>8, <3>2, <3>3 DEF Written
  <2>9. ASSUME NEW a \in 0 .. 9, NEW b \in 0 .. 9, k = 2, n = 10 * a + b,
               Decimal(n) = <<Digits[a + 1], Digits[b + 1]>>
        PROVE  Written(l, q, n)
    <3>1. q \in q .. e - 1 /\ q + 1 \in q .. e - 1 /\ e = q + 2
      BY <2>4, <2>9
    <3>2. x \in 0 .. 9 /\ y \in 0 .. 9 /\ n = 10 * x + y
      BY <2>4, <2>5, <2>7, <3>1, Zenon
    <3>3. x = a /\ y = b
      BY <2>9, <3>2
    <3>4. CharAt(l, q) = Digits[a + 1] /\ CharAt(l, q + 1) = Digits[b + 1]
      BY <2>6, <2>7, <3>1, <3>3, Zenon
    <3>5. q + 1 - 1 = q /\ q + 2 - 1 = q + 1
      OBVIOUS
    <3>6. QED  BY <2>3, <2>9, <3>4, <3>5 DEF Written
  <2>10. ASSUME NEW a \in 0 .. 9, NEW b \in 0 .. 9, NEW c \in 0 .. 9, k = 3,
                n = 10 * (10 * a + b) + c,
                Decimal(n) = <<Digits[a + 1], Digits[b + 1], Digits[c + 1]>>
         PROVE  Written(l, q, n)
    <3>1. /\ q \in q .. e - 1 /\ q + 1 \in q .. e - 1 /\ q + 2 \in q .. e - 1
          /\ e = q + 3
      BY <2>4, <2>10
    <3>2. x \in 0 .. 9 /\ y \in 0 .. 9 /\ z \in 0 .. 9 /\ n = 10 * (10 * x + y) + z
      BY <2>4, <2>5, <2>7, <3>1, Zenon
    <3>3. x = a /\ y = b /\ z = c
      BY <2>10, <3>2
    <3>4. /\ CharAt(l, q) = Digits[a + 1] /\ CharAt(l, q + 1) = Digits[b + 1]
          /\ CharAt(l, q + 2) = Digits[c + 1]
      BY <2>6, <2>7, <3>1, <3>3, Zenon
    <3>5. q + 1 - 1 = q /\ q + 2 - 1 = q + 1 /\ q + 3 - 1 = q + 2
      OBVIOUS
    <3>6. QED  BY <2>3, <2>10, <3>4, <3>5 DEF Written
  <2>11. QED  BY <1>4, <2>1, <2>8, <2>9, <2>10, DecimalIs
<1>5. CASE n = -1
  <2>1. PICK s : s = SignedIn(l, q)
    OBVIOUS
  <2>2. /\ s \in q .. q + 1 /\ s \in 1 .. Len(l) + 1 /\ e \in s .. Len(l) + 1
        /\ CharAt(l, e) \notin Digit
        /\ \A r \in s .. e - 1 : CharAt(l, r) \in Digit
    BY <1>1, <1>2, <2>1, NumberShape
  <2>3. v \in Nat
    BY <1>3, ValueShape
  <2>4. CharAt(l, q) = "-" /\ v = 1
    <3>1. n # v /\ (n = -v => v = 1)
      BY <1>5, <2>3
    <3>2. n = IF CharAt(l, q) = "-" THEN -v ELSE v
      BY <1>3, Zenon DEF NumberIn
    <3>3. QED  BY <3>1, <3>2, Zenon
  <2>5. s = q + 1
    BY <2>1, <2>4 DEF SignedIn
  <2>6. Width(n) = 2 /\ Word(n) = <<"-", "1">>
    BY <1>5 DEF Width, Word
  <2>7. EndIn(l, q) = q \/ EndIn(l, q) = e
    BY <1>2, Zenon DEF EndIn
  <2>8. e = q + 2
    <3>1. q + 2 <= e
      BY <2>6, <2>7
    <3>2. CharAt(l, q + 2) \notin Digit
      BY <2>6
    <3>3. e # q + 2 => q + 2 \in s .. e - 1
      BY <2>2, <2>5, <3>1
    <3>4. QED  BY <2>2, <3>2, <3>3, Zenon
  <2>9. e = s + 1 /\ s \in s .. e - 1
    BY <2>5, <2>8
  <2>10. DigitAt(l, s) = 1
    BY <1>2, <1>3, <2>1, <2>4, <2>9, ValueThere, Zenon
  <2>11. CharAt(l, s) = "1"
    <3>1. CharAt(l, s) \in Digit
      BY <2>2, <2>9, Zenon
    <3>2. QED  BY <2>10, <3>1, DigitRead, DigitsDiffer, Zenon DEF DigitAt
  <2>12. CharAt(l, q + 1) = "1"
    BY <2>5, <2>11, Zenon
  <2>13. PICK w : w = Word(n)
    OBVIOUS
  <2>14. w[1] = "-" /\ w[2] = "1" /\ Len(w) = 2
    BY <2>6, <2>13
  <2>15. ASSUME NEW j \in 1 .. 2 PROVE CharAt(l, q + j - 1) = w[j]
    <3>1. (j = 1 /\ q + j - 1 = q) \/ (j = 2 /\ q + j - 1 = q + 1)
      OBVIOUS
    <3>2. QED  BY <2>4, <2>12, <2>14, <3>1, Zenon
  <2>16. QED  BY <2>13, <2>14, <2>15, Zenon DEF Written
<1>6. QED  BY <1>4, <1>5, WordIs, Zenon

LEMMA WidthOf ==
  /\ Width(-1) = 2 /\ Word(-1) = <<"-", "1">>
  /\ \A n \in Member : n # -1 /\ Width(n) = DigitsExpected(n) /\ Word(n) = Decimal(n)
BY DEF Width, Word, Member

\* What stands where a number is written.
Shown(l, q, w, k) ==
  /\ k \in {1, 2, 3} => CharAt(l, q) = w[1]
  /\ k \in {2, 3} => CharAt(l, q + 1) = w[2]
  /\ k = 3 => CharAt(l, q + 2) = w[3]

LEMMA WrittenAt ==
  ASSUME NEW l, NEW q \in Nat, NEW n \in Storable, Written(l, q, n),
         NEW w, w = Word(n), NEW k, k = Width(n)
  PROVE  Shown(l, q, w, k)
<1>1. Len(w) = k
  BY WordIs, Zenon
<1>2. /\ k \in {1, 2, 3} => 1 \in 1 .. k
      /\ k \in {2, 3} => 2 \in 1 .. k
      /\ k = 3 => 3 \in 1 .. k
      /\ q + 1 - 1 = q /\ q + 2 - 1 = q + 1 /\ q + 3 - 1 = q + 2
  OBVIOUS
<1>3. \A j \in 1 .. k : CharAt(l, q + j - 1) = w[j]
  BY <1>1, Zenon DEF Written
<1>4. k \in {1, 2, 3} => CharAt(l, q + 1 - 1) = w[1]
  BY <1>2, <1>3, Zenon
<1>5. k \in {2, 3} => CharAt(l, q + 2 - 1) = w[2]
  BY <1>2, <1>3, Zenon
<1>6. k = 3 => CharAt(l, q + 3 - 1) = w[3]
  BY <1>2, <1>3, Zenon
<1>7. QED  BY <1>2, <1>4, <1>5, <1>6 DEF Shown

\* What is written like a number is read as it, if no other digit follows.
LEMMA WrittenAsRead ==
  ASSUME NEW l, l \in Lines, NEW q \in 1 .. Len(l) + 1, NEW n \in Storable,
         NEW e, e = q + Width(n), e <= Len(l) + 1, Written(l, q, n), CharAt(l, e) \notin Digit
  PROVE  NumberIn(l, q) = n
<1>1. Len(l) \in Nat
  BY DEF Lines
<1>2. PICK v : v = ValueIn(l, q)
  OBVIOUS
<1>p. PICK w, k : w = Word(n) /\ k = Width(n)
  OBVIOUS
<1>w. /\ k \in {1, 2, 3} => CharAt(l, q) = w[1]
      /\ k \in {2, 3} => CharAt(l, q + 1) = w[2]
      /\ k = 3 => CharAt(l, q + 2) = w[3]
  <2>1. q \in Nat
    OBVIOUS
  <2>2. Shown(l, q, w, k)
    BY <1>p, <2>1, WrittenAt, Zenon
  <2>3. QED  BY <2>2, Zenon DEF Shown
<1>e. e = q + k
  BY <1>p
<1>3. CASE n \in Member
  <2>2. k = DigitsExpected(n) /\ w = Decimal(n)
    BY <1>3, <1>p, WidthOf, Zenon
  <2>3. ASSUME e \in q + 1 .. Len(l) + 1, \A r \in q .. e - 1 : CharAt(l, r) \in Digit
        PROVE  /\ NumberIn(l, q) = v
               /\ e = q + 1 => v = DigitAt(l, q)
               /\ e = q + 2 => v = 10 * DigitAt(l, q) + DigitAt(l, q + 1)
               /\ e = q + 3 => v = 10 * (10 * DigitAt(l, q) + DigitAt(l, q + 1))
                                     + DigitAt(l, q + 2)
    <3>1. q \in 1 .. Len(l) /\ q \in q .. e - 1
      BY <1>1, <2>3
    <3>2. CharAt(l, q) \in Digit
      BY <2>3, <3>1, Zenon
    <3>3. SignedIn(l, q) = q /\ DigitsEnd(l, q) = e /\ NumberIn(l, q) = v
      BY <1>2, <2>3, <3>1, <3>2, Unsigned, Zenon
    <3>4. QED  BY <1>2, <3>3, ValueThere
  <2>4. CASE /\ n \in 0 .. 9 /\ k = 1 /\ Decimal(n) = <<Digits[n + 1]>>
    <3>1. e = q + 1 /\ q + 1 - 1 = q /\ \A r \in q .. e - 1 : r = q
      BY <1>e, <2>4
    <3>2. CharAt(l, q) = Digits[n + 1]
      BY <1>w, <2>2, <2>4
    <3>3. DigitAt(l, q) = n /\ CharAt(l, q) \in Digit
      BY <2>4, <3>2, DigitRead, Zenon DEF DigitAt
    <3>4. e \in q + 1 .. Len(l) + 1
      BY <3>1, <1>1
    <3>5. \A r \in q .. e - 1 : CharAt(l, r) \in Digit
      BY <3>1, <3>3
    <3>6. QED  BY <2>3, <3>1, <3>3, <3>4, <3>5, Zenon
  <2>5. ASSUME NEW a \in 0 .. 9, NEW b \in 0 .. 9, k = 2, n = 10 * a + b,
               Decimal(n) = <<Digits[a + 1], Digits[b + 1]>>
        PROVE  NumberIn(l, q) = n
    <3>1. /\ e = q + 2 /\ q + 1 - 1 = q /\ q + 2 - 1 = q + 1
          /\ \A r \in q .. e - 1 : r = q \/ r = q + 1
      BY <1>e, <2>5
    <3>2. CharAt(l, q) = Digits[a + 1] /\ CharAt(l, q + 1) = Digits[b + 1]
      BY <1>w, <2>2, <2>5
    <3>3. /\ DigitAt(l, q) = a /\ CharAt(l, q) \in Digit
          /\ DigitAt(l, q + 1) = b /\ CharAt(l, q + 1) \in Digit
      BY <2>5, <3>2, DigitRead, Zenon DEF DigitAt
    <3>4. e \in q + 1 .. Len(l) + 1
      BY <3>1, <1>1
    <3>5. \A r \in q .. e - 1 : CharAt(l, r) \in Digit
      BY <3>1, <3>3, Zenon
    <3>6. QED  BY <2>3, <2>5, <3>1, <3>3, <3>4, <3>5, Zenon
  <2>6. ASSUME NEW a \in 0 .. 9, NEW b \in 0 .. 9, NEW c \in 0 .. 9, k = 3,
               n = 10 * (10 * a + b) + c,
               Decimal(n) = <<Digits[a + 1], Digits[b + 1], Digits[c + 1]>>
        PROVE  NumberIn(l, q) = n
    <3>1. /\ e = q + 3 /\ q + 1 - 1 = q /\ q + 2 - 1 = q + 1 /\ q + 3 - 1 = q + 2
          /\ \A r \in q .. e - 1 : r = q \/ r = q + 1 \/ r = q + 2
      BY <1>e, <2>6
    <3>2. /\ CharAt(l, q) = Digits[a + 1] /\ CharAt(l, q + 1) = Digits[b + 1]
          /\ CharAt(l, q + 2) = Digits[c + 1]
      BY <1>w, <2>2, <2>6
    <3>3. /\ DigitAt(l, q) = a /\ CharAt(l, q) \in Digit
          /\ DigitAt(l, q + 1) = b /\ CharAt(l, q + 1) \in Digit
          /\ DigitAt(l, q + 2) = c /\ CharAt(l, q + 2) \in Digit
      BY <2>6, <3>2, DigitRead, Zenon DEF DigitAt
    <3>4. e \in q + 1 .. Len(l) + 1
      BY <3>1, <1>1
    <3>5. \A r \in q .. e - 1 : CharAt(l, r) \in Digit
      BY <3>1, <3>3, Zenon
    <3>6. QED  BY <2>3, <2>6, <3>1, <3>3, <3>4, <3>5, Zenon
  <2>7. \/ n \in 0 .. 9 /\ k = 1 /\ Decimal(n) = <<Digits[n + 1]>>
        \/ \E a, b \in 0 .. 9 :
             k = 2 /\ n = 10 * a + b /\ Decimal(n) = <<Digits[a + 1], Digits[b + 1]>>
        \/ \E a, b, c \in 0 .. 9 :
             /\ k = 3 /\ n = 10 * (10 * a + b) + c
             /\ Decimal(n) = <<Digits[a + 1], Digits[b + 1], Digits[c + 1]>>
    BY <1>3, <2>2, DecimalIs, Zenon
  <2>8. QED  BY <2>4, <2>5, <2>6, <2>7, Zenon
<1>4. CASE n = -1
  <2>1. e = q + 2 /\ k = 2 /\ w = <<"-", "1">>
    BY <1>4, <1>e, <1>p, WidthOf, Zenon
  <2>2. CharAt(l, q) = "-" /\ CharAt(l, q + 1) = "1"
    <3>1. w[1] = "-" /\ w[2] = "1"
      BY <2>1
    <3>2. k \in {1, 2, 3} /\ k \in {2, 3}
      BY <2>1
    <3>3. QED  BY <1>w, <3>1, <3>2, Zenon
  <2>3. PICK s : s = q + 1
    OBVIOUS
  <2>4. SignedIn(l, q) = s
    BY <2>2, <2>3 DEF SignedIn
  <2>5. /\ s \in 1 .. Len(l) + 1 /\ e \in s .. Len(l) + 1 /\ e = s + 1
        /\ \A r \in s .. e - 1 : r = s
    BY <1>1, <2>1, <2>3
  <2>6. CharAt(l, s) \in Digit /\ DigitAt(l, s) = 1
    <3>1. CharAt(l, s) = Digits[1 + 1]
      BY <2>2, <2>3, DigitsDiffer, Zenon
    <3>2. 1 \in 0 .. 9
      OBVIOUS
    <3>3. QED  BY <3>1, <3>2, DigitRead, Zenon DEF DigitAt
  <2>7. DigitsEnd(l, q) = e
    <3>1. \A r \in s .. e - 1 : CharAt(l, r) \in Digit
      BY <2>5, <2>6, Zenon
    <3>2. Skipped(l, s, Digit) = e
      BY <1>1, <2>5, <3>1, Apart, SkippedOnly, Zenon
    <3>3. QED  BY <2>4, <3>2, Zenon DEF DigitsEnd
  <2>8. v = 1
    <3>1. s = SignedIn(l, q) /\ e = DigitsEnd(l, q) /\ e = s + 1
      BY <2>4, <2>5, <2>7, Zenon
    <3>2. v = DigitAt(l, s)
      BY <1>2, <3>1, ValueThere, Zenon
    <3>3. QED  BY <2>6, <3>2, Zenon
  <2>9. NumberIn(l, q) = -v
    BY <1>2, <2>2, Zenon DEF NumberIn
  <2>10. QED  BY <1>4, <2>8, <2>9
<1>5. QED  BY <1>3, <1>4, WordIs, Zenon

\* A number stands alone if there is nothing else before it and behind it.
LEMMA AloneIs ==
  ASSUME NEW l, l \in Lines, NEW a \in 0 .. Len(l), NEW b \in a + 1 .. Len(l) + 1,
         NEW n \in Storable, NEW q \in a + 1 .. b, NEW e, e = q + Width(n), e <= b,
         Written(l, q, n), BlankUpTo(l, a + 1, q), BlankUpTo(l, e, b)
  PROVE  Alone(l, a, b, Word(n))
<1>1. Len(l) \in Nat
  BY DEF Lines
<1>2. PICK w : w = Word(n)
  OBVIOUS
<1>3. PICK k \in 1 .. 3 : k = Width(n)
  BY WordIs, Zenon
<1>4. Len(w) = k /\ e = q + k
  BY <1>2, <1>3, WordIs, Zenon
<1>5. q \in a + 1 .. b - k
  BY <1>1, <1>3, <1>4
<1>6. \A j \in 1 .. k : CharAt(l, q + j - 1) = w[j]
  BY <1>2, <1>4, Zenon DEF Written
<1>7. ASSUME NEW p \in a + 1 .. b - 1
      PROVE  l[p] = IF p \in q .. q + k - 1 THEN w[p - q + 1] ELSE "space"
  <2>1. CharAt(l, p) = l[p]
    BY <1>1 DEF CharAt
  <2>2. CASE p \in q .. q + k - 1
    <3>1. PICK j : j = p - q + 1
      OBVIOUS
    <3>2. j \in 1 .. k /\ q + j - 1 = p
      BY <1>1, <1>3, <2>2, <3>1
    <3>3. CharAt(l, p) = w[j]
      BY <1>6, <3>2
    <3>4. QED  BY <2>1, <2>2, <3>1, <3>3, Zenon
  <2>3. CASE p \notin q .. q + k - 1
    <3>1. p \in a + 1 .. q - 1 \/ p \in e .. b - 1
      BY <1>1, <1>3, <1>4, <2>3
    <3>2. CharAt(l, p) \in Blank
      BY <3>1, Zenon DEF BlankUpTo
    <3>3. QED  BY <2>1, <2>3, <3>2 DEF Blank
  <2>4. QED  BY <2>2, <2>3, Zenon
<1>8. Alone(l, a, b, w)
  BY <1>4, <1>5, <1>7, Zenon DEF Alone
<1>9. QED  BY <1>2, <1>8, Zenon

\* A number that stands alone is where something stands.
LEMMA AloneRead ==
  ASSUME NEW l, l \in Lines, NEW a \in 0 .. Len(l), NEW b \in 1 .. Len(l) + 1,
         NEW n \in Storable, Alone(l, a, b, Word(n)), CharAt(l, b) \in Border,
         NEW p \in a + 1 .. Len(l) + 1, BlankUpTo(l, a + 1, p), CharAt(l, p) \notin Blank,
         NEW e, e = p + Width(n)
  PROVE  /\ e <= b /\ Written(l, p, n) /\ BlankUpTo(l, e, b)
         /\ NumberIn(l, p) = n
<1>1. Len(l) \in Nat
  BY DEF Lines
<1>2. PICK w : w = Word(n)
  OBVIOUS
<1>3. PICK k \in 1 .. 3 : k = Width(n)
  BY WordIs, Zenon
<1>4. Len(w) = k /\ e = p + k /\ \A j \in 1 .. k : w[j] \notin Border
  BY <1>2, <1>3, WordIs, Zenon
<1>5. PICK q \in a + 1 .. b - k :
        \A r \in a + 1 .. b - 1 :
          l[r] = IF r \in q .. q + k - 1 THEN w[r - q + 1] ELSE "space"
  BY <1>2, <1>4, Zenon DEF Alone
<1>6. \A r \in a + 1 .. b - 1 : CharAt(l, r) = l[r]
  BY <1>1 DEF CharAt
<1>7. ASSUME NEW j \in 1 .. k PROVE CharAt(l, q + j - 1) = w[j]
  <2>1. PICK r : r = q + j - 1
    OBVIOUS
  <2>2. r \in a + 1 .. b - 1 /\ r \in q .. q + k - 1 /\ r - q + 1 = j
    BY <1>1, <2>1
  <2>3. l[r] = w[j]
    BY <1>5, <2>2
  <2>4. QED  BY <1>6, <2>1, <2>2, <2>3, Zenon
<1>8. \A r \in a + 1 .. b - 1 : r \notin q .. q + k - 1 => CharAt(l, r) \in Blank
  BY <1>5, <1>6 DEF Blank
<1>9. ~(q < p)
  <2> SUFFICES ASSUME q < p PROVE FALSE
    OBVIOUS
  <2>1. q \in a + 1 .. p - 1 /\ 1 \in 1 .. k /\ q + 1 - 1 = q
    BY <1>1
  <2>2. CharAt(l, q) \in Blank
    BY <2>1, Zenon DEF BlankUpTo
  <2>3. CharAt(l, q) \notin Border
    BY <1>4, <1>7, <2>1, Zenon
  <2>4. QED  BY <2>2, <2>3, Apart, Zenon
<1>10. ~(p < q)
  <2> SUFFICES ASSUME p < q PROVE FALSE
    OBVIOUS
  <2>1. p \in a + 1 .. b - 1 /\ p \notin q .. q + k - 1
    BY <1>1
  <2>2. QED  BY <1>8, <2>1, Zenon
<1>11. q = p
  BY <1>1, <1>9, <1>10
<1>12. e <= b /\ e \in 1 .. Len(l) + 1
  BY <1>1, <1>4, <1>11
<1>13. Written(l, p, n)
  BY <1>2, <1>4, <1>7, <1>11, Zenon DEF Written
<1>14. BlankUpTo(l, e, b)
  <2> SUFFICES ASSUME NEW r \in e .. b - 1 PROVE CharAt(l, r) \in Blank
    BY DEF BlankUpTo
  <2>1. r \in a + 1 .. b - 1 /\ r \notin q .. q + k - 1
    BY <1>1, <1>4, <1>11, <1>12
  <2>2. QED  BY <1>8, <2>1, Zenon
<1>15. CharAt(l, e) \notin Digit
  <2>1. e = b \/ e \in e .. b - 1
    BY <1>1, <1>12
  <2>2. CharAt(l, e) \in Border
    BY <1>14, <2>1, Apart, Zenon DEF BlankUpTo
  <2>3. QED  BY <2>2, Apart, Zenon
<1>16. NumberIn(l, p) = n
  <2>1. p \in 1 .. Len(l) + 1 /\ e <= Len(l) + 1
    BY <1>1, <1>12
  <2>2. QED  BY <1>13, <1>15, <2>1, WrittenAsRead, Zenon
<1>17. QED  BY <1>12, <1>13, <1>14, <1>16

-----------------------------------------------------------------------------
(* What the automaton takes between the commas of a list *)

\* Behind a there was a number n, and since then only white space up to p.
TakenAt(l, a, q, p, n) ==
  /\ q \in a + 1 .. p - 1 /\ BlankUpTo(l, a + 1, q)
  /\ NumberIn(l, q) = n /\ (n = 0 => CharAt(l, q) = "0")
  /\ CharAt(l, q) \notin Border
  /\ q + Width(n) <= EndIn(l, q) /\ q + Width(n) <= p
  /\ BlankUpTo(l, q + Width(n), p)
Taken(l, a, p, n) == \E q \in a + 1 .. p - 1 : TakenAt(l, a, q, p, n)

\* At a border it stands alone.
LEMMA TakenAlone ==
  ASSUME NEW l, l \in Lines, NEW a \in 0 .. Len(l), NEW p \in 1 .. Len(l) + 1,
         NEW n \in Storable, Taken(l, a, p, n), CharAt(l, p) \in Border
  PROVE  Alone(l, a, p, Word(n))
<1>1. Len(l) \in Nat
  BY DEF Lines
<1>2. PICK q \in a + 1 .. p - 1 : TakenAt(l, a, q, p, n)
  BY DEF Taken
<1>3. PICK k \in 1 .. 3 : k = Width(n)
  BY WordIs, Zenon
<1>4. PICK e : e = q + k
  OBVIOUS
<1>5. /\ NumberIn(l, q) = n /\ (n = 0 => CharAt(l, q) = "0")
      /\ e = q + Width(n) /\ e <= EndIn(l, q) /\ e <= p
      /\ BlankUpTo(l, a + 1, q) /\ BlankUpTo(l, e, p)
  BY <1>2, <1>3, <1>4, Zenon DEF TakenAt
<1>6. /\ q \in 1 .. Len(l) + 1 /\ q \in a + 1 .. p /\ p \in a + 1 .. Len(l) + 1
      /\ e = p \/ e \in e .. p - 1
  BY <1>1, <1>4, <1>5
<1>7. CharAt(l, e) \in Border
  BY <1>5, <1>6, Apart, Zenon DEF BlankUpTo
<1>8. CharAt(l, e) \notin Digit
  BY <1>7, Apart, Zenon
<1>9. Written(l, q, n)
  BY <1>5, <1>6, <1>8, TakenAsWritten, Zenon
<1>10. QED  BY <1>5, <1>6, <1>9, AloneIs, Zenon

\* There is no comma in between.
LEMMA TakenWithin ==
  ASSUME NEW l, l \in Lines, NEW a \in 0 .. Len(l), NEW p \in 1 .. Len(l) + 1,
         NEW n \in Storable, Taken(l, a, p, n)
  PROVE  \A r \in a + 1 .. p - 1 : CharAt(l, r) # ","
<1> SUFFICES ASSUME NEW r \in a + 1 .. p - 1 PROVE CharAt(l, r) # ","
  OBVIOUS
<1>1. Len(l) \in Nat
  BY DEF Lines
<1>2. PICK q \in a + 1 .. p - 1 : TakenAt(l, a, q, p, n)
  BY DEF Taken
<1>3. PICK k \in 1 .. 3 : k = Width(n)
  BY WordIs, Zenon
<1>4. PICK e : e = q + k
  OBVIOUS
<1>5. PICK f : f = EndIn(l, q)
  OBVIOUS
<1>6. /\ e <= f /\ BlankUpTo(l, a + 1, q) /\ BlankUpTo(l, e, p)
  BY <1>2, <1>3, <1>4, <1>5, Zenon DEF TakenAt
<1>7. q \in 1 .. Len(l) + 1
  BY <1>1
<1>8. f \in q .. Len(l) + 1 /\ \A j \in q .. f - 1 : CharAt(l, j) \notin Border
  BY <1>1, <1>5, <1>7, NumberInside, Zenon
<1>9. r \in a + 1 .. q - 1 \/ r \in q .. f - 1 \/ r \in e .. p - 1
  BY <1>1, <1>4, <1>6, <1>8
<1>10. CharAt(l, r) \in Blank \/ CharAt(l, r) \notin Border
  BY <1>6, <1>8, <1>9, Zenon DEF BlankUpTo
<1>11. QED  BY <1>10 DEF Blank, Border, Separator

\* If a number stands alone there, it is the one, and its end is in sight.
LEMMA TakenOnly ==
  ASSUME NEW l, l \in Lines, NEW a \in 0 .. Len(l), NEW p \in 1 .. Len(l) + 1,
         NEW n \in Storable, Taken(l, a, p, n), CharAt(l, p) \notin Blank,
         NEW b \in 1 .. Len(l) + 1, CharAt(l, b) \in Border, CharAt(l, b) \notin Blank,
         NEW m \in Storable, Alone(l, a, b, Word(m))
  PROVE  m = n /\ p = b
<1>1. Len(l) \in Nat
  BY DEF Lines
<1>2. PICK q \in a + 1 .. p - 1 : TakenAt(l, a, q, p, n)
  BY DEF Taken
<1>3. PICK k \in 1 .. 3 : k = Width(n)
  BY WordIs, Zenon
<1>4. PICK e : e = q + k
  OBVIOUS
<1>5. /\ NumberIn(l, q) = n /\ e = q + Width(n) /\ CharAt(l, q) \notin Border
      /\ BlankUpTo(l, a + 1, q) /\ BlankUpTo(l, e, p) /\ e <= p
  BY <1>2, <1>3, <1>4, Zenon DEF TakenAt
<1>6. q \in a + 1 .. Len(l) + 1 /\ CharAt(l, q) \notin Blank
  BY <1>1, <1>5, Apart
<1>7. NumberIn(l, q) = m
  <2>1. PICK g : g = q + Width(m)
    OBVIOUS
  <2>2. QED  BY <1>5, <1>6, <2>1, AloneRead
<1>8. m = n
  BY <1>5, <1>7
<1>9. e <= b /\ BlankUpTo(l, e, b)
  BY <1>5, <1>6, <1>8, AloneRead, Zenon
<1>10. ~(p < b)
  <2> SUFFICES ASSUME p < b PROVE FALSE
    OBVIOUS
  <2>1. p \in e .. b - 1
    BY <1>1, <1>4, <1>5
  <2>2. QED  BY <1>9, <2>1, Zenon DEF BlankUpTo
<1>11. ~(b < p)
  <2> SUFFICES ASSUME b < p PROVE FALSE
    OBVIOUS
  <2>1. b \in e .. p - 1
    BY <1>1, <1>4, <1>9
  <2>2. QED  BY <1>5, <2>1, Zenon DEF BlankUpTo
<1>12. QED  BY <1>8, <1>10, <1>11

\* The commas up to a are followed by numbers, and the first of them by a heading.
Headed(l, a) ==
  \E c \in Commas(l) : \E name \in SetName :
    c <= a /\ WordsTo(l, c) = <<"read_set", name, ",">>
Listed(l, a) ==
  /\ Headed(l, a)
  /\ \A c \in Commas(l) :
       c < a => \E d \in Commas(l), n \in Member : Alone(l, c, d, Decimal(n))

LEMMA CommaThere ==
  ASSUME NEW l, l \in Lines
  PROVE  /\ \A c \in Commas(l) : c \in 1 .. Len(l) /\ CharAt(l, c) = ","
         /\ \A c \in 1 .. Len(l) : CharAt(l, c) = "," => c \in Commas(l)
<1>1. \A c \in 1 .. Len(l) : CharAt(l, c) = l[c]
  BY DEF CharAt
<1>2. \A c \in 1 .. Len(l) : l[c] = "," => c \in Commas(l)
  BY Zenon DEF Commas
<1>3. QED  BY <1>1, <1>2, PlaceOfComma, Zenon

LEMMA CommaPlace ==
  ASSUME NEW l, l \in Lines
  PROVE  /\ Len(l) \in Nat
         /\ \A c \in Commas(l) : /\ c \in 1 .. Len(l) /\ c \in 0 .. Len(l)
                                 /\ c \in 1 .. Len(l) + 1 /\ c - 1 \in 0 .. Len(l)
<1>1. Len(l) \in Nat
  BY DEF Lines
<1>2. \A c \in Commas(l) : c \in 1 .. Len(l)
  BY PlaceOfComma, Zenon
<1>3. QED  BY <1>1, <1>2

LEMMA CommaIs ==
  /\ "," \in Border /\ "," \notin Blank /\ "end" \in Border /\ "end" \notin Blank
  /\ "," \notin SetName /\ "end" \notin SetName /\ "," \in Symbol
BY NameAssumption DEF Border, Separator, Blank, Symbol

LEMMA CommaEnds ==
  ASSUME NEW l, l \in Lines, NEW c \in Commas(l)
  PROVE  CharAt(l, c) \in Border /\ CharAt(l, c) \notin Blank
BY CommaThere, CommaIs, Zenon

LEMMA StorableIs ==
  /\ \A n \in Member : n \in Storable
  /\ -1 \in Storable
  /\ \A n \in Storable : n # -1 => n \in Member
BY DEF Member, Storable, NUM_OF_BITS

\* How a list begins.
ReadWords(name) == <<"read_set", name>>

\* The comma behind the heading is the first.
LEMMA TwoWords ==
  ASSUME NEW name \in SetName, NEW w, w = ReadWords(name), NEW v, Begun(w, v),
         NEW k \in Nat, k = Len(v), k > 0
  PROVE  v[k] # ","
<1>1. Len(w) = 2 /\ w[1] = "read_set" /\ w[2] = name
  BY DEF ReadWords
<1>2. name # ","
  BY CommaIs, Zenon
<1>3. k = 1 \/ k = 2
  <2>1. Len(w) = 2
    BY <1>1, Zenon
  <2>2. QED  BY <2>1 DEF Begun
<1>4. k \in 1 .. k
  OBVIOUS
<1>5. v[k] = w[k]
  BY <1>4, Zenon DEF Begun
<1>6. w[1] # "," /\ w[2] # ","
  BY <1>1, <1>2
<1>7. QED  BY <1>3, <1>5, <1>6, Zenon

Longer(s, x, t, S) ==
  /\ s \in Seq(S) /\ x \in S /\ t \in Seq(S) /\ Len(t) = Len(s) + 1
  /\ t[Len(s) + 1] = x /\ \A i \in 1 .. Len(s) : t[i] = s[i]

LEMMA LongerIs ==
  ASSUME NEW s, NEW x, NEW t, NEW S, Longer(s, x, t, S)
  PROVE  Append(s, x) = t
<1>1. PICK n : n = Len(s)
  OBVIOUS
<1>2. /\ s \in Seq(S) /\ x \in S /\ t \in Seq(S) /\ Len(t) = n + 1
      /\ t[n + 1] = x /\ \A i \in 1 .. n : t[i] = s[i]
  BY <1>1, Zenon DEF Longer
<1>3. /\ Append(s, x) \in Seq(S) /\ Len(Append(s, x)) = n + 1 /\ n \in Nat
      /\ Append(s, x)[n + 1] = x /\ \A i \in 1 .. n : Append(s, x)[i] = s[i]
  BY <1>1, <1>2, AppendProperties
<1>4. \A i \in 1 .. n + 1 : Append(s, x)[i] = t[i]
  BY <1>2, <1>3
<1>5. QED  BY <1>2, <1>3, <1>4, SeqEqual

\* A word more, for up to six words.
LEMMA WordsAppended ==
  /\ \A a : Append(<<>>, a) = <<a>>
  /\ \A a, b : Append(<<a>>, b) = <<a, b>>
  /\ \A a, b, c : Append(<<a, b>>, c) = <<a, b, c>>
  /\ \A a, b, c, d : Append(<<a, b, c>>, d) = <<a, b, c, d>>
  /\ \A a, b, c, d, e : Append(<<a, b, c, d>>, e) = <<a, b, c, d, e>>
  /\ \A a, b, c, d, e, f : Append(<<a, b, c, d, e>>, f) = <<a, b, c, d, e, f>>
<1>1. ASSUME NEW a
      PROVE  Append(<<>>, a) = <<a>>
  <2>1. PICK s, t, S : s = <<>> /\ t = <<a>> /\ S = {a}
    OBVIOUS
  <2>2. Longer(s, a, t, S)
    BY <2>1 DEF Longer
  <2>3. QED  BY <2>1, <2>2, LongerIs, Zenon
<1>2. ASSUME NEW a, NEW b
      PROVE  Append(<<a>>, b) = <<a, b>>
  <2>1. PICK s, t, S : s = <<a>> /\ t = <<a, b>> /\ S = {a, b}
    OBVIOUS
  <2>2. Longer(s, b, t, S)
    BY <2>1 DEF Longer
  <2>3. QED  BY <2>1, <2>2, LongerIs, Zenon
<1>3. ASSUME NEW a, NEW b, NEW c
      PROVE  Append(<<a, b>>, c) = <<a, b, c>>
  <2>1. PICK s, t, S : s = <<a, b>> /\ t = <<a, b, c>> /\ S = {a, b, c}
    OBVIOUS
  <2>2. Longer(s, c, t, S)
    BY <2>1 DEF Longer
  <2>3. QED  BY <2>1, <2>2, LongerIs, Zenon
<1>4. ASSUME NEW a, NEW b, NEW c, NEW d
      PROVE  Append(<<a, b, c>>, d) = <<a, b, c, d>>
  <2>1. PICK s, t, S : s = <<a, b, c>> /\ t = <<a, b, c, d>> /\ S = {a, b, c, d}
    OBVIOUS
  <2>2. Longer(s, d, t, S)
    BY <2>1 DEF Longer
  <2>3. QED  BY <2>1, <2>2, LongerIs, Zenon
<1>5. ASSUME NEW a, NEW b, NEW c, NEW d, NEW e
      PROVE  Append(<<a, b, c, d>>, e) = <<a, b, c, d, e>>
  <2>1. PICK s, t, S : s = <<a, b, c, d>> /\ t = <<a, b, c, d, e>> /\ S = {a, b, c, d, e}
    OBVIOUS
  <2>2. Longer(s, e, t, S)
    BY <2>1 DEF Longer
  <2>3. QED  BY <2>1, <2>2, LongerIs, Zenon
<1>6. ASSUME NEW a, NEW b, NEW c, NEW d, NEW e, NEW f
      PROVE  Append(<<a, b, c, d, e>>, f) = <<a, b, c, d, e, f>>
  <2>1. PICK s, t, S : s = <<a, b, c, d, e>> /\ t = <<a, b, c, d, e, f>> /\ S = {a, b, c, d, e, f}
    OBVIOUS
  <2>2. Longer(s, f, t, S)
    BY <2>1 DEF Longer
  <2>3. QED  BY <2>1, <2>2, LongerIs, Zenon
<1>7. QED  BY <1>1, <1>2, <1>3, <1>4, <1>5, <1>6, Zenon

LEMMA ListFirst ==
  ASSUME NEW l, l \in Lines, NEW p \in Commas(l), NEW name \in SetName,
         WordsTo(l, p - 1) = ReadWords(name)
  PROVE  Listed(l, p)
<1>1. Len(l) \in Nat /\ p \in 1 .. Len(l)
  BY CommaPlace
<1>2. p <= p
  BY <1>1
<1>3. WordsTo(l, p) = <<"read_set", name, ",">>
  <2>1. WordsTo(l, p) = Append(WordsTo(l, p - 1), ",")
    BY <1>1, CommaThere, CommaIs, WordAdded, Zenon
  <2>2. Append(<<"read_set", name>>, ",") = <<"read_set", name, ",">>
    BY WordsAppended, Zenon
  <2>3. QED  BY <2>1, <2>2, Zenon DEF ReadWords
<1>4. ASSUME NEW c \in Commas(l), c < p PROVE FALSE
  <2>1. c \in 1 .. Len(l)
    BY CommaPlace
  <2>2. PICK q : q = p - 1
    OBVIOUS
  <2>3. q \in 0 .. Len(l) /\ c \in 0 .. Len(l) /\ q \in c .. Len(l) /\ c - 1 \in 0 .. Len(l)
    BY <1>1, <1>4, <2>1, <2>2
  <2>4. PICK v, u : v = WordsTo(l, c) /\ u = WordsTo(l, c - 1)
    OBVIOUS
  <2>5. PICK w : w = WordsTo(l, q)
    OBVIOUS
  <2>6. w = ReadWords(name)
    BY <2>2, <2>5, Zenon
  <2>7. Begun(w, v)
    BY <2>3, <2>4, <2>5, WordsGrow, Zenon DEF Begun
  <2>8. v = Append(u, ",") /\ u \in Seq(Symbol)
    <3>1. v = Append(u, ",")
      BY <2>1, <2>4, CommaThere, CommaIs, WordAdded, Zenon
    <3>2. u \in Seq(Symbol)
      BY <2>3, <2>4, WordsStep, Zenon
    <3>3. QED  BY <3>1, <3>2
  <2>9. PICK k : k = Len(u) + 1
    OBVIOUS
  <2>10. k \in Nat /\ k > 0 /\ Len(v) = k /\ v[k] = ","
    <3>1. "," \in Symbol
      BY CommaIs, Zenon
    <3>2. u \in Seq(Symbol)
      BY <2>8, Zenon
    <3>3. Len(u) \in Nat
      BY <3>2
    <3>4. Len(Append(u, ",")) = Len(u) + 1 /\ Append(u, ",")[Len(u) + 1] = ","
      BY <3>1, <3>2, AppendProperties, Zenon
    <3>5. k \in Nat /\ k > 0
      BY <2>9, <3>3
    <3>6. QED  BY <2>8, <2>9, <3>4, <3>5, Zenon
  <2>11. QED  BY <2>6, <2>7, <2>10, TwoWords, Zenon
<1>5. Headed(l, p)
  BY <1>2, <1>3, Zenon DEF Headed
<1>6. QED  BY <1>4, <1>5, Zenon DEF Listed

LEMMA ListNext ==
  ASSUME NEW l, l \in Lines, NEW a \in Commas(l), Listed(l, a), NEW p \in Commas(l),
         NEW n \in Member, Taken(l, a, p, n)
  PROVE  Listed(l, p)
<1>1. Len(l) \in Nat /\ \A c \in Commas(l) : c \in 1 .. Len(l)
  BY CommaPlace, Zenon
<1>2. n \in Storable /\ p \in 1 .. Len(l) + 1 /\ a \in 0 .. Len(l) /\ CharAt(l, p) \in Border
  BY CommaPlace, CommaEnds, StorableIs, Zenon
<1>3. a < p
  <2>1. PICK q : q \in a + 1 .. p - 1
    BY Zenon DEF Taken
  <2>2. QED  BY <1>1, <2>1
<1>5. Alone(l, a, p, Decimal(n))
  <2>1. Alone(l, a, p, Word(n))
    BY <1>2, TakenAlone, Zenon
  <2>2. QED  BY <2>1, WidthOf, Zenon
<1>6. Headed(l, p)
  <2>1. PICK c \in Commas(l), name \in SetName :
          c <= a /\ WordsTo(l, c) = <<"read_set", name, ",">>
    BY Zenon DEF Listed, Headed
  <2>2. c <= p
    <3>1. c <= a
      BY <2>1, Zenon
    <3>2. QED  BY <1>1, <1>3, <3>1
  <2>3. QED  BY <2>1, <2>2, Zenon DEF Headed
<1>7. ASSUME NEW c \in Commas(l), c < p
      PROVE  \E d \in Commas(l), m \in Member : Alone(l, c, d, Decimal(m))
  <2>1. c < a \/ c = a \/ c \in a + 1 .. p - 1
    BY <1>1, <1>7
  <2>2. CASE c < a
    BY <2>2, Zenon DEF Listed
  <2>3. CASE c = a
    BY <1>5, <2>3, Zenon
  <2>4. CASE c \in a + 1 .. p - 1
    <3>1. CharAt(l, c) # ","
      BY <1>2, <2>4, TakenWithin, Zenon
    <3>2. QED  BY <3>1, CommaThere, Zenon
  <2>5. QED  BY <2>1, <2>2, <2>3, <2>4, Zenon
<1>8. QED  BY <1>6, <1>7, Zenon DEF Listed

LEMMA ListWhole ==
  ASSUME NEW l, l \in Lines, NEW a \in Commas(l), Listed(l, a), NEW p, p = Len(l) + 1,
         Taken(l, a, p, -1)
  PROVE  IsList(l)
<1>1. Len(l) \in Nat /\ \A c \in Commas(l) : c \in 1 .. Len(l)
  BY CommaPlace, Zenon
<1>2. /\ p \in 1 .. Len(l) + 1 /\ a \in 0 .. Len(l) /\ -1 \in Storable
      /\ CharAt(l, p) \in Border
  <2>1. p \in 1 .. Len(l) + 1 /\ a \in 0 .. Len(l)
    BY <1>1
  <2>2. CharAt(l, p) = "end"
    BY <2>1, EndIsBehind, Zenon
  <2>3. QED  BY <2>1, <2>2, CommaIs, StorableIs, Zenon
<1>3. Alone(l, a, Len(l) + 1, <<"-", "1">>)
  <2>1. Alone(l, a, p, Word(-1))
    BY <1>2, TakenAlone, Zenon
  <2>2. QED  BY <2>1, WidthOf, Zenon
<1>4. ASSUME NEW c \in Commas(l)
      PROVE  \/ \E d \in Commas(l), m \in Member : Alone(l, c, d, Decimal(m))
             \/ Alone(l, c, Len(l) + 1, <<"-", "1">>)
  <2>1. c < a \/ c = a \/ c \in a + 1 .. p - 1
    BY <1>1
  <2>2. CASE c < a
    BY <2>2, Zenon DEF Listed
  <2>3. CASE c = a
    BY <1>3, <2>3, Zenon
  <2>4. CASE c \in a + 1 .. p - 1
    <3>1. CharAt(l, c) # ","
      BY <1>2, <2>4, TakenWithin, Zenon
    <3>2. QED  BY <3>1, CommaThere, Zenon
  <2>5. QED  BY <2>1, <2>2, <2>3, <2>4, Zenon
<1>5. \E c \in Commas(l), name \in SetName : WordsTo(l, c) = <<"read_set", name, ",">>
  BY Zenon DEF Listed, Headed
<1>6. QED  BY <1>4, <1>5, Zenon DEF IsList

-----------------------------------------------------------------------------
(* What must come if the line is a list *)

LEMMA ListMust ==
  ASSUME NEW l, l \in Lines, NEW a, Headed(l, a), IsCommand(l)
  PROVE  IsList(l)
<1>1. PICK c \in Commas(l), name \in SetName : WordsTo(l, c) = <<"read_set", name, ",">>
  BY Zenon DEF Headed
<1>2. c \in 0 .. Len(l)
  BY CommaPlace, Zenon
<1>3. Begun(Words(l), <<"read_set", name, ",">>)
  BY <1>1, <1>2, WordsBegun, Zenon
<1>4. Words(l)[1] = "read_set"
  BY <1>3, ListBegun, Zenon
<1>5. QED  BY <1>4, CommandShaped, Zenon

LEMMA HeadingMust ==
  ASSUME NEW l, l \in Lines, NEW p \in 1 .. Len(l) + 1, CharAt(l, p) \notin Blank,
         NEW name \in SetName, WordsTo(l, p - 1) = ReadWords(name), IsCommand(l)
  PROVE  CharAt(l, p) = ","
<1>1. PICK v : v = WordsTo(l, p - 1)
  OBVIOUS
<1>2. Len(v) = 2 /\ v[1] = "read_set"
  <2>1. v = <<"read_set", name>>
    BY <1>1, Zenon DEF ReadWords
  <2>2. QED  BY <2>1
<1>3. PICK w : w = Words(l)
  OBVIOUS
<1>4. PICK n : n = Len(v)
  OBVIOUS
<1>5. /\ Len(w) \in Nat
      /\ \A k \in 1 .. n : w[k] = v[k]
      /\ Len(w) > n => CharAt(l, p) = w[n + 1]
  <2>1. n = Len(WordsTo(l, p - 1))
    BY <1>1, <1>4, Zenon
  <2>2. /\ Len(Words(l)) \in Nat
        /\ \A k \in 1 .. n : Words(l)[k] = WordsTo(l, p - 1)[k]
        /\ Len(Words(l)) > n => CharAt(l, p) = Words(l)[n + 1]
    BY <2>1, NextWord, Zenon
  <2>3. QED  BY <1>1, <1>3, <2>2, Zenon
<1>6. n = 2
  BY <1>2, <1>4
<1>7. w[1] = v[1] /\ (Len(w) >= 3 => Len(w) > n) /\ n + 1 = 3
  BY <1>5, <1>6
<1>8. w[1] = "read_set"
  BY <1>2, <1>7
<1>9. Len(w) >= 3 /\ w[3] = ","
  <2>1. CommandShape(w)
    BY <1>3, CommandShaped, Zenon
  <2>2. QED  BY <1>8, <2>1, Zenon DEF CommandShape
<1>10. QED  BY <1>5, <1>7, <1>9, Zenon

\* A comma or the end of the line stands behind the number behind a comma.
Stands(l, a, b, m) ==
  /\ Alone(l, a, b, Word(m)) /\ CharAt(l, b) \in Border /\ CharAt(l, b) \notin Blank
  /\ m \in Member => CharAt(l, b) = ","
  /\ m = -1 => CharAt(l, b) = "end"

LEMMA ListStands ==
  ASSUME NEW l, l \in Lines, IsList(l), NEW a \in Commas(l)
  PROVE  \E b \in 1 .. Len(l) + 1 : \E m \in Storable : Stands(l, a, b, m)
<1>1. Len(l) \in Nat /\ \A c \in Commas(l) : c \in 1 .. Len(l) + 1
  BY CommaPlace, Zenon
<1>2. ASSUME NEW d \in Commas(l), NEW m \in Member, Alone(l, a, d, Decimal(m))
      PROVE  m \in Storable /\ Stands(l, a, d, m)
  <2>1. CharAt(l, d) = "," /\ m # -1 /\ m \in Storable
    BY CommaThere, StorableIs, WidthOf, Zenon
  <2>2. Alone(l, a, d, Word(m))
    BY <1>2, WidthOf, Zenon
  <2>3. QED  BY <2>1, <2>2, CommaIs, Zenon DEF Stands
<1>3. ASSUME Alone(l, a, Len(l) + 1, <<"-", "1">>)
      PROVE  Stands(l, a, Len(l) + 1, -1)
  <2>1. CharAt(l, Len(l) + 1) = "end"
    <3>1. Len(l) + 1 \in 1 .. Len(l) + 1
      BY <1>1
    <3>2. QED  BY <3>1, EndIsBehind, Zenon
  <2>2. Alone(l, a, Len(l) + 1, Word(-1))
    BY <1>3, WidthOf, Zenon
  <2>3. -1 \notin Member
    BY WidthOf, Zenon
  <2>4. QED  BY <2>1, <2>2, <2>3, CommaIs, Zenon DEF Stands
<1>4. Len(l) + 1 \in 1 .. Len(l) + 1 /\ -1 \in Storable
  BY <1>1, StorableIs
<1>5. \/ \E d \in Commas(l), m \in Member : Alone(l, a, d, Decimal(m))
      \/ Alone(l, a, Len(l) + 1, <<"-", "1">>)
  BY Zenon DEF IsList
<1>6. QED  BY <1>1, <1>2, <1>3, <1>4, <1>5, Zenon

LEMMA NumberMust ==
  ASSUME NEW l, l \in Lines, IsList(l), NEW a \in Commas(l), NEW p \in a + 1 .. Len(l) + 1,
         BlankUpTo(l, a + 1, p), CharAt(l, p) \notin Blank
  PROVE  /\ NumberIn(l, p) \in Storable /\ CharAt(l, p) \notin Border
         /\ NumberIn(l, p) = 0 => CharAt(l, p) = "0"
<1>0. Len(l) \in Nat /\ a \in 0 .. Len(l)
  BY CommaPlace, Zenon
<1>1. a \in 0 .. Len(l) /\ p \in Nat
  BY <1>0
<1>2. PICK b \in 1 .. Len(l) + 1, m \in Storable : Stands(l, a, b, m)
  BY ListStands, Zenon
<1>3. PICK e : e = p + Width(m)
  OBVIOUS
<1>4. Written(l, p, m) /\ NumberIn(l, p) = m
  <2>1. Alone(l, a, b, Word(m)) /\ CharAt(l, b) \in Border
    BY <1>2, Zenon DEF Stands
  <2>2. QED  BY <1>1, <1>3, <2>1, AloneRead
<1>5. PICK w, k : w = Word(m) /\ k = Width(m)
  OBVIOUS
<1>6. k \in {1, 2, 3} /\ 1 \in 1 .. k
  <2>1. k \in 1 .. 3
    BY <1>5, WordIs, Zenon
  <2>2. QED  BY <2>1
<1>7. CharAt(l, p) = w[1]
  <2>1. Shown(l, p, w, k)
    BY <1>1, <1>4, <1>5, WrittenAt, Zenon
  <2>2. QED  BY <1>6, <2>1, Zenon DEF Shown
<1>8. w[1] \notin Border
  BY <1>5, <1>6, WordIs, Zenon
<1>9. m = 0 => w[1] = "0"
  <2>1. 0 \in Member /\ 0 % 10 = 0 /\ 0 < 10 /\ 0 \notin 10 .. 99 /\ ~(0 > 99)
    BY DEF Member, NUM_OF_BITS
  <2>2. Decimal(0) = <<Digits[(0 % 10) + 1]>>
    BY <2>1, Zenon DEF Decimal
  <2>3. Word(0) = <<Digits[0 + 1]>>
    BY <2>1, <2>2, WidthOf
  <2>4. Word(0)[1] = Digits[0 + 1]
    BY <2>3
  <2>5. QED  BY <1>5, <2>4, DigitsDiffer, Zenon
<1>10. QED  BY <1>4, <1>7, <1>8, <1>9, Zenon

LEMMA EndMust ==
  ASSUME NEW l, l \in Lines, IsList(l), NEW a \in Commas(l), NEW p \in 1 .. Len(l) + 1,
         NEW n \in Storable, Taken(l, a, p, n), CharAt(l, p) \notin Blank
  PROVE  /\ n \in Member => CharAt(l, p) = ","
         /\ n = -1 => CharAt(l, p) = "end"
<1>1. a \in 0 .. Len(l)
  BY CommaPlace, Zenon
<1>2. PICK b \in 1 .. Len(l) + 1, m \in Storable : Stands(l, a, b, m)
  BY ListStands, Zenon
<1>3. m = n /\ p = b
  BY <1>1, <1>2, TakenOnly, Zenon DEF Stands
<1>4. QED  BY <1>2, <1>3, Zenon DEF Stands

-----------------------------------------------------------------------------
(* What the automaton knows of the language, from state to state *)

HeardHeading(l, p) == \E name \in SetName : WordsTo(l, p - 1) = ReadWords(name)
HeardMember(l, p) ==
  \E a \in Commas(l) : \E n \in Member : Listed(l, a) /\ Taken(l, a, p, n)
HeardComma(l, p) == \E a \in Commas(l) : Listed(l, a) /\ a < p /\ BlankUpTo(l, a + 1, p)
HeardLast(l, p) == \E a \in Commas(l) : Listed(l, a) /\ Taken(l, a, p, -1)

Heard(l, p, s, c) ==
  /\ WordsRead(WordsTo(l, p - 1), s, c)
  /\ s = "COMMA_READ" => HeardHeading(l, p) \/ HeardMember(l, p)
  /\ s = "NUMBER" => HeardComma(l, p)
  /\ s = "MINUS1" => HeardLast(l, p)

LEMMA TakenLonger ==
  ASSUME NEW l, l \in Lines, NEW p \in 1 .. Len(l), CharAt(l, p) \in Blank,
         NEW a \in Commas(l), NEW n \in Storable, Taken(l, a, p, n)
  PROVE  Taken(l, a, p + 1, n)
<1>1. PICK q \in a + 1 .. p - 1 : TakenAt(l, a, q, p, n)
  BY DEF Taken
<1>0. a \in 1 .. Len(l)
  BY CommaPlace, Zenon
<1>2. q \in a + 1 .. (p + 1) - 1 /\ q \in Nat
  BY <1>0
<1>3. PICK k \in 1 .. 3 : k = Width(n)
  BY WordIs, Zenon
<1>4. PICK e : e = q + k
  OBVIOUS
<1>5. e <= p /\ BlankUpTo(l, e, p)
  BY <1>1, <1>3, <1>4, Zenon DEF TakenAt
<1>6. e <= p + 1 /\ \A r \in e .. (p + 1) - 1 : r = p \/ r \in e .. p - 1
  BY <1>2, <1>4, <1>5
<1>7. BlankUpTo(l, e, p + 1)
  BY <1>5, <1>6, Zenon DEF BlankUpTo
<1>8. TakenAt(l, a, q, p + 1, n)
  BY <1>1, <1>2, <1>3, <1>4, <1>6, <1>7, Zenon DEF TakenAt
<1>9. QED  BY <1>2, <1>8, Zenon DEF Taken

LEMMA CommaLonger ==
  ASSUME NEW l, l \in Lines, NEW p \in 1 .. Len(l), CharAt(l, p) \in Blank,
         NEW a \in Commas(l), a < p, BlankUpTo(l, a + 1, p)
  PROVE  a < p + 1 /\ BlankUpTo(l, a + 1, p + 1)
<1>1. a \in 1 .. Len(l)
  BY CommaPlace, Zenon
<1>2. a < p + 1 /\ \A r \in a + 1 .. (p + 1) - 1 : r = p \/ r \in a + 1 .. p - 1
  BY <1>1
<1>3. QED  BY <1>2, Zenon DEF BlankUpTo

LEMMA SpaceHeard ==
  ASSUME NEW l, l \in Lines, NEW p \in 1 .. Len(l), CharAt(l, p) \in Blank,
         NEW s, NEW c, Heard(l, p, s, c)
  PROVE  Heard(l, p + 1, s, c)
<1>1. (p + 1) - 1 = p
  OBVIOUS
<1>2. WordsTo(l, (p + 1) - 1) = WordsTo(l, p - 1)
  BY <1>1, WordAdded
<1>3. HeardHeading(l, p) => HeardHeading(l, p + 1)
  BY <1>2, Zenon DEF HeardHeading
<1>4. HeardMember(l, p) => HeardMember(l, p + 1)
  BY TakenLonger, StorableIs, Zenon DEF HeardMember
<1>5. HeardComma(l, p) => HeardComma(l, p + 1)
  BY CommaLonger, Zenon DEF HeardComma
<1>6. HeardLast(l, p) => HeardLast(l, p + 1)
  BY TakenLonger, StorableIs, Zenon DEF HeardLast
<1>7. QED  BY <1>2, <1>3, <1>4, <1>5, <1>6, Zenon DEF Heard

\* One word more.
LEMMA WordHeard ==
  ASSUME NEW l, l \in Lines, NEW p \in 1 .. Len(l), CharAt(l, p) \notin Blank
  PROVE  WordsTo(l, (p + 1) - 1) = Append(WordsTo(l, p - 1), CharAt(l, p))
<1>1. (p + 1) - 1 = p
  OBVIOUS
<1>2. QED  BY <1>1, WordAdded

LEMMA CommandWords ==
  ASSUME NEW w, NEW c, WordsRead(w, "CMD", c), NEW x \in Command
  PROVE  WordsRead(Append(w, x), IF x = "stop" THEN "STOP" ELSE "SET1", x)
<1>1. Append(w, x) = <<x>>
  <2>1. w = <<>>
    BY Zenon DEF WordsRead
  <2>2. QED  BY <2>1, WordsAppended, Zenon
<1>2. x = "stop" => WordsRead(<<x>>, "STOP", x)
  BY DEF WordsRead, OtherStates
<1>3. x # "stop" => WordsRead(<<x>>, "SET1", x)
  BY DEF WordsRead, OtherStates
<1>4. QED  BY <1>1, <1>2, <1>3, Zenon

LEMMA Set1Words ==
  ASSUME NEW w, NEW c, WordsRead(w, "SET1", c), NEW x \in SetName
  PROVE  /\ c = "print_set" => WholeCommand(Append(w, x))
         /\ c = "read_set" => Append(w, x) = ReadWords(x)
         /\ c # "print_set" /\ c # "read_set" => WordsRead(Append(w, x), "COMMA_AFTER_SET1", c)
<1>1. Append(w, x) = <<c, x>> /\ c \in Command \ {"stop"}
  <2>1. w = <<c>> /\ c \in Command \ {"stop"}
    BY Zenon DEF WordsRead
  <2>2. QED  BY <2>1, WordsAppended, Zenon
<1>2. c = "print_set" => WholeCommand(<<c, x>>)
  BY Zenon DEF WholeCommand
<1>3. c = "read_set" => <<c, x>> = ReadWords(x)
  BY DEF ReadWords
<1>4. ASSUME c # "print_set", c # "read_set" PROVE WordsRead(<<c, x>>, "COMMA_AFTER_SET1", c)
  <2>1. c \in Operation
    BY <1>1, <1>4 DEF Command, Operation
  <2>2. PICK s : s = "COMMA_AFTER_SET1"
    OBVIOUS
  <2>3. /\ s # "CMD" /\ s # "STOP" /\ s # "SET1" /\ s # "SET2" /\ s # "COMMA_AFTER_SET2"
        /\ s # "RESULT"
    BY <2>2
  <2>4. WordsRead(<<c, x>>, s, c)
    BY <2>1, <2>3, Zenon DEF WordsRead
  <2>5. QED  BY <2>2, <2>4, Zenon
<1>5. QED  BY <1>1, <1>2, <1>3, <1>4, Zenon

LEMMA CommaWords ==
  ASSUME NEW w, NEW c, NEW x, x = ","
  PROVE  /\ WordsRead(w, "COMMA_AFTER_SET1", c) => WordsRead(Append(w, x), "SET2", c)
         /\ WordsRead(w, "COMMA_AFTER_SET2", c) => WordsRead(Append(w, x), "RESULT", c)
<1>1. ASSUME WordsRead(w, "COMMA_AFTER_SET1", c) PROVE WordsRead(Append(w, x), "SET2", c)
  <2>1. PICK a \in SetName : w = <<c, a>>
    BY <1>1, Zenon DEF WordsRead
  <2>2. Append(w, x) = <<c, a, ",">>
    BY <2>1, WordsAppended, Zenon
  <2>3. c \in Operation
    BY <1>1 DEF WordsRead, OtherStates
  <2>4. PICK s : s = "SET2"
    OBVIOUS
  <2>5. /\ s # "CMD" /\ s # "STOP" /\ s # "SET1" /\ s # "COMMA_AFTER_SET1"
        /\ s # "COMMA_AFTER_SET2" /\ s # "RESULT"
    BY <2>4
  <2>6. WordsRead(Append(w, x), s, c)
    BY <2>2, <2>3, <2>5, Zenon DEF WordsRead
  <2>7. QED  BY <2>4, <2>6, Zenon
<1>2. ASSUME WordsRead(w, "COMMA_AFTER_SET2", c) PROVE WordsRead(Append(w, x), "RESULT", c)
  <2>1. PICK a \in SetName, b \in SetName : w = <<c, a, ",", b>>
    BY <1>2, Zenon DEF WordsRead
  <2>2. Append(w, x) = <<c, a, ",", b, ",">>
    <3>1. \A y1, y2, y3, y4, y5 : Append(<<y1, y2, y3, y4>>, y5) = <<y1, y2, y3, y4, y5>>
      BY WordsAppended, Zenon
    <3>2. QED  BY <2>1, <3>1, Zenon
  <2>3. c \in Operation
    BY <1>2 DEF WordsRead, OtherStates
  <2>4. PICK s : s = "RESULT"
    OBVIOUS
  <2>5. /\ s # "CMD" /\ s # "STOP" /\ s # "SET1" /\ s # "COMMA_AFTER_SET1"
        /\ s # "COMMA_AFTER_SET2" /\ s # "SET2"
    BY <2>4
  <2>6. WordsRead(Append(w, x), s, c)
    BY <2>2, <2>3, <2>5, Zenon DEF WordsRead
  <2>7. QED  BY <2>4, <2>6, Zenon
<1>3. QED  BY <1>1, <1>2, Zenon

LEMMA NameWords ==
  ASSUME NEW w, NEW c, NEW x \in SetName
  PROVE  /\ WordsRead(w, "SET2", c) => WordsRead(Append(w, x), "COMMA_AFTER_SET2", c)
         /\ WordsRead(w, "RESULT", c) => WholeCommand(Append(w, x))
<1>1. ASSUME WordsRead(w, "SET2", c) PROVE WordsRead(Append(w, x), "COMMA_AFTER_SET2", c)
  <2>1. PICK a \in SetName : w = <<c, a, ",">>
    BY <1>1, Zenon DEF WordsRead
  <2>2. Append(w, x) = <<c, a, ",", x>>
    <3>1. \A y1, y2, y3, y4 : Append(<<y1, y2, y3>>, y4) = <<y1, y2, y3, y4>>
      BY WordsAppended, Zenon
    <3>2. QED  BY <2>1, <3>1, Zenon
  <2>3. c \in Operation
    BY <1>1 DEF WordsRead, OtherStates
  <2>4. PICK s : s = "COMMA_AFTER_SET2"
    OBVIOUS
  <2>5. /\ s # "CMD" /\ s # "STOP" /\ s # "SET1" /\ s # "COMMA_AFTER_SET1"
        /\ s # "RESULT" /\ s # "SET2"
    BY <2>4
  <2>6. WordsRead(Append(w, x), s, c)
    BY <2>2, <2>3, <2>5, Zenon DEF WordsRead
  <2>7. QED  BY <2>4, <2>6, Zenon
<1>2. ASSUME WordsRead(w, "RESULT", c) PROVE WholeCommand(Append(w, x))
  <2>1. PICK a \in SetName, b \in SetName : w = <<c, a, ",", b, ",">>
    BY <1>2, Zenon DEF WordsRead
  <2>2. Append(w, x) = <<c, a, ",", b, ",", x>>
    <3>1. \A y1, y2, y3, y4, y5, y6 : Append(<<y1, y2, y3, y4, y5>>, y6) = <<y1, y2, y3, y4, y5, y6>>
      BY WordsAppended, Zenon
    <3>2. QED  BY <2>1, <3>1, Zenon
  <2>3. c \in Operation
    BY <1>2 DEF WordsRead, OtherStates
  <2>4. QED  BY <2>2, <2>3, Zenon DEF WholeCommand
<1>3. QED  BY <1>1, <1>2, Zenon

-----------------------------------------------------------------------------
(* The automaton and the language *)

LangInv ==
  /\ AcceptsLanguage
  /\ pc = "validate" => /\ command_line = typed /\ output = <<>>
                        /\ Heard(command_line, cmdln, state, command_number)

Validates ==
  /\ pc = "validate" /\ command_line = typed /\ output = <<>>
  /\ Heard(command_line, cmdln, state, command_number)

LEMMA ValidatesNow == ASSUME LangInv, pc = "validate" PROVE Validates
BY DEF LangInv, Validates

LEMMA AnswersApart ==
  /\ \A message : message \notin {"done", "set"} =>
       <<message>> \notin {<<"done">>, <<"set">>} /\ <<message>> # <<>>
  /\ <<>> \notin {<<"done">>, <<"set">>}
<1>1. ASSUME NEW message, NEW other, <<message>> = <<other>> PROVE message = other
  <2>1. PICK s, t : s = <<message>> /\ t = <<other>>
    OBVIOUS
  <2>2. s[1] = message /\ t[1] = other
    BY <2>1
  <2>3. QED  BY <1>1, <2>1, <2>2
<1>2. ASSUME NEW other PROVE <<>> # <<other>>
  <2>1. PICK s, t : s = <<>> /\ t = <<other>>
    OBVIOUS
  <2>2. Len(s) = 0 /\ Len(t) = 1
    BY <2>1
  <2>3. QED  BY <2>1, <2>2
<1>3. QED  BY <1>1, <1>2, Zenon

\* A message about a line that is no command.
LEMMA LangRejected ==
  ASSUME Validates, Kept, NEW message, message \notin {"done", "set"}, Reject(message),
         ~IsCommand(command_line)
  PROVE  LangInv'
<1>1. pc' = "prompt" /\ output' = <<message>> /\ typed' = command_line
  BY DEF Validates, Reject, Kept
<1>2. output' \notin {<<"done">>, <<"set">>} /\ output' # <<>>
  BY <1>1, AnswersApart, Zenon
<1>3. pc' # "validate" /\ pc' # "execute" /\ pc' # "read_numbers"
  BY <1>1
<1>4. pc' \notin {"execute", "read_numbers"} /\ ~IsCommand(typed')
  BY <1>1, <1>3, Zenon
<1>5. AcceptsLanguage'
  BY <1>2, <1>4, Zenon DEF AcceptsLanguage
<1>6. QED  BY <1>3, <1>5, Zenon DEF LangInv

LEMMA LangMoved ==
  ASSUME Validates, Kept, UNCHANGED <<pc, output>>,
         Heard(command_line, cmdln', state', command_number')
  PROVE  LangInv'
<1>1. /\ pc' = "validate" /\ output' = <<>> /\ typed' = command_line
      /\ command_line' = command_line
  BY DEF Validates, Kept
<1>2. pc' # "prompt" /\ pc' \notin {"execute", "read_numbers"}
  BY <1>1
<1>3. AcceptsLanguage'
  BY <1>2, Zenon DEF AcceptsLanguage
<1>4. Heard(command_line', cmdln', state', command_number')
  BY <1>1, Zenon
<1>5. QED  BY <1>1, <1>3, <1>4, Zenon DEF LangInv

LEMMA LangGone ==
  ASSUME Validates, Kept, NEW p, NEW s, Go(p, s), Heard(command_line, p, s, command_number)
  PROVE  LangInv'
<1>1. UNCHANGED <<pc, output>> /\ Heard(command_line, cmdln', state', command_number')
  BY Zenon DEF Go
<1>2. QED  BY <1>1, LangMoved, Zenon

LEMMA LangAccepted ==
  ASSUME Validates, Kept, Accept, IsCommand(command_line)
  PROVE  LangInv'
<1>1. pc' = "execute" /\ typed' = command_line
  BY DEF Validates, Kept, Accept
<1>2. pc' # "prompt" /\ pc' # "validate"
  BY <1>1
<1>3. QED  BY <1>1, <1>2, Zenon DEF LangInv, AcceptsLanguage

\* Where the scan is, and what it reads there.
LEMMA Here ==
  ASSUME Inv, pc = "validate"
  PROVE  /\ command_line \in Lines /\ cmdln \in 1 .. Len(command_line) + 1
         /\ At(cmdln) = CharAt(command_line, cmdln)
         /\ At(cmdln) # "end" => cmdln \in 1 .. Len(command_line)
         /\ At(cmdln) = "end" => cmdln = Len(command_line) + 1
         /\ At(cmdln) # "space" => CharAt(command_line, cmdln) \notin Blank
<1>1. command_line \in Lines /\ cmdln \in 1 .. Len(command_line) + 1
  BY LineShape, Zenon
<1>2. At(cmdln) = CharAt(command_line, cmdln)
  BY OfTheLine, Zenon
<1>3. At(cmdln) # "end" => cmdln \in 1 .. Len(command_line)
  BY <1>2, Inside, Zenon
<1>4. At(cmdln) = "end" => cmdln = Len(command_line) + 1
  BY <1>1, <1>2, EndIsBehind, Zenon
<1>5. At(cmdln) # "space" => CharAt(command_line, cmdln) \notin Blank
  BY <1>2 DEF Blank
<1>6. QED  BY <1>1, <1>2, <1>3, <1>4, <1>5, Zenon

LEMMA SkipSpaceLang == ASSUME Inv, LangInv, SkipSpace PROVE LangInv'
<1>1. /\ pc = "validate" /\ At(cmdln) = "space" /\ Go(cmdln + 1, state) /\ Kept
  BY DEF SkipSpace
<1>2. Validates
  BY <1>1, ValidatesNow, Zenon
<1>3. /\ command_line \in Lines /\ cmdln \in 1 .. Len(command_line)
      /\ CharAt(command_line, cmdln) \in Blank
  <2>1. "space" # "end" /\ "space" \in Blank
    BY DEF Blank
  <2>2. QED  BY <1>1, <2>1, Here, Zenon
<1>4. Heard(command_line, cmdln, state, command_number)
  BY <1>2, Zenon DEF Validates
<1>5. Heard(command_line, cmdln + 1, state, command_number)
  BY <1>3, <1>4, SpaceHeard, Zenon
<1>6. QED  BY <1>1, <1>2, <1>5, LangGone, Zenon

\* What the words say of the next symbol.
LEMMA WordsHere ==
  ASSUME Inv, Validates, At(cmdln) # "space", IsCommand(command_line)
  PROVE  /\ state = "CMD" => At(cmdln) \in Command
         /\ state = "STOP" => At(cmdln) = "end"
         /\ state \in {"SET1", "SET2", "RESULT"} => At(cmdln) \in SetName
         /\ state \in {"COMMA_AFTER_SET1", "COMMA_AFTER_SET2"} => At(cmdln) = ","
<1>1. pc = "validate"
  BY DEF Validates
<1>2. WordsRead(WordsTo(command_line, cmdln - 1), state, command_number)
  BY Zenon DEF Validates, Heard
<1>3. /\ command_line \in Lines /\ cmdln \in 1 .. Len(command_line) + 1
      /\ CharAt(command_line, cmdln) \notin Blank /\ At(cmdln) = CharAt(command_line, cmdln)
  BY <1>1, Here, Zenon
<1>4. ~(cmdln <= Len(command_line)) => At(cmdln) = "end"
  BY <1>3, Zenon DEF CharAt
<1>5. QED  BY <1>2, <1>3, <1>4, Continued, Zenon

\* A word of the line is read, and the words are known with it.
LEMMA WordsNow ==
  ASSUME Inv, Validates, At(cmdln) # "space", At(cmdln) # "end", NEW w,
         w = WordsTo(command_line, cmdln - 1)
  PROVE  /\ WordsRead(w, state, command_number)
         /\ WordsTo(command_line, (cmdln + 1) - 1) = Append(w, At(cmdln))
<1>1. pc = "validate"
  BY DEF Validates
<1>2. WordsRead(w, state, command_number)
  BY Zenon DEF Validates, Heard
<1>3. /\ command_line \in Lines /\ cmdln \in 1 .. Len(command_line)
      /\ CharAt(command_line, cmdln) \notin Blank /\ At(cmdln) = CharAt(command_line, cmdln)
  BY <1>1, Here, Zenon
<1>4. WordsTo(command_line, (cmdln + 1) - 1) = Append(w, At(cmdln))
  BY <1>3, WordHeard, Zenon
<1>5. QED  BY <1>2, <1>4, Zenon

LEMMA ReadCommandLang == ASSUME Inv, LangInv, ReadCommand PROVE LangInv'
<1>1. pc = "validate" /\ state = "CMD" /\ At(cmdln) # "space" /\ Kept
  BY DEF ReadCommand, Validating
<1>2. Validates
  BY <1>1, ValidatesNow, Zenon
<1>3. CASE At(cmdln) \notin Command /\ Reject("undefined command name")
  <2>1. ~IsCommand(command_line)
    BY <1>1, <1>2, <1>3, WordsHere, Zenon
  <2>2. "undefined command name" \notin {"done", "set"}
    OBVIOUS
  <2>3. QED  BY <1>1, <1>2, <1>3, <2>1, <2>2, LangRejected, Zenon
<1>4. CASE /\ At(cmdln) \in Command
           /\ command_number' = At(cmdln)
           /\ state' = IF At(cmdln) = "stop" THEN "STOP" ELSE "SET1"
           /\ cmdln' = cmdln + 1
           /\ UNCHANGED <<pc, output>>
  <2>1. At(cmdln) # "end"
    BY <1>4, NamesStand, Zenon
  <2>2. PICK w : w = WordsTo(command_line, cmdln - 1)
    OBVIOUS
  <2>3. /\ WordsRead(w, "CMD", command_number)
        /\ WordsTo(command_line, (cmdln + 1) - 1) = Append(w, At(cmdln))
    BY <1>1, <1>2, <2>1, <2>2, WordsNow, Zenon
  <2>4. WordsRead(Append(w, At(cmdln)), IF At(cmdln) = "stop" THEN "STOP" ELSE "SET1", At(cmdln))
    BY <1>4, <2>3, CommandWords, Zenon
  <2>5. WordsRead(WordsTo(command_line, cmdln' - 1), state', command_number')
    BY <1>4, <2>3, <2>4, Zenon
  <2>6. state' # "COMMA_READ" /\ state' # "NUMBER" /\ state' # "MINUS1"
    BY <1>4
  <2>7. Heard(command_line, cmdln', state', command_number')
    BY <2>5, <2>6, Zenon DEF Heard
  <2>8. QED  BY <1>1, <1>2, <1>4, <2>7, LangMoved, Zenon
<1>5. QED  BY <1>3, <1>4, Zenon DEF ReadCommand

\* The end of a command other than a list.
LEMMA EndCommandLang ==
  ASSUME Inv, Validates, Kept, EndCommand, At(cmdln) # "end",
         WholeCommand(WordsTo(command_line, (cmdln + 1) - 1))
  PROVE  LangInv'
<1>1. pc = "validate"
  BY DEF Validates
<1>2. command_line \in Lines /\ cmdln \in 1 .. Len(command_line)
  BY <1>1, Here, Zenon
<1>3. (cmdln + 1) - 1 = cmdln
  BY <1>2
<1>4. IsCommand(command_line) <=> CharAt(command_line, Skipped(command_line, cmdln + 1, Blank)) = "end"
  BY <1>2, <1>3, CommandEnds
<1>5. IsCommand(command_line) <=> At(Skip(cmdln + 1, Blank)) = "end"
  BY <1>4, OfTheLine, Zenon
<1>6. "extraneous text" \notin {"done", "set"}
  OBVIOUS
<1>7. CASE At(Skip(cmdln + 1, Blank)) = "end"
  BY <1>5, <1>7, LangAccepted, Zenon DEF EndCommand
<1>8. CASE At(Skip(cmdln + 1, Blank)) # "end"
  BY <1>5, <1>6, <1>8, LangRejected, Zenon DEF EndCommand
<1>9. QED  BY <1>7, <1>8, Zenon

LEMMA NameNotEnd == \A x : x \in SetName => x # "end" /\ x # ","
BY CommaIs, Zenon

LEMMA ReadSet1Lang == ASSUME Inv, LangInv, ReadSet1 PROVE LangInv'
<1>1. pc = "validate" /\ state = "SET1" /\ At(cmdln) # "space" /\ Kept
  BY DEF ReadSet1, Validating
<1>2. Validates
  BY <1>1, ValidatesNow, Zenon
<1>3. ASSUME At(cmdln) \notin SetName, NEW message, message \notin {"done", "set"},
             Reject(message)
      PROVE  LangInv'
  <2>1. ~IsCommand(command_line)
    BY <1>1, <1>2, <1>3, WordsHere, Zenon
  <2>2. QED  BY <1>1, <1>2, <1>3, <2>1, LangRejected, Zenon
<1>4. ASSUME At(cmdln) \in SetName,
             CASE command_number = "print_set" -> EndCommand
               [] command_number = "read_set" -> Go(cmdln + 1, "COMMA_READ")
               [] OTHER -> Go(cmdln + 1, "COMMA_AFTER_SET1")
      PROVE  LangInv'
  <2>1. At(cmdln) # "end"
    BY <1>4, NameNotEnd, Zenon
  <2>2. PICK w : w = WordsTo(command_line, cmdln - 1)
    OBVIOUS
  <2>3. /\ WordsRead(w, "SET1", command_number)
        /\ WordsTo(command_line, (cmdln + 1) - 1) = Append(w, At(cmdln))
    BY <1>1, <1>2, <2>1, <2>2, WordsNow, Zenon
  <2>4. PICK v : v = WordsTo(command_line, (cmdln + 1) - 1)
    OBVIOUS
  <2>5. /\ command_number = "print_set" => WholeCommand(v)
        /\ command_number = "read_set" => v = ReadWords(At(cmdln))
        /\ command_number # "print_set" /\ command_number # "read_set" =>
             WordsRead(v, "COMMA_AFTER_SET1", command_number)
    BY <1>4, <2>3, <2>4, Set1Words, Zenon
  <2>6. CASE command_number = "print_set"
    <3>1. EndCommand
      BY <1>4, <2>6, Zenon
    <3>2. QED  BY <1>1, <1>2, <2>1, <2>4, <2>5, <2>6, <3>1, EndCommandLang, Zenon
  <2>7. CASE command_number = "read_set"
    <3>1. Go(cmdln + 1, "COMMA_READ")
      BY <1>4, <2>7
    <3>2. HeardHeading(command_line, cmdln + 1)
      BY <1>4, <2>4, <2>5, <2>7, Zenon DEF HeardHeading
    <3>3. PICK s : s = "COMMA_READ"
      OBVIOUS
    <3>4. /\ s # "CMD" /\ s # "STOP" /\ s # "SET1" /\ s \notin OtherStates
          /\ s # "COMMA_AFTER_SET1" /\ s # "SET2" /\ s # "COMMA_AFTER_SET2" /\ s # "RESULT"
          /\ s # "NUMBER" /\ s # "MINUS1"
      BY <3>3 DEF OtherStates
    <3>5. Heard(command_line, cmdln + 1, s, command_number)
      BY <3>2, <3>4, Zenon DEF Heard, WordsRead
    <3>6. QED  BY <1>1, <1>2, <3>1, <3>3, <3>5, LangGone, Zenon
  <2>8. CASE command_number # "print_set" /\ command_number # "read_set"
    <3>1. PICK s : s = "COMMA_AFTER_SET1"
      OBVIOUS
    <3>2. Go(cmdln + 1, s)
      BY <1>4, <2>8, <3>1, Zenon
    <3>3. s # "COMMA_READ" /\ s # "NUMBER" /\ s # "MINUS1"
      BY <3>1
    <3>4. Heard(command_line, cmdln + 1, s, command_number)
      BY <2>4, <2>5, <2>8, <3>1, <3>3, Zenon DEF Heard
    <3>5. QED  BY <1>1, <1>2, <3>2, <3>4, LangGone, Zenon
  <2>9. QED  BY <2>6, <2>7, <2>8, Zenon
<1>5. /\ "missing parameter" \notin {"done", "set"} /\ "illegal comma" \notin {"done", "set"}
      /\ "undefined set name" \notin {"done", "set"}
  OBVIOUS
<1>6. CASE At(cmdln) \in SetName
  BY <1>4, <1>6, NameNotEnd, Zenon DEF ReadSet1
<1>7. CASE At(cmdln) \notin SetName
  BY <1>3, <1>5, <1>7, Zenon DEF ReadSet1
<1>8. QED  BY <1>6, <1>7, Zenon

LEMMA ReadCommaLang ==
  ASSUME Inv, LangInv, NEW from, NEW next, ReadComma(from, next),
         \/ from = "COMMA_AFTER_SET1" /\ next = "SET2"
         \/ from = "COMMA_AFTER_SET2" /\ next = "RESULT"
  PROVE  LangInv'
<1>1. pc = "validate" /\ state = from /\ At(cmdln) # "space" /\ Kept
  BY DEF ReadComma, Validating
<1>2. Validates
  BY <1>1, ValidatesNow, Zenon
<1>3. CASE At(cmdln) # ","
  <2>1. Reject("missing comma") /\ "missing comma" \notin {"done", "set"}
    BY <1>3 DEF ReadComma
  <2>2. ~IsCommand(command_line)
    BY <1>1, <1>2, <1>3, WordsHere, Zenon
  <2>3. QED  BY <1>1, <1>2, <2>1, <2>2, LangRejected, Zenon
<1>4. CASE At(cmdln) = ","
  <2>1. Go(cmdln + 1, next) /\ At(cmdln) # "end"
    BY <1>4 DEF ReadComma
  <2>2. PICK w : w = WordsTo(command_line, cmdln - 1)
    OBVIOUS
  <2>3. /\ WordsRead(w, from, command_number)
        /\ WordsTo(command_line, (cmdln + 1) - 1) = Append(w, At(cmdln))
    BY <1>1, <1>2, <2>1, <2>2, WordsNow, Zenon
  <2>4. WordsRead(Append(w, At(cmdln)), next, command_number)
    BY <1>4, <2>3, CommaWords, Zenon
  <2>5. next # "COMMA_READ" /\ next # "NUMBER" /\ next # "MINUS1"
    OBVIOUS
  <2>6. Heard(command_line, cmdln + 1, next, command_number)
    BY <2>3, <2>4, <2>5, Zenon DEF Heard
  <2>7. QED  BY <1>1, <1>2, <2>1, <2>6, LangGone, Zenon
<1>5. QED  BY <1>3, <1>4, Zenon

\* A name that is none.
LEMMA NoNameLang ==
  ASSUME Inv, Validates, Kept, state \in {"SET1", "SET2", "RESULT"}, At(cmdln) # "space",
         At(cmdln) \notin SetName, NEW message, message \notin {"done", "set"}, Reject(message)
  PROVE  LangInv'
<1>1. ~IsCommand(command_line)
  BY WordsHere, Zenon
<1>2. QED  BY <1>1, LangRejected, Zenon

LEMMA Messages ==
  /\ "multiple commas" \notin {"done", "set"} /\ "missing parameter" \notin {"done", "set"}
  /\ "undefined set name" \notin {"done", "set"} /\ "missing comma" \notin {"done", "set"}
  /\ "not terminated" \notin {"done", "set"} /\ "out of range" \notin {"done", "set"}
  /\ "not an integer" \notin {"done", "set"} /\ "extraneous text" \notin {"done", "set"}
OBVIOUS

LEMMA ReadSet2Lang == ASSUME Inv, LangInv, ReadSet2 PROVE LangInv'
<1>1. pc = "validate" /\ state = "SET2" /\ At(cmdln) # "space" /\ Kept
  BY DEF ReadSet2, ReadSetName, Validating
<1>2. Validates
  BY <1>1, ValidatesNow, Zenon
<1>3. CASE At(cmdln) \notin SetName
  <2>1. \E message : message \notin {"done", "set"} /\ Reject(message)
    BY <1>3, Messages, Zenon DEF ReadSet2, ReadSetName
  <2>2. state \in {"SET1", "SET2", "RESULT"}
    BY <1>1
  <2>3. QED  BY <1>1, <1>2, <1>3, <2>1, <2>2, NoNameLang, Zenon
<1>4. CASE At(cmdln) \in SetName
  <2>1. Go(cmdln + 1, "COMMA_AFTER_SET2") /\ At(cmdln) # "end"
    BY <1>4, NameNotEnd, Zenon DEF ReadSet2, ReadSetName
  <2>2. PICK w : w = WordsTo(command_line, cmdln - 1)
    OBVIOUS
  <2>3. /\ WordsRead(w, "SET2", command_number)
        /\ WordsTo(command_line, (cmdln + 1) - 1) = Append(w, At(cmdln))
    BY <1>1, <1>2, <2>1, <2>2, WordsNow, Zenon
  <2>4. PICK s : s = "COMMA_AFTER_SET2"
    OBVIOUS
  <2>5. WordsRead(Append(w, At(cmdln)), s, command_number)
    BY <1>4, <2>3, <2>4, NameWords, Zenon
  <2>6. s # "COMMA_READ" /\ s # "NUMBER" /\ s # "MINUS1"
    BY <2>4
  <2>7. Heard(command_line, cmdln + 1, s, command_number)
    BY <2>3, <2>5, <2>6, Zenon DEF Heard
  <2>8. QED  BY <1>1, <1>2, <2>1, <2>4, <2>7, LangGone, Zenon
<1>5. QED  BY <1>3, <1>4, Zenon

LEMMA ReadResultLang == ASSUME Inv, LangInv, ReadResult PROVE LangInv'
<1>1. pc = "validate" /\ state = "RESULT" /\ At(cmdln) # "space" /\ Kept
  BY DEF ReadResult, ReadSetName, Validating
<1>2. Validates
  BY <1>1, ValidatesNow, Zenon
<1>3. CASE At(cmdln) \notin SetName
  <2>1. \E message : message \notin {"done", "set"} /\ Reject(message)
    BY <1>3, Messages, Zenon DEF ReadResult, ReadSetName
  <2>2. state \in {"SET1", "SET2", "RESULT"}
    BY <1>1
  <2>3. QED  BY <1>1, <1>2, <1>3, <2>1, <2>2, NoNameLang, Zenon
<1>4. CASE At(cmdln) \in SetName
  <2>1. EndCommand /\ At(cmdln) # "end"
    BY <1>4, NameNotEnd, Zenon DEF ReadResult, ReadSetName
  <2>2. PICK w : w = WordsTo(command_line, cmdln - 1)
    OBVIOUS
  <2>3. /\ WordsRead(w, "RESULT", command_number)
        /\ WordsTo(command_line, (cmdln + 1) - 1) = Append(w, At(cmdln))
    BY <1>1, <1>2, <2>1, <2>2, WordsNow, Zenon
  <2>4. WholeCommand(WordsTo(command_line, (cmdln + 1) - 1))
    BY <1>4, <2>3, NameWords, Zenon
  <2>5. QED  BY <1>1, <1>2, <2>1, <2>4, EndCommandLang, Zenon
<1>5. QED  BY <1>3, <1>4, Zenon

\* Nothing is known of the words within a list.
LEMMA ListStates ==
  ASSUME NEW w, NEW s \in {"COMMA_READ", "NUMBER", "MINUS1"}, NEW c
  PROVE  WordsRead(w, s, c)
<1>1. /\ s # "CMD" /\ s # "STOP" /\ s # "SET1" /\ s \notin OtherStates
      /\ s # "COMMA_AFTER_SET1" /\ s # "SET2" /\ s # "COMMA_AFTER_SET2" /\ s # "RESULT"
  BY DEF OtherStates
<1>2. QED  BY <1>1, Zenon DEF WordsRead

LEMMA CommaHeard ==
  ASSUME NEW l, l \in Lines, NEW p \in Commas(l),
         HeardHeading(l, p) \/ HeardMember(l, p)
  PROVE  HeardComma(l, p + 1)
<1>1. Listed(l, p)
  BY ListFirst, ListNext, Zenon DEF HeardHeading, HeardMember
<1>2. p < p + 1 /\ BlankUpTo(l, p + 1, p + 1)
  <2>1. p \in 1 .. Len(l)
    BY CommaPlace
  <2>2. p < p + 1 /\ \A r : r \notin p + 1 .. (p + 1) - 1
    BY <2>1
  <2>3. QED  BY <2>2, Zenon DEF BlankUpTo
<1>3. QED  BY <1>1, <1>2, Zenon DEF HeardComma

\* Without a comma behind the heading or a member, the line is no command.
LEMMA NoCommaHeard ==
  ASSUME NEW l, l \in Lines, NEW p \in 1 .. Len(l) + 1, CharAt(l, p) \notin Blank,
         HeardHeading(l, p) \/ HeardMember(l, p), IsCommand(l)
  PROVE  CharAt(l, p) = ","
<1>1. CASE HeardHeading(l, p)
  BY <1>1, HeadingMust, Zenon DEF HeardHeading
<1>2. ASSUME NEW a \in Commas(l), NEW n \in Member, Listed(l, a), Taken(l, a, p, n)
      PROVE  CharAt(l, p) = ","
  <2>1. IsList(l)
    BY <1>2, ListMust, Zenon DEF Listed
  <2>2. QED  BY <1>2, <2>1, EndMust, StorableIs, Zenon
<1>3. QED  BY <1>1, <1>2, Zenon DEF HeardMember

LEMMA DotIsBare ==
  ASSUME NEW l, l \in Lines, NEW p \in 1 .. Len(l), NEW dot, dot = ".", CharAt(l, p) = dot,
         CharAt(l, p + 1) \notin Digit
  PROVE  BareDot(l)
<1>1. Len(l) \in Nat
  BY DEF Lines
<1>2. p = Len(l) \/ p + 1 <= Len(l)
  BY <1>1
<1>3. p <= Len(l)
  OBVIOUS
<1>4. l[p] = dot
  BY <1>3, Zenon DEF CharAt
<1>5. p = Len(l) \/ l[p + 1] \notin Digit
  BY <1>2, Zenon DEF CharAt
<1>6. QED  BY <1>4, <1>5, Zenon DEF BareDot

LEMMA ReadNumberCommaLang == ASSUME Inv, LangInv, ReadNumberComma PROVE LangInv'
<1>1. pc = "validate" /\ state = "COMMA_READ" /\ At(cmdln) # "space" /\ Kept
  BY DEF ReadNumberComma, Validating
<1>2. Validates
  BY <1>1, ValidatesNow, Zenon
<1>3. /\ command_line \in Lines /\ cmdln \in 1 .. Len(command_line) + 1
      /\ CharAt(command_line, cmdln) \notin Blank /\ At(cmdln) = CharAt(command_line, cmdln)
      /\ At(cmdln) # "end" => cmdln \in 1 .. Len(command_line)
  BY <1>1, Here, Zenon
<1>4. HeardHeading(command_line, cmdln) \/ HeardMember(command_line, cmdln)
  BY <1>1, <1>2, Zenon DEF Validates, Heard
<1>5. IsCommand(command_line) => At(cmdln) = ","
  BY <1>3, <1>4, NoCommaHeard, Zenon
<1>6. CASE At(cmdln) = ","
  <2>1. Go(cmdln + 1, "NUMBER") /\ At(cmdln) # "end"
    BY <1>6 DEF ReadNumberComma
  <2>2. cmdln \in Commas(command_line)
    BY <1>3, <1>6, <2>1, CommaThere, Zenon
  <2>3. HeardComma(command_line, cmdln + 1)
    BY <1>3, <1>4, <2>2, CommaHeard, Zenon
  <2>4. PICK s : s = "NUMBER"
    OBVIOUS
  <2>5. s # "COMMA_READ" /\ s # "MINUS1" /\ s \in {"COMMA_READ", "NUMBER", "MINUS1"}
    BY <2>4
  <2>6. Heard(command_line, cmdln + 1, s, command_number)
    BY <2>3, <2>5, ListStates, Zenon DEF Heard
  <2>7. QED  BY <1>1, <1>2, <2>1, <2>4, <2>6, LangGone, Zenon
<1>7. ASSUME At(cmdln) # ",", NEW message, message \notin {"done", "set"}, Reject(message)
      PROVE  LangInv'
  BY <1>1, <1>2, <1>5, <1>7, LangRejected, Zenon
<1>8. ASSUME At(cmdln) = ".", At(cmdln + 1) \notin Digit, pc' = "prompt",
             UNCHANGED <<cmdln, state, command_number, output>>
      PROVE  LangInv'
  <2>1. BareDot(command_line)
    <3>1. PICK dot : dot = "."
      OBVIOUS
    <3>2. CharAt(command_line, cmdln) = dot /\ CharAt(command_line, cmdln + 1) \notin Digit
          /\ dot # "end"
      BY <1>3, <1>8, <3>1, OfTheLine, Zenon
    <3>3. QED  BY <1>3, <3>1, <3>2, DotIsBare, Zenon
  <2>2. At(cmdln) # ","
    BY <1>8
  <2>3. output' = <<>> /\ typed' = command_line
    BY <1>1, <1>2, <1>8 DEF Validates, Kept
  <2>4. pc' \notin {"execute", "read_numbers"} /\ pc' # "validate"
    BY <1>8
  <2>5. AcceptsLanguage'
    BY <1>5, <2>1, <2>2, <2>3, <2>4, AnswersApart, Zenon DEF AcceptsLanguage
  <2>6. QED  BY <2>4, <2>5, Zenon DEF LangInv
<1>9. CASE At(cmdln) # ","
  BY <1>7, <1>8, <1>9, Messages, Zenon DEF ReadNumberComma
<1>10. QED  BY <1>6, <1>9, Zenon

\* A number that the automaton goes over is taken.
LEMMA NumberHeard ==
  ASSUME NEW l, l \in Lines, NEW p \in 1 .. Len(l) + 1, NEW a \in Commas(l), a < p,
         BlankUpTo(l, a + 1, p), NEW n \in Storable, NumberIn(l, p) = n,
         CharAt(l, p) \notin Border, n = 0 => CharAt(l, p) = "0",
         NEW next, next = p + Width(n), next <= EndIn(l, p)
  PROVE  Taken(l, a, next, n)
<1>1. PICK k \in 1 .. 3 : k = Width(n)
  BY WordIs, Zenon
<1>2. a \in 1 .. Len(l)
  BY CommaPlace, Zenon
<1>3. next = p + k
  BY <1>1
<1>4. p \in a + 1 .. next - 1 /\ next <= next /\ \A r : r \notin next .. next - 1
  BY <1>2, <1>3
<1>5. BlankUpTo(l, next, next)
  BY <1>4, Zenon DEF BlankUpTo
<1>6. TakenAt(l, a, p, next, n)
  BY <1>4, <1>5, Zenon DEF TakenAt
<1>7. QED  BY <1>4, <1>6, Zenon DEF Taken

LEMMA ReadNumberLang == ASSUME Inv, LangInv, ReadNumber PROVE LangInv'
<1>1. pc = "validate" /\ state = "NUMBER" /\ At(cmdln) # "space" /\ Kept
  BY DEF ReadNumber, Validating
<1>2. Validates
  BY <1>1, ValidatesNow, Zenon
<1>3. PICK l, p, num : l = command_line /\ p = cmdln /\ num = NumberIn(l, p)
  OBVIOUS
<1>4. /\ l \in Lines /\ p \in 1 .. Len(l) + 1
      /\ CharAt(l, p) \notin Blank /\ At(cmdln) = CharAt(l, p) /\ Number(cmdln) = num
  BY <1>1, <1>3, Here, OfTheLine, Zenon
<1>5. PICK a \in Commas(l) : Listed(l, a) /\ a < p /\ BlankUpTo(l, a + 1, p)
  BY <1>1, <1>2, <1>3, Zenon DEF Validates, Heard, HeardComma
<1>6. IsCommand(l) => /\ num \in Storable /\ CharAt(l, p) \notin Border
                      /\ num = 0 => CharAt(l, p) = "0"
  <2>1. a \in 1 .. Len(l)
    BY CommaPlace, <1>4, Zenon
  <2>2. p \in a + 1 .. Len(l) + 1
    BY <1>4, <1>5, <2>1
  <2>3. IsCommand(l) => IsList(l)
    BY <1>4, <1>5, ListMust, Zenon DEF Listed
  <2>4. QED  BY <1>3, <1>4, <1>5, <2>2, <2>3, NumberMust, Zenon
<1>7. ASSUME ~IsCommand(l), NEW message, message \notin {"done", "set"}, Reject(message)
      PROVE  LangInv'
  BY <1>1, <1>2, <1>3, <1>7, LangRejected, Zenon
<1>8. CASE At(cmdln) \in {"end", ","}
  <2>1. ~IsCommand(l)
    BY <1>4, <1>6, <1>8, CommaIs, Zenon
  <2>2. QED  BY <1>7, <1>8, <2>1, Messages, Zenon DEF ReadNumber
<1>9. CASE At(cmdln) \notin {"end", ","}
  <2>1. CharAt(l, p) \notin Border
    BY <1>1, <1>4, <1>9 DEF Border, Separator
  <2>2. ASSUME NEW n \in Storable, num = n, n = 0 => CharAt(l, p) = "0",
               NEW next, next = p + Width(n), next <= EndIn(l, p),
               NEW s, s = IF n = -1 THEN "MINUS1" ELSE "COMMA_READ", Go(next, s)
        PROVE  LangInv'
    <3>1. Taken(l, a, next, n)
      BY <1>3, <1>4, <1>5, <2>1, <2>2, NumberHeard, Zenon
    <3>2. CASE n = -1
      <4>1. HeardLast(l, next)
        BY <1>5, <3>1, <3>2, Zenon DEF HeardLast
      <4>2. s = "MINUS1"
        BY <2>2, <3>2
      <4>3. s # "COMMA_READ" /\ s # "NUMBER" /\ s \in {"COMMA_READ", "NUMBER", "MINUS1"}
        BY <4>2
      <4>4. Heard(l, next, s, command_number)
        BY <4>1, <4>3, ListStates, Zenon DEF Heard
      <4>5. QED  BY <1>1, <1>2, <1>3, <2>2, <4>4, LangGone, Zenon
    <3>3. CASE n # -1
      <4>1. HeardMember(l, next)
        BY <1>5, <3>1, <3>3, StorableIs, Zenon DEF HeardMember
      <4>2. s = "COMMA_READ"
        BY <2>2, <3>3
      <4>3. s # "MINUS1" /\ s # "NUMBER" /\ s \in {"COMMA_READ", "NUMBER", "MINUS1"}
        BY <4>2
      <4>4. Heard(l, next, s, command_number)
        BY <4>1, <4>3, ListStates, Zenon DEF Heard
      <4>5. QED  BY <1>1, <1>2, <1>3, <2>2, <4>4, LangGone, Zenon
    <3>4. QED  BY <3>2, <3>3, Zenon
  <2>3. /\ num = -1 => p + 2 <= EndIn(l, p)
        /\ num \in 1 .. 127 => p + DigitsExpected(num) <= EndIn(l, p)
        /\ CharAt(l, p) = "0" => p + 1 <= EndIn(l, p)
    BY <1>3, <1>4, NumberTaken, Zenon
  <2>4. CASE num = -1 /\ Go(cmdln + 2, "MINUS1")
    <3>1. /\ -1 \in Storable /\ Width(-1) = 2 /\ -1 # 0
          /\ "MINUS1" = IF -1 = -1 THEN "MINUS1" ELSE "COMMA_READ"
      BY StorableIs, WidthOf
    <3>2. PICK next : next = p + 2
      OBVIOUS
    <3>3. next = p + Width(-1) /\ next <= EndIn(l, p) /\ Go(next, "MINUS1")
      BY <1>3, <2>3, <2>4, <3>1, <3>2, Zenon
    <3>4. QED  BY <2>2, <2>4, <3>1, <3>3, Zenon
  <2>5. CASE num \in 1 .. 127 /\ Go(cmdln + DigitsExpected(num), "COMMA_READ")
    <3>1. num \in Member /\ num # 0 /\ num # -1
      BY <2>5 DEF Member, NUM_OF_BITS
    <3>2. num \in Storable /\ Width(num) = DigitsExpected(num)
      BY <3>1, StorableIs, WidthOf, Zenon
    <3>3. PICK next : next = p + DigitsExpected(num)
      OBVIOUS
    <3>4. next = p + Width(num) /\ next <= EndIn(l, p) /\ Go(next, "COMMA_READ")
      BY <1>3, <2>3, <2>5, <3>2, <3>3, Zenon
    <3>5. QED  BY <2>2, <2>5, <3>1, <3>2, <3>4, Zenon
  <2>6. CASE num \notin -1 .. 127 /\ Reject("out of range")
    <3>1. num \notin Storable
      <4>1. num \notin -1 .. 127
        BY <2>6, Zenon
      <4>2. QED  BY <4>1 DEF Storable, NUM_OF_BITS
    <3>2. QED  BY <1>6, <1>7, <2>6, <3>1, Messages, Zenon
  <2>7. CASE num = 0 /\ At(cmdln) = "0" /\ Go(cmdln + 1, "COMMA_READ")
    <3>1. 0 \in Member /\ DigitsExpected(0) = 1 /\ 0 # -1
      BY DEF Member, NUM_OF_BITS, DigitsExpected
    <3>2. 0 \in Storable /\ Width(0) = 1
      BY <3>1, StorableIs, WidthOf
    <3>3. PICK next : next = p + 1
      OBVIOUS
    <3>4. /\ next = p + Width(0) /\ next <= EndIn(l, p) /\ Go(next, "COMMA_READ")
          /\ CharAt(l, p) = "0"
      BY <1>3, <1>4, <2>3, <2>7, <3>2, <3>3, Zenon
    <3>5. QED  BY <2>2, <2>7, <3>1, <3>2, <3>4, Zenon
  <2>8. CASE num = 0 /\ At(cmdln) # "0" /\ Reject("not an integer")
    BY <1>4, <1>6, <1>7, <2>8, Messages, Zenon
  <2>9. QED  BY <1>4, <1>9, <2>4, <2>5, <2>6, <2>7, <2>8, Zenon DEF ReadNumber
<1>10. QED  BY <1>8, <1>9, Zenon

LEMMA ReadEndLang == ASSUME Inv, LangInv, ReadEnd PROVE LangInv'
<1>1. /\ pc = "validate" /\ At(cmdln) # "space" /\ Kept
      /\ state = "MINUS1" \/ state = "STOP"
  BY DEF ReadEnd, Validating
<1>2. Validates
  BY <1>1, ValidatesNow, Zenon
<1>3. PICK l, p : l = command_line /\ p = cmdln
  OBVIOUS
<1>4. /\ l \in Lines /\ p \in 1 .. Len(l) + 1
      /\ CharAt(l, p) \notin Blank /\ At(cmdln) = CharAt(l, p)
      /\ At(cmdln) = "end" => p = Len(l) + 1
  BY <1>1, <1>3, Here, Zenon
<1>5. IsCommand(l) <=> At(cmdln) = "end"
  <2>1. CASE state = "STOP"
    <3>1. IsCommand(l) => At(cmdln) = "end"
      BY <1>1, <1>2, <1>3, <2>1, WordsHere, Zenon
    <3>2. ASSUME At(cmdln) = "end" PROVE IsCommand(l)
      <4>1. p - 1 = Len(l)
        <5>1. p = Len(l) + 1
          BY <1>4, <3>2, Zenon
        <5>2. Len(l) \in Nat
          BY <1>4 DEF Lines
        <5>3. QED  BY <5>1, <5>2
      <4>2. WordsTo(l, p - 1) = <<"stop">>
        BY <1>2, <1>3, <2>1, Zenon DEF Validates, Heard, WordsRead
      <4>3. QED  BY <4>1, <4>2, Zenon DEF IsCommand, Words
    <3>3. QED  BY <3>1, <3>2, Zenon
  <2>2. CASE state = "MINUS1"
    <3>1. PICK a \in Commas(l) : Listed(l, a) /\ Taken(l, a, p, -1)
      BY <1>2, <1>3, <2>2, Zenon DEF Validates, Heard, HeardLast
    <3>2. ASSUME IsCommand(l) PROVE At(cmdln) = "end"
      <4>1. IsList(l)
        BY <1>4, <3>1, <3>2, ListMust, Zenon DEF Listed
      <4>2. QED  BY <1>4, <3>1, <4>1, EndMust, StorableIs, Zenon
    <3>3. ASSUME At(cmdln) = "end" PROVE IsCommand(l)
      <4>1. IsList(l)
        BY <1>4, <3>1, <3>3, ListWhole, Zenon
      <4>2. QED  BY <4>1, Zenon DEF IsCommand
    <3>4. QED  BY <3>2, <3>3, Zenon
  <2>3. QED  BY <1>1, <2>1, <2>2, Zenon
<1>6. CASE At(cmdln) = "end"
  BY <1>1, <1>2, <1>3, <1>5, <1>6, LangAccepted, Zenon DEF ReadEnd
<1>7. CASE At(cmdln) # "end"
  BY <1>1, <1>2, <1>3, <1>5, <1>7, LangRejected, Messages, Zenon DEF ReadEnd
<1>8. QED  BY <1>6, <1>7, Zenon

LEMMA AutomatonLang == ASSUME Inv, LangInv, Automaton PROVE LangInv'
BY SkipSpaceLang, ReadCommandLang, ReadSet1Lang, ReadSet2Lang, ReadResultLang, ReadCommaLang,
   ReadNumberLang, ReadNumberCommaLang, ReadEndLang, Zenon DEF Automaton

-----------------------------------------------------------------------------
(* main and the language *)

LEMMA LineLang ==
  ASSUME NEW line, line \in Lines, Validate(line)
  PROVE  LangInv'
<1>1. /\ typed' = line /\ command_line' = line /\ pc' = "validate" /\ state' = "CMD"
      /\ cmdln' = 1 /\ output' = <<>>
  BY DEF Validate
<1>2. WordsTo(line, 1 - 1) = <<>>
  <2>1. 1 - 1 = 0
    OBVIOUS
  <2>2. QED  BY <2>1, WordsStep
<1>3. PICK s : s = "CMD"
  OBVIOUS
<1>4. /\ s # "STOP" /\ s # "SET1" /\ s \notin OtherStates /\ s # "COMMA_AFTER_SET1"
      /\ s # "SET2" /\ s # "COMMA_AFTER_SET2" /\ s # "RESULT"
      /\ s # "COMMA_READ" /\ s # "NUMBER" /\ s # "MINUS1"
  BY <1>3 DEF OtherStates
<1>5. Heard(line, 1, s, command_number')
  BY <1>2, <1>4, Zenon DEF Heard, WordsRead
<1>6. pc' # "prompt" /\ pc' \notin {"execute", "read_numbers"}
  BY <1>1
<1>7. QED  BY <1>1, <1>3, <1>5, <1>6, Zenon DEF LangInv, AcceptsLanguage

LEMMA ReadLineLang == ASSUME Inv, LangInv, ReadLine PROVE LangInv'
<1>1. PICK line : Validate(line)
  BY Zenon DEF ReadLine
<1>2. typed' \in Lines
  <2>1. Inv'
    BY ReadLineKeeps
  <2>2. TypeOK'
    BY <2>1, Zenon DEF Inv
  <2>3. QED  BY <2>2, Zenon DEF TypeOK, Lines
<1>3. typed' = line
  BY <1>1, Zenon DEF Validate
<1>4. QED  BY <1>1, <1>2, <1>3, LineLang, Zenon

\* The program ends.
LEMMA EndLang ==
  ASSUME pc' \in {"success", "failure"}
  PROVE  LangInv'
<1>1. pc' # "prompt" /\ pc' # "validate" /\ pc' \notin {"execute", "read_numbers"}
  OBVIOUS
<1>2. QED  BY <1>1, Zenon DEF LangInv, AcceptsLanguage

LEMMA DoneLang ==
  ASSUME LangInv, pc \in {"execute", "read_numbers"}, NEW message \in {"done", "set"},
         Done(message)
  PROVE  LangInv'
<1>1. pc' = "prompt" /\ output' = <<message>> /\ typed' = typed
  BY DEF Done
<1>2. IsCommand(typed)
  BY Zenon DEF LangInv, AcceptsLanguage
<1>3. output' \in {<<"done">>, <<"set">>}
  BY <1>1
<1>4. pc' # "validate" /\ pc' \notin {"execute", "read_numbers"}
  BY <1>1
<1>5. output' # <<>>
  BY <1>3, AnswersApart, Zenon
<1>6. QED  BY <1>1, <1>2, <1>3, <1>4, <1>5, Zenon DEF LangInv, AcceptsLanguage

LEMMA ReadingLang ==
  ASSUME LangInv, pc \in {"execute", "read_numbers"}, pc' = "read_numbers", typed' = typed
  PROVE  LangInv'
<1>1. pc' # "prompt" /\ pc' # "validate"
  OBVIOUS
<1>2. IsCommand(typed')
  BY Zenon DEF LangInv, AcceptsLanguage
<1>3. QED  BY <1>1, <1>2, Zenon DEF LangInv, AcceptsLanguage

LEMMA ExecutionLang ==
  ASSUME LangInv,
         EndOfInput \/ BeginRead \/ CollectNumber \/ FinishRead \/ PrintSet \/ Operate \/ Stop
  PROVE  LangInv'
<1>1. CASE EndOfInput
  <2>1. pc' \in {"success", "failure"}
    BY <1>1 DEF EndOfInput
  <2>2. QED  BY <2>1, EndLang, Zenon
<1>2. CASE BeginRead
  <2>1. pc \in {"execute", "read_numbers"} /\ pc' = "read_numbers" /\ typed' = typed
    BY <1>2 DEF BeginRead, Executing
  <2>2. QED  BY <2>1, ReadingLang, Zenon
<1>3. CASE CollectNumber
  <2>1. pc = "read_numbers" /\ pc' = pc /\ typed' = typed
    BY <1>3, Zenon DEF CollectNumber
  <2>2. QED  BY <2>1, ReadingLang, Zenon
<1>4. CASE FinishRead
  <2>1. pc = "read_numbers" /\ Done("done")
    BY <1>4, Zenon DEF FinishRead
  <2>2. QED  BY <2>1, DoneLang, Zenon
<1>5. CASE PrintSet
  <2>1. pc = "execute" /\ Done("set")
    BY <1>5, Zenon DEF PrintSet, Executing
  <2>2. QED  BY <2>1, DoneLang, Zenon
<1>6. CASE Operate
  <2>1. pc = "execute" /\ Done("done")
    BY <1>6, Zenon DEF Operate, Executing
  <2>2. QED  BY <2>1, DoneLang, Zenon
<1>7. CASE Stop
  <2>1. pc' \in {"success", "failure"}
    BY <1>7 DEF Stop
  <2>2. QED  BY <2>1, EndLang, Zenon
<1>8. QED  BY <1>1, <1>2, <1>3, <1>4, <1>5, <1>6, <1>7, Zenon

LEMMA InitLang == Init => LangInv
<1> SUFFICES ASSUME Init PROVE LangInv
  OBVIOUS
<1>1. pc = "prompt" /\ typed = <<>>
  BY DEF Init
<1>2. pc # "validate" /\ pc \notin {"execute", "read_numbers"}
  BY <1>1
<1>3. QED  BY <1>1, <1>2, Zenon DEF LangInv, AcceptsLanguage

LEMMA NextLang == Inv /\ LangInv /\ [Next]_vars => LangInv'
<1> SUFFICES ASSUME Inv, LangInv, [Next]_vars PROVE LangInv'
  OBVIOUS
<1>1. CASE Next
  BY <1>1, ReadLineLang, AutomatonLang, ExecutionLang, Zenon DEF Next
<1>2. CASE UNCHANGED vars
  <2>1. /\ UNCHANGED <<input, typed, command_line, cmdln, pc, state, command_number>>
        /\ UNCHANGED <<set_array, set1, num_array, output>>
    BY <1>2 DEF vars
  <2>2. QED  BY <2>1, Zenon DEF LangInv, AcceptsLanguage
<1>3. QED  BY <1>1, <1>2, Zenon

\* Whatever the lines, the names and the sizes: the automaton lets exactly the
\* commands of the language pass to execution, and says something about every
\* other line but those in which a number ends in a point.
THEOREM LanguageAccepted == Spec => []AcceptsLanguage
<1>1. Init => Inv /\ LangInv
  BY InitInv, InitLang
<1>2. Inv /\ LangInv /\ [Next]_vars => Inv' /\ LangInv'
  BY NextInv, NextLang
<1>3. LangInv => AcceptsLanguage
  BY DEF LangInv
<1>4. QED  BY <1>1, <1>2, <1>3, PTL DEF Spec

-----------------------------------------------------------------------------
(* The bits of a set and its members *)

LEMMA BitPlaces ==
  /\ \A n \in Member : n \div SIZE_OF_BYTE \in 0 .. NUM_OF_BYTES - 1
  /\ \A n \in Member : n % SIZE_OF_BYTE \in 0 .. SIZE_OF_BYTE - 1
  /\ \A n \in Member : (n \div SIZE_OF_BYTE) * SIZE_OF_BYTE + (n % SIZE_OF_BYTE) = n
<1>1. \A n \in 0 .. 127 : n \div 8 \in 0 .. 15
  OBVIOUS
<1>2. \A n \in 0 .. 127 : n % 8 \in 0 .. 7
  OBVIOUS
<1>3. ASSUME NEW n \in 0 .. 127
      PROVE  (n \div 8) * 8 + (n % 8) = n
  <2>1. PICK b \in Int, k \in Int : b = n \div 8 /\ k = n % 8
    OBVIOUS
  <2>2. b * 8 + k = n
    BY <2>1
  <2>3. QED  BY <2>1, <2>2
<1>4. /\ NUM_OF_BITS - 1 = 127 /\ NUM_OF_BYTES - 1 = 15 /\ SIZE_OF_BYTE - 1 = 7
      /\ SIZE_OF_BYTE = 8
  BY DEF NUM_OF_BITS, NUM_OF_BYTES, SIZE_OF_BYTE
<1>5. QED  BY <1>1, <1>2, <1>3, <1>4, Zenon DEF Member

\* A bit turned on is on, and no other has changed.
LEMMA BitTurnedOn ==
  ASSUME NEW s \in SetType, NEW m \in Member, NEW n \in Member
  PROVE  BitIsOn(SetBitOn(s, m), n) <=> n = m \/ BitIsOn(s, n)
<1>1. PICK b, c : b = n \div SIZE_OF_BYTE /\ c = m \div SIZE_OF_BYTE
  OBVIOUS
<1>2. PICK k, j : k = n % SIZE_OF_BYTE /\ j = m % SIZE_OF_BYTE
  OBVIOUS
<1>3. b \in 0 .. NUM_OF_BYTES - 1 /\ c \in 0 .. NUM_OF_BYTES - 1
  BY <1>1, BitPlaces, Zenon
<1>4. b = c /\ k = j => n = m
  <2>1. b * SIZE_OF_BYTE + k = n /\ c * SIZE_OF_BYTE + j = m
    BY <1>1, <1>2, BitPlaces
  <2>2. QED  BY <2>1, Zenon
<1>5. n = m => b = c /\ k = j
  BY <1>1, <1>2
<1>6. PICK t : t = [s EXCEPT ![c] = @ \union {j}]
  OBVIOUS
<1>7. t[b] = IF b = c THEN s[b] \union {j} ELSE s[b]
  BY <1>3, <1>6 DEF SetType
<1>8. k \in t[b] <=> n = m \/ k \in s[b]
  BY <1>4, <1>5, <1>7
<1>9. SetBitOn(s, m) = t
  BY <1>1, <1>2, <1>6, Zenon DEF SetBitOn
<1>10. QED  BY <1>1, <1>2, <1>8, <1>9, Zenon DEF BitIsOn

LEMMA NoBitOn ==
  ASSUME NEW n \in Member
  PROVE  ~BitIsOn(EmptySet, n)
<1>1. n \div SIZE_OF_BYTE \in 0 .. NUM_OF_BYTES - 1
  BY BitPlaces
<1>2. EmptySet[n \div SIZE_OF_BYTE] = {}
  BY <1>1, Zenon DEF EmptySet
<1>3. QED  BY <1>2, Zenon DEF BitIsOn

\* The members of a set that is read are the numbers before the first -1.
LEMMA MembersRead ==
  ASSUME NEW numbers, numbers \in Numbers, NEW n \in Member
  PROVE  \E end \in 0 .. Len(numbers) :
           /\ end = Len(numbers) \/ numbers[end + 1] = -1
           /\ \A k \in 1 .. end : numbers[k] \in Member
           /\ BitIsOn(ReadSet(numbers), n) <=> \E k \in 1 .. end : numbers[k] = n
<1>0. PICK end \in 0 .. Len(numbers) : \E g : ReadBy(numbers, end, g)
  BY SetReadBy, Zenon
<1>1. PICK g : ReadBy(numbers, end, g)
  BY <1>0, Zenon
<1>2. Len(numbers) \in Nat /\ end \in Nat
  BY DEF Numbers
<1>3. /\ end = Len(numbers) \/ numbers[end + 1] = -1
      /\ \A k \in 1 .. end : numbers[k] \in Member
      /\ g[0] = EmptySet /\ ReadSet(numbers) = g[end]
      /\ \A i \in 1 .. end : g[i - 1] \in SetType /\ g[i] = SetBitOn(g[i - 1], numbers[i])
  BY <1>1, Zenon DEF ReadBy, Member
<1> DEFINE T == {i \in Nat : i <= end =>
                   (BitIsOn(g[i], n) <=> \E k \in 1 .. i : numbers[k] = n)}
<1>4. 0 \in T
  <2>1. ~BitIsOn(g[0], n)
    BY <1>3, NoBitOn, Zenon
  <2>2. ~\E k \in 1 .. 0 : numbers[k] = n
    OBVIOUS
  <2>3. 0 \in Nat
    OBVIOUS
  <2>4. QED  BY <2>1, <2>2, <2>3, Zenon
<1>5. ASSUME NEW i \in Nat, i \in T
      PROVE  i + 1 \in T
  <2> SUFFICES ASSUME i + 1 <= end
               PROVE  BitIsOn(g[i + 1], n) <=> \E k \in 1 .. i + 1 : numbers[k] = n
    BY <1>5
  <2>1. i <= end /\ i + 1 \in 1 .. end /\ (i + 1) - 1 = i
    BY <1>2
  <2>2. g[i] \in SetType /\ g[i + 1] = SetBitOn(g[i], numbers[i + 1])
        /\ numbers[i + 1] \in Member
    BY <1>3, <2>1
  <2>3. BitIsOn(g[i + 1], n) <=> n = numbers[i + 1] \/ BitIsOn(g[i], n)
    <3>1. \A s \in SetType, m \in Member :
            BitIsOn(SetBitOn(s, m), n) <=> n = m \/ BitIsOn(s, n)
      BY BitTurnedOn, Zenon
    <3>2. BitIsOn(SetBitOn(g[i], numbers[i + 1]), n) <=>
            n = numbers[i + 1] \/ BitIsOn(g[i], n)
      BY <2>2, <3>1, Zenon
    <3>3. QED  BY <2>2, <3>2, Zenon
  <2>4. BitIsOn(g[i], n) <=> \E k \in 1 .. i : numbers[k] = n
    BY <1>5, <2>1, Zenon
  <2>5. \A k : k \in 1 .. i + 1 <=> k = i + 1 \/ k \in 1 .. i
    OBVIOUS
  <2>6. QED  BY <2>3, <2>4, <2>5, Zenon
<1> HIDE DEF T
<1>6. end \in T
  BY <1>2, <1>4, <1>5, Induction
<1>7. end <= end
  BY <1>2
<1>8. BitIsOn(g[end], n) <=> \E k \in 1 .. end : numbers[k] = n
  BY <1>6, <1>7, Zenon DEF T
<1>9. QED  BY <1>3, <1>8, Zenon

\* The members of a combination are those that are chosen by those of its parts.
LEMMA MembersCombined ==
  ASSUME NEW command, NEW s, NEW t, NEW n \in Member
  PROVE  BitIsOn(Combined(command, s, t), n) <=>
           Chosen(command, BitIsOn(s, n), BitIsOn(t, n))
<1>1. PICK b, k : b = n \div SIZE_OF_BYTE /\ k = n % SIZE_OF_BYTE
  OBVIOUS
<1>2. b \in 0 .. NUM_OF_BYTES - 1 /\ k \in 0 .. SIZE_OF_BYTE - 1
      /\ b * SIZE_OF_BYTE + k = n
  <2>1. (n \div SIZE_OF_BYTE) * SIZE_OF_BYTE + (n % SIZE_OF_BYTE) = n
    BY BitPlaces, Zenon
  <2>2. b * SIZE_OF_BYTE + k = n
    BY <1>1, <2>1
  <2>3. QED  BY <1>1, <2>2, BitPlaces, Zenon
<1> DEFINE On(a, i) == Chosen(command, BitIsOn(s, a * SIZE_OF_BYTE + i),
                              BitIsOn(t, a * SIZE_OF_BYTE + i))
<1>3. Combined(command, s, t) =
        [a \in 0 .. NUM_OF_BYTES - 1 |-> {i \in 0 .. SIZE_OF_BYTE - 1 : On(a, i)}]
  BY Zenon DEF Combined
<1>4. On(b, k) <=> Chosen(command, BitIsOn(s, n), BitIsOn(t, n))
  BY <1>2, Zenon
<1> HIDE DEF On
<1>5. Combined(command, s, t)[b] = {i \in 0 .. SIZE_OF_BYTE - 1 : On(b, i)}
  BY <1>2, <1>3, Zenon
<1>6. k \in Combined(command, s, t)[b] <=> On(b, k)
  BY <1>2, <1>5, Zenon
<1>7. QED  BY <1>1, <1>4, <1>6, Zenon DEF BitIsOn

-----------------------------------------------------------------------------
(* The places of the words of a line *)

\* The next word of a line is at the next place that is not white.
LEMMA PlaceOfWord ==
  ASSUME NEW l, l \in Lines, NEW p \in 0 .. Len(l), NEW n, n = Len(WordsTo(l, p)),
         Len(Words(l)) > n, NEW q, q = Skipped(l, p + 1, Blank)
  PROVE  /\ q \in p + 1 .. Len(l) /\ q \in 1 .. Len(l)
         /\ \A r \in p + 1 .. q - 1 : CharAt(l, r) \in Blank
         /\ CharAt(l, q) \notin Blank /\ CharAt(l, q) = Words(l)[n + 1]
         /\ Len(WordsTo(l, q)) = n + 1
<1>1. Len(l) \in Nat /\ p + 1 \in 1 .. Len(l) + 1
  BY DEF Lines
<1>2. /\ q \in p + 1 .. Len(l) + 1 /\ CharAt(l, q) \notin Blank
      /\ \A r \in p + 1 .. q - 1 : CharAt(l, r) \in Blank
  BY <1>1, Apart, SkippedIs
<1>3. PICK k : k = q - 1
  OBVIOUS
<1>4. k \in p .. Len(l) /\ k \in 0 .. Len(l) /\ q \in 1 .. Len(l) + 1
  BY <1>1, <1>2, <1>3
<1>5. WordsTo(l, k) = WordsTo(l, p)
  BY <1>2, <1>3, <1>4, NoWords, Zenon
<1>6. n = Len(WordsTo(l, q - 1))
  BY <1>3, <1>5
<1>7. /\ n \in Nat /\ (Len(Words(l)) > n => CharAt(l, q) = Words(l)[n + 1])
  BY <1>2, <1>4, <1>6, NextWord, Zenon
<1>8. q \in 1 .. Len(l)
  <2> SUFFICES ASSUME ~(q <= Len(l)) PROVE FALSE
    BY <1>1, <1>4
  <2>1. k = Len(l)
    BY <1>1, <1>3, <1>4
  <2>2. Words(l) = WordsTo(l, k)
    BY <2>1, Zenon DEF Words
  <2>3. Len(Words(l)) = n
    BY <1>3, <1>6, <2>2
  <2>4. QED  BY <1>7, <2>3
<1>9. Len(WordsTo(l, q)) = n + 1
  <2>1. WordsTo(l, q) = Append(WordsTo(l, k), CharAt(l, q))
    BY <1>2, <1>3, <1>8, WordAdded, Zenon
  <2>2. WordsTo(l, k) \in Seq(Symbol)
    BY <1>4, WordsStep, Zenon
  <2>3. PICK w, x : w = WordsTo(l, k) /\ x = CharAt(l, q)
    OBVIOUS
  <2>4. w \in Seq(Symbol \union {x}) /\ x \in Symbol \union {x} /\ Len(w) = n
    BY <1>3, <1>6, <2>2, <2>3
  <2>5. Len(Append(w, x)) = Len(w) + 1
    BY <2>4, AppendProperties
  <2>6. QED  BY <2>1, <2>3, <2>4, <2>5, Zenon
<1>10. q \in p + 1 .. Len(l)
  BY <1>1, <1>2, <1>8
<1>11. QED  BY <1>2, <1>7, <1>8, <1>9, <1>10, Zenon

\* The first word is where the line begins.
LEMMA FirstWord ==
  ASSUME NEW l, l \in Lines, Len(Words(l)) > 0
  PROVE  /\ FirstIn(l) \in 1 .. Len(l) /\ FirstIn(l) \in 0 .. Len(l)
         /\ \A r \in 1 .. FirstIn(l) - 1 : CharAt(l, r) \in Blank
         /\ CharAt(l, FirstIn(l)) = Words(l)[1] /\ Len(WordsTo(l, FirstIn(l))) = 1
<1>1. Len(l) \in Nat
  BY DEF Lines
<1>2. PICK p, n : p = 0 /\ n = 0
  OBVIOUS
<1>3. p \in 0 .. Len(l) /\ n = Len(WordsTo(l, p)) /\ Len(Words(l)) > n
  <2>1. Len(WordsTo(l, p)) = 0
    BY <1>2, WordsStep
  <2>2. QED  BY <1>1, <1>2, <2>1
<1>4. p + 1 = 1 /\ n + 1 = 1
  BY <1>2
<1>5. PICK q : q = FirstIn(l)
  OBVIOUS
<1>6. q = Skipped(l, p + 1, Blank)
  BY <1>4, <1>5, Zenon DEF FirstIn
<1>7. /\ q \in 1 .. Len(l)
      /\ \A r \in p + 1 .. q - 1 : CharAt(l, r) \in Blank
      /\ CharAt(l, q) = Words(l)[n + 1] /\ Len(WordsTo(l, q)) = n + 1
  BY <1>3, <1>6, PlaceOfWord
<1>8. q \in 0 .. Len(l)
  BY <1>7
<1>9. QED  BY <1>4, <1>5, <1>7, <1>8, Zenon

\* The heading of a list: the command, the name of the set, and no comma yet.
LEMMA ListHeading ==
  ASSUME NEW l, l \in Lines, IsList(l), NEW s, s = Set1In(l)
  PROVE  /\ Len(l) \in Nat /\ s \in 1 .. Len(l)
         /\ Words(l)[1] = "read_set" /\ Words(l)[2] = CharAt(l, s) /\ Words(l)[3] = ","
         /\ Len(WordsTo(l, s)) = 2
         /\ \A c \in Commas(l) : c > s
<1>1. PICK w : w = Words(l)
  OBVIOUS
<1>2. PICK name \in SetName :
        /\ w[1] = "read_set" /\ w[2] = name /\ w[3] = "," /\ Len(w) \in Nat /\ 3 <= Len(w)
  <2>1. PICK c \in Commas(l), name \in SetName : WordsTo(l, c) = <<"read_set", name, ",">>
    BY Zenon DEF IsList
  <2>2. c \in 0 .. Len(l)
    BY CommaPlace, Zenon
  <2>3. Begun(w, <<"read_set", name, ",">>)
    BY <1>1, <2>1, <2>2, WordsBegun, Zenon
  <2>4. QED  BY <2>3, ListBegun, Zenon
<1>3. Len(w) > 0 /\ Len(w) > 1
  <2>1. \A m \in Nat : 3 <= m => m > 0 /\ m > 1
    OBVIOUS
  <2>2. QED  BY <1>2, <2>1, Zenon
<1>4. PICK f : f = FirstIn(l)
  OBVIOUS
<1>5. /\ f \in 1 .. Len(l) /\ f \in 0 .. Len(l)
      /\ \A r \in 1 .. f - 1 : CharAt(l, r) \in Blank
      /\ CharAt(l, f) = w[1] /\ Len(WordsTo(l, f)) = 1
  BY <1>1, <1>3, <1>4, FirstWord, Zenon
<1>6. s = Skipped(l, f + 1, Blank)
  BY <1>4, Zenon DEF Set1In
<1>7. /\ s \in f + 1 .. Len(l) /\ s \in 1 .. Len(l)
      /\ \A r \in f + 1 .. s - 1 : CharAt(l, r) \in Blank
      /\ CharAt(l, s) = w[1 + 1] /\ Len(WordsTo(l, s)) = 1 + 1
  <2>1. PICK n : n = 1
    OBVIOUS
  <2>2. n = Len(WordsTo(l, f)) /\ Len(Words(l)) > n
    BY <1>1, <1>3, <1>5, <2>1, Zenon
  <2>3. /\ s \in f + 1 .. Len(l) /\ s \in 1 .. Len(l)
        /\ \A r \in f + 1 .. s - 1 : CharAt(l, r) \in Blank
        /\ CharAt(l, s) = Words(l)[n + 1] /\ Len(WordsTo(l, s)) = n + 1
    <3>1. f \in 0 .. Len(l)
      BY <1>5, Zenon
    <3>2. QED  BY <1>6, <2>2, <3>1, PlaceOfWord
  <2>4. QED  BY <1>1, <2>1, <2>3, Zenon
<1>8. 1 + 1 = 2
  OBVIOUS
<1>9. Len(l) \in Nat
  BY DEF Lines
<1>10. ASSUME NEW c \in Commas(l), ~(c > s)
       PROVE  FALSE
  <2>1. CharAt(l, c) = "," /\ c \in 1 .. Len(l)
    BY CommaThere, Zenon
  <2>2. CharAt(l, c) \notin Blank
    BY <2>1, CommaIs, Zenon
  <2>3. CharAt(l, f) # "," /\ CharAt(l, s) # ","
    <3>1. CharAt(l, s) = name
      BY <1>2, <1>7, <1>8, Zenon
    <3>2. CharAt(l, f) = "read_set"
      BY <1>2, <1>5, Zenon
    <3>3. CharAt(l, f) # ","
      BY <3>2
    <3>4. QED  BY <3>1, <3>3, CommaIs, Zenon
  <2>4. c # f /\ c # s
    BY <2>1, <2>3, Zenon
  <2>5. c \in 1 .. f - 1 \/ c \in f + 1 .. s - 1
    <3>1. f \in 1 .. Len(l) /\ s \in f + 1 .. Len(l)
      BY <1>5, <1>7, Zenon
    <3>2. c \in 1 .. Len(l)
      BY <2>1, Zenon
    <3>3. ~(c > s) /\ c # f /\ c # s
      BY <1>10, <2>4, Zenon
    <3>4. QED  BY <1>9, <3>1, <3>2, <3>3
  <2>6. QED  BY <1>5, <1>7, <2>2, <2>5, Zenon
<1>11. QED  BY <1>1, <1>2, <1>7, <1>8, <1>9, <1>10, Zenon

-----------------------------------------------------------------------------
(* Where the second scan reads the numbers of a list *)

\* Behind the name of the set, the second scan starts to read a number at q.
Start(l, q) == q \in Set1In(l) + 1 .. Len(l) /\ Begins(l, q)

\* The last place with a property before q.
LEMMA LastBefore ==
  ASSUME NEW T, T \subseteq Nat, NEW q \in Nat, NEW a \in T, a < q
  PROVE  \E b \in T : b < q /\ \A c \in T : c < q => c <= b
<1> DEFINE D == {n \in Nat : \E b \in T : b < q /\ n = q - b}
<1>1. q - a \in D
  BY DEF D
<1>2. D \subseteq Nat /\ D # {}
  BY <1>1 DEF D
<1>3. PICK n \in D : \A m \in D : n <= m
  BY <1>2, LeastNumber, Zenon
<1>4. PICK b \in T : b < q /\ n = q - b
  BY <1>3 DEF D
<1>5. ASSUME NEW c \in T, c < q PROVE c <= b
  <2>1. q - c \in D
    BY <1>5 DEF D
  <2>2. n <= q - c
    BY <1>3, <2>1
  <2>3. QED  BY <1>4, <1>5, <2>2
<1>6. QED  BY <1>4, <1>5

LEMMA WordCount ==
  ASSUME NEW l, l \in Lines, NEW p \in 1 .. Len(l), CharAt(l, p) \notin Blank
  PROVE  /\ Len(WordsTo(l, p - 1)) \in Nat
         /\ Len(WordsTo(l, p)) = Len(WordsTo(l, p - 1)) + 1
<1>1. Len(l) \in Nat
  BY DEF Lines
<1>2. PICK w, x : w = WordsTo(l, p - 1) /\ x = CharAt(l, p)
  OBVIOUS
<1>3. p - 1 \in 0 .. Len(l)
  BY <1>1
<1>4. w \in Seq(Symbol)
  BY <1>2, <1>3, WordsStep, Zenon
<1>5. w \in Seq(Symbol \union {x}) /\ x \in Symbol \union {x} /\ Len(w) \in Nat
  BY <1>4
<1>6. Len(Append(w, x)) = Len(w) + 1
  BY <1>5, AppendProperties
<1>7. WordsTo(l, p) = Append(w, x)
  BY <1>2, WordAdded, Zenon
<1>8. QED  BY <1>2, <1>5, <1>6, <1>7, Zenon

LEMMA BorderIs ==
  /\ \A x \in Border : x \notin Blank => x = "," \/ x = "end"
  /\ \A x : x \notin Separator => x \notin Blank /\ x # ","
  /\ \A x \in Blank : x \in Separator
  /\ "," \in Separator
BY DEF Border, Separator, Blank

LEMMA WrittenInside ==
  ASSUME NEW l, NEW p \in Nat, NEW m \in Storable, Written(l, p, m),
         NEW r \in p .. (p + Width(m)) - 1
  PROVE  CharAt(l, r) \notin Border
<1>1. PICK k \in 1 .. 3 : k = Width(m)
  BY WordIs, Zenon
<1>2. PICK j : j = r - p + 1
  OBVIOUS
<1>3. j \in 1 .. k /\ p + j - 1 = r
  BY <1>1, <1>2
<1>4. Len(Word(m)) = k
  BY <1>1, WordIs, Zenon
<1>5. CharAt(l, r) = Word(m)[j]
  BY <1>3, <1>4, Zenon DEF Written
<1>6. Word(m)[j] \notin Border
  BY <1>1, <1>3, WordIs, Zenon
<1>7. QED  BY <1>5, <1>6, Zenon

\* Before a number that the second scan reads there is a comma.
LEMMA CommaBefore ==
  ASSUME NEW l, l \in Lines, IsList(l), NEW q, Start(l, q)
  PROVE  \E c \in Commas(l) : c < q
<1> SUFFICES ASSUME \A c \in Commas(l) : ~(c < q) PROVE FALSE
  OBVIOUS
<1>1. PICK s : s = Set1In(l)
  OBVIOUS
<1>2. Len(l) \in Nat /\ s \in 1 .. Len(l) /\ Len(WordsTo(l, s)) = 2
  BY <1>1, ListHeading, Zenon
<1>3. q \in s + 1 .. Len(l) /\ CharAt(l, q) \notin Blank /\ CharAt(l, q) # ","
  BY <1>1, BorderIs, Zenon DEF Start, Begins
<1>4. PICK c \in Commas(l), name \in SetName : WordsTo(l, c) = <<"read_set", name, ",">>
  BY Zenon DEF IsList
<1>5. Len(WordsTo(l, c)) = 3
  <2>1. \A x, y, z : Len(<<x, y, z>>) = 3
    OBVIOUS
  <2>2. QED  BY <1>4, <2>1, Zenon
<1>6. c \in 1 .. Len(l) /\ CharAt(l, c) = "," /\ CharAt(l, c) \notin Blank
  BY CommaThere, CommaEnds, Zenon
<1>7. c # q
  BY <1>3, <1>6, Zenon
<1>8. ~(c < q)
  OBVIOUS
<1>9. /\ q \in 1 .. Len(l) /\ q \in 0 .. Len(l) /\ c - 1 \in q .. Len(l)
      /\ s \in 0 .. Len(l) /\ q - 1 \in s .. Len(l)
  <2>1. q \in s + 1 .. Len(l) /\ c \in 1 .. Len(l) /\ s \in 1 .. Len(l)
    BY <1>2, <1>3, <1>6, Zenon
  <2>2. QED  BY <1>2, <1>7, <1>8, <2>1
<1>10. PICK w, x, y : /\ w = Len(WordsTo(l, q - 1)) /\ x = Len(WordsTo(l, q))
                      /\ y = Len(WordsTo(l, c - 1))
  OBVIOUS
<1>11. w \in Nat /\ x = w + 1 /\ y \in Nat /\ 3 = y + 1
  BY <1>3, <1>5, <1>6, <1>9, <1>10, WordCount, Zenon
<1>12. 2 <= w
  BY <1>2, <1>9, <1>10, WordsGrow, Zenon
<1>13. x <= y
  BY <1>9, <1>10, WordsGrow, Zenon
<1>14. QED  BY <1>11, <1>12, <1>13

\* It is the first thing behind the comma, and it is what the list has there.
ReadsAt(l, q, a, b, m) ==
  /\ a < q /\ Stands(l, a, b, m) /\ Written(l, q, m) /\ BlankUpTo(l, q + Width(m), b)
  /\ NumberIn(l, q) = m

LEMMA StartsInList ==
  ASSUME NEW l, l \in Lines, IsList(l), NEW q, Start(l, q)
  PROVE  \E a \in Commas(l), b \in 1 .. Len(l) + 1, m \in Storable : ReadsAt(l, q, a, b, m)
<1>1. PICK s : s = Set1In(l)
  OBVIOUS
<1>2. Len(l) \in Nat /\ s \in 1 .. Len(l)
  BY <1>1, ListHeading, Zenon
<1>3. /\ q \in s + 1 .. Len(l) /\ CharAt(l, q) \notin Separator /\ CharAt(l, q) \notin Blank
      /\ CharAt(l, q) # "," /\ CharAt(l, q - 1) \in Separator
  BY <1>1, BorderIs, Zenon DEF Start, Begins
<1>4. q \in 1 .. Len(l) /\ q \in Nat /\ q \in 1 .. Len(l) + 1
  <2>1. q \in s + 1 .. Len(l)
    BY <1>3, Zenon
  <2>2. QED  BY <1>2, <2>1
<1>5. PICK a \in Commas(l) : a < q /\ \A c \in Commas(l) : c < q => c <= a
  <2>1. Commas(l) \subseteq Nat
    <3>1. \A c \in 1 .. Len(l) : c \in Nat
      BY <1>2
    <3>2. QED  BY <3>1, CommaThere, Zenon
  <2>2. PICK c \in Commas(l) : c < q
    BY CommaBefore, Zenon
  <2>3. QED  BY <1>4, <2>1, <2>2, LastBefore
<1>6. /\ a \in 1 .. Len(l) /\ a \in 0 .. Len(l) /\ a + 1 \in 1 .. Len(l) + 1
  <2>1. a \in 1 .. Len(l)
    BY CommaPlace, Zenon
  <2>2. QED  BY <1>2, <2>1
<1>7. PICK b \in 1 .. Len(l) + 1, m \in Storable : Stands(l, a, b, m)
  BY ListStands, Zenon
<1>8. /\ Alone(l, a, b, Word(m)) /\ CharAt(l, b) \in Border /\ CharAt(l, b) \notin Blank
  BY <1>7, Zenon DEF Stands
<1>9. PICK p : p = Skipped(l, a + 1, Blank)
  OBVIOUS
<1>10. /\ p \in a + 1 .. Len(l) + 1 /\ CharAt(l, p) \notin Blank
       /\ \A r \in a + 1 .. p - 1 : CharAt(l, r) \in Blank
  BY <1>2, <1>6, <1>9, Apart, SkippedIs
<1>11. PICK e : e = p + Width(m)
  OBVIOUS
<1>12. /\ e <= b /\ Written(l, p, m) /\ BlankUpTo(l, e, b) /\ NumberIn(l, p) = m
  <2>1. BlankUpTo(l, a + 1, p)
    BY <1>10, Zenon DEF BlankUpTo
  <2>2. QED  BY <1>6, <1>8, <1>10, <1>11, <2>1, AloneRead
<1>13. p \in Nat /\ e \in p + 1 .. p + 3
  <2>1. PICK k \in 1 .. 3 : k = Width(m)
    BY WordIs, Zenon
  <2>2. QED  BY <1>2, <1>6, <1>10, <1>11, <2>1
<1>14. ~(q < p)
  <2>1. q < p => q \in a + 1 .. p - 1
    BY <1>4, <1>5, <1>6, <1>10
  <2>2. QED  BY <1>3, <1>10, <2>1, Zenon
<1>15. ~(p < q)
  <2> SUFFICES ASSUME p < q PROVE FALSE
    OBVIOUS
  <2>1. ~(q <= e)
    <3> SUFFICES ASSUME q <= e PROVE FALSE
      OBVIOUS
    <3>1. q - 1 \in p .. e - 1
      BY <1>4, <1>13
    <3>2. CharAt(l, q - 1) \notin Border
      BY <1>11, <1>12, <1>13, <3>1, WrittenInside, Zenon
    <3>3. QED  BY <1>3, <3>2, Apart, Zenon
  <2>2. ~(q < b)
    <3>1. q < b => q \in e .. b - 1
      BY <1>4, <1>13, <2>1
    <3>2. QED  BY <1>3, <1>12, <3>1, Zenon DEF BlankUpTo
  <2>3. b \in 1 .. Len(l) /\ b <= q
    BY <1>2, <1>4, <2>2
  <2>4. CharAt(l, b) = ","
    <3>1. CharAt(l, b) # "end"
      <4>1. b # Len(l) + 1
        BY <1>2, <2>3
      <4>2. QED  BY <4>1, EndIsBehind, Zenon
    <3>2. QED  BY <1>8, <3>1, BorderIs, Zenon
  <2>5. b \in Commas(l) /\ b # q
    BY <1>3, <2>3, <2>4, CommaThere, Zenon
  <2>6. b < q /\ ~(b <= a)
    BY <1>4, <1>6, <1>10, <1>12, <1>13, <2>3, <2>5
  <2>7. QED  BY <1>5, <2>5, <2>6, Zenon
<1>16. p = q
  BY <1>4, <1>13, <1>14, <1>15
<1>17. ReadsAt(l, q, a, b, m)
  BY <1>5, <1>7, <1>11, <1>12, <1>16, Zenon DEF ReadsAt
<1>18. QED  BY <1>7, <1>17, Zenon

\* The second scan starts to read wherever the list has a number.
LEMMA NumberStarts ==
  ASSUME NEW l, l \in Lines, IsList(l), NEW a \in Commas(l), NEW b \in 1 .. Len(l) + 1,
         NEW m \in Storable, Alone(l, a, b, Word(m)), CharAt(l, b) \in Border
  PROVE  \E q : Start(l, q) /\ a < q /\ q < b /\ NumberIn(l, q) = m
<1>1. PICK s : s = Set1In(l)
  OBVIOUS
<1>2. Len(l) \in Nat /\ s \in 1 .. Len(l) /\ a > s
  BY <1>1, ListHeading, Zenon
<1>3. a \in 1 .. Len(l) /\ a \in 0 .. Len(l) /\ a + 1 \in 1 .. Len(l) + 1
  <2>1. a \in 1 .. Len(l)
    BY CommaPlace, Zenon
  <2>2. QED  BY <1>2, <2>1
<1>4. PICK p : p = Skipped(l, a + 1, Blank)
  OBVIOUS
<1>5. /\ p \in a + 1 .. Len(l) + 1 /\ CharAt(l, p) \notin Blank
      /\ \A r \in a + 1 .. p - 1 : CharAt(l, r) \in Blank
  BY <1>2, <1>3, <1>4, Apart, SkippedIs
<1>6. BlankUpTo(l, a + 1, p)
  BY <1>5, Zenon DEF BlankUpTo
<1>7. PICK e : e = p + Width(m)
  OBVIOUS
<1>8. e <= b /\ Written(l, p, m) /\ NumberIn(l, p) = m
  BY <1>3, <1>5, <1>6, <1>7, AloneRead
<1>9. e \in p + 1 .. p + 3
  <2>1. PICK k \in 1 .. 3 : k = Width(m)
    BY WordIs, Zenon
  <2>2. QED  BY <1>2, <1>3, <1>5, <1>7, <2>1
<1>10. p \in s + 1 .. Len(l) /\ a < p /\ p < b
  BY <1>2, <1>3, <1>5, <1>8, <1>9
<1>11. CharAt(l, p) \notin Separator
  <2>1. p \in Nat /\ p \in p .. e - 1
    BY <1>2, <1>3, <1>5, <1>9
  <2>2. CharAt(l, p) \notin Border
    BY <1>7, <1>8, <2>1, WrittenInside, Zenon
  <2>3. QED  BY <2>2, Apart, Zenon
<1>12. CharAt(l, p - 1) \in Separator
  <2>1. p - 1 = a \/ p - 1 \in a + 1 .. p - 1
    BY <1>2, <1>3, <1>5
  <2>2. CharAt(l, a) \in Separator
    BY CommaThere, BorderIs, Zenon
  <2>3. QED  BY <1>5, <2>1, <2>2, BorderIs, Zenon
<1>13. Start(l, p)
  BY <1>1, <1>10, <1>11, <1>12, Zenon DEF Start, Begins
<1>14. QED  BY <1>8, <1>10, <1>13, Zenon

\* What a list says is what the second scan reads at its starts.
LEMMA ListsRead ==
  ASSUME NEW l, l \in Lines, IsList(l), NEW n \in Member
  PROVE  Lists(l, n) <=> \E q : Start(l, q) /\ NumberIn(l, q) = n
<1>1. n \in Storable /\ Word(n) = Decimal(n)
  BY StorableIs, WidthOf, Zenon
<1>2. ASSUME Lists(l, n)
      PROVE  \E q : Start(l, q) /\ NumberIn(l, q) = n
  <2>1. PICK c \in Commas(l), d \in Commas(l) : Alone(l, c, d, Word(n))
    BY <1>1, <1>2, Zenon DEF Lists
  <2>2. d \in 1 .. Len(l) + 1 /\ CharAt(l, d) \in Border
    BY CommaPlace, CommaEnds, Zenon
  <2>3. QED  BY <1>1, <2>1, <2>2, NumberStarts, Zenon
<1>3. ASSUME NEW q, Start(l, q), NumberIn(l, q) = n
      PROVE  Lists(l, n)
  <2>1. PICK a \in Commas(l), b \in 1 .. Len(l) + 1, m \in Storable : ReadsAt(l, q, a, b, m)
    BY <1>3, StartsInList, Zenon
  <2>2. m = n
    BY <1>3, <2>1, Zenon DEF ReadsAt
  <2>3. Alone(l, a, b, Word(n)) /\ CharAt(l, b) = ","
    BY <2>1, <2>2, Zenon DEF ReadsAt, Stands
  <2>4. b \in 1 .. Len(l)
    <3>1. CharAt(l, b) # "end"
      BY <2>3
    <3>2. b # Len(l) + 1
      BY <3>1, EndIsBehind, Zenon
    <3>3. Len(l) \in Nat
      BY CommaPlace, Zenon
    <3>4. QED  BY <3>2, <3>3
  <2>5. b \in Commas(l)
    BY <2>3, <2>4, CommaThere, Zenon
  <2>6. QED  BY <1>1, <2>3, <2>5, Zenon DEF Lists
<1>4. QED  BY <1>2, <1>3, Zenon

\* Somewhere it reads -1.
LEMMA LastRead ==
  ASSUME NEW l, l \in Lines, IsList(l)
  PROVE  \E q : Start(l, q) /\ NumberIn(l, q) = -1
<1>1. Len(l) \in Nat /\ \A c \in Commas(l) : c \in 1 .. Len(l)
  BY CommaPlace, Zenon
<1>2. PICK first \in Commas(l) : TRUE
  BY Zenon DEF IsList
<1>3. PICK c \in Commas(l) : \A d \in Commas(l) : d <= c
  <2>1. PICK k : k = Len(l) + 1
    OBVIOUS
  <2>2. Commas(l) \subseteq Nat /\ k \in Nat /\ \A d \in Commas(l) : d < k
    BY <1>1, <2>1
  <2>3. PICK c \in Commas(l) : c < k /\ \A d \in Commas(l) : d < k => d <= c
    BY <1>2, <2>2, LastBefore
  <2>4. QED  BY <2>2, <2>3, Zenon
<1>4. PICK b \in 1 .. Len(l) + 1, m \in Storable : Stands(l, c, b, m)
  BY ListStands, Zenon
<1>5. Alone(l, c, b, Word(m)) /\ CharAt(l, b) \in Border
  BY <1>4, Zenon DEF Stands
<1>6. PICK q : Start(l, q) /\ c < q /\ q < b /\ NumberIn(l, q) = m
  BY <1>4, <1>5, NumberStarts, Zenon
<1>7. ASSUME m \in Member PROVE FALSE
  <2>1. CharAt(l, b) = ","
    BY <1>4, <1>7, Zenon DEF Stands
  <2>2. b \in 1 .. Len(l)
    <3>1. CharAt(l, b) # "end"
      BY <2>1
    <3>2. b # Len(l) + 1
      BY <3>1, EndIsBehind, Zenon
    <3>3. QED  BY <1>1, <3>2
  <2>3. b \in Commas(l)
    BY <2>1, <2>2, CommaThere, Zenon
  <2>4. b <= c
    BY <1>3, <2>3, Zenon
  <2>5. q \in Nat /\ c \in Nat
    <3>1. Set1In(l) \in 1 .. Len(l)
      BY ListHeading, Zenon
    <3>2. q \in Set1In(l) + 1 .. Len(l)
      BY <1>6, Zenon DEF Start
    <3>3. QED  BY <1>1, <3>1, <3>2
  <2>6. QED  BY <1>6, <2>2, <2>4, <2>5
<1>8. m = -1
  BY <1>7, StorableIs, Zenon
<1>9. QED  BY <1>6, <1>8, Zenon

\* And nothing behind it.
LEMMA NothingBehind ==
  ASSUME NEW l, l \in Lines, IsList(l), NEW q, Start(l, q), NumberIn(l, q) = -1,
         NEW r, Start(l, r)
  PROVE  ~(q < r)
<1> SUFFICES ASSUME q < r PROVE FALSE
  OBVIOUS
<1>1. PICK s : s = Set1In(l)
  OBVIOUS
<1>2. Len(l) \in Nat /\ s \in 1 .. Len(l)
  BY <1>1, ListHeading, Zenon
<1>3. /\ q \in s + 1 .. Len(l) /\ r \in s + 1 .. Len(l)
      /\ CharAt(l, r) \notin Separator /\ CharAt(l, r) \notin Blank
      /\ CharAt(l, r - 1) \in Separator
  BY <1>1, BorderIs, Zenon DEF Start, Begins
<1>4. PICK a \in Commas(l), b \in 1 .. Len(l) + 1, m \in Storable : ReadsAt(l, q, a, b, m)
  BY StartsInList, Zenon
<1>5. m = -1
  BY <1>4, Zenon DEF ReadsAt
<1>6. CharAt(l, b) = "end"
  BY <1>4, <1>5, Zenon DEF ReadsAt, Stands
<1>7. b = Len(l) + 1
  BY <1>6, EndIsBehind, Zenon
<1>8. PICK e : e = q + Width(m)
  OBVIOUS
<1>9. Written(l, q, m) /\ BlankUpTo(l, e, b)
  BY <1>4, <1>8, Zenon DEF ReadsAt
<1>10. e \in q + 1 .. q + 3
  <2>1. PICK k \in 1 .. 3 : k = Width(m)
    BY WordIs, Zenon
  <2>2. QED  BY <1>2, <1>3, <1>8, <2>1
<1>11. q \in Nat
  BY <1>2, <1>3
<1>12. CASE r <= e
  <2>1. r - 1 \in q .. e - 1
    BY <1>2, <1>3, <1>10, <1>12
  <2>2. CharAt(l, r - 1) \notin Border
    BY <1>8, <1>9, <1>11, <2>1, WrittenInside, Zenon
  <2>3. QED  BY <1>3, <2>2, Apart, Zenon
<1>13. CASE ~(r <= e)
  <2>1. r \in e .. b - 1
    BY <1>2, <1>3, <1>7, <1>10, <1>13
  <2>2. QED  BY <1>3, <1>9, <2>1, Zenon DEF BlankUpTo
<1>14. QED  BY <1>12, <1>13

-----------------------------------------------------------------------------
(* One number after the other *)

\* From p the second scan goes to the next start, and passes no other.
LEMMA NextStart ==
  ASSUME NEW l, Len(l) \in Nat, Set1In(l) \in 1 .. Len(l),
         NEW p \in Set1In(l) + 1 .. Len(l), CharAt(l, p) \in Separator,
         NEW at, at = Skipped(l, p, Separator), NEW e, e = EndIn(l, at)
  PROVE  /\ at \in p + 1 .. Len(l) + 1
         /\ at <= Len(l) => Start(l, at)
         /\ \A q : Start(l, q) /\ q < e => q < p \/ q = at
         /\ at > Len(l) => \A q : Start(l, q) => q < p
<1>1. PICK s : s = Set1In(l)
  OBVIOUS
<1>2. s \in 1 .. Len(l) /\ p \in s + 1 .. Len(l) /\ p \in 1 .. Len(l) + 1
  BY <1>1
<1>3. /\ at \in p .. Len(l) + 1 /\ CharAt(l, at) \notin Separator
      /\ \A r \in p .. at - 1 : CharAt(l, r) \in Separator
  BY <1>2, Apart, SkippedIs
<1>4. at # p
  BY <1>3
<1>5. at \in p + 1 .. Len(l) + 1 /\ at \in 1 .. Len(l) + 1 /\ at - 1 \in p .. at - 1
  BY <1>2, <1>3, <1>4
<1>6. ASSUME at <= Len(l) PROVE Start(l, at)
  <2>1. at \in s + 1 .. Len(l)
    BY <1>2, <1>5, <1>6
  <2>2. QED  BY <1>1, <1>3, <1>5, <2>1, Zenon DEF Start, Begins
<1>7. /\ e \in at .. Len(l) + 1
      /\ \A r \in at .. e - 1 : CharAt(l, r) \notin Border
  BY <1>5, NumberInside, Zenon
<1>8. ASSUME NEW q, Start(l, q)
      PROVE  /\ q \in s + 1 .. Len(l) /\ q \notin p .. at - 1
             /\ CharAt(l, q - 1) \in Border
  <2>1. /\ q \in s + 1 .. Len(l) /\ CharAt(l, q) \notin Separator
        /\ CharAt(l, q - 1) \in Separator
    BY <1>1, <1>8, Zenon DEF Start, Begins
  <2>2. QED  BY <1>3, <2>1, Apart, Zenon
<1>9. ASSUME NEW q, Start(l, q), q < e PROVE q < p \/ q = at
  <2>1. q \in s + 1 .. Len(l) /\ q \notin p .. at - 1 /\ CharAt(l, q - 1) \in Border
    BY <1>8, <1>9
  <2>2. ~(q > at)
    <3> SUFFICES ASSUME q > at PROVE FALSE
      OBVIOUS
    <3>1. q - 1 \in at .. e - 1
      BY <1>2, <1>5, <1>7, <1>9, <2>1
    <3>2. QED  BY <1>7, <2>1, <3>1, Zenon
  <2>3. QED  BY <1>2, <1>5, <2>1, <2>2
<1>10. ASSUME at > Len(l), NEW q, Start(l, q) PROVE q < p
  <2>1. q \in s + 1 .. Len(l) /\ q \notin p .. at - 1
    BY <1>8, <1>10
  <2>2. QED  BY <1>2, <1>5, <1>10, <2>1
<1>11. QED  BY <1>5, <1>6, <1>9, <1>10

\* n is among the first e numbers; it is read at a start before p.
Among(numbers, e, n) == \E k \in 1 .. e : numbers[k] = n
NoLast(numbers, e) == \A k \in 1 .. e : numbers[k] # -1
ReadBefore(l, p, n) == \E q : Start(l, q) /\ q < p /\ NumberIn(l, q) = n
ReadSomewhere(l, n) == \E q : Start(l, q) /\ NumberIn(l, q) = n

\* What was collected before p, as long as no -1 was read, and from then on.
Open(l, p, numbers) ==
  /\ NoLast(numbers, Len(numbers)) /\ ~ReadBefore(l, p, -1)
  /\ \A n \in Member : Among(numbers, Len(numbers), n) <=> ReadBefore(l, p, n)
ClosedAt(l, numbers, e) ==
  /\ e + 1 \in 1 .. Len(numbers) /\ e \in Nat /\ numbers[e + 1] = -1 /\ NoLast(numbers, e)
  /\ \A n \in Member : Among(numbers, e, n) <=> ReadSomewhere(l, n)
Closed(l, numbers) == \E e \in Nat : ClosedAt(l, numbers, e)

LEMMA NumbersAppended ==
  ASSUME NEW numbers \in Numbers, NEW x \in Storable, NEW next, next = Append(numbers, x),
         NEW c, c = Len(numbers)
  PROVE  /\ c \in Nat /\ Len(next) = c + 1 /\ next[c + 1] = x
         /\ \A k \in 1 .. c : next[k] = numbers[k]
BY AppendProperties DEF Numbers

LEMMA AmongAppended ==
  ASSUME NEW numbers \in Numbers, NEW x \in Storable, NEW next, next = Append(numbers, x),
         NEW c, c = Len(numbers), NEW n
  PROVE  /\ \A e \in 0 .. c : Among(next, e, n) <=> Among(numbers, e, n)
         /\ Among(next, c + 1, n) <=> Among(numbers, c, n) \/ n = x
<1>1. /\ c \in Nat /\ Len(next) = c + 1 /\ next[c + 1] = x
      /\ \A k \in 1 .. c : next[k] = numbers[k]
  BY NumbersAppended
<1>2. ASSUME NEW e \in 0 .. c PROVE Among(next, e, n) <=> Among(numbers, e, n)
  <2>1. \A k \in 1 .. e : k \in 1 .. c
    BY <1>1
  <2>2. QED  BY <1>1, <2>1, Zenon DEF Among
<1>3. \A k : k \in 1 .. c + 1 <=> k \in 1 .. c \/ k = c + 1
  BY <1>1
<1>4. QED  BY <1>1, <1>2, <1>3, Zenon DEF Among

\* A number is -1 at e if the first e hold none but -1.
LEMMA LastAmong ==
  ASSUME NEW numbers, NEW e
  PROVE  NoLast(numbers, e) <=> ~Among(numbers, e, -1)
BY Zenon DEF NoLast, Among

LEMMA StillClosed ==
  ASSUME NEW l, NEW numbers \in Numbers, NEW x \in Storable, Closed(l, numbers),
         NEW next, next = Append(numbers, x)
  PROVE  Closed(l, next)
<1>1. PICK c : c = Len(numbers)
  OBVIOUS
<1>2. PICK e \in Nat : ClosedAt(l, numbers, e)
  BY Zenon DEF Closed
<1>3. e + 1 \in 1 .. c
  BY <1>1, <1>2, Zenon DEF ClosedAt
<1>4. /\ c \in Nat /\ Len(next) = c + 1
      /\ \A k \in 1 .. c : next[k] = numbers[k]
  BY <1>1, NumbersAppended
<1>5. e \in 0 .. c /\ e + 1 \in 1 .. c + 1
  BY <1>3, <1>4
<1>6. \A n : Among(next, e, n) <=> Among(numbers, e, n)
  <2>1. \A n : \A i \in 0 .. c : Among(next, i, n) <=> Among(numbers, i, n)
    BY <1>1, AmongAppended
  <2>2. QED  BY <1>5, <2>1, Zenon
<1>7. numbers[e + 1] = -1 /\ NoLast(numbers, e)
  BY <1>2, Zenon DEF ClosedAt
<1>8. next[e + 1] = -1 /\ NoLast(next, e)
  BY <1>3, <1>4, <1>6, <1>7, LastAmong, Zenon
<1>9. \A n \in Member : Among(next, e, n) <=> ReadSomewhere(l, n)
  BY <1>2, <1>6, Zenon DEF ClosedAt
<1>10. ClosedAt(l, next, e)
  BY <1>4, <1>5, <1>8, <1>9, Zenon DEF ClosedAt
<1>11. QED  BY <1>10, Zenon DEF Closed

\* The next number of the list joins those collected.
LEMMA StartCollected ==
  ASSUME NEW l, l \in Lines, IsList(l), NEW p \in Nat, NEW numbers \in Numbers,
         Open(l, p, numbers), NEW at, Start(l, at), p < at, NEW e \in Nat, at < e,
         \A q : Start(l, q) /\ q < e => q < p \/ q = at, p < e,
         NEW x \in Storable, x = NumberIn(l, at), NEW next, next = Append(numbers, x)
  PROVE  Open(l, e, next) \/ Closed(l, next)
<1>1. PICK c : c = Len(numbers)
  OBVIOUS
<1>2. /\ c \in Nat /\ Len(next) = c + 1 /\ next[c + 1] = x /\ c \in 0 .. c
  <2>1. c \in Nat /\ Len(next) = c + 1 /\ next[c + 1] = x
    BY <1>1, NumbersAppended
  <2>2. QED  BY <2>1
<1>3. \A n : /\ Among(next, c, n) <=> Among(numbers, c, n)
             /\ Among(next, c + 1, n) <=> Among(numbers, c, n) \/ n = x
  BY <1>1, <1>2, AmongAppended, Zenon
<1>4. /\ ~Among(numbers, c, -1) /\ ~ReadBefore(l, p, -1)
      /\ \A n \in Member : Among(numbers, c, n) <=> ReadBefore(l, p, n)
  BY <1>1, LastAmong, Zenon DEF Open
<1>5. \A q : Start(l, q) => q \in Nat
  <2>1. Len(l) \in Nat /\ Set1In(l) \in 1 .. Len(l)
    BY ListHeading, Zenon
  <2>2. \A q : Start(l, q) => q \in Set1In(l) + 1 .. Len(l)
    BY Zenon DEF Start
  <2>3. \A q \in Set1In(l) + 1 .. Len(l) : q \in Nat
    BY <2>1
  <2>4. QED  BY <2>2, <2>3, Zenon
<1>6. \A n : ReadBefore(l, e, n) <=> ReadBefore(l, p, n) \/ n = x
  <2>1. ASSUME NEW n, ReadBefore(l, e, n) PROVE ReadBefore(l, p, n) \/ n = x
    BY <2>1, Zenon DEF ReadBefore
  <2>2. ASSUME NEW n, ReadBefore(l, p, n) PROVE ReadBefore(l, e, n)
    <3>1. PICK q : Start(l, q) /\ q < p /\ NumberIn(l, q) = n
      BY <2>2, Zenon DEF ReadBefore
    <3>2. q \in Nat /\ at \in Nat
      BY <1>5, <3>1, Zenon
    <3>3. q < at
      BY <3>1, <3>2
    <3>4. q < e
      BY <3>1, <3>2
    <3>5. QED  BY <3>1, <3>4, Zenon DEF ReadBefore
  <2>3. ReadBefore(l, e, x)
    BY Zenon DEF ReadBefore
  <2>4. QED  BY <2>1, <2>2, <2>3, Zenon
<1>7. CASE x = -1
  <2>1. \A n \in Member : ReadBefore(l, e, n) <=> ReadSomewhere(l, n)
    <3>1. ASSUME NEW q, Start(l, q) PROVE q < e
      <4>1. ~(at < q) /\ q \in Nat /\ at \in Nat
        BY <1>5, <1>7, <3>1, NothingBehind, Zenon
      <4>2. e \in Nat \/ e \notin Nat
        OBVIOUS
      <4>3. QED  BY <4>1
    <3>2. QED  BY <3>1, Zenon DEF ReadBefore, ReadSomewhere
  <2>2. \A n \in Member : n # -1
    BY WidthOf, Zenon
  <2>3. \A n \in Member : Among(next, c, n) <=> ReadSomewhere(l, n)
    BY <1>3, <1>4, <1>6, <1>7, <2>1, <2>2, Zenon
  <2>4. NoLast(next, c)
    BY <1>3, <1>4, LastAmong, Zenon
  <2>5. c + 1 \in 1 .. c + 1
    BY <1>2
  <2>6. ClosedAt(l, next, c)
    BY <1>2, <1>7, <2>3, <2>4, <2>5, Zenon DEF ClosedAt
  <2>7. QED  BY <1>2, <2>6, Zenon DEF Closed
<1>8. CASE x # -1
  <2>1. NoLast(next, c + 1) /\ ~ReadBefore(l, e, -1)
    BY <1>3, <1>4, <1>6, <1>8, LastAmong, Zenon
  <2>2. \A n \in Member : Among(next, c + 1, n) <=> ReadBefore(l, e, n)
    BY <1>3, <1>4, <1>6, Zenon
  <2>3. QED  BY <1>2, <2>1, <2>2, Zenon DEF Open
<1>9. QED  BY <1>7, <1>8

\* No list ends open.
LEMMA NoOpenEnd ==
  ASSUME NEW l, l \in Lines, IsList(l), NEW p, NEW numbers, Open(l, p, numbers)
  PROVE  \E q : Start(l, q) /\ ~(q < p)
<1>1. PICK q : Start(l, q) /\ NumberIn(l, q) = -1
  BY LastRead, Zenon
<1>2. ~(q < p)
  BY <1>1, Zenon DEF Open, ReadBefore
<1>3. QED  BY <1>1, <1>2, Zenon

\* The set that is read from the numbers of a list is the list.
LEMMA ListedMembers ==
  ASSUME NEW l, l \in Lines, IsList(l), NEW numbers \in Numbers, Closed(l, numbers),
         NEW n \in Member
  PROVE  BitIsOn(ReadSet(numbers), n) <=> Lists(l, n)
<1>1. PICK e \in Nat : ClosedAt(l, numbers, e)
  BY Zenon DEF Closed
<1>2. /\ e + 1 \in 1 .. Len(numbers) /\ numbers[e + 1] = -1
      /\ \A k \in 1 .. e : numbers[k] # -1
      /\ Among(numbers, e, n) <=> ReadSomewhere(l, n)
  BY <1>1, Zenon DEF ClosedAt, NoLast
<1>3. PICK end \in 0 .. Len(numbers) :
        /\ end = Len(numbers) \/ numbers[end + 1] = -1
        /\ \A k \in 1 .. end : numbers[k] \in Member
        /\ BitIsOn(ReadSet(numbers), n) <=> \E k \in 1 .. end : numbers[k] = n
  BY MembersRead, Zenon
<1>4. Len(numbers) \in Nat
  BY DEF Numbers
<1>5. ~(end < e)
  <2> SUFFICES ASSUME end < e PROVE FALSE
    OBVIOUS
  <2>1. end # Len(numbers) /\ end + 1 \in 1 .. e
    BY <1>2, <1>4
  <2>2. QED  BY <1>2, <1>3, <2>1, Zenon
<1>6. ~(e < end)
  <2> SUFFICES ASSUME e < end PROVE FALSE
    OBVIOUS
  <2>1. e + 1 \in 1 .. end
    BY <1>4
  <2>2. numbers[e + 1] \in Member
    BY <1>3, <2>1, Zenon
  <2>3. QED  BY <1>2, <2>2, WidthOf, Zenon
<1>7. end = e
  BY <1>4, <1>5, <1>6
<1>8. BitIsOn(ReadSet(numbers), n) <=> ReadSomewhere(l, n)
  BY <1>2, <1>3, <1>7, Zenon DEF Among
<1>9. QED  BY <1>8, ListsRead, Zenon DEF ReadSomewhere

-----------------------------------------------------------------------------
(* The two scans and what is written *)

\* The list in typed, and what was collected before the place of the scan: the
\* rest of the line is as it was typed.
Reading(l, m, p, set, numbers) ==
  /\ IsList(l) /\ set = CharAt(l, Set1In(l)) /\ p > Set1In(l)
  /\ \A r \in p .. Len(l) + 1 : CharAt(m, r) = CharAt(l, r)
  /\ Open(l, p, numbers) \/ Closed(l, numbers)

RunInv ==
  /\ pc \in {"validate", "execute", "read_numbers"} => output = <<>>
  /\ pc = "execute" => command_line = typed
  /\ pc = "read_numbers" => Reading(typed, command_line, cmdln, set1, num_array)

\* Nothing is collected behind the name of the set.
LEMMA NothingCollected ==
  ASSUME NEW l, NEW s \in Nat, s = Set1In(l), NEW p, p = s + 1
  PROVE  Open(l, p, <<>>)
<1>1. PICK numbers : numbers = <<>>
  OBVIOUS
<1>2. Len(numbers) = 0 /\ \A k : ~(k \in 1 .. 0)
  BY <1>1
<1>3. \A q : Start(l, q) => ~(q < p)
  BY DEF Start
<1>4. \A n : ~Among(numbers, 0, n) /\ ~ReadBefore(l, p, n)
  BY <1>2, <1>3, Zenon DEF Among, ReadBefore
<1>5. NoLast(numbers, 0)
  BY <1>2, Zenon DEF NoLast
<1>6. QED  BY <1>1, <1>2, <1>4, <1>5, Zenon DEF Open

\* One more number is collected.
LEMMA ReadingOn ==
  ASSUME NEW l, l \in Lines, NEW m, m \in Lines, Len(m) = Len(l), NEW p \in 1 .. Len(l),
         CharAt(m, p) \in Separator, NEW set, NEW numbers \in Numbers,
         Reading(l, m, p, set, numbers),
         NEW at, at = Skipped(m, p, Separator), NEW e, e = EndIn(m, at),
         NEW x \in Storable, x = NumberIn(m, at), NEW next, next = Append(numbers, x),
         at <= Len(l) => e >= at + 1, e \in at .. Len(l) + 1, at \in p + 1 .. Len(l) + 1,
         NEW o, Len(o) = Len(l), \A r \in e .. Len(l) + 1 : CharAt(o, r) = CharAt(m, r)
  PROVE  Reading(l, o, e, set, next)
<1>1. PICK s \in 1 .. Len(l) : s = Set1In(l)
  BY ListHeading, Zenon DEF Reading
<1>2. Len(l) \in Nat /\ Len(m) \in Nat
  BY DEF Lines
<1>3. /\ IsList(l) /\ set = CharAt(l, s) /\ p > s
      /\ \A r \in p .. Len(l) + 1 : CharAt(m, r) = CharAt(l, r)
      /\ Open(l, p, numbers) \/ Closed(l, numbers)
  BY <1>1, Zenon DEF Reading
<1>4. p \in s + 1 .. Len(l) /\ p \in 1 .. Len(l) + 1 /\ p \in Nat
  BY <1>1, <1>2, <1>3
<1>5. CharAt(l, p) \in Separator
  <2>1. p \in p .. Len(l) + 1
    BY <1>2
  <2>2. QED  BY <1>3, <2>1
<1>6. at = Skipped(l, p, Separator)
  <2>1. /\ at \in p .. Len(l) + 1 /\ CharAt(m, at) \notin Separator
        /\ \A r \in p .. at - 1 : CharAt(m, r) \in Separator
    BY <1>2, <1>4, Apart, SkippedIs
  <2>2. \A r \in p .. at - 1 : r \in p .. Len(l) + 1
    BY <1>2, <1>4, <2>1
  <2>3. CharAt(l, at) \notin Separator /\ \A r \in p .. at - 1 : CharAt(l, r) \in Separator
    BY <1>3, <2>1, <2>2, Zenon
  <2>4. QED  BY <1>2, <1>4, <2>1, <2>3, Apart, SkippedOnly
<1>7. x = NumberIn(l, at) /\ e = EndIn(l, at)
  <2>1. at \in p .. Len(l) + 1
    BY <1>2, <1>4
  <2>2. QED  BY <1>3, <1>4, <2>1, SameNumber
<1>8. /\ at <= Len(l) => Start(l, at)
      /\ \A q : Start(l, q) /\ q < e => q < p \/ q = at
      /\ at > Len(l) => \A q : Start(l, q) => q < p
  BY <1>1, <1>2, <1>4, <1>5, <1>6, <1>7, NextStart
<1>9. Open(l, e, next) \/ Closed(l, next)
  <2>1. CASE Closed(l, numbers)
    BY <2>1, StillClosed
  <2>2. CASE Open(l, p, numbers) /\ at <= Len(l)
    <3>1. p < at /\ at < e /\ p < e /\ e \in Nat
      BY <1>2, <1>4, <2>2
    <3>2. QED  BY <1>3, <1>4, <1>7, <1>8, <2>2, <3>1, StartCollected
  <2>3. CASE Open(l, p, numbers) /\ at > Len(l)
    BY <1>3, <1>8, <2>3, NoOpenEnd, Zenon
  <2>4. at <= Len(l) \/ at > Len(l)
    BY <1>2, <1>4
  <2>5. QED  BY <1>3, <2>1, <2>2, <2>3, <2>4, Zenon
<1>10. e > s /\ \A r \in e .. Len(l) + 1 : r \in p .. Len(l) + 1
  BY <1>1, <1>2, <1>4
<1>11. \A r \in e .. Len(l) + 1 : CharAt(o, r) = CharAt(l, r)
  BY <1>3, <1>10, Zenon
<1>12. QED  BY <1>1, <1>3, <1>9, <1>10, <1>11, Zenon DEF Reading

\* At the end of the line the list is collected.
LEMMA ReadingDone ==
  ASSUME NEW l, l \in Lines, NEW m, NEW p, p = Len(l) + 1, NEW set, NEW numbers,
         Reading(l, m, p, set, numbers)
  PROVE  Closed(l, numbers)
<1>1. IsList(l) /\ (Open(l, p, numbers) \/ Closed(l, numbers))
  BY Zenon DEF Reading
<1>2. \A q : Start(l, q) => q < p
  <2>1. Set1In(l) \in 1 .. Len(l) /\ Len(l) \in Nat
    BY <1>1, ListHeading, Zenon
  <2>2. QED  BY <2>1 DEF Start
<1>3. QED  BY <1>1, <1>2, NoOpenEnd, Zenon

\* The name behind the next comma is where the second scan looks for it.
LEMMA NameBehindComma ==
  ASSUME NEW l, l \in Lines, NEW q \in 1 .. Len(l), NEW n \in Nat, n = Len(WordsTo(l, q)),
         Len(Words(l)) > n + 1, Words(l)[n + 1] \in Separator,
         Words(l)[n + 2] \notin Separator, NEW s, s = Skipped(l, q + 1, Separator)
  PROVE  /\ s \in 1 .. Len(l) /\ CharAt(l, s) = Words(l)[n + 2]
         /\ Len(WordsTo(l, s)) = n + 2
<1>1. Len(l) \in Nat
  BY DEF Lines
<1>2. Len(Words(l)) \in Nat
  BY WordsStep, <1>1 DEF Words
<1>3. q \in 0 .. Len(l) /\ Len(Words(l)) > n
  BY <1>1, <1>2
<1>4. PICK c : c = Skipped(l, q + 1, Blank)
  OBVIOUS
<1>5. /\ c \in q + 1 .. Len(l) /\ c \in 1 .. Len(l)
      /\ \A r \in q + 1 .. c - 1 : CharAt(l, r) \in Blank
      /\ CharAt(l, c) = Words(l)[n + 1] /\ Len(WordsTo(l, c)) = n + 1
  BY <1>3, <1>4, PlaceOfWord
<1>6. PICK k : k = n + 1
  OBVIOUS
<1>7. k + 1 = n + 2 /\ c \in 0 .. Len(l) /\ k = Len(WordsTo(l, c)) /\ Len(Words(l)) > k
  BY <1>5, <1>6
<1>8. PICK t : t = Skipped(l, c + 1, Blank)
  OBVIOUS
<1>9. /\ t \in c + 1 .. Len(l) /\ t \in 1 .. Len(l)
      /\ \A r \in c + 1 .. t - 1 : CharAt(l, r) \in Blank
      /\ CharAt(l, t) = Words(l)[k + 1] /\ Len(WordsTo(l, t)) = k + 1
  BY <1>7, <1>8, PlaceOfWord
<1>10. \A r \in q + 1 .. t - 1 : CharAt(l, r) \in Separator
  <2>1. \A r \in q + 1 .. t - 1 : r \in q + 1 .. c - 1 \/ r = c \/ r \in c + 1 .. t - 1
    BY <1>1, <1>5, <1>9
  <2>2. CharAt(l, c) \in Separator
    BY <1>5
  <2>3. QED  BY <1>5, <1>9, <2>1, <2>2, Apart, Zenon
<1>11. s = t
  <2>1. CharAt(l, t) \notin Separator
    BY <1>7, <1>9
  <2>2. q + 1 \in 1 .. Len(l) + 1 /\ t \in q + 1 .. Len(l) + 1
    BY <1>1, <1>5, <1>9
  <2>3. QED  BY <1>1, <1>10, <2>1, <2>2, Apart, SkippedOnly
<1>12. QED  BY <1>7, <1>9, <1>11

-----------------------------------------------------------------------------
(* The automaton executes nothing *)

\* It goes on, or hands the line over, without a word; or it says something else
\* than that a command is done.
Quiet ==
  \/ pc' \in {"validate", "execute"} /\ output' = output
  \/ pc' = "prompt" /\ output' # <<"done">>

LEMMA RejectQuiet ==
  ASSUME NEW message, message \notin {"done", "set"}, Reject(message)
  PROVE  Quiet
<1>1. pc' = "prompt" /\ output' = <<message>>
  BY DEF Reject
<1>2. output' \notin {<<"done">>, <<"set">>}
  BY <1>1, AnswersApart, Zenon
<1>3. output' # <<"done">>
  BY <1>2
<1>4. QED  BY <1>1, <1>3, Zenon DEF Quiet

LEMMA AcceptQuiet == Accept => Quiet
BY DEF Accept, Quiet

LEMMA GoQuiet ==
  ASSUME pc = "validate", NEW p, NEW s, Go(p, s)
  PROVE  Quiet
<1>1. pc' = "validate" /\ output' = output
  BY DEF Go
<1>2. pc' \in {"validate", "execute"}
  BY <1>1
<1>3. QED  BY <1>1, <1>2, Zenon DEF Quiet

LEMMA EndQuiet == EndCommand => Quiet
BY Messages, RejectQuiet, AcceptQuiet, Zenon DEF EndCommand

LEMMA OtherMessages ==
  /\ "undefined command name" \notin {"done", "set"} /\ "illegal comma" \notin {"done", "set"}
OBVIOUS

LEMMA AutomatonQuiet ==
  ASSUME Automaton, output = <<>>
  PROVE  pc = "validate" /\ Kept /\ Quiet
<1>0. output # <<"done">>
  BY AnswersApart
<1>1. CASE SkipSpace
  BY <1>1, GoQuiet, Zenon DEF SkipSpace
<1>2. CASE ReadCommand
  <2>1. pc = "validate" /\ Kept
    BY <1>2, Zenon DEF ReadCommand, Validating
  <2>2. CASE Reject("undefined command name")
    BY <2>1, <2>2, OtherMessages, RejectQuiet, Zenon
  <2>3. CASE UNCHANGED <<pc, output>>
    BY <2>1, <2>3 DEF Quiet
  <2>4. QED  BY <1>2, <2>1, <2>2, <2>3, Zenon DEF ReadCommand
<1>3. CASE ReadSet1
  <2>1. pc = "validate" /\ Kept
    BY <1>3, Zenon DEF ReadSet1, Validating
  <2>2. CASE \E message : message \notin {"done", "set"} /\ Reject(message)
    BY <2>1, <2>2, RejectQuiet, Zenon
  <2>3. CASE EndCommand
    BY <2>1, <2>3, EndQuiet, Zenon
  <2>4. CASE \E p, s : Go(p, s)
    BY <2>1, <2>4, GoQuiet, Zenon
  <2>5. \/ \E message : message \notin {"done", "set"} /\ Reject(message)
        \/ CASE command_number = "print_set" -> EndCommand
             [] command_number = "read_set" -> Go(cmdln + 1, "COMMA_READ")
             [] OTHER -> Go(cmdln + 1, "COMMA_AFTER_SET1")
    BY <1>3, Messages, OtherMessages, Zenon DEF ReadSet1
  <2>6. (CASE command_number = "print_set" -> EndCommand
           [] command_number = "read_set" -> Go(cmdln + 1, "COMMA_READ")
           [] OTHER -> Go(cmdln + 1, "COMMA_AFTER_SET1"))
        => EndCommand \/ \E p, s : Go(p, s)
    <3>1. CASE command_number = "print_set"
      BY <3>1
    <3>2. CASE command_number = "read_set"
      BY <3>2
    <3>3. CASE command_number # "print_set" /\ command_number # "read_set"
      BY <3>3
    <3>4. QED  BY <3>1, <3>2, <3>3, Zenon
  <2>7. QED  BY <2>1, <2>2, <2>3, <2>4, <2>5, <2>6, Zenon
<1>4. ASSUME NEW from, NEW next, ReadComma(from, next)
      PROVE  pc = "validate" /\ Kept /\ Quiet
  BY <1>4, Messages, RejectQuiet, GoQuiet, Zenon DEF ReadComma, Validating
<1>5. CASE ReadSet2
  <2>1. pc = "validate" /\ Kept
    BY <1>5, Zenon DEF ReadSet2, ReadSetName, Validating
  <2>2. \/ \E message : message \notin {"done", "set"} /\ Reject(message)
        \/ Go(cmdln + 1, "COMMA_AFTER_SET2")
    BY <1>5, Messages, Zenon DEF ReadSet2, ReadSetName
  <2>3. QED  BY <2>1, <2>2, RejectQuiet, GoQuiet, Zenon
<1>6. CASE ReadResult
  <2>1. pc = "validate" /\ Kept
    BY <1>6, Zenon DEF ReadResult, ReadSetName, Validating
  <2>2. \/ \E message : message \notin {"done", "set"} /\ Reject(message)
        \/ EndCommand
    BY <1>6, Messages, Zenon DEF ReadResult, ReadSetName
  <2>3. QED  BY <2>1, <2>2, RejectQuiet, EndQuiet, Zenon
<1>7. CASE ReadNumber
  <2>1. pc = "validate" /\ Kept
    BY <1>7, Zenon DEF ReadNumber, Validating
  <2>2. \/ \E message : message \notin {"done", "set"} /\ Reject(message)
        \/ \E p, s : Go(p, s)
    BY <1>7, Messages, Zenon DEF ReadNumber
  <2>3. QED  BY <2>1, <2>2, RejectQuiet, GoQuiet, Zenon
<1>8. CASE ReadNumberComma
  <2>1. pc = "validate" /\ Kept
    BY <1>8, Zenon DEF ReadNumberComma, Validating
  <2>2. \/ \E message : message \notin {"done", "set"} /\ Reject(message)
        \/ \E p, s : Go(p, s)
        \/ pc' = "prompt" /\ UNCHANGED <<cmdln, state, command_number, output>>
    BY <1>8, Messages, Zenon DEF ReadNumberComma
  <2>3. CASE pc' = "prompt" /\ UNCHANGED <<cmdln, state, command_number, output>>
    <3>1. pc' = "prompt" /\ output' = output
      BY <2>3
    <3>2. QED  BY <1>0, <2>1, <3>1, Zenon DEF Quiet
  <2>4. QED  BY <2>1, <2>2, <2>3, RejectQuiet, GoQuiet, Zenon
<1>9. CASE ReadEnd
  BY <1>9, Messages, RejectQuiet, AcceptQuiet, Zenon DEF ReadEnd, Validating
<1>10. QED
  BY <1>1, <1>2, <1>3, <1>4, <1>5, <1>6, <1>7, <1>8, <1>9, Zenon DEF Automaton

-----------------------------------------------------------------------------
(* What is executed *)

\* Nothing is executed, and nothing said to be done.
LEMMA AutomatonRuns ==
  ASSUME LangInv, RunInv, Automaton
  PROVE  RunInv' /\ UNCHANGED set_array /\ output' # <<"done">>
<1>1. pc = "validate" /\ Kept /\ output = <<>>
  <2>1. pc = "validate"
    BY Zenon DEF Automaton, SkipSpace, ReadCommand, ReadSet1, ReadComma, ReadSet2, ReadResult,
                 ReadSetName, ReadNumber, ReadNumberComma, ReadEnd, Validating
  <2>2. output = <<>>
    BY <2>1, Zenon DEF LangInv
  <2>3. QED  BY <2>1, <2>2, AutomatonQuiet, Zenon
<1>2. Quiet
  BY <1>1, AutomatonQuiet, Zenon
<1>3. command_line' = typed' /\ UNCHANGED set_array
  BY <1>1 DEF LangInv, Kept
<1>4. pc' # "read_numbers" /\ (pc' \in {"validate", "execute"} => output' = <<>>)
  <2>1. CASE pc' \in {"validate", "execute"} /\ output' = output
    BY <1>1, <2>1
  <2>2. CASE pc' = "prompt"
    BY <2>2
  <2>3. QED  BY <1>2, <2>1, <2>2, Zenon DEF Quiet
<1>5. pc' \in {"validate", "execute", "read_numbers"} => output' = <<>>
  BY <1>4
<1>6. output' # <<"done">>
  <2>1. <<>> # <<"done">>
    BY AnswersApart
  <2>2. QED  BY <1>1, <1>2, <2>1, Zenon DEF Quiet
<1>7. QED  BY <1>3, <1>4, <1>5, <1>6, Zenon DEF RunInv

LEMMA ReadLineRuns ==
  ASSUME ReadLine
  PROVE  RunInv' /\ UNCHANGED set_array
<1>1. /\ pc' = "validate" /\ output' = <<>> /\ set_array' = set_array
  BY Zenon DEF ReadLine, Validate, ValidateKeeping
<1>2. pc' # "execute" /\ pc' # "read_numbers"
  BY <1>1
<1>3. QED  BY <1>1, <1>2, Zenon DEF RunInv

\* At the prompt, and when the program has ended, there is nothing to know.
LEMMA NoRun ==
  ASSUME pc' \in {"prompt", "success", "failure"}
  PROVE  RunInv'
<1>1. pc' # "execute" /\ pc' # "read_numbers" /\ pc' \notin {"validate", "execute", "read_numbers"}
  OBVIOUS
<1>2. QED  BY <1>1, Zenon DEF RunInv

\* The line that is executed is a command as it was typed.
LEMMA LineToExecute ==
  ASSUME Inv, LangInv, RunInv, pc = "execute", NEW l, l = typed, NEW f, f = cmdln,
         NEW w, w = Words(l)
  PROVE  /\ command_line = l /\ l \in Lines /\ Len(l) \in Nat
         /\ f = FirstIn(l) /\ f \in 1 .. Len(l) /\ f \in 0 .. Len(l)
         /\ At(f) = w[1] /\ Len(WordsTo(l, f)) = 1
         /\ CommandShape(w) /\ (w[1] = "read_set" => IsList(l))
<1>1. command_line = l
  BY DEF RunInv
<1>2. l \in Lines /\ Len(l) \in Nat
  BY <1>1, LineShape, Zenon
<1>3. f = FirstIn(l)
  BY <1>1, Zenon DEF Inv, ToExecute
<1>4. IsCommand(l)
  BY Zenon DEF LangInv, AcceptsLanguage
<1>5. CommandShape(w) /\ (w[1] = "read_set" => IsList(l))
  BY <1>2, <1>4, CommandShaped, Zenon
<1>6. Len(Words(l)) > 0
  <2>1. Len(w) >= 1
    BY <1>5, Zenon DEF CommandShape
  <2>2. Len(w) \in Nat
    <3>1. Len(l) \in 0 .. Len(l)
      BY <1>2
    <3>2. QED  BY <1>2, <3>1, WordsStep DEF Words
  <2>3. QED  BY <2>1, <2>2
<1>7. /\ f \in 1 .. Len(l) /\ f \in 0 .. Len(l)
      /\ CharAt(l, f) = w[1] /\ Len(WordsTo(l, f)) = 1
  BY <1>2, <1>3, <1>6, FirstWord, Zenon
<1>8. At(f) = w[1]
  BY <1>1, <1>7, OfTheLine, Zenon
<1>9. QED  BY <1>1, <1>2, <1>3, <1>5, <1>7, <1>8, Zenon

LEMMA BeginReadRuns ==
  ASSUME Inv, LangInv, RunInv, BeginRead
  PROVE  RunInv' /\ UNCHANGED set_array /\ output' # <<"done">>
<1>1. /\ pc = "execute" /\ At(cmdln) = "read_set"
      /\ set1' = At(Set1Place) /\ cmdln' = Set1Place + 1 /\ pc' = "read_numbers"
      /\ UNCHANGED <<typed, command_line, set_array, num_array, output>>
  BY DEF BeginRead, Executing
<1>2. PICK l, f, w : l = typed /\ f = cmdln /\ w = Words(l)
  OBVIOUS
<1>3. /\ command_line = l /\ l \in Lines /\ Len(l) \in Nat
      /\ f = FirstIn(l) /\ At(f) = w[1] /\ (w[1] = "read_set" => IsList(l))
  BY <1>1, <1>2, LineToExecute, Zenon
<1>4. IsList(l)
  BY <1>1, <1>2, <1>3, Zenon
<1>5. PICK s : s = Set1In(l)
  OBVIOUS
<1>6. s \in 1 .. Len(l) /\ s \in Nat
  <2>1. s \in 1 .. Len(l)
    BY <1>3, <1>4, <1>5, ListHeading, Zenon
  <2>2. QED  BY <2>1
<1>7. Set1Place = s
  BY <1>2, <1>3, <1>5, OfTheLine, Zenon DEF Set1Place, Set1In
<1>8. set1' = CharAt(l, s) /\ cmdln' = s + 1
  BY <1>1, <1>3, <1>7, OfTheLine, Zenon
<1>9. num_array' = <<>> /\ output = <<>>
  BY <1>1 DEF Inv, RunInv
<1>10. PICK p : p = s + 1
  OBVIOUS
<1>11. Open(l, p, <<>>)
  BY <1>5, <1>6, <1>10, NothingCollected
<1>12. p > s
  BY <1>6, <1>10
<1>13. Reading(typed', command_line', cmdln', set1', num_array')
  <2>1. typed' = l /\ command_line' = l /\ cmdln' = p
    BY <1>1, <1>2, <1>3, <1>8, <1>10, Zenon
  <2>2. Reading(l, l, p, CharAt(l, s), <<>>)
    BY <1>4, <1>5, <1>11, <1>12, Zenon DEF Reading
  <2>3. QED  BY <1>8, <1>9, <2>1, <2>2, Zenon
<1>14. output' = <<>> /\ output' # <<"done">>
  <2>1. output' = <<>>
    BY <1>1, <1>9, Zenon
  <2>2. <<>> # <<"done">>
    BY AnswersApart
  <2>3. QED  BY <2>1, <2>2, Zenon
<1>15. pc' # "execute" /\ set_array' = set_array
  BY <1>1
<1>16. QED  BY <1>13, <1>14, <1>15, Zenon DEF RunInv

LEMMA CollectNumberRuns ==
  ASSUME Inv, RunInv, CollectNumber
  PROVE  RunInv' /\ UNCHANGED set_array /\ output' # <<"done">>
<1>1. PICK l, p, at, e, m : \E n \in Nat : Collected(l, p, at, e, n, m)
  BY NumberCollected, Zenon
<1>2. PICK n \in Nat : Collected(l, p, at, e, n, m)
  BY <1>1, Zenon
<1>3. PICK t, x, numbers, next :
        t = typed /\ x = NumberIn(l, at) /\ numbers = num_array /\ next = Append(numbers, x)
  OBVIOUS
<1>4. /\ l = command_line /\ p = cmdln /\ m = command_line' /\ e = cmdln'
      /\ pc = "read_numbers" /\ next = num_array'
      /\ UNCHANGED <<input, typed, pc, state, command_number, set_array, set1, output>>
  BY <1>2, <1>3, Zenon DEF Collected
<1>5. /\ at = Skipped(l, p, Separator) /\ e = EndIn(l, at)
      /\ l \in Lines /\ p \in 1 .. Len(l) /\ x \in Storable
      /\ at \in p + 1 .. Len(l) + 1 /\ (at <= Len(l) => e >= at + 1)
      /\ e \in at .. Len(l) + 1
      /\ m \in Lines /\ Len(m) = Len(l)
      /\ \A r \in e .. Len(l) + 1 : CharAt(m, r) = CharAt(l, r)
  BY <1>2, <1>3, Zenon DEF Collected
<1>6. CharAt(l, p) \in Separator
  <2>1. CharAt(l, p) \in Border /\ CharAt(l, p) # "end"
    BY <1>2, Zenon DEF Collected, Scannable
  <2>2. QED  BY <2>1, Apart, Zenon
<1>7. t \in Lines /\ Len(l) = Len(t) /\ numbers \in Numbers
  <2>1. StoreOK
    BY TypeParts DEF Inv
  <2>2. t \in Lines /\ numbers \in Numbers
    BY <1>3, <2>1, Zenon DEF StoreOK, Lines
  <2>3. QED  BY <1>3, <1>4, <2>2, Zenon DEF Inv
<1>8. PICK set : set = set1
  OBVIOUS
<1>9. Reading(t, l, p, set, numbers) /\ output = <<>>
  <2>1. pc \in {"validate", "execute", "read_numbers"}
    BY <1>4
  <2>2. QED  BY <1>3, <1>4, <1>8, <2>1, Zenon DEF RunInv
<1>10. Reading(t, m, e, set, next)
  <2>1. p \in 1 .. Len(t) /\ at \in p + 1 .. Len(t) + 1 /\ (at <= Len(t) => e >= at + 1)
        /\ e \in at .. Len(t) + 1 /\ Len(m) = Len(t)
        /\ \A r \in e .. Len(t) + 1 : CharAt(m, r) = CharAt(l, r)
    BY <1>5, <1>7, Zenon
  <2>2. QED  BY <1>3, <1>5, <1>6, <1>7, <1>9, <2>1, ReadingOn
<1>11. Reading(typed', command_line', cmdln', set1', num_array')
  <2>1. typed' = t /\ set1' = set
    BY <1>3, <1>4, <1>8
  <2>2. QED  BY <1>4, <1>10, <2>1, Zenon
<1>12. output' = <<>> /\ output' # <<"done">>
  <2>1. output' = <<>>
    BY <1>4, <1>9
  <2>2. <<>> # <<"done">>
    BY AnswersApart
  <2>3. QED  BY <2>1, <2>2, Zenon
<1>13. pc' # "execute" /\ set_array' = set_array
  BY <1>4
<1>14. QED  BY <1>11, <1>12, <1>13, Zenon DEF RunInv


LEMMA FinishReadRuns ==
  ASSUME Inv, RunInv, FinishRead
  PROVE  \A name \in SetName : Members(set_array'[name]) = Meaning(typed, name)
<1>1. /\ pc = "read_numbers" /\ At(cmdln) = "end"
      /\ set_array' = [set_array EXCEPT ![set1] = ReadSet(num_array)]
  BY DEF FinishRead
<1>2. PICK l, m, p, set, numbers :
        l = typed /\ m = command_line /\ p = cmdln /\ set = set1 /\ numbers = num_array
  OBVIOUS
<1>3. /\ l \in Lines /\ m \in Lines /\ Len(l) = Len(m) /\ numbers \in Numbers
      /\ p \in 1 .. Len(m) + 1
  <2>1. StoreOK
    BY TypeParts DEF Inv
  <2>2. l \in Lines /\ numbers \in Numbers
    BY <1>2, <2>1, Zenon DEF StoreOK, Lines
  <2>3. QED  BY <1>2, <2>2, LineShape, Zenon DEF Inv
<1>4. p = Len(l) + 1
  <2>1. CharAt(m, p) = "end"
    BY <1>1, <1>2, OfTheLine, Zenon
  <2>2. QED  BY <1>3, <2>1, EndIsBehind, Zenon
<1>5. Reading(l, m, p, set, numbers)
  BY <1>1, <1>2, Zenon DEF RunInv
<1>6. Closed(l, numbers) /\ IsList(l)
  BY <1>3, <1>4, <1>5, ReadingDone, Zenon DEF Reading
<1>7. Words(l)[1] = "read_set" /\ Words(l)[2] = set
  BY <1>3, <1>5, <1>6, ListHeading, Zenon DEF Reading
<1>8. Members(ReadSet(numbers)) = {n \in Member : Lists(l, n)}
  BY <1>3, <1>6, ListedMembers, Zenon DEF Members
<1>9. \A name \in SetName :
        set_array'[name] = IF name = set THEN ReadSet(numbers) ELSE set_array[name]
  BY <1>1, <1>2, SetsTyped
<1>10. \A name \in SetName :
         Meaning(l, name) = IF name = set THEN {n \in Member : Lists(l, n)} ELSE Before(name)
  BY <1>7, Zenon DEF Meaning
<1>11. QED  BY <1>2, <1>8, <1>9, <1>10, Zenon DEF Before

\* What a command makes of two sets of numbers.
Result(command, a, b) ==
  CASE command = "union_set" -> a \union b
    [] command = "intersect_set" -> a \intersect b
    [] command = "sub_set" -> a \ b
    [] command = "symdiff_set" -> (a \ b) \union (b \ a)

LEMMA CombinedMembers ==
  ASSUME NEW command \in Operation, NEW s, NEW t
  PROVE  Members(Combined(command, s, t)) =
           Result(command, Members(s), Members(t))
<1>1. Members(Combined(command, s, t)) =
        {n \in Member : Chosen(command, BitIsOn(s, n), BitIsOn(t, n))}
  BY MembersCombined, Zenon DEF Members
<1>2. CASE command = "union_set"
  <2>1. \A n : Chosen(command, BitIsOn(s, n), BitIsOn(t, n)) <=>
                 BitIsOn(s, n) \/ BitIsOn(t, n)
    BY <1>2 DEF Chosen
  <2>2. Members(Combined(command, s, t)) = Members(s) \union Members(t)
    BY <1>1, <2>1, Zenon DEF Members
  <2>3. QED  BY <1>2, <2>2 DEF Result
<1>3. CASE command = "intersect_set"
  <2>1. \A n : Chosen(command, BitIsOn(s, n), BitIsOn(t, n)) <=>
                 BitIsOn(s, n) /\ BitIsOn(t, n)
    BY <1>3 DEF Chosen
  <2>2. Members(Combined(command, s, t)) = Members(s) \intersect Members(t)
    BY <1>1, <2>1, Zenon DEF Members
  <2>3. QED  BY <1>3, <2>2 DEF Result
<1>4. CASE command = "sub_set"
  <2>1. \A n : Chosen(command, BitIsOn(s, n), BitIsOn(t, n)) <=>
                 BitIsOn(s, n) /\ ~BitIsOn(t, n)
    BY <1>4 DEF Chosen
  <2>2. Members(Combined(command, s, t)) = Members(s) \ Members(t)
    BY <1>1, <2>1, Zenon DEF Members
  <2>3. QED  BY <1>4, <2>2 DEF Result
<1>5. CASE command = "symdiff_set"
  <2>1. \A n : Chosen(command, BitIsOn(s, n), BitIsOn(t, n)) <=>
                 (BitIsOn(s, n) /\ ~BitIsOn(t, n)) \/ (BitIsOn(t, n) /\ ~BitIsOn(s, n))
    BY <1>5 DEF Chosen
  <2>2. Members(Combined(command, s, t)) =
          (Members(s) \ Members(t)) \union (Members(t) \ Members(s))
    BY <1>1, <2>1, Zenon DEF Members
  <2>3. QED  BY <1>5, <2>2 DEF Result
<1>6. QED  BY <1>2, <1>3, <1>4, <1>5, Zenon DEF Operation

LEMMA OperateRuns ==
  ASSUME Inv, LangInv, RunInv, Operate
  PROVE  \A name \in SetName : Members(set_array'[name]) = Meaning(typed, name)
<1>1. /\ pc = "execute" /\ At(cmdln) \in Operation
      /\ set_array' = [set_array EXCEPT ![At(ResultPlace)] =
                         Combined(At(cmdln), set_array[At(Set1Place)], set_array[At(Set2Place)])]
  BY Zenon DEF Operate, Executing, Operation
<1>2. PICK l, f, w : l = typed /\ f = cmdln /\ w = Words(l)
  OBVIOUS
<1>3. /\ command_line = l /\ l \in Lines /\ Len(l) \in Nat
      /\ f \in 1 .. Len(l) /\ f \in 0 .. Len(l)
      /\ At(f) = w[1] /\ Len(WordsTo(l, f)) = 1 /\ CommandShape(w)
  BY <1>1, <1>2, LineToExecute, Zenon
<1>4. PICK a, b, c : a = w[2] /\ b = w[4] /\ c = w[6]
  OBVIOUS
<1>5. /\ Len(w) = 6 /\ w[3] \in Separator /\ w[5] \in Separator
      /\ a \in SetName /\ b \in SetName /\ c \in SetName
      /\ a \notin Separator /\ b \notin Separator /\ c \notin Separator
  <2>1. /\ Len(w) = 6 /\ w[3] = "," /\ w[5] = "," /\ a \in SetName /\ b \in SetName /\ c \in SetName
    <3>1. w[1] \in Operation
      BY <1>1, <1>2, <1>3, Zenon
    <3>2. w[1] # "stop"
      BY <3>1 DEF Operation
    <3>3. QED  BY <1>3, <1>4, <3>1, <3>2, Zenon DEF CommandShape
  <2>2. "," \in Separator
    BY BorderIs, Zenon
  <2>3. \A x \in SetName : x \notin Separator
    BY NameAssumption DEF Separator
  <2>4. QED  BY <2>1, <2>2, <2>3, Zenon
<1>6. PICK s : s = Skipped(l, f + 1, Blank)
  OBVIOUS
<1>7. s \in 1 .. Len(l) /\ CharAt(l, s) = a /\ Len(WordsTo(l, s)) = 2
  <2>1. PICK n : n = 1
    OBVIOUS
  <2>2. n = Len(WordsTo(l, f)) /\ n + 1 = 2 /\ Len(Words(l)) > n
    <3>1. Len(Words(l)) = 6
      BY <1>2, <1>5, Zenon
    <3>2. QED  BY <1>3, <2>1, <3>1
  <2>3. /\ s \in 1 .. Len(l) /\ CharAt(l, s) = Words(l)[n + 1]
        /\ Len(WordsTo(l, s)) = n + 1
    <3>1. l \in Lines /\ f \in 0 .. Len(l)
      BY <1>3, Zenon
    <3>2. QED  BY <1>6, <2>2, <3>1, PlaceOfWord
  <2>4. QED  BY <1>2, <1>4, <2>2, <2>3, Zenon
<1>8. PICK t : t = Skipped(l, s + 1, Separator)
  OBVIOUS
<1>9. t \in 1 .. Len(l) /\ CharAt(l, t) = b /\ Len(WordsTo(l, t)) = 4
  <2>1. PICK n : n = 2
    OBVIOUS
  <2>2. n \in Nat /\ n + 1 = 3 /\ n + 2 = 4 /\ n = Len(WordsTo(l, s)) /\ Len(Words(l)) > n + 1
    <3>1. Len(Words(l)) = 6
      BY <1>2, <1>5, Zenon
    <3>2. QED  BY <1>7, <2>1, <3>1
  <2>3. Words(l)[n + 1] \in Separator /\ Words(l)[n + 2] \notin Separator
        /\ Words(l)[n + 2] = b
    BY <1>2, <1>4, <1>5, <2>2, Zenon
  <2>4. /\ t \in 1 .. Len(l) /\ CharAt(l, t) = Words(l)[n + 2]
        /\ Len(WordsTo(l, t)) = n + 2
    BY <1>3, <1>7, <1>8, <2>2, <2>3, NameBehindComma
  <2>5. QED  BY <2>2, <2>3, <2>4, Zenon
<1>10. PICK r : r = Skipped(l, t + 1, Separator)
  OBVIOUS
<1>11. CharAt(l, r) = c
  <2>1. PICK n : n = 4
    OBVIOUS
  <2>2. n \in Nat /\ n + 1 = 5 /\ n + 2 = 6 /\ n = Len(WordsTo(l, t)) /\ Len(Words(l)) > n + 1
    <3>1. Len(Words(l)) = 6
      BY <1>2, <1>5, Zenon
    <3>2. QED  BY <1>9, <2>1, <3>1
  <2>3. Words(l)[n + 1] \in Separator /\ Words(l)[n + 2] \notin Separator
        /\ Words(l)[n + 2] = c
    BY <1>2, <1>4, <1>5, <2>2, Zenon
  <2>4. CharAt(l, r) = Words(l)[n + 2]
    BY <1>3, <1>9, <1>10, <2>2, <2>3, NameBehindComma
  <2>5. QED  BY <2>3, <2>4, Zenon
<1>12. At(Set1Place) = a /\ At(Set2Place) = b /\ At(ResultPlace) = c
  <2>1. Set1Place = s
    BY <1>2, <1>3, <1>6, OfTheLine, Zenon DEF Set1Place
  <2>2. Set2Place = t
    BY <1>3, <1>8, <2>1, OfTheLine, Zenon DEF Set2Place
  <2>3. ResultPlace = r
    BY <1>3, <1>10, <2>2, OfTheLine, Zenon DEF ResultPlace
  <2>4. QED  BY <1>3, <1>7, <1>9, <1>11, <2>1, <2>2, <2>3, OfTheLine, Zenon
<1>13. PICK command, set :
         /\ command \in Operation /\ command = w[1]
         /\ set = Combined(command, set_array[a], set_array[b])
  BY <1>1, <1>2, <1>3, Zenon
<1>14. set_array' = [set_array EXCEPT ![c] = set]
  BY <1>1, <1>2, <1>3, <1>12, <1>13, Zenon
<1>15. \A name \in SetName : set_array'[name] = IF name = c THEN set ELSE set_array[name]
  BY <1>14, SetsTyped
<1>16. \A name \in SetName :
         Meaning(l, name) = IF name = c THEN Members(set) ELSE Members(set_array[name])
  <2>1. command # "read_set"
    BY <1>13 DEF Operation
  <2>2. Members(set) = Result(command, Before(a), Before(b))
    BY <1>13, CombinedMembers, Zenon DEF Before
  <2>3. QED  BY <1>2, <1>4, <1>13, <2>1, <2>2, Zenon DEF Meaning, Before, Result
<1>17. QED  BY <1>2, <1>15, <1>16, Zenon

-----------------------------------------------------------------------------
(* The sets are what the lines say *)

\* What ExecutedAsWritten says of a step.
Executed ==
  IF pc # "prompt" /\ output' = <<"done">>
  THEN \A name \in SetName : Members(set_array'[name]) = Meaning(typed, name)
  ELSE UNCHANGED set_array

LEMMA NextRuns ==
  ASSUME Inv, LangInv, RunInv, Next
  PROVE  RunInv' /\ Executed
<1>1. CASE ReadLine
  <2>1. pc = "prompt"
    BY <1>1 DEF ReadLine
  <2>2. QED  BY <1>1, <2>1, ReadLineRuns, Zenon DEF Executed
<1>2. CASE EndOfInput
  <2>1. pc = "prompt" /\ pc' \in {"prompt", "success", "failure"} /\ set_array' = set_array
    BY <1>2 DEF EndOfInput, Kept
  <2>2. QED  BY <2>1, NoRun, Zenon DEF Executed
<1>3. CASE Automaton
  BY <1>3, AutomatonRuns, Zenon DEF Executed
<1>4. CASE BeginRead
  BY <1>4, BeginReadRuns, Zenon DEF Executed
<1>5. CASE CollectNumber
  BY <1>5, CollectNumberRuns, Zenon DEF Executed
<1>6. CASE FinishRead
  <2>1. pc = "read_numbers" /\ Done("done")
    BY <1>6, Zenon DEF FinishRead
  <2>2. /\ pc # "prompt" /\ output' = <<"done">>
        /\ pc' \in {"prompt", "success", "failure"}
    BY <2>1 DEF Done
  <2>3. QED  BY <1>6, <2>2, FinishReadRuns, NoRun, Zenon DEF Executed
<1>7. CASE PrintSet
  <2>1. Done("set") /\ set_array' = set_array
    BY <1>7, Zenon DEF PrintSet
  <2>2. output' = <<"set">> /\ pc' \in {"prompt", "success", "failure"}
    BY <2>1 DEF Done
  <2>3. output' # <<"done">>
    BY <2>2
  <2>4. QED  BY <2>1, <2>2, <2>3, NoRun, Zenon DEF Executed
<1>8. CASE Operate
  <2>1. pc = "execute" /\ Done("done")
    BY <1>8, Zenon DEF Operate, Executing
  <2>2. /\ pc # "prompt" /\ output' = <<"done">>
        /\ pc' \in {"prompt", "success", "failure"}
    BY <2>1 DEF Done
  <2>3. QED  BY <1>8, <2>2, OperateRuns, NoRun, Zenon DEF Executed
<1>9. CASE Stop
  <2>1. /\ output' = <<"bye">> /\ pc' \in {"prompt", "success", "failure"}
        /\ set_array' = set_array
    BY <1>9 DEF Stop, Kept
  <2>2. output' # <<"done">>
    BY <2>1
  <2>3. QED  BY <2>1, <2>2, NoRun, Zenon DEF Executed
<1>10. QED
  BY <1>1, <1>2, <1>3, <1>4, <1>5, <1>6, <1>7, <1>8, <1>9, Zenon DEF Next

LEMMA InitRuns == Init => RunInv
<1> SUFFICES ASSUME Init PROVE RunInv
  OBVIOUS
<1>1. pc = "prompt"
  BY DEF Init
<1>2. pc # "execute" /\ pc # "read_numbers" /\ pc \notin {"validate", "execute", "read_numbers"}
  BY <1>1
<1>3. QED  BY <1>2, Zenon DEF RunInv

\* Whatever the lines, the names and the sizes: a command does to the sets what
\* its line says, and nothing else changes a set.
THEOREM CommandsExecuted == Spec => ExecutedAsWritten
<1>1. Init => Inv /\ LangInv /\ RunInv
  BY InitInv, InitLang, InitRuns
<1>2. Inv /\ LangInv /\ RunInv /\ [Next]_vars => Inv' /\ LangInv' /\ RunInv'
  <2> SUFFICES ASSUME Inv, LangInv, RunInv, [Next]_vars PROVE Inv' /\ LangInv' /\ RunInv'
    OBVIOUS
  <2>1. Inv' /\ LangInv'
    BY NextInv, NextLang
  <2>2. CASE UNCHANGED vars
    <3>1. /\ UNCHANGED <<input, typed, command_line, cmdln, pc, state, command_number>>
          /\ UNCHANGED <<set_array, set1, num_array, output>>
      BY <2>2 DEF vars
    <3>2. RunInv'
      BY <3>1, Zenon DEF RunInv
    <3>3. QED  BY <2>1, <3>2
  <2>3. CASE Next
    BY <2>1, <2>3, NextRuns
  <2>4. QED  BY <2>2, <2>3
<1>3. Inv /\ LangInv /\ RunInv /\ [Next]_vars =>
        [IF pc # "prompt" /\ output' = <<"done">>
         THEN \A name \in SetName : Members(set_array'[name]) = Meaning(typed, name)
         ELSE UNCHANGED set_array]_vars
  BY NextRuns, Zenon DEF Executed
<1>4. QED  BY <1>1, <1>2, <1>3, PTL DEF Spec, ExecutedAsWritten
=============================================================================
