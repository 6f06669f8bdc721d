------------------------- MODULE ParseBigInt_proofs -------------------------
(***************************************************************************)
(* What parseBigInt of Validate computes, for texts of any length. The     *)
(* folds and the recursive functions of that module are chosen among       *)
(* functions, and the induction theorems of the library take an operator:  *)
(* induction is done here on the set of the numbers that have the          *)
(* property, which is all of Nat because < is well founded. The module     *)
(* goes from induction to the fold, from there to the spellings Decimal    *)
(* and Hex, and ends with the two directions of ParsesSpelling.            *)
(***************************************************************************)
EXTENDS Validate, SequenceTheorems, WellFoundedInduction, TLAPS

(* Nothing is left out by a set that holds n when it holds all below n.    *)
LEMMA StrongInduction ==
  ASSUME NEW S, \A n \in Nat : (\A m \in 0..(n - 1) : m \in S) => n \in S
  PROVE  Nat \subseteq S
<1> DEFINE Less == OpToRel(<, Nat)
<1>1. IsWellFoundedOn(Less, Nat)
  BY NatLessThanWellFounded, Zenon
<1>2. \A x, y \in Nat : y < x => <<y, x>> \in Less
  BY DEF OpToRel
<1> HIDE DEF Less
<1> SUFFICES ASSUME Nat \ S # {}
             PROVE  FALSE
  OBVIOUS
<1>3. PICK n \in Nat \ S : \A m \in Nat \ S : ~(<<m, n>> \in Less)
  BY <1>1, WFMin, Zenon
<1>4. ASSUME NEW m \in 0..(n - 1)
      PROVE  m \in S
  <2>1. m \in Nat /\ m < n
    OBVIOUS
  <2> QED
    BY <1>2, <1>3, <2>1, Zenon
<1> QED
  BY <1>3, <1>4

(* The same, one number at a time.                                         *)
LEMMA SetInduction ==
  ASSUME NEW S, 0 \in S, \A n \in Nat : n \in S => n + 1 \in S
  PROVE  Nat \subseteq S
<1>1. ASSUME NEW n \in Nat, \A m \in 0..(n - 1) : m \in S
      PROVE  n \in S
  <2>1. CASE n = 0
    BY <2>1
  <2>2. CASE n # 0
    <3>1. n - 1 \in Nat /\ n - 1 \in 0..(n - 1) /\ (n - 1) + 1 = n
      BY <2>2
    <3> QED
      BY <1>1, <3>1
  <2> QED
    BY <2>1, <2>2
<1> QED
  BY <1>1, StrongInduction

-----------------------------------------------------------------------------

(* A set of positions has a largest one, and the others are before it.     *)
LEMMA LargestPosition ==
  ASSUME NEW k \in Nat, NEW s \in SUBSET (1..k), s # {}
  PROVE  /\ Max(s) \in s
         /\ s \ {Max(s)} \subseteq 1..(Max(s) - 1)
<1> DEFINE S == {n \in Nat : \A u \in SUBSET (1..n) :
                   u # {} => \E x \in u : \A y \in u : x >= y}
<1>1. 0 \in S
  <2>1. \A u \in SUBSET (1..0) : u = {}
    OBVIOUS
  <2> QED
    BY <2>1, Zenon
<1>2. ASSUME NEW n \in Nat, n \in S
      PROVE  n + 1 \in S
  <2> SUFFICES ASSUME NEW u \in SUBSET (1..(n + 1)), u # {}
               PROVE  \E x \in u : \A y \in u : x >= y
    OBVIOUS
  <2>1. CASE n + 1 \in u
    BY <2>1
  <2>2. CASE n + 1 \notin u
    <3>1. u \in SUBSET (1..n)
      BY <2>2
    <3> QED
      BY <1>2, <3>1
  <2> QED
    BY <2>1, <2>2
<1>3. k \in S
  <2> HIDE DEF S
  <2> QED
    BY <1>1, <1>2, SetInduction
<1>4. \E x \in s : \A y \in s : x >= y
  BY <1>3
<1>5. Max(s) \in s /\ \A y \in s : Max(s) >= y
  BY <1>4, Zenon DEF Max
<1>6. ASSUME NEW y \in s \ {Max(s)}
      PROVE  y \in 1..(Max(s) - 1)
  <2>1. y \in 1..k /\ Max(s) \in 1..k /\ Max(s) >= y /\ y # Max(s)
    BY <1>5
  <2> QED
    BY <2>1
<1> QED
  BY <1>5, <1>6

(* What FoldLeft computes of a sequence of n digits in base b, from those  *)
(* at the positions s.                                                     *)
Step(b, q, h, s) == IF s = {} THEN 0 ELSE h[s \ {Max(s)}] * b + q[Max(s)]

(* The function on sets of positions that the fold is the value of exists: *)
(* the recursion goes to smaller sets.                                     *)
LEMMA FoldExists ==
  ASSUME NEW b, NEW q, NEW n \in Nat
  PROVE  \E h : h = [s \in SUBSET (1..n) |-> Step(b, q, h, s)]
<1> DEFINE Folds(k, h) == h = [s \in SUBSET (1..k) |-> Step(b, q, h, s)]
           S == {k \in Nat : \E h : Folds(k, h)}
<1>1. 0 \in S
  <2> DEFINE h == [s \in SUBSET (1..0) |-> 0]
  <2>1. \A s \in SUBSET (1..0) : Step(b, q, h, s) = 0
    BY DEF Step
  <2>2. Folds(0, h)
    BY <2>1
  <2> QED
    BY <2>2
<1>2. ASSUME NEW k \in Nat, k \in S
      PROVE  k + 1 \in S
  <2>1. PICK g : Folds(k, g)
    BY <1>2
  <2> DEFINE h == [s \in SUBSET (1..(k + 1)) |-> Step(b, q, g, s)]
  <2>2. ASSUME NEW s \in SUBSET (1..(k + 1))
        PROVE  Step(b, q, g, s) = Step(b, q, h, s)
    <3>1. CASE s = {}
      BY <3>1 DEF Step
    <3>2. CASE s # {}
      <4> DEFINE u == s \ {Max(s)}
      <4>1. Max(s) \in 1..(k + 1) /\ u \subseteq 1..(Max(s) - 1)
        <5>1. k + 1 \in Nat
          OBVIOUS
        <5>2. Max(s) \in s /\ s \ {Max(s)} \subseteq 1..(Max(s) - 1)
          BY <3>2, <5>1, LargestPosition, Zenon
        <5> QED
          BY <5>2
      <4>2. u \in SUBSET (1..k)
        BY <4>1
      <4>3. u \in SUBSET (1..(k + 1))
        BY <4>2
      <4> HIDE DEF u
      <4>4. h[u] = Step(b, q, g, u) /\ g[u] = Step(b, q, g, u)
        BY <2>1, <4>2, <4>3, Zenon
      <4> QED
        BY <3>2, <4>4 DEF Step, u
    <3> QED
      BY <3>1, <3>2
  <2>3. Folds(k + 1, h)
    BY <2>2, Zenon
  <2> HIDE DEF h, Folds
  <2> QED
    BY <2>3, <1>2
<1>3. n \in S
  <2> HIDE DEF S
  <2> QED
    BY <1>1, <1>2, SetInduction
<1> QED
  BY <1>3

(* What ParseBigInt computes of its digits.                                *)
Value(b, q) == FoldLeft(LAMBDA m, d : m * b + d, 0, q)

(* The fold takes the digits one at a time, from the left.                 *)
LEMMA FoldDigits ==
  ASSUME NEW b, NEW n \in Nat, NEW q, DOMAIN q = 1..n
  PROVE  \E v : /\ v[0] = 0
                /\ \A k \in 1..n : v[k] = v[k - 1] * b + q[k]
                /\ v[n] = Value(b, q)
<1> DEFINE h == CHOOSE h : h = [s \in SUBSET (1..n) |-> Step(b, q, h, s)]
           v == [k \in 0..n |-> h[1..k]]
<1>1. Value(b, q) = h[1..n]
  BY Zenon DEF Value, FoldLeft, MapThenFoldSet, Step
<1>2. h = [s \in SUBSET (1..n) |-> Step(b, q, h, s)]
  BY FoldExists, Zenon
<1> HIDE DEF h
<1>3. \A s \in SUBSET (1..n) : h[s] = Step(b, q, h, s)
  BY <1>2, Zenon
<1>4. v[0] = 0
  <2>1. {} \in SUBSET (1..n) /\ 1..0 = {}
    OBVIOUS
  <2>2. v[0] = h[{}]
    BY <2>1
  <2> QED
    BY <1>3, <2>1, <2>2 DEF Step
<1>5. ASSUME NEW k \in 1..n
      PROVE  v[k] = v[k - 1] * b + q[k]
  <2>1. /\ k \in 1..k /\ k - 1 \in 0..n /\ k \in 0..n
        /\ 1..k \in SUBSET (1..n)
    OBVIOUS
  <2>2. Max(1..k) = k
    <3>1. Max(1..k) \in 1..k /\ (1..k) \ {Max(1..k)} \subseteq 1..(Max(1..k) - 1)
      <4>1. k \in Nat /\ 1..k \in SUBSET (1..k) /\ 1..k # {}
        BY <2>1
      <4> QED
        BY <4>1, LargestPosition, Zenon
    <3> DEFINE top == Max(1..k)
    <3> HIDE DEF top
    <3>2. top \in 1..k /\ (1..k) \ {top} \subseteq 1..(top - 1)
      BY <3>1 DEF top
    <3>3. top = k
      <4> SUFFICES ASSUME top # k
                   PROVE  FALSE
        OBVIOUS
      <4>1. k \in 1..(top - 1)
        BY <2>1, <3>2
      <4> QED
        BY <3>2, <4>1
    <3> QED
      BY <3>3 DEF top
  <2>3. (1..k) \ {k} = 1..(k - 1)
    OBVIOUS
  <2>4. h[1..k] = h[1..(k - 1)] * b + q[k]
    BY <1>3, <2>1, <2>2, <2>3 DEF Step
  <2> QED
    BY <2>1, <2>4
<1>6. v[n] = Value(b, q)
  <2>1. v[n] = h[1..n]
    OBVIOUS
  <2> QED
    BY <1>1, <2>1, Zenon
<1> HIDE DEF v
<1> QED
  BY <1>4, <1>5, <1>6, Zenon

-----------------------------------------------------------------------------

(* The last digit of a number in either base, and what is before it.       *)
LEMMA LastDigit ==
  ASSUME NEW b \in {10, 16}, NEW n \in Nat
  PROVE  /\ n \div b \in Nat /\ n % b \in 0..(b - 1)
         /\ n >= b => n \div b < n /\ n \div b >= 1
<1>1. CASE b = 10
  BY <1>1
<1>2. CASE b = 16
  BY <1>2
<1> QED
  BY <1>1, <1>2

(* Both spellings are one recursion, from what one digit is spelled.       *)
Digits(b, one, f, n) == IF n < b THEN one[n] ELSE Append(f[n \div b], n % b)

(* The spellings of the numbers up to k.                                   *)
UpTo(b, one, k, g) == g = [n \in 0..k |-> Digits(b, one, g, n)]

(* The spellings of the numbers up to any n can be written down.           *)
LEMMA UpToExists ==
  ASSUME NEW b \in {10, 16}, NEW one, NEW n \in Nat
  PROVE  \E g : UpTo(b, one, n, g)
<1> DEFINE S == {k \in Nat : \E g : UpTo(b, one, k, g)}
<1>1. 0 \in S
  <2> DEFINE g == [m \in 0..0 |-> one[m]]
  <2>1. \A m \in 0..0 : Digits(b, one, g, m) = one[m]
    BY DEF Digits
  <2>2. UpTo(b, one, 0, g)
    BY <2>1, Zenon DEF UpTo
  <2> QED
    BY <2>2
<1>2. ASSUME NEW k \in Nat, k \in S
      PROVE  k + 1 \in S
  <2>1. PICK g : UpTo(b, one, k, g)
    BY <1>2
  <2> DEFINE h == [m \in 0..(k + 1) |-> Digits(b, one, g, m)]
  <2>2. ASSUME NEW m \in 0..(k + 1)
        PROVE  Digits(b, one, g, m) = Digits(b, one, h, m)
    <3>1. CASE m < b
      BY <3>1 DEF Digits
    <3>2. CASE ~(m < b)
      <4>1. m \div b \in 0..k /\ m \div b \in 0..(k + 1)
        <5>1. m \in Nat /\ m >= b
          BY <3>2
        <5>2. m \div b \in Nat /\ m \div b < m
          BY <5>1, LastDigit
        <5> QED
          BY <5>1, <5>2
      <4>2. h[m \div b] = g[m \div b]
        BY <2>1, <4>1, Zenon DEF UpTo
      <4> QED
        BY <3>2, <4>2 DEF Digits
    <3> QED
      BY <3>1, <3>2
  <2>3. UpTo(b, one, k + 1, h)
    BY <2>2, Zenon DEF UpTo
  <2> HIDE DEF h
  <2> QED
    BY <2>3
<1>3. n \in S
  <2> HIDE DEF S
  <2> QED
    BY <1>1, <1>2, SetInduction
<1> QED
  BY <1>3

(* Two of them agree where both are defined.                               *)
LEMMA UpToAgree ==
  ASSUME NEW b \in {10, 16}, NEW one, NEW k \in Nat, NEW l \in Nat, NEW g, NEW h,
         UpTo(b, one, k, g), UpTo(b, one, l, h)
  PROVE  \A n \in Nat : n <= k /\ n <= l => g[n] = h[n]
<1> DEFINE S == {n \in Nat : n <= k /\ n <= l => g[n] = h[n]}
<1>1. ASSUME NEW n \in Nat, \A m \in 0..(n - 1) : m \in S
      PROVE  n \in S
  <2> SUFFICES ASSUME n <= k, n <= l
               PROVE  g[n] = h[n]
    OBVIOUS
  <2>1. n \in 0..k /\ n \in 0..l
    OBVIOUS
  <2>2. g[n] = Digits(b, one, g, n) /\ h[n] = Digits(b, one, h, n)
    BY <2>1, Zenon DEF UpTo
  <2>3. CASE n < b
    BY <2>2, <2>3 DEF Digits
  <2>4. CASE ~(n < b)
    <3>1. n \div b \in Nat /\ n \div b < n
      BY <2>4, LastDigit
    <3> DEFINE m == n \div b
    <3>2. m \in S
      BY <1>1, <3>1
    <3>3. m <= k /\ m <= l
      <4> HIDE DEF m
      <4> QED
        BY <2>1, <3>1 DEF m
    <3>4. g[m] = h[m]
      BY <3>2, <3>3
    <3> QED
      BY <2>2, <2>4, <3>4 DEF Digits
  <2> QED
    BY <2>3, <2>4
<1> HIDE DEF S
<1>2. Nat \subseteq S
  BY <1>1, StrongInduction
<1> QED
  BY <1>2 DEF S

(* And so those of all numbers: the recursion has a solution.              *)
LEMMA SpellingExists ==
  ASSUME NEW b \in {10, 16}, NEW one
  PROVE  \E f : f = [n \in Nat |-> Digits(b, one, f, n)]
<1> DEFINE part(n) == CHOOSE g : UpTo(b, one, n, g)
           f == [n \in Nat |-> part(n)[n]]
<1>1. \A n \in Nat : UpTo(b, one, n, part(n))
  BY UpToExists, Zenon
<1> HIDE DEF part
<1>2. ASSUME NEW n \in Nat
      PROVE  f[n] = Digits(b, one, f, n)
  <2>1. n \in 0..n
    OBVIOUS
  <2>2. part(n)[n] = Digits(b, one, part(n), n)
    BY <1>1, <2>1, Zenon DEF UpTo
  <2>3. CASE n < b
    BY <2>2, <2>3 DEF Digits
  <2>4. CASE ~(n < b)
    <3> DEFINE m == n \div b
    <3>1. m \in Nat /\ m < n
      BY <2>4, LastDigit
    <3> HIDE DEF m
    <3>2. m <= m /\ m <= n
      BY <3>1
    <3>3. part(m)[m] = part(n)[m]
      <4>1. UpTo(b, one, m, part(m)) /\ UpTo(b, one, n, part(n))
        BY <1>1, <3>1
      <4>2. \A i \in Nat : i <= m /\ i <= n => part(m)[i] = part(n)[i]
        BY <3>1, <4>1, UpToAgree
      <4> QED
        BY <3>1, <3>2, <4>2
    <3>4. f[m] = part(n)[m]
      BY <3>1, <3>3
    <3> QED
      BY <2>2, <2>4, <3>4 DEF Digits, m
  <2> QED
    BY <2>3, <2>4
<1>3. f = [n \in Nat |-> Digits(b, one, f, n)]
  BY <1>2, Zenon
<1> HIDE DEF f
<1> QED
  BY <1>3

-----------------------------------------------------------------------------

(* Decimal is the function its definition says.                            *)
LEMMA DecimalDef ==
  \A n \in Nat : Decimal[n] = IF n < 10 THEN <<n>> ELSE Append(Decimal[n \div 10], n % 10)
<1> DEFINE one == [n \in 0..9 |-> <<n>>]
           E(f) == [n \in Nat |-> IF n < 10 THEN <<n>> ELSE Append(f[n \div 10], n % 10)]
<1>1. ASSUME NEW f, NEW n \in Nat
      PROVE  Digits(10, one, f, n) = IF n < 10 THEN <<n>> ELSE Append(f[n \div 10], n % 10)
  BY DEF Digits
<1>2. \A f : [n \in Nat |-> Digits(10, one, f, n)] = E(f)
  BY <1>1, Zenon
<1>3. \E f : f = [n \in Nat |-> Digits(10, one, f, n)]
  <2> HIDE DEF one
  <2> QED
    BY SpellingExists
<1>4. \E f : f = E(f)
  <2>1. PICK f : f = [n \in Nat |-> Digits(10, one, f, n)]
    BY <1>3
  <2>2. f = E(f)
    <3> HIDE DEF E, one
    <3> QED
      BY <1>2, <2>1
  <2> HIDE DEF E
  <2> QED
    BY <2>2
<1>5. Decimal = E(Decimal)
  BY <1>4, Zenon DEF Decimal
<1> QED
  BY <1>5, Zenon

(* The same of hexadecimal spellings.                                      *)
LEMMA HexDef ==
  \A n \in Nat : Hex[n] = IF n < 16 THEN <<0, n>> ELSE Append(Hex[n \div 16], n % 16)
<1> DEFINE one == [n \in 0..15 |-> <<0, n>>]
           E(f) == [n \in Nat |-> IF n < 16 THEN <<0, n>> ELSE Append(f[n \div 16], n % 16)]
<1>1. ASSUME NEW f, NEW n \in Nat
      PROVE  Digits(16, one, f, n) = IF n < 16 THEN <<0, n>> ELSE Append(f[n \div 16], n % 16)
  BY DEF Digits
<1>2. \A f : [n \in Nat |-> Digits(16, one, f, n)] = E(f)
  BY <1>1, Zenon
<1>3. \E f : f = [n \in Nat |-> Digits(16, one, f, n)]
  <2> HIDE DEF one
  <2> QED
    BY SpellingExists
<1>4. \E f : f = E(f)
  <2>1. PICK f : f = [n \in Nat |-> Digits(16, one, f, n)]
    BY <1>3
  <2>2. f = E(f)
    <3> HIDE DEF E, one
    <3> QED
      BY <1>2, <2>1
  <2> HIDE DEF E
  <2> QED
    BY <2>2
<1>5. Hex = E(Hex)
  BY <1>4, Zenon DEF Hex
<1> QED
  BY <1>5, Zenon

(* A spelling is a sequence of digits of its base, one at least; no        *)
(* decimal one of two or more starts with a zero.                          *)
LEMMA DecimalType ==
  \A n \in Nat : /\ Decimal[n] \in Seq(0..9) /\ Len(Decimal[n]) >= 1
                 /\ Decimal[n][1] = 0 => n = 0
                 /\ Len(Decimal[n]) > 1 => Decimal[n][1] # 0
<1> DEFINE Shaped(n) == /\ Decimal[n] \in Seq(0..9) /\ Len(Decimal[n]) >= 1
                        /\ Decimal[n][1] = 0 => n = 0
                        /\ Len(Decimal[n]) > 1 => Decimal[n][1] # 0
           S == {n \in Nat : Shaped(n)}
<1>1. ASSUME NEW n \in Nat, \A m \in 0..(n - 1) : m \in S
      PROVE  n \in S
  <2>1. CASE n < 10
    <3>1. Decimal[n] = <<n>>
      BY <2>1, DecimalDef
    <3>2. n \in 0..9
      BY <2>1
    <3>3. Shaped(n)
      BY <3>1, <3>2
    <3> QED
      BY <3>3
  <2>2. CASE ~(n < 10)
    <3> DEFINE m == n \div 10
               d == n % 10
    <3>1. m \in 0..(n - 1) /\ m \in Nat /\ m # 0 /\ d \in 0..9
      BY <2>2
    <3>2. Decimal[n] = Append(Decimal[m], d)
      BY <2>2, DecimalDef
    <3>3. Shaped(m)
      BY <1>1, <3>1
    <3> HIDE DEF m, d
    <3>4. /\ Decimal[n] \in Seq(0..9) /\ Len(Decimal[n]) >= 1
          /\ Decimal[n][1] = Decimal[m][1]
      BY <3>1, <3>2, <3>3
    <3>5. Shaped(n)
      BY <3>1, <3>3, <3>4
    <3> QED
      BY <3>5
  <2> QED
    BY <2>1, <2>2
<1> HIDE DEF S
<1>2. Nat \subseteq S
  BY <1>1, StrongInduction
<1> QED
  BY <1>2 DEF S

(* Hexadecimal spellings, which have no such rule.                         *)
LEMMA HexType ==
  \A n \in Nat : Hex[n] \in Seq(0..15) /\ Len(Hex[n]) >= 2
<1> DEFINE S == {n \in Nat : Hex[n] \in Seq(0..15) /\ Len(Hex[n]) >= 2}
<1>1. ASSUME NEW n \in Nat, \A m \in 0..(n - 1) : m \in S
      PROVE  n \in S
  <2>1. CASE n < 16
    <3>1. Hex[n] = <<0, n>>
      BY <2>1, HexDef
    <3>2. n \in 0..15
      BY <2>1
    <3>3. Hex[n] \in Seq(0..15) /\ Len(Hex[n]) >= 2
      BY <3>1, <3>2
    <3> QED
      BY <3>3
  <2>2. CASE ~(n < 16)
    <3>1. n \div 16 \in 0..(n - 1) /\ n % 16 \in 0..15
      BY <2>2
    <3>2. Hex[n] = Append(Hex[n \div 16], n % 16)
      BY <2>2, HexDef
    <3>3. Hex[n \div 16] \in Seq(0..15) /\ Len(Hex[n \div 16]) >= 2
      BY <1>1, <3>1
    <3>4. Hex[n] \in Seq(0..15) /\ Len(Hex[n]) >= 2
      <4> QED
        BY <3>1, <3>2, <3>3
    <3> QED
      BY <3>4
  <2> QED
    BY <2>1, <2>2
<1> HIDE DEF S
<1>2. Nat \subseteq S
  BY <1>1, StrongInduction
<1> QED
  BY <1>2 DEF S

-----------------------------------------------------------------------------

(* Prefixes of a sequence, one longer at a time.                           *)
LEMMA PrefixGrows ==
  ASSUME NEW T, NEW q \in Seq(T), NEW k \in 1..(Len(q) - 1)
  PROVE  SubSeq(q, 1, k + 1) = Append(SubSeq(q, 1, k), q[k + 1])
OBVIOUS

(* The shortest prefix and the longest.                                    *)
LEMMA FirstAndWhole ==
  ASSUME NEW T, NEW q \in Seq(T), Len(q) >= 1
  PROVE  SubSeq(q, 1, 1) = <<q[1]>> /\ SubSeq(q, 1, Len(q)) = q
<1>1. SubSeq(q, 1, 1) = <<q[1]>>
  <2> DEFINE p == SubSeq(q, 1, 1)
  <2>1. 1 \in Int /\ \A i \in 1..1 : q[i] \in T
    OBVIOUS
  <2>2. p \in Seq(T) /\ Len(p) = 1 /\ p[1] = q[1]
    OBVIOUS
  <2> HIDE DEF p
  <2>3. p = <<q[1]>>
    BY <2>2
  <2> QED
    BY <2>3 DEF p
<1> QED
  BY <1>1, SubSeqFull

(* The number that n digits make, one digit after the other.               *)
Makes(b, n, q, v) == v[0] = 0 /\ \A k \in 1..n : v[k] = v[k - 1] * b + q[k]

(* The first k digits spell what they make; it is not zero if more follow. *)
DecimalSoFar(n, q, v, k) ==
  /\ v[k] \in Nat
  /\ n > 1 => v[k] >= 1
  /\ Decimal[v[k]] = SubSeq(q, 1, k)

(* The first digit of a decimal text spells what it makes.                 *)
LEMMA DecimalFirst ==
  ASSUME NEW q \in Seq(0..9), NEW n \in Nat, n = Len(q), n >= 1, n > 1 => q[1] # 0,
         NEW v, Makes(10, n, q, v)
  PROVE  DecimalSoFar(n, q, v, 1)
<1>1. q[1] \in 0..9
  OBVIOUS
<1>2. v[1] = q[1]
  BY <1>1 DEF Makes
<1>3. Decimal[q[1]] = <<q[1]>>
  <2> DEFINE d == q[1]
  <2>1. d \in Nat /\ d < 10
    BY <1>1
  <2> HIDE DEF d
  <2>2. Decimal[d] = <<d>>
    BY <2>1, DecimalDef
  <2> QED
    BY <2>2 DEF d
<1>4. SubSeq(q, 1, 1) = <<q[1]>>
  BY FirstAndWhole
<1>5. v[1] \in Nat /\ (n > 1 => v[1] >= 1)
  BY <1>1, <1>2
<1> QED
  BY <1>2, <1>3, <1>4, <1>5 DEF DecimalSoFar

(* And so does each longer prefix: without a leading zero no digit is lost *)
(* to the division.                                                        *)
LEMMA DecimalNext ==
  ASSUME NEW q \in Seq(0..9), NEW n \in Nat, n = Len(q),
         NEW v, Makes(10, n, q, v), NEW k \in 1..(n - 1), DecimalSoFar(n, q, v, k)
  PROVE  DecimalSoFar(n, q, v, k + 1)
<1> DEFINE d == q[k + 1]
           x == v[k]
           y == v[k + 1]
<1>1. d \in 0..9
  OBVIOUS
<1>2. y = x * 10 + d
  BY DEF Makes
<1>3. x \in Nat /\ x >= 1
  BY DEF DecimalSoFar
<1>4. SubSeq(q, 1, k + 1) = Append(Decimal[x], d)
  BY PrefixGrows DEF DecimalSoFar
<1> HIDE DEF d, x, y
<1>5. y \in Nat /\ ~(y < 10) /\ y \div 10 = x /\ y % 10 = d
  BY <1>1, <1>2, <1>3
<1>6. Decimal[y] = Append(Decimal[x], d)
  BY <1>5, DecimalDef
<1>7. y >= 1
  BY <1>5
<1> QED
  BY <1>4, <1>5, <1>6, <1>7 DEF DecimalSoFar, y

(* A decimal text that does not start with a zero, unless it is all of it, *)
(* spells the number its digits make.                                      *)
LEMMA DecimalSpells ==
  ASSUME NEW q \in Seq(0..9), NEW n \in Nat, n = Len(q), n >= 1, n > 1 => q[1] # 0,
         NEW v, Makes(10, n, q, v)
  PROVE  v[n] \in Nat /\ q = Decimal[v[n]]
<1> DEFINE S == {k \in Nat : k \in 1..n => DecimalSoFar(n, q, v, k)}
<1>1. 0 \in S
  OBVIOUS
<1>2. ASSUME NEW k \in Nat, k \in S
      PROVE  k + 1 \in S
  <2> SUFFICES ASSUME k + 1 \in 1..n
               PROVE  DecimalSoFar(n, q, v, k + 1)
    OBVIOUS
  <2>1. CASE k = 0
    BY <2>1, DecimalFirst
  <2>2. CASE k # 0
    <3>1. k \in 1..n /\ k \in 1..(n - 1)
      BY <2>2
    <3>2. DecimalSoFar(n, q, v, k)
      BY <1>2, <3>1
    <3> QED
      BY <3>1, <3>2, DecimalNext
  <2> QED
    BY <2>1, <2>2
<1>3. n \in S
  <2> HIDE DEF S
  <2> QED
    BY <1>1, <1>2, SetInduction
<1>4. DecimalSoFar(n, q, v, n)
  BY <1>3
<1>5. SubSeq(q, 1, n) = q
  BY SubSeqFull
<1> QED
  BY <1>4, <1>5 DEF DecimalSoFar

(* Leading zeros.                                                          *)
Zeros(z) == [i \in 1..z |-> 0]

(* A zero that is followed by a digit is one more leading zero.            *)
LEMMA ZerosGrow ==
  ASSUME NEW z \in Nat, NEW d
  PROVE  Append(Zeros(z) \o <<0>>, d) = Zeros(z + 1) \o <<d>>
BY DEF Zeros

(* A digit behind the leading zeros and the spelling is behind the         *)
(* spelling.                                                               *)
LEMMA AppendInside ==
  ASSUME NEW z \in Nat, NEW s \in Seq(0..15), Len(s) >= 1, NEW d \in 0..15
  PROVE  Append(Zeros(z) \o Tail(s), d) = Zeros(z) \o Tail(Append(s, d))
BY DEF Zeros

(* How one hexadecimal digit is spelled, without the zero that Hex puts    *)
(* before it.                                                              *)
LEMMA HexDigit ==
  ASSUME NEW d \in 0..15
  PROVE  Hex[d] = <<0, d>> /\ Tail(Hex[d]) = <<d>>
<1>1. d \in Nat /\ d < 16
  OBVIOUS
<1>2. Hex[d] = <<0, d>>
  BY <1>1, HexDef
<1> QED
  BY <1>2

(* The first k digits spell what they make, behind some leading zeros.     *)
HexSoFar(q, v, k) ==
  /\ v[k] \in Nat
  /\ \E z \in 0..k : SubSeq(q, 1, k) = Zeros(z) \o Tail(Hex[v[k]])

(* The first digit of a hexadecimal text spells what it makes.             *)
LEMMA HexFirst ==
  ASSUME NEW q \in Seq(0..15), NEW n \in Nat, n = Len(q), n >= 1,
         NEW v, Makes(16, n, q, v)
  PROVE  HexSoFar(q, v, 1)
<1>1. q[1] \in 0..15
  OBVIOUS
<1>2. v[1] = q[1]
  BY <1>1 DEF Makes
<1>3. Tail(Hex[q[1]]) = <<q[1]>>
  BY <1>1, HexDigit
<1>4. SubSeq(q, 1, 1) = <<q[1]>>
  BY FirstAndWhole
<1>5. Zeros(0) \o <<q[1]>> = <<q[1]>>
  BY DEF Zeros
<1>6. SubSeq(q, 1, 1) = Zeros(0) \o Tail(Hex[v[1]])
  BY <1>2, <1>3, <1>4, <1>5
<1>7. 0 \in 0..1 /\ v[1] \in Nat
  BY <1>1, <1>2
<1> QED
  BY <1>6, <1>7, Zenon DEF HexSoFar

(* And so does each longer prefix: while the digits are zeros the leading  *)
(* zeros grow, then the spelling does.                                     *)
LEMMA HexNext ==
  ASSUME NEW q \in Seq(0..15), NEW n \in Nat, n = Len(q),
         NEW v, Makes(16, n, q, v), NEW k \in 1..(n - 1), HexSoFar(q, v, k)
  PROVE  HexSoFar(q, v, k + 1)
<1> DEFINE d == q[k + 1]
           x == v[k]
           y == v[k + 1]
<1>1. d \in 0..15
  OBVIOUS
<1>2. y = x * 16 + d
  BY DEF Makes
<1>3. x \in Nat
  BY DEF HexSoFar
<1>4. PICK z \in 0..k : SubSeq(q, 1, k) = Zeros(z) \o Tail(Hex[x])
  BY DEF HexSoFar
<1>5. SubSeq(q, 1, k + 1) = Append(Zeros(z) \o Tail(Hex[x]), d)
  BY <1>4, PrefixGrows
<1> HIDE DEF d, x, y
<1>6. y \in Nat /\ z \in Nat /\ z \in 0..(k + 1) /\ z + 1 \in 0..(k + 1)
  BY <1>1, <1>2, <1>3
<1>7. CASE x = 0
  <2>1. Tail(Hex[x]) = <<0>>
    BY <1>7, HexDigit
  <2>2. y = d
    BY <1>1, <1>2, <1>7
  <2>3. Tail(Hex[y]) = <<d>>
    BY <1>1, <2>2, HexDigit
  <2>4. Append(Zeros(z) \o <<0>>, d) = Zeros(z + 1) \o <<d>>
    BY <1>6, ZerosGrow
  <2>5. SubSeq(q, 1, k + 1) = Zeros(z + 1) \o Tail(Hex[y])
    BY <1>5, <2>1, <2>3, <2>4
  <2> QED
    BY <1>6, <2>5, Zenon DEF HexSoFar, y
<1>8. CASE x # 0
  <2>1. ~(y < 16) /\ y \div 16 = x /\ y % 16 = d
    BY <1>1, <1>2, <1>3, <1>8
  <2>2. Hex[y] = Append(Hex[x], d)
    BY <1>6, <2>1, HexDef
  <2>3. Hex[x] \in Seq(0..15) /\ Len(Hex[x]) >= 1
    <3>1. Hex[x] \in Seq(0..15) /\ Len(Hex[x]) >= 2
      BY <1>3, HexType
    <3> QED
      BY <3>1
  <2>4. Append(Zeros(z) \o Tail(Hex[x]), d) = Zeros(z) \o Tail(Append(Hex[x], d))
    <3> DEFINE s == Hex[x]
    <3>1. z \in Nat /\ s \in Seq(0..15) /\ Len(s) >= 1 /\ d \in 0..15
      BY <1>1, <1>6, <2>3
    <3> HIDE DEF s
    <3>2. Append(Zeros(z) \o Tail(s), d) = Zeros(z) \o Tail(Append(s, d))
      BY <3>1, AppendInside
    <3> QED
      BY <3>2 DEF s
  <2>5. SubSeq(q, 1, k + 1) = Zeros(z) \o Tail(Hex[y])
    BY <1>5, <2>2, <2>4
  <2> QED
    BY <1>6, <2>5, Zenon DEF HexSoFar, y
<1> QED
  BY <1>7, <1>8

(* A hexadecimal text spells the number its digits make, behind leading    *)
(* zeros.                                                                  *)
LEMMA HexSpells ==
  ASSUME NEW q \in Seq(0..15), NEW n \in Nat, n = Len(q), n >= 1,
         NEW v, Makes(16, n, q, v)
  PROVE  v[n] \in Nat /\ \E z \in 0..n : q = Zeros(z) \o Tail(Hex[v[n]])
<1> DEFINE S == {k \in Nat : k \in 1..n => HexSoFar(q, v, k)}
<1>1. 0 \in S
  OBVIOUS
<1>2. ASSUME NEW k \in Nat, k \in S
      PROVE  k + 1 \in S
  <2> SUFFICES ASSUME k + 1 \in 1..n
               PROVE  HexSoFar(q, v, k + 1)
    OBVIOUS
  <2>1. CASE k = 0
    BY <2>1, HexFirst
  <2>2. CASE k # 0
    <3>1. k \in 1..n /\ k \in 1..(n - 1)
      BY <2>2
    <3>2. HexSoFar(q, v, k)
      BY <1>2, <3>1
    <3> QED
      BY <3>1, <3>2, HexNext
  <2> QED
    BY <2>1, <2>2
<1>3. n \in S
  <2> HIDE DEF S
  <2> QED
    BY <1>1, <1>2, SetInduction
<1>4. HexSoFar(q, v, n)
  BY <1>3
<1>5. SubSeq(q, 1, n) = q
  BY SubSeqFull
<1> QED
  BY <1>4, <1>5, Zenon DEF HexSoFar

(* The digit test of parseBigInt is a type.                                *)
LEMMA DigitsBelow ==
  ASSUME NEW b \in {10, 16}, NEW q \in Seq(Nat), \A i \in DOMAIN q : ~(q[i] >= b)
  PROVE  q \in Seq(0..(b - 1))
<1>1. ASSUME NEW i \in 1..Len(q)
      PROVE  q[i] \in 0..(b - 1)
  <2>1. q[i] \in Nat
    OBVIOUS
  <2>2. ~(q[i] >= b)
    OBVIOUS
  <2> QED
    BY <2>1, <2>2
<1> QED
  BY <1>1

(* And digits of that type pass the test.                                  *)
LEMMA DigitsAreBelow ==
  ASSUME NEW b \in {10, 16}, NEW q \in Seq(0..(b - 1)), Len(q) >= 1
  PROVE  q # << >> /\ \A i \in DOMAIN q : ~(q[i] >= b)
<1>1. ASSUME NEW i \in 1..Len(q)
      PROVE  ~(q[i] >= b)
  <2>1. q[i] \in 0..(b - 1)
    OBVIOUS
  <2> QED
    BY <2>1
<1> QED
  BY <1>1

(* The number parseBigInt computes of a decimal text is the one it spells. *)
LEMMA DecimalValue ==
  ASSUME NEW q \in Seq(0..9), q # << >>, Len(q) > 1 => q[1] # 0
  PROVE  Value(10, q) \in Nat /\ q = Decimal[Value(10, q)]
<1> DEFINE n == Len(q)
<1>1. n \in Nat /\ n >= 1 /\ DOMAIN q = 1..n
  OBVIOUS
<1>2. PICK v : Makes(10, n, q, v) /\ v[n] = Value(10, q)
  <2> HIDE DEF n
  <2>1. PICK v : /\ v[0] = 0
                 /\ \A k \in 1..n : v[k] = v[k - 1] * 10 + q[k]
                 /\ v[n] = Value(10, q)
    BY <1>1, FoldDigits
  <2>2. Makes(10, n, q, v)
    BY <2>1, Zenon DEF Makes
  <2> QED
    BY <2>1, <2>2
<1>3. v[n] \in Nat /\ q = Decimal[v[n]]
  BY <1>1, <1>2, DecimalSpells
<1> QED
  BY <1>2, <1>3

(* The same of a hexadecimal text.                                         *)
LEMMA HexValue ==
  ASSUME NEW q \in Seq(0..15), q # << >>
  PROVE  /\ Value(16, q) \in Nat
         /\ \E z \in 0..Len(q) : q = Zeros(z) \o Tail(Hex[Value(16, q)])
<1> DEFINE n == Len(q)
<1>1. n \in Nat /\ n >= 1 /\ DOMAIN q = 1..n
  OBVIOUS
<1>2. PICK v : Makes(16, n, q, v) /\ v[n] = Value(16, q)
  <2> HIDE DEF n
  <2>1. PICK v : /\ v[0] = 0
                 /\ \A k \in 1..n : v[k] = v[k - 1] * 16 + q[k]
                 /\ v[n] = Value(16, q)
    BY <1>1, FoldDigits
  <2>2. Makes(16, n, q, v)
    BY <2>1, Zenon DEF Makes
  <2> QED
    BY <2>1, <2>2
<1>3. v[n] \in Nat /\ \E z \in 0..n : q = Zeros(z) \o Tail(Hex[v[n]])
  BY <1>1, <1>2, HexSpells
<1> QED
  BY <1>2, <1>3, Zenon

(* parseBigInt reads a number off a text that spells it, or refuses it.    *)
LEMMA SpellsWhatItParses ==
  ASSUME NEW t, t.digits \in Seq(Nat), t.prefix \in {"none", "0x"}, ParseBigInt(t) # Bad
  PROVE  ParseBigInt(t) \in Nat /\ Spells(t, ParseBigInt(t))
<1> DEFINE q == t.digits
<1>1. /\ q # << >>
      /\ \A i \in DOMAIN q : ~(q[i] >= Base(t))
      /\ t.prefix = "none" /\ Len(q) > 1 => q[1] # 0
      /\ ParseBigInt(t) = Value(Base(t), q)
  BY Zenon DEF ParseBigInt, Value
<1>2. CASE t.prefix = "none"
  <2>1. Base(t) = 10
    BY <1>2 DEF Base
  <2>2. q \in Seq(0..9)
    BY <1>1, <2>1, DigitsBelow
  <2>3. Value(10, q) \in Nat /\ q = Decimal[Value(10, q)]
    BY <1>1, <1>2, <2>2, DecimalValue
  <2> QED
    BY <1>1, <1>2, <2>1, <2>3, Zenon DEF Spells
<1>3. CASE t.prefix = "0x"
  <2>1. Base(t) = 16
    BY <1>3 DEF Base
  <2>2. q \in Seq(0..15)
    BY <1>1, <2>1, DigitsBelow
  <2>3. /\ Value(16, q) \in Nat
        /\ \E z \in 0..Len(q) : q = Zeros(z) \o Tail(Hex[Value(16, q)])
    BY <1>1, <2>2, HexValue
  <2>4. t.prefix # "none"
    BY <1>3
  <2> QED
    BY <1>1, <2>1, <2>3, <2>4, Zenon DEF Spells, Zeros
<1> QED
  BY <1>2, <1>3

-----------------------------------------------------------------------------

(* One more digit multiplies by the base and adds the digit.               *)
LEMMA ValueAppend ==
  ASSUME NEW b, NEW T, NEW q \in Seq(T), NEW d \in T
  PROVE  Value(b, Append(q, d)) = Value(b, q) * b + d
<1> DEFINE n == Len(q)
           p == Append(q, d)
<1>1. /\ n \in Nat /\ n + 1 \in Nat /\ DOMAIN q = 1..n /\ DOMAIN p = 1..(n + 1)
      /\ p[n + 1] = d /\ \A k \in 1..n : p[k] = q[k]
  OBVIOUS
<1> HIDE DEF n, p
<1>2. PICK v : /\ v[0] = 0
               /\ \A k \in 1..n : v[k] = v[k - 1] * b + q[k]
               /\ v[n] = Value(b, q)
  BY <1>1, FoldDigits
<1>3. PICK w : /\ w[0] = 0
               /\ \A k \in 1..(n + 1) : w[k] = w[k - 1] * b + p[k]
               /\ w[n + 1] = Value(b, p)
  BY <1>1, FoldDigits
<1> DEFINE S == {k \in Nat : k \in 0..n => w[k] = v[k]}
<1>4. 0 \in S
  BY <1>2, <1>3
<1>5. ASSUME NEW k \in Nat, k \in S
      PROVE  k + 1 \in S
  <2> SUFFICES ASSUME k + 1 \in 0..n
               PROVE  w[k + 1] = v[k + 1]
    OBVIOUS
  <2>1. k + 1 \in 1..n /\ k + 1 \in 1..(n + 1) /\ k \in 0..n /\ (k + 1) - 1 = k
    BY <1>1
  <2>2. w[k] = v[k]
    BY <1>5, <2>1
  <2>3. w[k + 1] = w[k] * b + p[k + 1]
    BY <1>3, <2>1
  <2>4. v[k + 1] = v[k] * b + q[k + 1]
    BY <1>2, <2>1
  <2>5. p[k + 1] = q[k + 1]
    BY <1>1, <2>1
  <2> QED
    BY <2>2, <2>3, <2>4, <2>5, Zenon
<1>6. n \in S
  <2> HIDE DEF S
  <2> QED
    BY <1>1, <1>4, <1>5, SetInduction
<1>7. w[n] = v[n]
  BY <1>1, <1>6
<1>8. w[n + 1] = w[n] * b + p[n + 1]
  <2>1. n + 1 \in 1..(n + 1) /\ (n + 1) - 1 = n
    BY <1>1
  <2> QED
    BY <1>3, <2>1
<1> QED
  BY <1>1, <1>2, <1>3, <1>7, <1>8, Zenon DEF p

(* One digit is the number itself.                                         *)
LEMMA ValueOne ==
  ASSUME NEW b \in Int, NEW d \in Int
  PROVE  Value(b, <<d>>) = d
<1> DEFINE q == <<d>>
<1>1. 1 \in Nat /\ DOMAIN q = 1..1 /\ q[1] = d
  OBVIOUS
<1> HIDE DEF q
<1>2. PICK v : /\ v[0] = 0
               /\ \A k \in 1..1 : v[k] = v[k - 1] * b + q[k]
               /\ v[1] = Value(b, q)
  BY <1>1, FoldDigits
<1>3. v[1] = v[0] * b + d
  BY <1>1, <1>2
<1>4. v[1] = d
  BY <1>2, <1>3
<1> QED
  BY <1>2, <1>4 DEF q

(* The fold is the inverse of the decimal spelling.                        *)
LEMMA DecimalReads == \A n \in Nat : Value(10, Decimal[n]) = n
<1> DEFINE S == {n \in Nat : Value(10, Decimal[n]) = n}
<1>1. ASSUME NEW n \in Nat, \A m \in 0..(n - 1) : m \in S
      PROVE  n \in S
  <2>1. CASE n < 10
    <3>1. Decimal[n] = <<n>>
      BY <2>1, DecimalDef
    <3>2. Value(10, <<n>>) = n
      BY ValueOne
    <3> QED
      BY <3>1, <3>2
  <2>2. CASE ~(n < 10)
    <3> DEFINE m == n \div 10
               d == n % 10
    <3>1. m \in 0..(n - 1) /\ m \in Nat /\ d \in 0..9 /\ m * 10 + d = n
      BY <2>2
    <3>2. Decimal[n] = Append(Decimal[m], d)
      BY <2>2, DecimalDef
    <3>3. Value(10, Decimal[m]) = m
      BY <1>1, <3>1
    <3> HIDE DEF m, d
    <3>4. Decimal[m] \in Seq(0..9)
      BY <3>1, DecimalType
    <3>5. Value(10, Append(Decimal[m], d)) = Value(10, Decimal[m]) * 10 + d
      BY <3>1, <3>4, ValueAppend
    <3> QED
      BY <3>1, <3>2, <3>3, <3>5
  <2> QED
    BY <2>1, <2>2
<1> HIDE DEF S
<1>2. Nat \subseteq S
  BY <1>1, StrongInduction
<1> QED
  BY <1>2 DEF S

(* Leading zeros as a sequence, and one more of them.                      *)
LEMMA ZerosAppend ==
  ASSUME NEW z \in Nat
  PROVE  /\ Zeros(z) \in Seq(0..15) /\ Len(Zeros(z)) = z
         /\ Zeros(z + 1) = Append(Zeros(z), 0)
         /\ \A d \in 0..15 : Zeros(z) \o <<d>> = Append(Zeros(z), d)
BY DEF Zeros

(* Zeros are worth nothing, however many.                                  *)
LEMMA ZerosValue == \A z \in Nat : Value(16, Zeros(z)) = 0
<1> DEFINE S == {z \in Nat : Value(16, Zeros(z)) = 0}
<1>1. 0 \in S
  <2> DEFINE q == Zeros(0)
           n == 0
  <2>1. n \in Nat /\ DOMAIN q = 1..n
    BY DEF Zeros
  <2>2. n = 0
    OBVIOUS
  <2> HIDE DEF q, n
  <2>3. PICK v : /\ v[0] = 0
                 /\ \A k \in 1..n : v[k] = v[k - 1] * 16 + q[k]
                 /\ v[n] = Value(16, q)
    BY <2>1, FoldDigits
  <2>4. Value(16, q) = 0
    BY <2>2, <2>3
  <2> QED
    BY <2>4 DEF q
<1>2. ASSUME NEW z \in Nat, z \in S
      PROVE  z + 1 \in S
  <2> DEFINE q == Zeros(z)
  <2>1. q \in Seq(0..15) /\ Zeros(z + 1) = Append(q, 0)
    BY ZerosAppend, Zenon
  <2>2. Value(16, q) = 0
    BY <1>2
  <2> HIDE DEF q
  <2>3. Value(16, Append(q, 0)) = Value(16, q) * 16 + 0
    <3>1. 0 \in 0..15
      OBVIOUS
    <3> QED
      BY <2>1, <3>1, ValueAppend
  <2>4. Value(16, Append(q, 0)) = 0
    BY <2>2, <2>3
  <2>5. Value(16, Zeros(z + 1)) = 0
    BY <2>1, <2>4, Zenon
  <2> QED
    BY <2>5
<1> HIDE DEF S
<1>3. Nat \subseteq S
  BY <1>1, <1>2, SetInduction
<1> QED
  BY <1>3 DEF S

(* The fold is the inverse of the hexadecimal spelling, behind any number  *)
(* of leading zeros.                                                       *)
LEMMA HexReads ==
  ASSUME NEW z \in Nat
  PROVE  \A n \in Nat : Value(16, Zeros(z) \o Tail(Hex[n])) = n
<1> DEFINE V(n) == Value(16, Zeros(z) \o Tail(Hex[n]))
           S == {n \in Nat : V(n) = n}
<1>1. ASSUME NEW n \in Nat, \A m \in 0..(n - 1) : m \in S
      PROVE  n \in S
  <2>1. CASE n < 16
    <3>1. n \in 0..15
      BY <2>1
    <3>2. Tail(Hex[n]) = <<n>>
      BY <3>1, HexDigit
    <3>3. Zeros(z) \o <<n>> = Append(Zeros(z), n) /\ Zeros(z) \in Seq(0..15)
      BY <3>1, ZerosAppend
    <3>4. Value(16, Append(Zeros(z), n)) = Value(16, Zeros(z)) * 16 + n
      BY <3>1, <3>3, ValueAppend
    <3>5. Value(16, Zeros(z)) = 0
      BY ZerosValue
    <3>6. V(n) = Value(16, Zeros(z)) * 16 + n
      BY <3>2, <3>3, <3>4, Zenon
    <3>7. V(n) = n
      <4> HIDE DEF V
      <4> QED
        BY <3>1, <3>5, <3>6
    <3> QED
      BY <3>7
  <2>2. CASE ~(n < 16)
    <3> DEFINE m == n \div 16
               d == n % 16
               s == Zeros(z) \o Tail(Hex[m])
    <3>1. m \in 0..(n - 1) /\ m \in Nat /\ d \in 0..15 /\ m * 16 + d = n
      BY <2>2
    <3>2. Hex[n] = Append(Hex[m], d)
      BY <2>2, HexDef
    <3>3. V(m) = m
      BY <1>1, <3>1
    <3> HIDE DEF m, d
    <3>4. Hex[m] \in Seq(0..15) /\ Len(Hex[m]) >= 1
      <4>1. Hex[m] \in Seq(0..15) /\ Len(Hex[m]) >= 2
        BY <3>1, HexType
      <4> QED
        BY <4>1
    <3>5. Zeros(z) \o Tail(Hex[n]) = Append(s, d)
      BY <3>1, <3>2, <3>4, AppendInside
    <3>6. s \in Seq(0..15)
      <4>1. Zeros(z) \in Seq(0..15)
        BY ZerosAppend
      <4> QED
        BY <3>4, <4>1
    <3> HIDE DEF s
    <3>7. Value(16, Append(s, d)) = Value(16, s) * 16 + d
      BY <3>1, <3>6, ValueAppend
    <3>8. V(n) = n
      BY <3>1, <3>3, <3>5, <3>7 DEF s
    <3> QED
      BY <3>8
  <2> QED
    BY <2>1, <2>2
<1> HIDE DEF S
<1>2. Nat \subseteq S
  BY <1>1, StrongInduction
<1> QED
  BY <1>2 DEF S

(* parseBigInt accepts every unsigned spelling of a number, and reads that *)
(* number off it.                                                          *)
LEMMA ParsesWhatSpells ==
  ASSUME NEW t, t.digits \in Seq(Nat), t.prefix \in {"none", "0x"}, ~t.signed,
         NEW n \in Nat, Spells(t, n)
  PROVE  ParseBigInt(t) = n
<1> DEFINE q == t.digits
<1>1. ASSUME q # << >>,
             \A i \in DOMAIN q : ~(q[i] >= Base(t)),
             t.prefix = "none" /\ Len(q) > 1 => q[1] # 0
      PROVE  ParseBigInt(t) = Value(Base(t), q)
  BY <1>1, Zenon DEF ParseBigInt, Value
<1>2. CASE t.prefix = "none"
  <2>1. Base(t) = 10 /\ q = Decimal[n]
    BY <1>2 DEF Base, Spells
  <2>2. q \in Seq(0..9) /\ Len(q) >= 1 /\ (Len(q) > 1 => q[1] # 0)
    BY <2>1, DecimalType
  <2>3. q # << >> /\ \A i \in DOMAIN q : ~(q[i] >= 10)
    <3> HIDE DEF q
    <3>1. 10 - 1 = 9
      OBVIOUS
    <3> QED
      BY <2>2, <3>1, DigitsAreBelow
  <2>4. Value(10, q) = n
    BY <2>1, DecimalReads
  <2> QED
    BY <1>1, <2>1, <2>2, <2>3, <2>4, Zenon
<1>3. CASE t.prefix = "0x"
  <2>1. Base(t) = 16 /\ t.prefix # "none"
    BY <1>3 DEF Base
  <2>2. PICK z \in 0..Len(q) : q = Zeros(z) \o Tail(Hex[n])
    BY <2>1, Zenon DEF Spells, Zeros
  <2>3. z \in Nat
    OBVIOUS
  <2>4. Hex[n] \in Seq(0..15) /\ Len(Hex[n]) >= 2
    BY HexType
  <2>5. Zeros(z) \in Seq(0..15) /\ Len(Zeros(z)) = z
    BY <2>3, ZerosAppend
  <2>6. q \in Seq(0..15) /\ Len(q) >= 1
    <3> DEFINE h == Hex[n]
               y == Zeros(z)
    <3> HIDE DEF h, y
    <3>1. h \in Seq(0..15) /\ Len(h) >= 2 /\ y \in Seq(0..15)
      BY <2>4, <2>5 DEF h, y
    <3>2. Tail(h) \in Seq(0..15) /\ Len(Tail(h)) >= 1
      BY <3>1
    <3>3. y \o Tail(h) \in Seq(0..15) /\ Len(y \o Tail(h)) >= 1
      BY <3>1, <3>2
    <3>4. q = y \o Tail(h)
      BY <2>2, Zenon DEF h, y
    <3> HIDE DEF q
    <3> QED
      BY <3>3, <3>4
  <2>7. q # << >> /\ \A i \in DOMAIN q : ~(q[i] >= 16)
    <3> HIDE DEF q
    <3>1. 16 - 1 = 15
      OBVIOUS
    <3> QED
      BY <2>6, <3>1, DigitsAreBelow
  <2>8. Value(16, q) = n
    BY <2>2, <2>3, HexReads
  <2> QED
    BY <1>1, <2>1, <2>7, <2>8, Zenon
<1> QED
  BY <1>2, <1>3

(* parseBigInt reads a number off a text exactly when the text is unsigned *)
(* and spells that number: no number is read off another's spelling, no    *)
(* decimal is read that is not the canonical one, and none is refused.     *)
THEOREM ParsesSpelling ==
  ASSUME NEW t, t.digits \in Seq(Nat), t.prefix \in {"none", "0x"}, NEW n \in Nat
  PROVE  ParseBigInt(t) = n <=> ~t.signed /\ Spells(t, n)
<1>1. ASSUME ParseBigInt(t) = n
      PROVE  ~t.signed /\ Spells(t, n)
  <2>1. ParseBigInt(t) # Bad
    BY <1>1 DEF Bad
  <2>2. ~t.signed
    BY <2>1, Zenon DEF ParseBigInt
  <2> QED
    BY <1>1, <2>1, <2>2, SpellsWhatItParses
<1> QED
  BY <1>1, ParsesWhatSpells
=============================================================================
