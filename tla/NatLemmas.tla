----------------------------- MODULE NatLemmas -----------------------------
(***************************************************************************)
(* Facts about natural numbers that the proofs about loops and encodings   *)
(* share: induction in the form of a set, functions defined step by step,  *)
(* and the digits of a number.                                             *)
(***************************************************************************)
EXTENDS Integers, Sequences, WellFoundedInduction, TLAPS

\* Every set of natural numbers has a least one.
LEMMA LeastOf ==
  ASSUME NEW T \in SUBSET Nat, T # {}
  PROVE  \E m \in T : \A k \in T : m <= k
<1> DEFINE R == {ss \in Nat \X Nat : ss[1] < ss[2]}
<1>1. IsWellFoundedOn(R, Nat)
  BY NatLessThanWellFounded DEF OpToRel
<1>2. \E x \in T : \A y \in T : ~ (<<y, x>> \in R)
  <2> HIDE DEF R
  <2> QED BY <1>1, WFMin
<1>3. PICK m \in T : \A y \in T : ~ (<<y, m>> \in R)
  BY <1>2
<1>4. ASSUME NEW k \in T PROVE m <= k
  <2>1. <<k, m>> \in Nat \X Nat
    OBVIOUS
  <2>2. ~(<<k, m>>[1] < <<k, m>>[2])
    BY <1>3, <2>1
  <2>3. QED
    BY <2>2
<1>5. QED
  BY <1>4

\* Induction: what holds of 0 and of n + 1 whenever of n holds of every number.
LEMMA Inductive ==
  ASSUME NEW T \in SUBSET Nat, 0 \in T, \A n \in T : n + 1 \in T
  PROVE  T = Nat
<1> SUFFICES ASSUME Nat \ T # {} PROVE FALSE
  OBVIOUS
<1>1. PICK m \in Nat \ T : \A k \in Nat \ T : m <= k
  BY LeastOf
<1>2. m # 0 /\ m - 1 \in Nat
  BY <1>1
<1>3. m - 1 \in T
  BY <1>1, <1>2
<1>4. QED
  BY <1>1, <1>2, <1>3

\* A function on 0..n made step by step: from c, by s[i] for the i-th value.
StepByStep(D, c, s, n) ==
  \E g \in [0..n -> D] : \A i \in 0..n : g[i] = IF i = 0 THEN c ELSE s[i][g[i - 1]]

\* There is one, which is what a recursive definition on 0..n stands for.
LEMMA Iterates ==
  ASSUME NEW D, NEW c \in D, NEW s \in [Nat -> [D -> D]], NEW n \in Nat
  PROVE  StepByStep(D, c, s, n)
<1> DEFINE P(k) == \E g \in [0..k -> D] : \A i \in 0..k : g[i] = IF i = 0 THEN c ELSE s[i][g[i - 1]]
           T == {k \in Nat : P(k)}
<1>1. 0 \in T
  <2> DEFINE g == [i \in 0..0 |-> c]
  <2>1. g \in [0..0 -> D] /\ \A i \in 0..0 : g[i] = IF i = 0 THEN c ELSE s[i][g[i - 1]]
    OBVIOUS
  <2>2. P(0)
    BY <2>1
  <2>3. QED
    BY <2>2
<1>2. ASSUME NEW k \in T PROVE k + 1 \in T
  <2>0. k \in Nat /\ P(k)
    OBVIOUS
  <2>1. PICK g \in [0..k -> D] : \A i \in 0..k : g[i] = IF i = 0 THEN c ELSE s[i][g[i - 1]]
    BY <2>0
  <2> DEFINE h == [i \in 0..(k + 1) |-> IF i <= k THEN g[i] ELSE s[k + 1][g[k]]]
  <2>2. s[k + 1][g[k]] \in D
    BY <2>0
  <2>3. h \in [0..(k + 1) -> D]
    BY <2>0, <2>2
  <2>4. ASSUME NEW i \in 0..(k + 1)
        PROVE  h[i] = IF i = 0 THEN c ELSE s[i][h[i - 1]]
    <3>1. CASE i = 0
      BY <2>0, <2>1, <3>1
    <3>2. CASE i # 0
      <4>1. i - 1 \in 0..k /\ h[i - 1] = g[i - 1]
        BY <2>0, <3>2
      <4>2. h[i] = s[i][g[i - 1]]
        BY <2>0, <2>1, <3>2
      <4> QED BY <3>2, <4>1, <4>2
    <3>4. QED
      BY <3>1, <3>2
  <2>5. P(k + 1)
    BY <2>3, <2>4
  <2>6. QED
    <3> HIDE DEF P
    <3> QED BY <2>0, <2>5
<1>3. T = Nat
  <2> HIDE DEF T
  <2>1. T \in SUBSET Nat
    BY DEF T
  <2>2. QED
    BY <1>1, <1>2, <2>1, Inductive
<1>4. QED
  BY <1>3 DEF StepByStep

\* The same without an end: a function on all of Nat.
StepByStepForever(D, c, s) ==
  \E g \in [Nat -> D] : \A i \in Nat : g[i] = IF i = 0 THEN c ELSE s[i][g[i - 1]]

\* There is one too: its values are those of the functions with an end, which agree.
LEMMA IteratesForever ==
  ASSUME NEW D, NEW c \in D, NEW s \in [Nat -> [D -> D]]
  PROVE  StepByStepForever(D, c, s)
<1> DEFINE Made(n, h) == h \in [0..n -> D] /\ \A i \in 0..n : h[i] = IF i = 0 THEN c ELSE s[i][h[i - 1]]
           G(n) == CHOOSE h : Made(n, h)
           g == [n \in Nat |-> G(n)[n]]
<1>1. ASSUME NEW n \in Nat PROVE Made(n, G(n))
  <2>1. StepByStep(D, c, s, n)
    BY Iterates
  <2>2. \E h : Made(n, h)
    BY <2>1 DEF StepByStep
  <2> HIDE DEF Made
  <2>3. QED
    BY <2>2
<1> DEFINE T == {m \in Nat : \A n, k \in Nat : m <= n /\ m <= k => G(n)[m] = G(k)[m]}
<1> HIDE DEF G
<1>2. 0 \in T
  <2>1. ASSUME NEW n \in Nat PROVE G(n)[0] = c
    <3>1. 0 \in 0..n
      OBVIOUS
    <3> QED BY <1>1, <3>1
  <2>2. QED
    BY <2>1
<1>3. ASSUME NEW m \in T PROVE m + 1 \in T
  <2>1. ASSUME NEW n \in Nat, m + 1 <= n PROVE G(n)[m + 1] = s[m + 1][G(n)[m]]
    <3>1. m + 1 \in 0..n /\ m + 1 # 0 /\ (m + 1) - 1 = m
      BY <2>1
    <3>2. G(n)[m + 1] = IF m + 1 = 0 THEN c ELSE s[m + 1][G(n)[(m + 1) - 1]]
      BY <1>1, <3>1
    <3> QED BY <3>1, <3>2
  <2>2. ASSUME NEW n \in Nat, NEW k \in Nat, m + 1 <= n, m + 1 <= k
        PROVE  G(n)[m + 1] = G(k)[m + 1]
    <3>1. m <= n /\ m <= k
      BY <2>2
    <3>2. G(n)[m] = G(k)[m]
      BY <3>1
    <3>3. QED
      BY <2>1, <2>2, <3>2
  <2>3. m + 1 \in Nat
    OBVIOUS
  <2>4. QED
    BY <2>2, <2>3
<1>4. T = Nat
  <2> HIDE DEF T
  <2>1. T \in SUBSET Nat
    BY DEF T
  <2>2. QED
    BY <1>2, <1>3, <2>1, Inductive
<1>5. ASSUME NEW n \in Nat PROVE g[n] \in D
  <2>1. n \in 0..n
    OBVIOUS
  <2> QED BY <1>1, <2>1
<1>6. ASSUME NEW i \in Nat PROVE g[i] = IF i = 0 THEN c ELSE s[i][g[i - 1]]
  <2>1. i \in 0..i
    OBVIOUS
  <2>2. G(i)[i] = IF i = 0 THEN c ELSE s[i][G(i)[i - 1]]
    BY <1>1, <2>1
  <2>3. CASE i # 0
    <3>1. i - 1 \in Nat /\ i - 1 <= i /\ i - 1 <= i - 1
      BY <2>3
    <3>2. i - 1 \in T
      <4> HIDE DEF T
      <4> QED BY <1>4, <3>1
    <3>3. G(i)[i - 1] = G(i - 1)[i - 1]
      BY <3>1, <3>2
    <3>4. QED
      BY <2>2, <2>3, <3>1, <3>3
  <2>4. QED
    BY <2>2, <2>3
<1>7. g \in [Nat -> D]
  BY <1>5
<1>8. QED
  <2> HIDE DEF g
  <2> QED BY <1>6, <1>7 DEF StepByStepForever

-----------------------------------------------------------------------------

\* Division leaves a remainder.
LEMMA DivMod == ASSUME NEW n \in Nat, NEW d \in Nat \ {0}
  PROVE n \div d \in Nat /\ n % d \in 0..(d-1) /\ n = d * (n \div d) + (n % d)
<1>1. n \div d \in Nat
  OBVIOUS
<1>2. n % d \in 0..(d - 1)
  OBVIOUS
<1>3. n = d * (n \div d) + (n % d)
  OBVIOUS
<1>4. QED
  BY <1>1, <1>2, <1>3

\* Quotient and remainder are unique.
LEMMA Quotient == ASSUME NEW n \in Nat, NEW d \in Nat \ {0}, NEW q \in Nat, NEW r \in 0..(d-1), n = d * q + r
  PROVE n \div d = q /\ n % d = r
OBVIOUS

\* One more digit of n to base b, at weight w.
LEMMA Digit == ASSUME NEW n \in Nat, NEW w \in Nat \ {0}, NEW b \in Nat \ {0}
  PROVE  n % (w * b) = (n % w) + ((n \div w) % b) * w
<1> DEFINE q == n \div w
           r == n % w
           q2 == q \div b
           r2 == q % b
<1>1. q \in Nat /\ r \in 0..(w-1) /\ n = w * q + r
  BY DivMod
<1>2. q2 \in Nat /\ r2 \in 0..(b-1) /\ q = b * q2 + r2
  <2> HIDE DEF q, r
  <2> QED BY <1>1, DivMod
<1> HIDE DEF q, r, q2, r2
<1>3. n = (w * b) * q2 + (w * r2 + r)
  <2>1. w * q = w * (b * q2 + r2)
    BY <1>2
  <2>2. w * (b * q2 + r2) = (w * b) * q2 + w * r2
    BY <1>2
  <2>3. QED BY <1>1, <1>2, <2>1, <2>2
<1>4. w * b \in Nat \ {0}
  OBVIOUS
<1>5. w * r2 + r \in 0..(w * b - 1)
  <2>1. w * r2 <= w * (b - 1)
    BY <1>2
  <2>2. w * (b - 1) = w * b - w
    OBVIOUS
  <2>3. w * r2 \in Nat
    BY <1>2
  <2> QED BY <1>1, <1>2, <2>1, <2>2, <2>3, <1>4
<1>6. n % (w * b) = w * r2 + r
  BY <1>3, <1>4, <1>5, <1>2, Quotient
<1> QED BY <1>1, <1>2, <1>6 DEF r, q, r2

-----------------------------------------------------------------------------
(* Numbers that agree up to multiples of m, as the words of a machine do. *)

Congruent(a, b, m) == \E k \in Int : a = b + m * k

\* A number agrees with itself.
LEMMA CongruentRefl ==
  ASSUME NEW a \in Int, NEW m \in Nat \ {0}
  PROVE  Congruent(a, a, m)
<1>1. a = a + m * 0
  OBVIOUS
<1>2. QED
  BY <1>1 DEF Congruent

\* Agreement is symmetric.
LEMMA CongruentSym ==
  ASSUME NEW a \in Int, NEW b \in Int, NEW m \in Nat \ {0}, Congruent(a, b, m)
  PROVE  Congruent(b, a, m)
<1>1. PICK k \in Int : a = b + m * k
  BY DEF Congruent
<1>2. -k \in Int /\ m * (-k) = -(m * k)
  OBVIOUS
<1>3. m * k \in Int
  OBVIOUS
<1>4. b = a + m * (-k)
  BY <1>1, <1>2, <1>3
<1>5. QED
  BY <1>2, <1>4 DEF Congruent

\* Agreement is transitive.
LEMMA CongruentTrans ==
  ASSUME NEW a \in Int, NEW b \in Int, NEW c \in Int, NEW m \in Nat \ {0},
         Congruent(a, b, m), Congruent(b, c, m)
  PROVE  Congruent(a, c, m)
<1>1. PICK k \in Int : a = b + m * k
  BY DEF Congruent
<1>2. PICK j \in Int : b = c + m * j
  BY DEF Congruent
<1>3. m * (j + k) = m * j + m * k /\ j + k \in Int /\ m * j \in Int /\ m * k \in Int
  OBVIOUS
<1>4. a = c + m * (j + k)
  BY <1>1, <1>2, <1>3
<1>5. QED
  BY <1>3, <1>4 DEF Congruent

\* Sums and differences of numbers that agree do, too.
LEMMA CongruentSum ==
  ASSUME NEW a \in Int, NEW b \in Int, NEW c \in Int, NEW d \in Int, NEW m \in Nat \ {0},
         Congruent(a, b, m), Congruent(c, d, m)
  PROVE  Congruent(a + c, b + d, m) /\ Congruent(a - c, b - d, m)
<1>1. PICK k \in Int : a = b + m * k
  BY DEF Congruent
<1>2. PICK j \in Int : c = d + m * j
  BY DEF Congruent
<1>3. /\ m * (k + j) = m * k + m * j /\ k + j \in Int /\ m * j \in Int /\ m * k \in Int
      /\ m * (k - j) = m * k - m * j /\ k - j \in Int
  OBVIOUS
<1>4. a + c = (b + d) + m * (k + j) /\ a - c = (b - d) + m * (k - j)
  BY <1>1, <1>2, <1>3
<1>5. QED
  BY <1>3, <1>4 DEF Congruent

\* So do products by the same number.
LEMMA CongruentProduct ==
  ASSUME NEW a \in Int, NEW b \in Int, NEW c \in Int, NEW m \in Nat \ {0}, Congruent(a, b, m)
  PROVE  Congruent(a * c, b * c, m)
<1>1. PICK k \in Int : a = b + m * k
  BY DEF Congruent
<1>2. k * c \in Int /\ m * k \in Int
  OBVIOUS
<1>3. (b + m * k) * c = b * c + (m * k) * c
  BY <1>2
<1>4. (m * k) * c = m * (k * c)
  OBVIOUS
<1>5. a * c = b * c + m * (k * c)
  BY <1>1, <1>3, <1>4
<1>6. QED
  BY <1>2, <1>5 DEF Congruent

\* Cutting a number to a word leaves a congruent one, and congruent ones are cut to the same.
LEMMA CongruentMod ==
  ASSUME NEW a \in Int, NEW m \in Nat \ {0}
  PROVE  a % m \in 0..(m - 1) /\ Congruent(a % m, a, m)
<1>1. a % m \in 0..(m - 1)
  OBVIOUS
<1>2. a \div m \in Int
  OBVIOUS
<1>3. a = m * (a \div m) + (a % m)
  OBVIOUS
<1>4. -(a \div m) \in Int /\ m * (-(a \div m)) = -(m * (a \div m)) /\ m * (a \div m) \in Int
      /\ a % m \in Int
  BY <1>1, <1>2
<1>5. a % m = a + m * (-(a \div m))
  <2> DEFINE x == m * (a \div m)
             y == a % m
  <2>1. x \in Int /\ y \in Int /\ a = x + y
    BY <1>3, <1>4
  <2>2. y = a + (-x)
    <3> HIDE DEF x, y
    <3> QED BY <2>1
  <2>3. QED
    BY <1>4, <2>2
<1>6. QED
  BY <1>1, <1>4, <1>5 DEF Congruent

\* Numbers that agree are cut to the same word.
LEMMA CongruentSame ==
  ASSUME NEW a \in Int, NEW b \in Int, NEW m \in Nat \ {0}, Congruent(a, b, m)
  PROVE  a % m = b % m
<1>1. /\ a % m \in 0..(m - 1) /\ Congruent(a % m, a, m)
      /\ b % m \in 0..(m - 1) /\ Congruent(b % m, b, m)
  BY CongruentMod
<1> DEFINE x == a % m
           y == b % m
<1>2. x \in Int /\ y \in Int /\ Congruent(x, y, m)
  <2>1. x \in Int /\ y \in Int
    BY <1>1
  <2>2. Congruent(x, a, m) /\ Congruent(b, y, m)
    <3> HIDE DEF x, y
    <3>1. Congruent(y, b, m) /\ Congruent(x, a, m)
      BY <1>1 DEF x, y
    <3> QED BY <2>1, <3>1, CongruentSym
  <2>3. Congruent(x, b, m)
    <3> HIDE DEF x, y
    <3> QED BY <2>1, <2>2, CongruentTrans
  <2>4. QED
    <3> HIDE DEF x, y
    <3> QED BY <2>1, <2>2, <2>3, CongruentTrans
<1>3. x \in 0..(m - 1) /\ y \in 0..(m - 1)
  BY <1>1
<1> HIDE DEF x, y
<1>4. PICK k \in Int : x = y + m * k
  BY <1>2 DEF Congruent
<1>5. k = 0
  <2>1. CASE k >= 1
    <3>1. m * k >= m /\ m * k \in Int
      BY <2>1
    <3> QED BY <1>3, <1>4, <3>1
  <2>2. CASE k <= -1
    <3>1. m * k <= -m /\ m * k \in Int
      BY <2>2
    <3> QED BY <1>3, <1>4, <3>1
  <2>3. QED
    BY <2>1, <2>2
<1>6. x = y
  BY <1>3, <1>4, <1>5
<1>7. QED
  BY <1>6 DEF x, y

=============================================================================
