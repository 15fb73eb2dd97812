---------------------------- MODULE SharesProofs ----------------------------
(***************************************************************************)
(* Proofs about the arithmetic, for words and significands of any length   *)
(* and for every share and draw.                                           *)
(***************************************************************************)
EXTENDS MtaShares, NatLemmas

-----------------------------------------------------------------------------
(* Powers of two. *)

\* Pow2 is defined on all natural numbers.
LEMMA Pow2Facts ==
  /\ Pow2 \in [Nat -> Nat \ {0}] /\ Pow2[0] = 1
  /\ \A n \in Nat : Pow2[n + 1] = 2 * Pow2[n]
<1> DEFINE D == Nat \ {0}
           s == [i \in Nat |-> [w \in D |-> 2 * w]]
<1>1. s \in [Nat -> [D -> D]]
  OBVIOUS
<1>2. StepByStepForever(D, 1, s)
  <2>1. 1 \in D
    OBVIOUS
  <2> HIDE DEF s, D
  <2>2. QED
    BY <1>1, <2>1, IteratesForever
<1>3. PICK g \in [Nat -> D] : \A i \in Nat : g[i] = IF i = 0 THEN 1 ELSE s[i][g[i - 1]]
  <2> HIDE DEF s, D
  <2> QED BY <1>2 DEF StepByStepForever
<1>4. ASSUME NEW i \in Nat
      PROVE  g[i] = IF i = 0 THEN 1 ELSE 2 * g[i - 1]
  <2>1. CASE i # 0
    <3>1. i - 1 \in Nat
      BY <2>1
    <3>2. g[i - 1] \in D
      BY <3>1
    <3>3. g[i] = s[i][g[i - 1]]
      BY <1>3, <2>1
    <3>4. s[i][g[i - 1]] = 2 * g[i - 1]
      BY <3>1, <3>2
    <3>5. QED
      BY <2>1, <3>3, <3>4
  <2>2. QED
    BY <1>3, <2>1
<1>5. g = [i \in Nat |-> IF i = 0 THEN 1 ELSE 2 * g[i - 1]]
  BY <1>3, <1>4
<1>6. Pow2 = [i \in Nat |-> IF i = 0 THEN 1 ELSE 2 * Pow2[i - 1]]
  BY <1>5 DEF Pow2
<1>7. Pow2[0] = 1 /\ \A n \in Nat : Pow2[n + 1] = 2 * Pow2[n]
  <2>1. ASSUME NEW n \in Nat PROVE Pow2[n + 1] = 2 * Pow2[n]
    <3>1. n + 1 \in Nat /\ n + 1 # 0 /\ (n + 1) - 1 = n
      OBVIOUS
    <3>2. Pow2[n + 1] = IF n + 1 = 0 THEN 1 ELSE 2 * Pow2[(n + 1) - 1]
      BY <1>6, <3>1, Zenon
    <3>3. QED
      BY <3>1, <3>2
  <2>2. 0 \in Nat
    OBVIOUS
  <2>3. Pow2[0] = 1
    BY <1>6, <2>2, Zenon
  <2>4. QED
    BY <2>1, <2>3
<1>8. \A n \in Nat : Pow2[n] \in D
  <2> DEFINE T == {n \in Nat : Pow2[n] \in D}
  <2>1. 0 \in T
    BY <1>7
  <2>2. ASSUME NEW n \in T PROVE n + 1 \in T
    BY <1>7
  <2>3. T = Nat
    <3> HIDE DEF T
    <3>1. T \in SUBSET Nat
      BY DEF T
    <3> QED BY <2>1, <2>2, <3>1, Inductive
  <2>4. QED
    BY <2>3
<1>9. DOMAIN Pow2 = Nat /\ Pow2 = [n \in DOMAIN Pow2 |-> Pow2[n]]
  BY <1>6
<1>10. QED
  BY <1>7, <1>8, <1>9

\* Exponents add up.
LEMMA Pow2Sum ==
  ASSUME NEW a \in Nat, NEW b \in Nat
  PROVE  Pow2[a + b] = Pow2[a] * Pow2[b]
<1> DEFINE T == {n \in Nat : Pow2[a + n] = Pow2[a] * Pow2[n]}
<1>1. 0 \in T
  BY Pow2Facts
<1>2. ASSUME NEW n \in T PROVE n + 1 \in T
  <2>1. n \in Nat /\ n + 1 \in Nat /\ a + n \in Nat /\ (a + n) + 1 = a + (n + 1)
    OBVIOUS
  <2>2. Pow2[a + (n + 1)] = 2 * Pow2[a + n] /\ Pow2[n + 1] = 2 * Pow2[n]
    BY <2>1, Pow2Facts
  <2>3. Pow2[a + n] = Pow2[a] * Pow2[n]
    OBVIOUS
  <2>4. Pow2[a] \in Nat /\ Pow2[n] \in Nat
    BY <2>1, Pow2Facts
  <2>5. 2 * (Pow2[a] * Pow2[n]) = Pow2[a] * (2 * Pow2[n])
    BY <2>4
  <2>6. Pow2[a + (n + 1)] = Pow2[a] * Pow2[n + 1]
    BY <2>2, <2>3, <2>5
  <2>7. QED
    BY <2>1, <2>6
<1>3. T = Nat
  <2> HIDE DEF T
  <2>1. T \in SUBSET Nat
    BY DEF T
  <2> QED BY <1>1, <1>2, <2>1, Inductive
<1>4. QED
  BY <1>3

\* Pow2 never falls.
LEMMA Pow2Rises ==
  ASSUME NEW a \in Nat, NEW b \in Nat, a <= b
  PROVE  Pow2[a] <= Pow2[b]
<1>1. b - a \in Nat /\ a + (b - a) = b
  OBVIOUS
<1>2. Pow2[b] = Pow2[a] * Pow2[b - a]
  BY <1>1, Pow2Sum
<1> DEFINE p == Pow2[a]
           q == Pow2[b - a]
<1>3. p \in Nat \ {0} /\ q \in Nat \ {0}
  BY <1>1, Pow2Facts
<1>4. p <= p * q
  <2> HIDE DEF p, q
  <2>1. q >= 1 /\ p >= 0
    BY <1>3
  <2>2. p * q >= p * 1
    BY <1>3, <2>1
  <2> QED BY <1>3, <2>2
<1>5. QED
  BY <1>2, <1>4

\* What is known of a word.
LEMMA WordFacts ==
  /\ BitLength \in Nat \ {0} /\ Mantissa \in Nat /\ BitLength < Mantissa
  /\ Modulus \in Nat \ {0} /\ Modulus >= 2 /\ Modulus = 2 * Pow2[BitLength - 1]
  /\ Modulus <= Pow2[Mantissa]
<1>1. BitLength \in Nat \ {0} /\ Mantissa \in Nat /\ BitLength < Mantissa
      /\ BitLength - 1 \in Nat /\ (BitLength - 1) + 1 = BitLength
  BY SharesAssumption
<1>2. Modulus = 2 * Pow2[BitLength - 1] /\ Pow2[BitLength - 1] \in Nat \ {0}
  <2>1. Pow2[(BitLength - 1) + 1] = 2 * Pow2[BitLength - 1]
    BY <1>1, Pow2Facts
  <2>2. Pow2[BitLength - 1] \in Nat \ {0}
    BY <1>1, Pow2Facts
  <2> QED BY <1>1, <2>1, <2>2 DEF Modulus
<1>3. Modulus <= Pow2[Mantissa]
  BY <1>1, Pow2Rises DEF Modulus
<1>4. QED
  BY <1>1, <1>2, <1>3

-----------------------------------------------------------------------------
(* Doubles. *)

\* The exponent of a size.
Fits(size, k) == size < Pow2[Mantissa + k] /\ (k = 0 \/ size >= Pow2[Mantissa + k - 1])

\* A number that is not too large has an exponent at which its significand fits.
LEMMA HasExponent ==
  ASSUME NEW size \in Nat, NEW b \in 0..(Mantissa + BitLength), size < Pow2[Mantissa + b]
  PROVE  \E k \in 0..(Mantissa + BitLength) : Fits(size, k)
<1>0. Mantissa \in Nat /\ BitLength \in Nat /\ b \in Nat
  BY WordFacts
<1> DEFINE T == {k \in Nat : size < Pow2[Mantissa + k]}
<1>1. T \in SUBSET Nat /\ T # {} /\ b \in T
  BY <1>0
<1>2. PICK k \in T : \A j \in T : k <= j
  <2> HIDE DEF T
  <2> QED BY <1>1, LeastOf
<1>3. k \in Nat /\ k <= b /\ k \in 0..(Mantissa + BitLength) /\ size < Pow2[Mantissa + k]
  <2>1. k \in Nat /\ size < Pow2[Mantissa + k]
    OBVIOUS
  <2>2. k <= b
    <3> HIDE DEF T
    <3> QED BY <1>1, <1>2
  <2>3. QED
    BY <1>0, <2>1, <2>2
<1>4. CASE k # 0
  <2>1. k - 1 \in Nat /\ ~(k <= k - 1) /\ Mantissa + (k - 1) = Mantissa + k - 1
    BY <1>0, <1>3, <1>4
  <2>2. k - 1 \notin T
    <3> HIDE DEF T
    <3> QED BY <1>2, <2>1
  <2>3. ~(size < Pow2[Mantissa + k - 1])
    BY <2>1, <2>2
  <2>4. Pow2[Mantissa + k - 1] \in Nat
    <3>1. Mantissa + k - 1 \in Nat
      BY <1>0, <2>1
    <3> QED BY <3>1, Pow2Facts
  <2>5. size >= Pow2[Mantissa + k - 1]
    BY <2>3, <2>4
  <2>6. QED
    BY <1>3, <2>5 DEF Fits
<1>5. QED
  BY <1>3, <1>4 DEF Fits

\* A result of the arithmetic is a whole number.
LEMMA RoundWhole ==
  ASSUME NEW n \in Nat, n < Pow2[Mantissa + (Mantissa + BitLength)]
  PROVE  RoundToDouble(n) \in Int
<1> DEFINE e == CHOOSE k \in 0..(Mantissa + BitLength) :
                  n < Pow2[Mantissa + k] /\ (k = 0 \/ n >= Pow2[Mantissa + k - 1])
           q == n \div Pow2[e]
           r == n % Pow2[e]
           up == 2 * r > Pow2[e] \/ (2 * r = Pow2[e] /\ q % 2 = 1)
           near == Pow2[e] * (IF up THEN q + 1 ELSE q)
<1>0. Mantissa \in Nat /\ BitLength \in Nat
  BY WordFacts
<1>1. RoundToDouble(n) = near
  <2>1. ~(n < 0)
    OBVIOUS
  <2>2. QED
    BY <2>1 DEF RoundToDouble
<1>2. e \in Nat
  <2>1. Mantissa + BitLength \in 0..(Mantissa + BitLength)
    BY <1>0
  <2>2. \E k \in 0..(Mantissa + BitLength) :
          n < Pow2[Mantissa + k] /\ (k = 0 \/ n >= Pow2[Mantissa + k - 1])
    BY <2>1, HasExponent DEF Fits
  <2>3. e \in 0..(Mantissa + BitLength)
    BY <2>2
  <2> HIDE DEF e
  <2>4. QED
    BY <1>0, <2>3
<1> HIDE DEF e
<1>3. Pow2[e] \in Nat \ {0} /\ q \in Nat
  <2>1. Pow2[e] \in Nat \ {0}
    BY <1>2, Pow2Facts
  <2>2. QED
    BY <2>1, DivMod
<1> HIDE DEF q, up
<1>4. near \in Int
  BY <1>3
<1>5. QED
  BY <1>1, <1>4

\* No bit is lost of what has at most Mantissa bits, wherever they stand.
LEMMA RoundExact ==
  ASSUME NEW u \in Nat, NEW i \in 0..Mantissa, u < Pow2[Mantissa], NEW n \in Int,
         n = u * Pow2[i] \/ n = -(u * Pow2[i])
  PROVE  RoundToDouble(n) = n
<1> DEFINE size == IF n < 0 THEN -n ELSE n
           e == CHOOSE k \in 0..(Mantissa + BitLength) :
                  size < Pow2[Mantissa + k] /\ (k = 0 \/ size >= Pow2[Mantissa + k - 1])
           q == size \div Pow2[e]
           r == size % Pow2[e]
           up == 2 * r > Pow2[e] \/ (2 * r = Pow2[e] /\ q % 2 = 1)
           near == Pow2[e] * (IF up THEN q + 1 ELSE q)
<1>0. Mantissa \in Nat /\ BitLength \in Nat /\ i \in Nat /\ i <= Mantissa
  BY WordFacts
<1>1. RoundToDouble(n) = IF n < 0 THEN -near ELSE near
  BY DEF RoundToDouble
<1>p. Pow2[i] \in Nat \ {0} /\ Pow2[Mantissa] \in Nat \ {0}
      /\ Pow2[Mantissa + i] = Pow2[Mantissa] * Pow2[i]
  BY <1>0, Pow2Facts, Pow2Sum
<1>2. size = u * Pow2[i] /\ size \in Nat /\ size < Pow2[Mantissa + i]
  <2> DEFINE p == Pow2[i]
             m == Pow2[Mantissa]
  <2>1. p \in Nat \ {0} /\ m \in Nat \ {0} /\ u < m
    BY <1>p
  <2>2. u * p \in Nat
    <3> HIDE DEF p
    <3> QED BY <2>1
  <2>3. size = u * p
    <3> HIDE DEF p
    <3>1. n = u * p \/ n = -(u * p)
      BY DEF p
    <3> QED BY <2>2, <3>1
  <2>4. u * p < m * p
    <3> HIDE DEF p, m
    <3> QED BY <2>1
  <2> HIDE DEF size
  <2>5. QED
    BY <1>p, <2>2, <2>3, <2>4
<1> HIDE DEF size
<1>3. e \in 0..(Mantissa + BitLength) /\ Fits(size, e)
  <2>1. i \in 0..(Mantissa + BitLength)
    BY <1>0
  <2>2. \E k \in 0..(Mantissa + BitLength) :
          size < Pow2[Mantissa + k] /\ (k = 0 \/ size >= Pow2[Mantissa + k - 1])
    BY <1>2, <2>1, HasExponent DEF Fits
  <2>3. QED
    BY <2>2 DEF Fits
<1> HIDE DEF e
<1>4. e \in Nat /\ e <= i
  <2>1. e \in Nat
    BY <1>0, <1>3
  <2>2. ASSUME e > i PROVE FALSE
    <3>1. Mantissa + e - 1 \in Nat /\ Mantissa + i \in Nat /\ Mantissa + i <= Mantissa + e - 1
          /\ e # 0
      BY <1>0, <2>1, <2>2
    <3>2. Pow2[Mantissa + i] <= Pow2[Mantissa + e - 1]
      BY <3>1, Pow2Rises
    <3>3. Pow2[Mantissa + i] \in Nat /\ Pow2[Mantissa + e - 1] \in Nat
      BY <3>1, Pow2Facts
    <3>4. size >= Pow2[Mantissa + e - 1]
      BY <1>3, <3>1 DEF Fits
    <3>5. QED
      BY <1>2, <3>2, <3>3, <3>4
  <2>3. QED
    BY <1>0, <2>1, <2>2
<1> DEFINE w == Pow2[e]
           v == Pow2[i - e]
<1>5. w \in Nat \ {0} /\ v \in Nat \ {0} /\ Pow2[i] = w * v
  <2>1. i - e \in Nat /\ e + (i - e) = i
    BY <1>0, <1>4
  <2>2. Pow2[e + (i - e)] = Pow2[e] * Pow2[i - e]
    BY <1>4, <2>1, Pow2Sum
  <2>3. QED
    BY <1>4, <2>1, <2>2, Pow2Facts
<1>6. u * v \in Nat /\ size = w * (u * v) + 0 /\ 0 \in 0..(w - 1)
  <2> HIDE DEF w, v
  <2>1. u * (w * v) = w * (u * v)
    BY <1>5
  <2>2. u * v \in Nat /\ w * (u * v) \in Nat
    BY <1>5
  <2>3. QED
    BY <1>2, <1>5, <2>1, <2>2
<1>7. size \div w = u * v /\ size % w = 0
  <2> HIDE DEF w, v
  <2> DEFINE z == u * v
  <2>1. z \in Nat /\ size = w * z + 0 /\ 0 \in 0..(w - 1) /\ w \in Nat \ {0} /\ size \in Nat
    BY <1>2, <1>5, <1>6
  <2> HIDE DEF z
  <2>2. size \div w = z /\ size % w = 0
    BY <2>1, Quotient
  <2>3. QED
    BY <2>2 DEF z
<1>8. ~up
  <2> HIDE DEF w, q
  <2>1. r = 0
    BY <1>7 DEF w
  <2>2. Pow2[e] \in Nat \ {0}
    BY <1>5 DEF w
  <2> HIDE DEF r
  <2>3. QED
    BY <2>1, <2>2
<1>9. near = size
  <2>1. near = Pow2[e] * q
    <3> HIDE DEF up, q
    <3> QED BY <1>8
  <2>2. q = u * v
    BY <1>7
  <2>3. w * (u * v) = size
    <3> HIDE DEF w, v
    <3>1. w * (u * v) \in Nat
      BY <1>5, <1>6
    <3> QED BY <1>6, <3>1
  <2> HIDE DEF q, near, v
  <2>4. QED
    BY <2>1, <2>2, <2>3
<1>10. QED
  <2>1. size = IF n < 0 THEN -n ELSE n
    BY DEF size
  <2> HIDE DEF near
  <2>2. QED
    BY <1>1, <1>9, <2>1

-----------------------------------------------------------------------------
(* The loop over the bits. *)

\* What the loop leaves in total, by the values sum it goes through.
Sums(term, total) ==
  \E sum \in [0..BitLength -> Word] :
    /\ sum[0] = 0
    /\ \A i \in Bits : sum[i + 1] = (sum[i] + term[i]) % Modulus
    /\ total = sum[BitLength]

\* The loop comes to its end with a word, whatever it adds up.
LEMMA LoopSums ==
  ASSUME NEW term \in [Bits -> Int]
  PROVE  Sums(term, Accumulate(term))
<1> DEFINE s == [i \in Nat |-> [w \in Word |->
                  (w + (IF i \in 1..BitLength THEN term[i - 1] ELSE 0)) % Modulus]]
           F == CHOOSE f : f = [i \in 0..BitLength |->
                                 IF i = 0 THEN 0 ELSE (f[i - 1] + term[i - 1]) % Modulus]
<1>0. BitLength \in Nat \ {0} /\ Modulus \in Nat \ {0} /\ 0 \in Word
  BY WordFacts DEF Word
<1>1. s \in [Nat -> [Word -> Word]]
  <2>1. ASSUME NEW i \in Nat, NEW w \in Word
        PROVE  (w + (IF i \in 1..BitLength THEN term[i - 1] ELSE 0)) % Modulus \in Word
    <3> DEFINE t == IF i \in 1..BitLength THEN term[i - 1] ELSE 0
    <3>1. t \in Int
      <4>1. CASE i \in 1..BitLength
        <5>1. i - 1 \in Bits
          BY <1>0, <4>1 DEF Bits
        <5> QED BY <4>1, <5>1
      <4> QED BY <4>1
    <3> HIDE DEF t
    <3>2. w + t \in Int
      BY <1>0, <3>1 DEF Word
    <3>3. (w + t) % Modulus \in 0..(Modulus - 1)
      BY <1>0, <3>2, CongruentMod
    <3> QED BY <3>3 DEF Word, t
  <2>2. QED
    BY <2>1
<1>2. StepByStep(Word, 0, s, BitLength)
  <2> HIDE DEF s
  <2> QED BY <1>0, <1>1, Iterates
<1>3. PICK g \in [0..BitLength -> Word] :
        \A i \in 0..BitLength : g[i] = IF i = 0 THEN 0 ELSE s[i][g[i - 1]]
  <2> HIDE DEF s
  <2> QED BY <1>2 DEF StepByStep
<1>4. ASSUME NEW i \in 0..BitLength
      PROVE  g[i] = IF i = 0 THEN 0 ELSE (g[i - 1] + term[i - 1]) % Modulus
  <2>1. CASE i # 0
    <3>1. i \in Nat /\ i \in 1..BitLength /\ i - 1 \in 0..BitLength
      BY <1>0, <2>1
    <3>2. g[i - 1] \in Word
      BY <3>1
    <3>3. g[i] = s[i][g[i - 1]]
      BY <1>3, <2>1
    <3>4. s[i][g[i - 1]] = (g[i - 1] + term[i - 1]) % Modulus
      BY <3>1, <3>2
    <3> QED BY <2>1, <3>3, <3>4
  <2> QED BY <1>3, <2>1
<1>5. g = [i \in 0..BitLength |-> IF i = 0 THEN 0 ELSE (g[i - 1] + term[i - 1]) % Modulus]
  BY <1>4
<1>6. F = [i \in 0..BitLength |-> IF i = 0 THEN 0 ELSE (F[i - 1] + term[i - 1]) % Modulus]
  BY <1>5
<1>7. Accumulate(term) = F[BitLength]
  BY DEF Accumulate
<1> HIDE DEF F, s
<1>8. \A i \in 0..BitLength :
        F[i] = IF i = 0 THEN 0 ELSE (F[i - 1] + term[i - 1]) % Modulus
  BY <1>6, Zenon
<1>9. F[0] = 0
  <2>1. 0 \in 0..BitLength
    BY <1>0
  <2> QED BY <1>8, <2>1
<1>10. ASSUME NEW i \in Bits PROVE F[i + 1] = (F[i] + term[i]) % Modulus
  <2>1. i + 1 \in 0..BitLength /\ i + 1 # 0 /\ (i + 1) - 1 = i
    BY <1>0 DEF Bits
  <2>2. F[i + 1] = (F[(i + 1) - 1] + term[(i + 1) - 1]) % Modulus
    BY <1>8, <2>1
  <2> QED BY <2>1, <2>2
<1>11. ASSUME NEW i \in Nat, i <= BitLength PROVE F[i] \in Word
  <2> DEFINE T == {k \in Nat : k <= BitLength => F[k] \in Word}
  <2>1. 0 \in T
    BY <1>0, <1>9
  <2>2. ASSUME NEW k \in T PROVE k + 1 \in T
    <3>1. SUFFICES ASSUME k + 1 <= BitLength PROVE F[k + 1] \in Word
      OBVIOUS
    <3>2. k \in Bits /\ F[k] \in Word
      BY <1>0, <3>1 DEF Bits
    <3>3. F[k] + term[k] \in Int
      BY <1>0, <3>2 DEF Word
    <3>4. (F[k] + term[k]) % Modulus \in 0..(Modulus - 1)
      BY <1>0, <3>3, CongruentMod
    <3> QED BY <1>10, <3>2, <3>4 DEF Word
  <2>3. T = Nat
    <3> HIDE DEF T
    <3>1. T \in SUBSET Nat
      BY DEF T
    <3> QED BY <2>1, <2>2, <3>1, Inductive
  <2>4. QED
    BY <1>11, <2>3
<1>12. F \in [0..BitLength -> Word]
  <2>1. \A i \in 0..BitLength : F[i] \in Word
    BY <1>0, <1>11
  <2>2. F = [i \in 0..BitLength |-> F[i]]
    BY <1>6, Zenon
  <2> QED BY <2>1, <2>2
<1>13. QED
  BY <1>7, <1>9, <1>10, <1>12 DEF Sums

\* The loop's result is a word.
LEMMA SumIsWord ==
  ASSUME NEW term \in [Bits -> Int]
  PROVE  Accumulate(term) \in Word
<1>1. PICK sum \in [0..BitLength -> Word] : Accumulate(term) = sum[BitLength]
  BY LoopSums DEF Sums
<1>2. BitLength \in 0..BitLength
  BY WordFacts
<1>3. QED
  BY <1>1, <1>2

\* Two loops whose terms differ, bit by bit of y, by x * 2^i come to differ by x * y.
LEMMA Multiplies ==
  ASSUME NEW a \in [Bits -> Int], NEW b \in [Bits -> Int], NEW x \in Int, NEW y \in Word,
         \A i \in Bits : Congruent(b[i] - a[i], x * (GetBit(y, i) * Pow2[i]), Modulus)
  PROVE  Congruent(Accumulate(b) - Accumulate(a), x * y, Modulus)
<1>0. BitLength \in Nat \ {0} /\ Modulus \in Nat \ {0} /\ y \in Nat /\ y < Modulus
  BY WordFacts DEF Word
<1>1. PICK f \in [0..BitLength -> Word] :
        /\ f[0] = 0
        /\ \A i \in Bits : f[i + 1] = (f[i] + a[i]) % Modulus
        /\ Accumulate(a) = f[BitLength]
  BY LoopSums DEF Sums
<1>2. PICK g \in [0..BitLength -> Word] :
        /\ g[0] = 0
        /\ \A i \in Bits : g[i + 1] = (g[i] + b[i]) % Modulus
        /\ Accumulate(b) = g[BitLength]
  BY LoopSums DEF Sums
<1> DEFINE T == {k \in Nat : k <= BitLength =>
                               Congruent(g[k] - f[k], x * (y % Pow2[k]), Modulus)}
<1>3. 0 \in T
  <2>1. Pow2[0] = 1 /\ y % 1 = 0
    BY <1>0, Pow2Facts
  <2>2. g[0] - f[0] = 0 /\ x * (y % Pow2[0]) = 0
    BY <1>1, <1>2, <2>1
  <2>3. Congruent(0, 0, Modulus)
    BY <1>0, CongruentRefl
  <2>4. QED
    BY <2>2, <2>3
<1>4. ASSUME NEW k \in T PROVE k + 1 \in T
  <2>1. SUFFICES ASSUME k + 1 <= BitLength
                 PROVE  Congruent(g[k + 1] - f[k + 1], x * (y % Pow2[k + 1]), Modulus)
    OBVIOUS
  <2>2. k \in Nat /\ k \in Bits /\ k \in 0..BitLength /\ k + 1 \in 0..BitLength
    BY <1>0, <2>1 DEF Bits
  <2>3. Congruent(g[k] - f[k], x * (y % Pow2[k]), Modulus)
    BY <1>0, <2>1
  <2>4. /\ g[k + 1] = (g[k] + b[k]) % Modulus /\ f[k + 1] = (f[k] + a[k]) % Modulus
        /\ Congruent(b[k] - a[k], x * (GetBit(y, k) * Pow2[k]), Modulus)
    BY <1>1, <1>2, <2>2
  <2> DEFINE p == Pow2[k]
             d == GetBit(y, k)
             r == y % p
             gk == g[k]
             fk == f[k]
             bk == b[k]
             ak == a[k]
  <2>5. p \in Nat \ {0} /\ d \in Int /\ r \in Int
        /\ gk \in Int /\ fk \in Int /\ bk \in Int /\ ak \in Int
    <3>1. p \in Nat \ {0}
      BY <2>2, Pow2Facts
    <3>2. y \div p \in Nat /\ r \in Int
      <4> HIDE DEF p
      <4>1. y \div p \in Nat /\ y % p \in 0..(p - 1)
        BY <1>0, <3>1, DivMod
      <4>2. \A j \in 0..(p - 1) : j \in Int
        BY <3>1
      <4> QED BY <4>1, <4>2
    <3>3. d \in Int
      <4> DEFINE z == y \div p
      <4>1. d = z % 2 /\ z \in Nat
        BY <3>2 DEF GetBit
      <4>2. z % 2 \in Int
        <5> HIDE DEF z
        <5> QED BY <4>1
      <4> HIDE DEF d, z
      <4> QED BY <4>1, <4>2
    <3>4. gk \in Int /\ fk \in Int
      BY <1>0, <2>2 DEF Word
    <3> QED BY <2>2, <3>1, <3>2, <3>3, <3>4
  <2>6. y % Pow2[k + 1] = r + d * p
    <3>1. Pow2[k + 1] = p * 2
      BY <2>2, <2>5, Pow2Facts
    <3>2. y % (p * 2) = (y % p) + ((y \div p) % 2) * p
      <4>1. 2 \in Nat \ {0}
        OBVIOUS
      <4> HIDE DEF p
      <4> QED BY <1>0, <2>5, <4>1, Digit
    <3>3. QED
      BY <3>1, <3>2 DEF GetBit
  <2>7. /\ Congruent(gk - fk, x * r, Modulus) /\ Congruent(bk - ak, x * (d * p), Modulus)
        /\ g[k + 1] = (gk + bk) % Modulus /\ f[k + 1] = (fk + ak) % Modulus
    BY <2>3, <2>4
  <2> HIDE DEF p, d, r, gk, fk, bk, ak
  <2> DEFINE dp == d * p
             gn == gk + bk
             fn == fk + ak
  <2>8. dp \in Int /\ x * r \in Int /\ x * dp \in Int /\ gn \in Int /\ fn \in Int
    BY <2>5
  <2>9. Congruent((gk - fk) + (bk - ak), x * r + x * dp, Modulus)
    <3> HIDE DEF dp
    <3>1. Congruent(bk - ak, x * dp, Modulus)
      BY <2>7 DEF dp
    <3>2. gk - fk \in Int /\ bk - ak \in Int
      BY <2>5
    <3> QED BY <1>0, <2>7, <2>8, <3>1, <3>2, CongruentSum
  <2>10. Congruent(gn - fn, x * (r + dp), Modulus)
    <3>1. x * (r + dp) = x * r + x * dp
      <4> HIDE DEF dp
      <4> QED BY <2>5, <2>8
    <3>2. (gk - fk) + (bk - ak) = gn - fn
      BY <2>5
    <3> HIDE DEF dp, gn, fn
    <3> QED BY <2>9, <3>1, <3>2
  <2> HIDE DEF gn, fn, dp
  <2>11. /\ gn % Modulus \in Int /\ Congruent(gn % Modulus, gn, Modulus)
         /\ fn % Modulus \in Int /\ Congruent(fn % Modulus, fn, Modulus)
    <3>1. gn % Modulus \in 0..(Modulus - 1) /\ Congruent(gn % Modulus, gn, Modulus)
      BY <1>0, <2>8, CongruentMod
    <3>2. fn % Modulus \in 0..(Modulus - 1) /\ Congruent(fn % Modulus, fn, Modulus)
      BY <1>0, <2>8, CongruentMod
    <3>3. \A w \in 0..(Modulus - 1) : w \in Int
      BY <1>0
    <3> QED BY <3>1, <3>2, <3>3
  <2> DEFINE gm == gn % Modulus
             fm == fn % Modulus
  <2>12. gm \in Int /\ fm \in Int /\ Congruent(gm, gn, Modulus) /\ Congruent(fm, fn, Modulus)
    BY <2>11
  <2>13. g[k + 1] = gm /\ f[k + 1] = fm
    BY <2>7 DEF gn, fn
  <2> HIDE DEF gm, fm
  <2>14. Congruent(gm - fm, gn - fn, Modulus)
    BY <1>0, <2>8, <2>12, CongruentSum
  <2>15. Congruent(gm - fm, x * (r + dp), Modulus)
    <3>1. gm - fm \in Int /\ gn - fn \in Int /\ x * (r + dp) \in Int
      BY <2>5, <2>8, <2>12
    <3> QED BY <1>0, <2>10, <2>14, <3>1, CongruentTrans
  <2>16. QED
    BY <2>6, <2>13, <2>15 DEF dp
<1>5. T = Nat
  <2> HIDE DEF T
  <2>1. T \in SUBSET Nat
    BY DEF T
  <2> QED BY <1>3, <1>4, <2>1, Inductive
<1>6. Congruent(g[BitLength] - f[BitLength], x * (y % Pow2[BitLength]), Modulus)
  BY <1>0, <1>5, SMTT(30)
<1>7. y % Pow2[BitLength] = y
  <2> DEFINE m == Modulus
  <2>1. m \in Nat \ {0} /\ y = m * 0 + y /\ y \in 0..(m - 1) /\ 0 \in Nat
    BY <1>0
  <2> HIDE DEF m
  <2>2. y % m = y
    BY <1>0, <2>1, Quotient
  <2> QED BY <2>2 DEF m, Modulus
<1>8. QED
  BY <1>1, <1>2, <1>6, <1>7

-----------------------------------------------------------------------------
(* Alice's terms and Bob's. *)

\* The term of a bit is the draw shifted by it, for the signed top bit too.
LEMMA TermShifts ==
  ASSUME NEW U \in [Bits -> Word], NEW i \in Bits
  PROVE  Term(U, i) \in Word /\ Congruent(Term(U, i), U[i] * Pow2[i], Modulus)
<1> DEFINE u == U[i]
           p == Pow2[i]
           t == ToInt32(p)
<1>0. BitLength \in Nat \ {0} /\ Mantissa \in Nat /\ Modulus \in Nat \ {0}
      /\ i \in Nat /\ i <= BitLength - 1 /\ i \in 0..Mantissa /\ BitLength - 1 \in Nat
  BY WordFacts DEF Bits
<1>1. u \in Nat /\ u < Pow2[Mantissa] /\ p \in Nat \ {0} /\ u * p \in Nat
  <2>1. u \in Nat /\ u < Modulus
    BY <1>0 DEF Word
  <2>2. Pow2[Mantissa] \in Nat /\ p \in Nat \ {0} /\ Modulus <= Pow2[Mantissa]
    BY <1>0, WordFacts, Pow2Facts
  <2>3. u * p \in Nat
    <3> HIDE DEF u, p
    <3> QED BY <2>1, <2>2
  <2> HIDE DEF u, p
  <2> QED BY <1>0, <2>1, <2>2, <2>3
<1>2. p < Modulus /\ (2 * p < Modulus \/ 2 * p = Modulus)
  <2>1. Pow2[i] <= Pow2[BitLength - 1] /\ Pow2[BitLength - 1] \in Nat \ {0}
    BY <1>0, Pow2Rises, Pow2Facts
  <2>2. Modulus = 2 * Pow2[BitLength - 1]
    BY WordFacts
  <2> DEFINE h == Pow2[BitLength - 1]
  <2>3. p <= h /\ h \in Nat \ {0} /\ Modulus = 2 * h
    BY <2>1, <2>2
  <2> HIDE DEF p, h
  <2> QED BY <1>1, <2>3
<1>3. t = p \/ (t = -p /\ 2 * p = Modulus)
  <2>1. p % Modulus = p
    <3> HIDE DEF p
    <3>1. p = Modulus * 0 + p /\ p \in 0..(Modulus - 1) /\ 0 \in Nat
      BY <1>0, <1>1, <1>2
    <3> QED BY <1>0, <1>1, <3>1, Quotient
  <2>2. t = IF 2 * p < Modulus THEN p ELSE p - Modulus
    <3> HIDE DEF p
    <3> QED BY <2>1 DEF ToInt32
  <2> HIDE DEF p, t
  <2>3. QED
    BY <1>0, <1>1, <1>2, <2>2
<1> DEFINE n == u * t
<1>4. n \in Int /\ (n = u * p \/ n = -(u * p))
  <2> HIDE DEF u, p, t
  <2> QED BY <1>1, <1>3
<1>5. RoundToDouble(n) = n
  <2> HIDE DEF n, u
  <2> QED BY <1>0, <1>1, <1>4, RoundExact
<1>6. Term(U, i) = n % Modulus
  <2>1. Term(U, i) = ToUint32(RoundToDouble(n))
    BY DEF Term
  <2> HIDE DEF n
  <2> QED BY <1>5, <2>1 DEF ToUint32
<1>7. n % Modulus \in 0..(Modulus - 1) /\ Congruent(n % Modulus, n, Modulus)
  <2> HIDE DEF n
  <2> QED BY <1>0, <1>4, CongruentMod
<1>8. Congruent(n, u * p, Modulus)
  <2>1. CASE t = p
    <3>1. n = u * p
      BY <2>1
    <3> HIDE DEF u, p, n
    <3> QED BY <1>0, <1>4, <1>1, <3>1, CongruentRefl
  <2>2. CASE t = -p /\ 2 * p = Modulus
    <3> HIDE DEF u, p, t
    <3>1. Modulus * (-u) = -(2 * (u * p)) /\ u * t = -(u * p) /\ -u \in Int
      BY <1>1, <2>2
    <3>2. n = u * p + Modulus * (-u)
      BY <1>1, <3>1
    <3> HIDE DEF n
    <3> QED BY <3>1, <3>2 DEF Congruent
  <2>3. QED
    BY <1>3, <2>1, <2>2
<1>9. QED
  <2> DEFINE m == n % Modulus
             v == u * p
  <2>1. m \in Int /\ v \in Int /\ n \in Int
    <3>1. \A w \in 0..(Modulus - 1) : w \in Int
      BY <1>0
    <3> QED BY <1>1, <1>4, <1>7, <3>1
  <2>2. Congruent(m, n, Modulus) /\ Congruent(n, v, Modulus)
    BY <1>7, <1>8
  <2>3. Congruent(m, v, Modulus)
    <3> HIDE DEF m, v, n
    <3> QED BY <1>0, <2>1, <2>2, CongruentTrans
  <2> HIDE DEF n
  <2> QED BY <1>6, <1>7, <2>3 DEF Word

\* The sum Alice's rounding starts from is within what a double's exponent covers.
LEMMA SumInRange ==
  ASSUME NEW x \in XShares, NEW u \in Word
  PROVE  u + x \in Nat /\ u + x < Pow2[Mantissa + (Mantissa + BitLength)]
<1>0. BitLength \in Nat \ {0} /\ Mantissa \in Nat /\ Modulus \in Nat \ {0}
      /\ Modulus <= Pow2[Mantissa]
  BY WordFacts
<1> DEFINE mm == Pow2[2 * Mantissa]
           h == Pow2[BitLength]
<1>1. /\ mm \in Nat \ {0} /\ Pow2[Mantissa] <= mm /\ Pow2[Mantissa] \in Nat
      /\ Pow2[Mantissa + (Mantissa + BitLength)] = mm * h
  <2>1. 2 * Mantissa \in Nat /\ Mantissa <= 2 * Mantissa
        /\ Mantissa + (Mantissa + BitLength) = (2 * Mantissa) + BitLength
    BY <1>0
  <2> QED BY <1>0, <2>1, Pow2Facts, Pow2Rises, Pow2Sum
<1>2. h >= 2 /\ h \in Nat
  BY WordFacts DEF Modulus
<1>3. x \in Nat /\ x <= mm
  <2>1. x \in 1..mm
    BY XSharesAssumption DEF CommandLineShares
  <2> HIDE DEF mm
  <2> QED BY <1>1, <2>1
<1>4. u \in Nat /\ u < mm
  <2>1. u \in Nat /\ u < Modulus
    BY <1>0 DEF Word
  <2> HIDE DEF mm
  <2> QED BY <1>0, <1>1, <2>1
<1>5. mm * h >= 2 * mm /\ mm * h \in Nat
  <2> HIDE DEF mm, h
  <2> QED BY <1>1, <1>2
<1> HIDE DEF mm, h
<1>6. QED
  BY <1>1, <1>3, <1>4, <1>5

\* So is the product.
LEMMA ProductInRange ==
  ASSUME NEW x \in XShares, NEW u \in Word
  PROVE  x * u \in Nat /\ x * u < Pow2[Mantissa + (Mantissa + BitLength)]
<1>0. BitLength \in Nat \ {0} /\ Mantissa \in Nat /\ Modulus \in Nat \ {0}
  BY WordFacts
<1> DEFINE mm == Pow2[2 * Mantissa]
           h == Modulus
<1>1. mm \in Nat \ {0} /\ Pow2[Mantissa + (Mantissa + BitLength)] = mm * h
  <2>1. 2 * Mantissa \in Nat
        /\ Mantissa + (Mantissa + BitLength) = (2 * Mantissa) + BitLength
    BY <1>0
  <2> QED BY <1>0, <2>1, Pow2Facts, Pow2Sum DEF Modulus
<1>2. h \in Nat \ {0}
  BY <1>0
<1>3. x \in Nat \ {0} /\ x <= mm
  <2>1. x \in 1..mm
    BY XSharesAssumption DEF CommandLineShares
  <2> HIDE DEF mm
  <2> QED BY <1>1, <2>1
<1>4. u \in Nat /\ u < h
  BY <1>0 DEF Word
<1> HIDE DEF mm, h
<1>5. x * u \in Nat /\ x * u < x * h /\ x * h <= mm * h
  BY <1>1, <1>2, <1>3, <1>4
<1>6. x * h \in Nat /\ mm * h \in Nat
  BY <1>1, <1>2, <1>3
<1>7. QED
  BY <1>1, <1>5, <1>6

\* Cutting to a word what has been rounded.
LEMMA CutIsWord ==
  ASSUME NEW n \in Int
  PROVE  ToUint32(n) \in Word /\ Congruent(ToUint32(n), n, Modulus)
<1>1. Modulus \in Nat \ {0}
  BY WordFacts
<1>2. n % Modulus \in 0..(Modulus - 1) /\ Congruent(n % Modulus, n, Modulus)
  BY <1>1, CongruentMod
<1>3. QED
  BY <1>2 DEF ToUint32, Word

\* The masked share is a word.
LEMMA MaskIsWord ==
  ASSUME NEW x \in XShares, NEW mask \in Word
  PROVE  MaskedShare(x, mask) \in Word
<1>1. x * mask \in Nat /\ x * mask < Pow2[Mantissa + (Mantissa + BitLength)]
  BY ProductInRange
<1>2. RoundToDouble(x * mask) \in Int
  BY <1>1, RoundWhole
<1>3. QED
  BY <1>2, CutIsWord DEF MaskedShare

\* Whole up to 2^Mantissa, and 2^Mantissa itself, numbers are doubles.
LEMMA WholeExact ==
  ASSUME NEW n \in Nat, n <= Pow2[Mantissa]
  PROVE  RoundToDouble(n) = n
<1>0. Mantissa \in Nat /\ Pow2[Mantissa] \in Nat \ {0} /\ Pow2[0] = 1
  BY WordFacts, Pow2Facts
<1>1. CASE n < Pow2[Mantissa]
  <2>1. n = n * Pow2[0] /\ 0 \in 0..Mantissa
    BY <1>0
  <2> QED BY <1>0, <1>1, <2>1, RoundExact
<1>2. CASE n = Pow2[Mantissa]
  <2>1. Mantissa \in 0..Mantissa /\ 1 \in Nat
    BY <1>0
  <2>2. n = 1 * Pow2[Mantissa]
    BY <1>0, <1>2
  <2>3. 1 < Pow2[Mantissa]
    <3>1. 0 \in Nat /\ Mantissa >= 1
      BY <1>0, WordFacts
    <3>2. BitLength \in Nat /\ BitLength <= Mantissa /\ Modulus >= 2
          /\ Modulus <= Pow2[Mantissa] /\ Modulus \in Nat
      BY WordFacts
    <3> QED BY <1>0, <3>2
  <2>4. n \in Int
    OBVIOUS
  <2> QED BY <1>0, <2>1, <2>2, <2>3, <2>4, RoundExact
<1>3. QED
  BY <1>0, <1>1, <1>2

\* What Bob's transfers are for: m0 for a bit 0 of y, m1, which is congruent to U + x, for a 1.
LEMMA MessageChosen ==
  ASSUME NEW x \in XShares, NEW U \in [Bits -> Word], NEW i \in Bits
  PROVE  /\ COTMessages(U, x, i).m0 = U[i] /\ U[i] \in Word
         /\ COTMessages(U, x, i).m1 \in Word
         /\ x + Modulus - 1 <= Pow2[Mantissa] =>
              Congruent(COTMessages(U, x, i).m1, U[i] + x, Modulus)
<1> DEFINE n == U[i] + x
           m == COTMessages(U, x, i)
<1>1. U[i] \in Word /\ n \in Nat /\ n < Pow2[Mantissa + (Mantissa + BitLength)]
  BY SumInRange
<1>2. RoundToDouble(n) \in Int
  <2> HIDE DEF n
  <2> QED BY <1>1, RoundWhole
<1>3. m.m0 = U[i] /\ m.m1 = ToUint32(RoundToDouble(n))
  BY DEF COTMessages
<1>4. m.m1 \in Word
  <2> HIDE DEF n, m
  <2> QED BY <1>2, <1>3, CutIsWord
<1>5. ASSUME x + Modulus - 1 <= Pow2[Mantissa] PROVE Congruent(m.m1, n, Modulus)
  <2>1. n <= Pow2[Mantissa]
    <3>1. Modulus \in Nat \ {0} /\ Pow2[Mantissa] \in Nat
      BY WordFacts, Pow2Facts
    <3>2. U[i] \in Nat /\ U[i] <= Modulus - 1
      BY <1>1, <3>1 DEF Word
    <3>3. x \in Nat
      <4>1. 2 * Mantissa \in Nat
        BY WordFacts
      <4>2. Pow2[2 * Mantissa] \in Nat
        BY <4>1, Pow2Facts
      <4> QED BY <4>2, XSharesAssumption DEF CommandLineShares
    <3> QED BY <1>5, <3>1, <3>2, <3>3
  <2>2. RoundToDouble(n) = n /\ n \in Int
    <3>1. n \in Int
      BY <1>1
    <3> HIDE DEF n
    <3> QED BY <1>1, <2>1, <3>1, WholeExact
  <2>3. QED
    <3> HIDE DEF n, m
    <3> QED BY <1>3, <2>2, CutIsWord
<1>6. QED
  BY <1>1, <1>3, <1>4, <1>5

-----------------------------------------------------------------------------
(* The invariant. *)

\* The words Bob is meant to read are words.
LEMMA ChosenWordsTyped ==
  ASSUME xShare \in XShares, random_U \in [Bits -> Word]
  PROVE  ChosenWords \in [Bits -> Word]
<1>1. ASSUME NEW i \in Bits PROVE ChosenWords[i] \in Word
  <2> DEFINE m == COTMessages(random_U, xShare, i)
  <2>1. m.m0 \in Word /\ m.m1 \in Word
    BY MessageChosen
  <2>2. ChosenWords[i] = IF GetBit(yShare, i) = 1 THEN m.m1 ELSE m.m0
    BY DEF ChosenWords
  <2> HIDE DEF m
  <2> QED BY <2>1, <2>2
<1>2. ChosenWords = [i \in Bits |-> ChosenWords[i]]
  BY DEF ChosenWords
<1>3. QED
  BY <1>1, <1>2

\* Bob's terms are words, congruent to his shifted words.
LEMMA BobTerm ==
  ASSUME NEW words \in [Bits -> Word], NEW i \in Bits
  PROVE  /\ (words[i] * Pow2[i]) % Modulus \in Int
         /\ Congruent((words[i] * Pow2[i]) % Modulus, words[i] * Pow2[i], Modulus)
<1>1. words[i] \in Int /\ Pow2[i] \in Int /\ Modulus \in Nat \ {0}
  <2>1. BitLength \in Nat \ {0} /\ Modulus \in Nat \ {0}
    BY WordFacts
  <2>2. i \in Nat /\ words[i] \in Word
    BY <2>1 DEF Bits
  <2>3. Pow2[i] \in Int
    BY <2>2, Pow2Facts
  <2> QED BY <2>1, <2>2, <2>3 DEF Word
<1> DEFINE n == words[i] * Pow2[i]
<1>2. n \in Int
  BY <1>1
<1> HIDE DEF n
<1>3. n % Modulus \in 0..(Modulus - 1) /\ Congruent(n % Modulus, n, Modulus)
  BY <1>1, <1>2, CongruentMod
<1>4. \A w \in 0..(Modulus - 1) : w \in Int
  BY <1>1
<1>5. QED
  BY <1>3, <1>4 DEF n

\* Bob's V and Alice's U are words.
LEMMA SharesTyped ==
  /\ \A words \in [Bits -> Word] : ExecuteCOTMultiplication(words) \in Word
  /\ \A U \in [Bits -> Word] : CalculateAdditiveShare(U) \in Word
<1>1. ASSUME NEW words \in [Bits -> Word]
      PROVE  ExecuteCOTMultiplication(words) \in Word
  <2>1. [i \in Bits |-> (words[i] * Pow2[i]) % Modulus] \in [Bits -> Int]
    BY BobTerm
  <2> QED BY <2>1, SumIsWord DEF ExecuteCOTMultiplication
<1>2. ASSUME NEW U \in [Bits -> Word]
      PROVE  CalculateAdditiveShare(U) \in Word
  <2>0. \A w \in Word : w \in Int
    BY WordFacts DEF Word
  <2>1. [i \in Bits |-> Term(U, i)] \in [Bits -> Int]
    BY <2>0, TermShifts
  <2>2. Accumulate([i \in Bits |-> Term(U, i)]) \in Int
    BY <2>0, <2>1, SumIsWord
  <2> QED BY <2>2, CutIsWord DEF CalculateAdditiveShare
<1>3. QED
  BY <1>1, <1>2

\* All start as 0.
LEMMA InitTyped == Init => TypeOK
<1>1. 0 \in Word
  BY WordFacts DEF Word
<1>2. QED
  BY <1>1, SharesAssumption DEF Init, TypeOK

\* A step of either keeps the types, whatever words Bob reads.
LEMMA StepTyped ==
  ASSUME TypeOK,
         \/ PrepareAliceMessages
         \/ ExecuteAliceMTA
         \/ \E words \in [Bits -> Word], masked \in Word : ProcessAliceMessages(words, masked)
         \/ UNCHANGED vars
  PROVE  TypeOK'
<1>0. Modulus \in Nat \ {0}
  BY WordFacts
<1>1. CASE PrepareAliceMessages
  <2>1. PICK U \in [Bits -> Word], mask \in Word :
          random_U' = U /\ alpha' = mask /\ masked_share' = MaskedShare(xShare, mask)
    BY <1>1 DEF PrepareAliceMessages
  <2>2. masked_share' \in Word
    BY <2>1, MaskIsWord DEF TypeOK
  <2>3. QED
    BY <1>1, <2>1, <2>2 DEF PrepareAliceMessages, TypeOK
<1>2. CASE ExecuteAliceMTA
  <2>1. aliceShare' \in Word
    BY <1>2, SharesTyped DEF ExecuteAliceMTA, TypeOK
  <2>2. QED
    BY <1>2, <2>1 DEF ExecuteAliceMTA, TypeOK
<1>3. ASSUME NEW words \in [Bits -> Word], NEW masked \in Word,
             ProcessAliceMessages(words, masked)
      PROVE  TypeOK'
  <2>1. cotShare' \in Word
    BY <1>3, SharesTyped DEF ProcessAliceMessages
  <2>2. bobShare' \in Word
    <3>1. PICK beta \in Word : bobShare' = (beta * masked + cotShare') % Modulus
      BY <1>3 DEF ProcessAliceMessages, ExecuteBobMTA
    <3>2. beta * masked + cotShare' \in Int
      <4>1. beta \in Int /\ masked \in Int /\ cotShare' \in Int
        BY <1>0, <2>1 DEF Word
      <4> QED BY <4>1
    <3> DEFINE n == beta * masked + cotShare'
    <3>3. n \in Int /\ bobShare' = n % Modulus
      BY <3>1, <3>2
    <3> HIDE DEF n
    <3>4. n % Modulus \in 0..(Modulus - 1)
      BY <1>0, <3>3, CongruentMod
    <3> QED BY <3>3, <3>4 DEF Word
  <2>3. QED
    BY <1>3, <2>1, <2>2 DEF ProcessAliceMessages, TypeOK
<1>4. CASE UNCHANGED vars
  BY <1>4 DEF vars, TypeOK
<1>5. QED
  BY <1>1, <1>2, <1>3, <1>4

\* Every value a party holds is a word, whatever Bob reads.
THEOREM SharesTypes == Spec => []TypeOK
<1>1. TypeOK /\ [PrepareAliceMessages \/ BobReads \/ ExecuteAliceMTA]_vars => TypeOK'
  BY StepTyped DEF BobReads
<1>2. QED
  BY InitTyped, <1>1, PTL DEF Spec

-----------------------------------------------------------------------------
(* The product. *)

\* In the ideal behaviours each value is what its party computed from the draws.
LEMMA StepComputed ==
  ASSUME IInv, [PrepareAliceMessages \/ BobReadsAll \/ ExecuteAliceMTA]_vars
  PROVE  IInv'
<1>1. TypeOK'
  <2>1. ASSUME BobReadsAll
        PROVE  \E words \in [Bits -> Word], masked \in Word : ProcessAliceMessages(words, masked)
    <3>1. ChosenWords \in [Bits -> Word] /\ masked_share \in Word
      BY ChosenWordsTyped DEF IInv, TypeOK
    <3> QED BY <2>1, <3>1 DEF BobReadsAll
  <2>2. QED
    BY <2>1, StepTyped DEF IInv
<1>2. Computed'
  <2>1. CASE PrepareAliceMessages
    BY <2>1 DEF PrepareAliceMessages, Computed
  <2>2. CASE BobReadsAll
    <3>1. ChosenWords' = ChosenWords
      BY <2>2 DEF BobReadsAll, ProcessAliceMessages, ChosenWords
    <3>2. mc' = ChosenWords /\ cotShare' = ExecuteCOTMultiplication(mc')
      BY <2>2 DEF BobReadsAll, ProcessAliceMessages
    <3>3. masked_share' = MaskedShare(xShare', alpha')
      BY <2>2 DEF BobReadsAll, ProcessAliceMessages, IInv, Computed
    <3>4. stage' = "answered"
      BY <2>2 DEF BobReadsAll, ProcessAliceMessages
    <3>5. QED
      BY <3>1, <3>2, <3>3, <3>4 DEF Computed
  <2>3. CASE ExecuteAliceMTA
    <3>1. ChosenWords' = ChosenWords
      BY <2>3 DEF ExecuteAliceMTA, ChosenWords
    <3>2. QED
      BY <2>3, <3>1 DEF ExecuteAliceMTA, IInv, Computed
  <2>4. CASE UNCHANGED vars
    <3>1. ChosenWords' = ChosenWords
      BY <2>4 DEF vars, ChosenWords
    <3>2. QED
      BY <2>4, <3>1 DEF vars, IInv, Computed
  <2>5. QED
    BY <2>1, <2>2, <2>3, <2>4
<1>3. QED
  BY <1>1, <1>2 DEF IInv

\* In the behaviours in which nothing is lost, each value is what its party computes from the draws.
LEMMA IdealInvariance == IdealSpec => []IInv
<1>1. Init => IInv
  BY InitTyped DEF Init, IInv, Computed
<1>2. IInv /\ [PrepareAliceMessages \/ BobReadsAll \/ ExecuteAliceMTA]_vars => IInv'
  BY StepComputed
<1>3. QED
  BY <1>1, <1>2, PTL DEF IdealSpec

\* Bit by bit, Bob's term exceeds Alice's by the bit of y times x, shifted.
LEMMA TermsDiffer ==
  ASSUME IInv, xShare + Modulus - 1 <= Pow2[Mantissa], NEW i \in Bits
  PROVE  Congruent(((ChosenWords[i] * Pow2[i]) % Modulus) - Term(random_U, i),
                   xShare * (GetBit(yShare, i) * Pow2[i]), Modulus)
<1>1. xShare \in XShares /\ random_U \in [Bits -> Word] /\ yShare \in Word
      /\ ChosenWords \in [Bits -> Word]
  BY ChosenWordsTyped DEF IInv, TypeOK
<1> DEFINE c == ChosenWords[i]
           u == random_U[i]
           p == Pow2[i]
           d == GetBit(yShare, i)
           x == xShare
           a == Term(random_U, i)
           b == (ChosenWords[i] * Pow2[i]) % Modulus
<1>2. Modulus \in Nat \ {0} /\ \A w \in Word : w \in Int
  BY WordFacts DEF Word
<1>3. x \in Int
  <2>1. 2 * Mantissa \in Nat
    BY WordFacts
  <2>2. Pow2[2 * Mantissa] \in Nat
    BY <2>1, Pow2Facts
  <2> QED BY <1>1, <2>2, XSharesAssumption DEF CommandLineShares
<1>4. c \in Int /\ u \in Int /\ a \in Int /\ b \in Int
      /\ Congruent(a, u * p, Modulus) /\ Congruent(b, c * p, Modulus)
  <2>1. c \in Int /\ u \in Int
    BY <1>1, <1>2
  <2>2. a \in Int /\ Congruent(a, u * p, Modulus)
    BY <1>1, <1>2, TermShifts
  <2>3. b \in Int /\ Congruent(b, c * p, Modulus)
    BY <1>1, BobTerm
  <2> HIDE DEF a, b, c, u
  <2> QED BY <2>1, <2>2, <2>3
<1>5. i \in Nat /\ p \in Int
  <2>1. i \in Nat
    BY WordFacts DEF Bits
  <2> QED BY <2>1, Pow2Facts
<1>6. d \in {0, 1}
  <2> DEFINE z == yShare \div p
  <2>1. z \in Nat
    <3>1. yShare \in Nat /\ p \in Nat \ {0}
      BY <1>1, <1>2, <1>5, Pow2Facts DEF Word
    <3> HIDE DEF p
    <3> QED BY <3>1, DivMod
  <2>2. d = z % 2
    BY DEF GetBit
  <2> HIDE DEF z, d
  <2> QED BY <2>1, <2>2
<1>7. Congruent(c, u + d * x, Modulus)
  <2>1. c = IF d = 1 THEN COTMessages(random_U, x, i).m1 ELSE COTMessages(random_U, x, i).m0
    BY DEF ChosenWords
  <2>2. CASE d = 1
    <3>1. c = COTMessages(random_U, x, i).m1
      BY <2>1, <2>2
    <3>2. Congruent(COTMessages(random_U, x, i).m1, u + x, Modulus)
      BY <1>1, MessageChosen
    <3>3. d * x = x
      <4> HIDE DEF d, x
      <4> QED BY <1>3, <2>2
    <3> QED BY <3>1, <3>2, <3>3
  <2>3. CASE d = 0
    <3>1. c = COTMessages(random_U, x, i).m0
      BY <2>1, <2>3
    <3>2. COTMessages(random_U, x, i).m0 = u
      BY <1>1, MessageChosen
    <3>3. u + d * x = u
      <4> HIDE DEF d, x, u
      <4> QED BY <1>3, <1>4, <2>3
    <3>4. Congruent(u, u, Modulus)
      <4> HIDE DEF u
      <4> QED BY <1>2, <1>4, CongruentRefl
    <3> QED BY <3>1, <3>2, <3>3, <3>4
  <2>4. QED
    BY <1>6, <2>2, <2>3
<1> HIDE DEF c, u, p, d, x, a, b
<1> DEFINE dx == d * x
           cp == c * p
           up == u * p
           sp == (u + dx) * p
<1>8. dx \in Int /\ cp \in Int /\ up \in Int /\ sp \in Int /\ u + dx \in Int
  <2>1. dx \in Int
    BY <1>3, <1>6
  <2> HIDE DEF dx
  <2> QED BY <1>4, <1>5, <2>1
<1>9. Congruent(cp, sp, Modulus)
  <2>1. Congruent(c, u + dx, Modulus)
    BY <1>7
  <2> HIDE DEF dx
  <2> QED BY <1>2, <1>4, <1>5, <1>8, <2>1, CongruentProduct
<1>10. sp - up = x * (d * p)
  <2>1. (u + dx) * p = up + dx * p
    <3> HIDE DEF dx
    <3> QED BY <1>4, <1>5, <1>8
  <2>2. dx * p = x * (d * p)
    BY <1>3, <1>5, <1>6
  <2>3. x * (d * p) \in Int
    <3>1. d * p \in Int
      BY <1>5, <1>6
    <3> QED BY <1>3, <3>1
  <2> DEFINE e == x * (d * p)
  <2>4. sp = up + e /\ e \in Int
    BY <2>1, <2>2, <2>3
  <2> HIDE DEF e, sp, up
  <2>5. sp - up = e
    BY <1>8, <2>4
  <2> QED BY <2>5 DEF e
<1> HIDE DEF cp, up, sp
<1>11. Congruent(b, sp, Modulus)
  BY <1>2, <1>4, <1>8, <1>9, CongruentTrans DEF cp
<1>12. Congruent(b - a, sp - up, Modulus)
  BY <1>2, <1>4, <1>8, <1>11, CongruentSum DEF up
<1>13. QED
  BY <1>10, <1>12 DEF a, b, x, d, p

\* With the words the transfers are for, Bob's V exceeds Alice's U by x * y.
LEMMA SharesDiffer == IInv => ProductIsShared
<1>1. SUFFICES ASSUME IInv, stage = "done", xShare + Modulus - 1 <= Pow2[Mantissa]
               PROVE  (cotShare - aliceShare) % Modulus = (xShare * yShare) % Modulus
  BY DEF ProductIsShared
<1> DEFINE a == [i \in Bits |-> Term(random_U, i)]
           b == [i \in Bits |-> (ChosenWords[i] * Pow2[i]) % Modulus]
           A == Accumulate(a)
           B == Accumulate(b)
           x == xShare
           y == yShare
<1>2. Modulus \in Nat \ {0} /\ \A w \in Word : w \in Int
  BY WordFacts DEF Word
<1>3. x \in Int /\ y \in Word /\ random_U \in [Bits -> Word] /\ ChosenWords \in [Bits -> Word]
  <2>1. 2 * Mantissa \in Nat
    BY WordFacts
  <2>2. Pow2[2 * Mantissa] \in Nat
    BY <2>1, Pow2Facts
  <2>3. x \in Int
    BY <1>1, <2>2, XSharesAssumption DEF CommandLineShares, IInv, TypeOK
  <2> QED BY <1>1, <2>3, ChosenWordsTyped DEF IInv, TypeOK
<1>4. a \in [Bits -> Int] /\ b \in [Bits -> Int]
  <2>1. \A i \in Bits : Term(random_U, i) \in Int
    BY <1>2, <1>3, TermShifts
  <2>2. \A i \in Bits : (ChosenWords[i] * Pow2[i]) % Modulus \in Int
    BY <1>3, BobTerm
  <2>3. QED
    BY <2>1, <2>2
<1>5. \A i \in Bits : Congruent(b[i] - a[i], x * (GetBit(y, i) * Pow2[i]), Modulus)
  BY <1>1, TermsDiffer
<1>6. Congruent(B - A, x * y, Modulus)
  <2> HIDE DEF a, b, x, y
  <2> QED BY <1>3, <1>4, <1>5, Multiplies
<1>7. A \in Int /\ B \in Int
  <2> HIDE DEF a, b
  <2> QED BY <1>2, <1>4, SumIsWord
<1>8. cotShare = B /\ aliceShare = ToUint32(A)
  BY <1>1 DEF IInv, Computed, ExecuteCOTMultiplication, CalculateAdditiveShare
<1> HIDE DEF A, B, x, y
<1>9. aliceShare \in Int /\ Congruent(aliceShare, A, Modulus)
  BY <1>2, <1>7, <1>8, CutIsWord
<1> DEFINE v == aliceShare
<1>10. v \in Int /\ Congruent(v, A, Modulus) /\ y \in Int
  BY <1>2, <1>3, <1>9
<1> HIDE DEF v
<1>11. Congruent(B - v, B - A, Modulus)
  BY <1>2, <1>7, <1>10, CongruentRefl, CongruentSum
<1>12. Congruent(B - v, x * y, Modulus)
  BY <1>2, <1>3, <1>6, <1>7, <1>10, <1>11, CongruentTrans
<1>13. (B - v) % Modulus = (x * y) % Modulus
  BY <1>2, <1>3, <1>7, <1>10, <1>12, CongruentSame
<1>14. QED
  BY <1>8, <1>13 DEF v, x, y

\* The multiplication is right whatever is drawn, with the signed 1 << 31 and the doubles of
\* calculateAdditiveShare against the uint64_t of execute_cot_multiplication.
THEOREM IdealProduct == IdealSpec => []ProductIsShared
BY IdealInvariance, SharesDiffer, PTL

\* A small share is masked exactly.
LEMMA MaskExact == IInv => MaskExactForSmallShares
<1>1. SUFFICES ASSUME IInv, stage # "start", xShare * Modulus <= Pow2[Mantissa]
               PROVE  masked_share = (xShare * alpha) % Modulus
  BY DEF MaskExactForSmallShares
<1>2. Modulus \in Nat \ {0} /\ Pow2[Mantissa] \in Nat
  BY WordFacts, Pow2Facts
<1>3. xShare \in Nat /\ alpha \in Nat /\ alpha < Modulus
  <2>1. 2 * Mantissa \in Nat
    BY WordFacts
  <2>2. Pow2[2 * Mantissa] \in Nat
    BY <2>1, Pow2Facts
  <2>3. xShare \in Nat
    BY <1>1, <2>2, XSharesAssumption DEF CommandLineShares, IInv, TypeOK
  <2> QED BY <1>1, <1>2, <2>3 DEF IInv, TypeOK, Word
<1> DEFINE n == xShare * alpha
<1>4. n \in Nat /\ n <= xShare * Modulus /\ xShare * Modulus \in Nat
  BY <1>2, <1>3
<1> HIDE DEF n
<1>5. n <= Pow2[Mantissa]
  BY <1>1, <1>2, <1>4
<1>6. RoundToDouble(n) = n
  BY <1>4, <1>5, WholeExact
<1>7. masked_share = ToUint32(RoundToDouble(n))
  BY <1>1 DEF IInv, Computed, MaskedShare, n
<1>8. QED
  BY <1>6, <1>7 DEF ToUint32, n

\* No bit of x * alpha is lost for the shares generateRandomShare draws.
THEOREM IdealMask == IdealSpec => []MaskExactForSmallShares
BY IdealInvariance, MaskExact, PTL

\* The ideal behaviours are behaviours of the program: each is one of its outcomes.
THEOREM IdealIsPossible == IdealSpec => Spec
<1>1. IInv /\ [PrepareAliceMessages \/ BobReadsAll \/ ExecuteAliceMTA]_vars
        => [PrepareAliceMessages \/ BobReads \/ ExecuteAliceMTA]_vars
  <2>1. IInv /\ BobReadsAll => BobReads
    <3>1. IInv => ChosenWords \in [Bits -> Word] /\ masked_share \in Word
      BY ChosenWordsTyped DEF IInv, TypeOK
    <3> QED BY <3>1 DEF BobReadsAll, BobReads
  <2>2. QED
    BY <2>1
<1>2. QED
  BY <1>1, IdealInvariance, PTL DEF IdealSpec, Spec

=============================================================================
