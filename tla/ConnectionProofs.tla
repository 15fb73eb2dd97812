-------------------------- MODULE ConnectionProofs --------------------------
(***************************************************************************)
(* Proofs about the framing, for any size of the header, of the buffer and *)
(* of the frames, and any way the network cuts the two byte streams.       *)
(***************************************************************************)
EXTENDS MtaConnection, NatLemmas, SequenceTheorems

-----------------------------------------------------------------------------
(* The header. *)

\* The weights of the bytes of a header are the powers of Base.
LEMMA WeightFacts ==
  /\ Weight \in [0..HeaderLen -> Nat \ {0}] /\ Weight[0] = 1
  /\ \A i \in 1..HeaderLen : Weight[i] = Base * Weight[i - 1]
<1>0. HeaderLen \in Nat \ {0} /\ Base \in Nat \ {0, 1}
  BY FramingAssumption
<1> DEFINE D == Nat \ {0}
           s == [i \in Nat |-> [w \in D |-> Base * w]]
<1>1. s \in [Nat -> [D -> D]]
  BY <1>0
<1>2. StepByStep(D, 1, s, HeaderLen)
  <2>1. 1 \in D /\ HeaderLen \in Nat
    BY <1>0
  <2> HIDE DEF s, D
  <2>2. QED
    BY <1>1, <2>1, Iterates
<1>r. PICK g \in [0..HeaderLen -> D] :
        \A i \in 0..HeaderLen : g[i] = IF i = 0 THEN 1 ELSE s[i][g[i - 1]]
  <2> HIDE DEF s, D
  <2> QED BY <1>2 DEF StepByStep
<1>3. ASSUME NEW i \in 0..HeaderLen
      PROVE  g[i] = IF i = 0 THEN 1 ELSE Base * g[i - 1]
  <2>1. CASE i # 0
    <3>1. i \in Nat /\ i - 1 \in 0..HeaderLen
      BY <1>0, <2>1
    <3>2. g[i - 1] \in D
      BY <3>1
    <3>3. g[i] = s[i][g[i - 1]]
      BY <1>r, <2>1
    <3>4. s[i][g[i - 1]] = Base * g[i - 1]
      BY <3>1, <3>2
    <3>5. QED
      BY <2>1, <3>3, <3>4
  <2>2. QED
    BY <1>r, <2>1
<1>4. g = [i \in 0..HeaderLen |-> IF i = 0 THEN 1 ELSE Base * g[i - 1]]
  BY <1>r, <1>3
<1>5. Weight = [i \in 0..HeaderLen |-> IF i = 0 THEN 1 ELSE Base * Weight[i - 1]]
  BY <1>4 DEF Weight
<1>q. 0 \in 0..HeaderLen /\ \A i \in 1..HeaderLen : i \in 0..HeaderLen /\ i # 0
  BY <1>0
<1>6. Weight[0] = 1 /\ \A i \in 1..HeaderLen : Weight[i] = Base * Weight[i - 1]
  BY <1>5, <1>q, Zenon
<1>7. \A i \in 0..HeaderLen : Weight[i] \in Nat \ {0}
  <2> DEFINE T == {i \in Nat : i \in 0..HeaderLen => Weight[i] \in Nat \ {0}}
  <2>1. 0 \in T
    BY <1>6
  <2>2. ASSUME NEW i \in T PROVE i + 1 \in T
    <3>1. CASE i + 1 \in 0..HeaderLen
      <4>1. i \in 0..HeaderLen /\ i + 1 \in 1..HeaderLen
        BY <1>0, <3>1
      <4>2. Weight[i + 1] = Base * Weight[i]
        BY <1>6, <4>1
      <4>3. QED
        BY <1>0, <4>1, <4>2
    <3>2. QED
      BY <3>1
  <2>3. T = Nat
    <3> HIDE DEF T
    <3>1. T \in SUBSET Nat
      BY DEF T
    <3> QED BY <2>1, <2>2, <3>1, Inductive
  <2>4. QED
    BY <2>3
<1>8. DOMAIN Weight = 0..HeaderLen /\ Weight = [i \in DOMAIN Weight |-> Weight[i]]
  BY <1>5
<1>9. QED
  BY <1>6, <1>7, <1>8

\* A header is a sequence of HeaderLen digits.
LEMMA HeaderFacts ==
  ASSUME NEW n \in Nat
  PROVE  /\ Header(n) \in Seq(Byte) /\ Len(Header(n)) = HeaderLen
         /\ \A j \in 1..HeaderLen : Header(n)[j] = (n \div Weight[j - 1]) % Base
<1>0. HeaderLen \in Nat \ {0} /\ Base \in Nat \ {0, 1}
  BY FramingAssumption
<1>1. ASSUME NEW j \in 1..HeaderLen
      PROVE  (n \div Weight[j - 1]) % Base \in Byte
  <2>1. Weight[j - 1] \in Nat \ {0}
    BY <1>0, WeightFacts
  <2>2. n \div Weight[j - 1] \in Nat
    BY <2>1, DivMod
  <2>3. QED
    BY <1>0, <2>2, DivMod DEF Byte
<1>2. Header(n) \in [1..HeaderLen -> Byte]
  BY <1>1 DEF Header
<1>3. Len(Header(n)) = HeaderLen /\ Header(n) \in Seq(Byte)
  BY <1>0, <1>2
<1>4. QED
  BY <1>3 DEF Header

\* A packed frame is its header and then its bytes.
LEMMA PackedFacts ==
  ASSUME NEW f \in Seq(Byte)
  PROVE  /\ Packed(f) \in Seq(Byte) /\ Len(Packed(f)) = HeaderLen + Len(f)
         /\ \A j \in 1..HeaderLen : Packed(f)[j] = Header(Len(f))[j]
         /\ \A j \in 1..Len(f) : Packed(f)[HeaderLen + j] = f[j]
<1>1. Len(f) \in Nat /\ HeaderLen \in Nat
  BY FramingAssumption
<1>2. Header(Len(f)) \in Seq(Byte) /\ Len(Header(Len(f))) = HeaderLen
  BY <1>1, HeaderFacts
<1>3. QED
  BY <1>1, <1>2 DEF Packed

\* A reader finds the size that the header was made of.
LEMMA SizeOfHeader ==
  ASSUME NEW bytes \in Seq(Byte), Len(bytes) >= HeaderLen,
         NEW n \in Nat, n < Weight[HeaderLen],
         \A j \in 1..HeaderLen : bytes[j] = Header(n)[j]
  PROVE  SizeOf(bytes) = n
<1>0. HeaderLen \in Nat \ {0} /\ Base \in Nat \ {0, 1}
  BY FramingAssumption
<1>w. \A i \in 0..HeaderLen : Weight[i] \in Nat \ {0}
  BY WeightFacts
<1> DEFINE D == Int
           s == [i \in Nat |-> [v \in D |->
                   IF i \in 1..HeaderLen THEN v + bytes[i] * Weight[i - 1] ELSE v]]
<1>1. \A j \in 1..HeaderLen : bytes[j] \in Int /\ Weight[j - 1] \in Int
                              /\ bytes[j] * Weight[j - 1] \in Int
  <2>1. \A j \in 1..HeaderLen : bytes[j] \in Byte /\ Weight[j - 1] \in Nat
    BY <1>0, <1>w
  <2>2. QED
    BY <1>0, <2>1 DEF Byte
<1>2. s \in [Nat -> [D -> D]]
  BY <1>1
<1>3. StepByStep(D, 0, s, HeaderLen)
  <2>1. 0 \in D /\ HeaderLen \in Nat
    BY <1>0
  <2> HIDE DEF s, D
  <2>2. QED
    BY <1>2, <2>1, Iterates
<1>4. PICK g \in [0..HeaderLen -> D] :
        \A i \in 0..HeaderLen : g[i] = IF i = 0 THEN 0 ELSE s[i][g[i - 1]]
  <2> HIDE DEF s, D
  <2>1. QED
    BY <1>3 DEF StepByStep
<1>5. ASSUME NEW i \in 0..HeaderLen
      PROVE  g[i] = IF i = 0 THEN 0 ELSE g[i - 1] + bytes[i] * Weight[i - 1]
  <2>1. CASE i # 0
    <3>1. i \in Nat /\ i \in 1..HeaderLen /\ i - 1 \in 0..HeaderLen
      BY <1>0, <2>1
    <3>2. g[i - 1] \in Int
      BY <3>1
    <3>3. g[i] = s[i][g[i - 1]]
      BY <1>4, <2>1
    <3>4. QED
      BY <2>1, <3>1, <3>2, <3>3
  <2>2. QED
    BY <1>4, <2>1
<1> DEFINE F == CHOOSE v : v = [i \in 0..HeaderLen |-> IF i = 0 THEN 0
                                  ELSE v[i - 1] + bytes[i] * Weight[i - 1]]
<1>6. F = [i \in 0..HeaderLen |-> IF i = 0 THEN 0 ELSE F[i - 1] + bytes[i] * Weight[i - 1]]
  <2>1. g = [i \in 0..HeaderLen |-> IF i = 0 THEN 0 ELSE g[i - 1] + bytes[i] * Weight[i - 1]]
    BY <1>5
  <2>2. QED
    BY <2>1
<1>7. SizeOf(bytes) = F[HeaderLen]
  BY DEF SizeOf
<1> HIDE DEF F
<1>8. F[0] = 0 /\ \A i \in 1..HeaderLen : F[i] = F[i - 1] + bytes[i] * Weight[i - 1]
  <2>1. 0 \in 0..HeaderLen /\ \A i \in 1..HeaderLen : i \in 0..HeaderLen /\ i # 0
    BY <1>0
  <2>2. QED
    BY <1>6, <2>1, Zenon
<1>9. \A i \in 0..HeaderLen : F[i] = n % Weight[i]
  <2> DEFINE T == {i \in Nat : i \in 0..HeaderLen => F[i] = n % Weight[i]}
  <2>1. 0 \in T
    BY <1>8, WeightFacts
  <2>2. ASSUME NEW i \in T, i + 1 \in 0..HeaderLen
        PROVE  F[i + 1] = n % Weight[i + 1]
    <3>1. i \in 0..HeaderLen /\ i + 1 \in 1..HeaderLen /\ (i + 1) - 1 = i
      BY <1>0, <2>2
    <3>2. F[i + 1] = F[i] + bytes[i + 1] * Weight[i]
      BY <1>8, <3>1
    <3>3. bytes[i + 1] = (n \div Weight[i]) % Base
      BY <3>1, HeaderFacts
    <3>4. Weight[i + 1] = Weight[i] * Base
      BY <1>0, <1>w, <3>1, WeightFacts
    <3>5. n % (Weight[i] * Base) = (n % Weight[i]) + ((n \div Weight[i]) % Base) * Weight[i]
      BY <1>0, <1>w, <3>1, Digit, ZenonT(60)
    <3>6. QED
      BY <2>2, <3>1, <3>2, <3>3, <3>4, <3>5
  <2>3. \A i \in T : i + 1 \in T
    BY <2>2
  <2>4. T = Nat
    <3> HIDE DEF T
    <3>1. T \in SUBSET Nat
      BY DEF T
    <3>2. QED
      BY <2>1, <2>3, <3>1, Inductive
  <2>5. QED
    BY <2>4
<1>10. n % Weight[HeaderLen] = n
  <2>1. Weight[HeaderLen] \in Nat \ {0}
    BY <1>0, <1>w
  <2>2. QED
    BY <2>1
<1>11. QED
  BY <1>0, <1>7, <1>9, <1>10

-----------------------------------------------------------------------------
(* A stream of frames. *)

\* What is left of a sequence whose first n elements are dropped.
LEMMA DropFacts ==
  ASSUME NEW S, NEW b \in Seq(S), NEW n \in 0..Len(b)
  PROVE  /\ Drop(b, n) \in Seq(S) /\ Len(Drop(b, n)) = Len(b) - n
         /\ \A j \in 1..(Len(b) - n) : Drop(b, n)[j] = b[n + j]
BY DEF Drop

\* Dropping no more than the first of two sequences has leaves the second as it is.
LEMMA DropFromBoth ==
  ASSUME NEW S, NEW a \in Seq(S), NEW b \in Seq(S), NEW n \in 0..Len(a)
  PROVE  Drop(a \o b, n) = Drop(a, n) \o b
<1>0. n \in Nat /\ Len(a) \in Nat /\ Len(b) \in Nat /\ n <= Len(a)
  OBVIOUS
<1> DEFINE c == a \o b
<1>1. c \in Seq(S) /\ Len(c) = Len(a) + Len(b) /\ n \in 0..Len(c)
  OBVIOUS
<1>2. Drop(a, n) \in Seq(S) /\ Len(Drop(a, n)) = Len(a) - n
      /\ \A j \in 1..(Len(a) - n) : Drop(a, n)[j] = a[n + j]
  BY DropFacts
<1>3. Drop(c, n) \in Seq(S) /\ Len(Drop(c, n)) = Len(c) - n
      /\ \A j \in 1..(Len(c) - n) : Drop(c, n)[j] = c[n + j]
  <2> HIDE DEF c
  <2> QED BY <1>1, DropFacts
<1>a. \A j \in 1..(Len(a) + Len(b)) : c[j] = IF j <= Len(a) THEN a[j] ELSE b[j - Len(a)]
  OBVIOUS
<1> DEFINE l == Drop(c, n)
           d == Drop(a, n)
           r == d \o b
<1>4. l \in Seq(S) /\ r \in Seq(S) /\ Len(l) = Len(r) /\ Len(r) = Len(d) + Len(b)
  <2>1. d \in Seq(S) /\ Len(d) = Len(a) - n
    BY <1>2
  <2>2. r \in Seq(S) /\ Len(r) = Len(d) + Len(b)
    <3> HIDE DEF d
    <3> QED BY <2>1
  <2>3. l \in Seq(S) /\ Len(l) = Len(a) + Len(b) - n
    BY <1>1, <1>3
  <2> HIDE DEF c, d, l, r
  <2> QED BY <1>0, <2>1, <2>2, <2>3
<1>b. \A j \in 1..(Len(d) + Len(b)) : r[j] = IF j <= Len(d) THEN d[j] ELSE b[j - Len(d)]
  <2>1. d \in Seq(S)
    BY <1>2
  <2> HIDE DEF d
  <2> QED BY <2>1
<1>5. ASSUME NEW j \in 1..Len(l)
      PROVE  l[j] = r[j]
  <2>1. l[j] = c[n + j]
    BY <1>3
  <2>2. c[n + j] = IF n + j <= Len(a) THEN a[n + j] ELSE b[n + j - Len(a)]
    <3> HIDE DEF c
    <3> QED BY <1>0, <1>1, <1>3, <1>a
  <2>3. r[j] = IF j <= Len(a) - n THEN d[j] ELSE b[j - (Len(a) - n)]
    <3> HIDE DEF r, d, c
    <3> QED BY <1>0, <1>2, <1>4, <1>b DEF d
  <2>4. j \in Nat /\ j > 0
    BY <1>3
  <2>5. CASE j <= Len(a) - n
    <3>1. d[j] = a[n + j] /\ n + j <= Len(a)
      BY <1>0, <1>2, <2>4, <2>5
    <3> QED BY <2>1, <2>2, <2>3, <2>5, <3>1
  <2>6. CASE ~(j <= Len(a) - n)
    <3>1. ~(n + j <= Len(a)) /\ j - (Len(a) - n) = n + j - Len(a)
      BY <1>0, <2>4, <2>6
    <3> QED BY <2>1, <2>2, <2>3, <2>6, <3>1
  <2>7. QED
    BY <2>5, <2>6
<1>6. l = r
  <2> HIDE DEF l, r
  <2> QED BY <1>4, <1>5, SeqEqual
<1>7. QED
  BY <1>6

\* What is known of a frame.
LEMMA FrameFacts ==
  /\ HeaderLen \in Nat /\ HeaderLen > 0
  /\ \A f \in Frames : f \in Seq(Byte) /\ Len(f) \in Nat /\ Len(f) < Weight[HeaderLen]
  /\ \A s \in Seq(Frames) : Len(s) \in Nat /\ \A k \in 1..Len(s) : s[k] \in Frames
BY FramingAssumption

\* The places rise.
LEMMA Rising ==
  ASSUME NEW bytes \in Seq(Byte), NEW frames \in Seq(Frames), NEW skip \in {0, HeaderLen},
         NEW at \in [0..Len(frames) -> (0 - HeaderLen)..Len(bytes)],
         Split(bytes, frames, skip, at)
  PROVE  \A k, m \in 0..Len(frames) : k <= m => at[k] <= at[m]
<1>n. HeaderLen \in Nat /\ Len(bytes) \in Nat /\ Len(frames) \in Nat
  BY FrameFacts
<1>0. \A k \in 0..Len(frames) : at[k] \in Int
  <2>1. \A x \in (0 - HeaderLen)..Len(bytes) : x \in Int
    BY <1>n
  <2>2. \A k \in 0..Len(frames) : at[k] \in (0 - HeaderLen)..Len(bytes)
    OBVIOUS
  <2>3. QED
    BY <2>1, <2>2
<1>1. \A k \in 1..Len(frames) : at[k - 1] <= at[k]
  <2>1. ASSUME NEW k \in 1..Len(frames) PROVE at[k - 1] <= at[k]
    <3>1. at[k] = at[k - 1] + HeaderLen + Len(frames[k])
      BY DEF Split
    <3>2. HeaderLen \in Nat /\ Len(frames[k]) \in Nat /\ at[k - 1] \in Int
      BY <1>0, FrameFacts
    <3>3. QED
      BY <3>1, <3>2
  <2>2. QED
    BY <2>1
<1> DEFINE T == {m \in Nat : m \in 0..Len(frames) => \A k \in 0..m : at[k] <= at[m]}
<1>2. 0 \in T
  BY <1>0
<1>3. ASSUME NEW m \in T, m + 1 \in 0..Len(frames), NEW k \in 0..(m + 1)
      PROVE  at[k] <= at[m + 1]
  <2>1. m \in 0..Len(frames) /\ m + 1 \in 1..Len(frames) /\ (m + 1) - 1 = m
    BY <1>3, <1>n
  <2>2. at[m] <= at[m + 1]
    BY <1>1, <2>1
  <2>3. CASE k = m + 1
    BY <1>0, <1>3, <2>3
  <2>4. CASE k <= m
    <3>1. k \in 0..m /\ k \in 0..Len(frames)
      BY <1>n, <2>1, <2>4
    <3>2. at[k] <= at[m]
      BY <2>1, <3>1
    <3>3. at[k] \in Int /\ at[m] \in Int /\ at[m + 1] \in Int
      BY <1>0, <1>3, <2>1, <3>1
    <3>4. QED
      BY <2>2, <3>2, <3>3
  <2>5. QED
    BY <2>1, <2>3, <2>4
<1>4. T = Nat
  <2>1. ASSUME NEW m \in T PROVE m + 1 \in T
    <3>1. CASE m + 1 \in 0..Len(frames)
      <4>1. \A k \in 0..(m + 1) : at[k] <= at[m + 1]
        BY <1>3, <3>1
      <4>2. QED
        BY <4>1
    <3>2. QED
      BY <3>1
  <2> HIDE DEF T
  <2>2. T \in SUBSET Nat
    BY DEF T
  <2>3. QED
    BY <1>2, <2>1, <2>2, Inductive
<1>5. ASSUME NEW k \in 0..Len(frames), NEW m \in 0..Len(frames), k <= m
      PROVE  at[k] <= at[m]
  <2>1. m \in Nat /\ k \in 0..m
    BY <1>n, <1>5
  <2>2. m \in T
    <3> HIDE DEF T
    <3> QED BY <1>4, <2>1
  <2>3. QED
    BY <2>1, <2>2
<1>6. QED
  BY <1>5

\* What the places of a stream are.
LEMMA Places ==
  ASSUME NEW bytes \in Seq(Byte), NEW frames \in Seq(Frames), NEW skip \in {0, HeaderLen},
         NEW at \in [0..Len(frames) -> (0 - HeaderLen)..Len(bytes)],
         Split(bytes, frames, skip, at)
  PROVE  /\ at[0] = 0 - skip /\ at[Len(frames)] = Len(bytes)
         /\ \A k \in 0..Len(frames) : at[k] \in (0 - skip)..Len(bytes)
         /\ \A k \in 1..Len(frames) : at[k] = at[k - 1] + HeaderLen + Len(frames[k])
         /\ \A k \in 1..Len(frames) : \A j \in 1..(HeaderLen + Len(frames[k])) :
              at[k - 1] + j > 0 =>
                /\ at[k - 1] + j \in 1..Len(bytes)
                /\ bytes[at[k - 1] + j] = Packed(frames[k])[j]
<1>n. HeaderLen \in Nat /\ Len(bytes) \in Nat /\ Len(frames) \in Nat
  BY FrameFacts
<1>1. /\ at[0] = 0 - skip /\ at[Len(frames)] = Len(bytes)
      /\ \A k \in 1..Len(frames) : at[k] = at[k - 1] + HeaderLen + Len(frames[k])
      /\ \A k \in 1..Len(frames) : \A j \in 1..(HeaderLen + Len(frames[k])) :
              at[k - 1] + j > 0 => bytes[at[k - 1] + j] = Packed(frames[k])[j]
  BY DEF Split
<1>2. \A k \in 0..Len(frames) : at[k] \in Int
  <2>1. \A x \in (0 - HeaderLen)..Len(bytes) : x \in Int
    BY <1>n
  <2>2. \A k \in 0..Len(frames) : at[k] \in (0 - HeaderLen)..Len(bytes)
    OBVIOUS
  <2>3. QED
    BY <2>1, <2>2
<1>3. \A k, m \in 0..Len(frames) : k <= m => at[k] <= at[m]
  BY Rising
<1>4. ASSUME NEW k \in 0..Len(frames)
      PROVE  at[k] \in (0 - skip)..Len(bytes)
  <2>1. 0 \in 0..Len(frames) /\ Len(frames) \in 0..Len(frames) /\ 0 <= k /\ k <= Len(frames)
    BY <1>n
  <2>2. at[0] <= at[k] /\ at[k] <= at[Len(frames)]
    BY <1>3, <2>1
  <2>3. QED
    BY <1>1, <1>2, <1>n, <2>2
<1>5. ASSUME NEW k \in 1..Len(frames), NEW j \in 1..(HeaderLen + Len(frames[k])), at[k - 1] + j > 0
      PROVE  at[k - 1] + j \in 1..Len(bytes)
  <2>1. k - 1 \in 0..Len(frames) /\ k \in 0..Len(frames)
    BY <1>n
  <2>2. at[k - 1] \in Int /\ at[k] \in Int /\ at[k] <= Len(bytes)
    BY <1>2, <1>4, <1>n, <2>1
  <2>3. Len(frames[k]) \in Nat
    BY FrameFacts
  <2>4. at[k] = at[k - 1] + HeaderLen + Len(frames[k])
    BY <1>1
  <2>5. j \in Int /\ j <= HeaderLen + Len(frames[k])
    BY <1>n, <2>3
  <2> DEFINE p == at[k - 1]
             q == at[k]
             l == Len(frames[k])
  <2>6. p + j > 0 /\ p + j \in Int
    BY <1>5, <2>2, <2>5
  <2>7. p + j <= q
    <3> HIDE DEF p, q, l
    <3>1. q = p + HeaderLen + l /\ j <= HeaderLen + l /\ p \in Int /\ l \in Nat /\ q \in Int
      BY <2>2, <2>3, <2>4, <2>5 DEF p, q, l
    <3>2. QED
      BY <1>n, <2>5, <3>1
  <2>8. q <= Len(bytes) /\ q \in Int
    BY <2>2
  <2>9. QED
    <3> HIDE DEF p, q
    <3>1. p + j \in 1..Len(bytes)
      BY <1>n, <2>6, <2>7, <2>8
    <3>2. QED
      BY <3>1 DEF p
<1>6. QED
  BY <1>1, <1>4, <1>5

\* Where the elements of two sequences glued together lie.
LEMMA CatFacts ==
  ASSUME NEW S, NEW a \in Seq(S), NEW b \in Seq(S)
  PROVE  /\ a \o b \in Seq(S) /\ Len(a \o b) = Len(a) + Len(b)
         /\ \A j \in 1..Len(a) : (a \o b)[j] = a[j]
         /\ \A j \in 1..Len(b) : (a \o b)[Len(a) + j] = b[j]
OBVIOUS

\* The same, of bytes.
LEMMA CatBytes ==
  ASSUME NEW a \in Seq(Byte), NEW b \in Seq(Byte)
  PROVE  /\ a \o b \in Seq(Byte) /\ Len(a \o b) = Len(a) + Len(b)
         /\ \A j \in 1..Len(a) : (a \o b)[j] = a[j]
         /\ \A j \in 1..Len(b) : (a \o b)[Len(a) + j] = b[j]
BY CatFacts

\* With nothing sent, nothing is on its way.
LEMMA NothingSent == Carries(<<>>, <<>>, 0)
<1> DEFINE at == [k \in 0..0 |-> 0]
<1>1. HeaderLen \in Nat
  BY FrameFacts
<1>2. Len(<<>>) = 0
  OBVIOUS
<1>3. at \in [0..0 -> (0 - HeaderLen)..0]
  BY <1>1
<1>4. Split(<<>>, <<>>, 0, at)
  BY <1>2 DEF Split
<1>5. QED
  <2> HIDE DEF at
  <2> QED BY <1>2, <1>3, <1>4 DEF Carries

\* Fewer bytes than a header, at a boundary: none, and no frame.
LEMMA NothingLeft ==
  ASSUME NEW bytes \in Seq(Byte), NEW frames \in Seq(Frames),
         Carries(bytes, frames, 0), Len(bytes) < HeaderLen
  PROVE  bytes = <<>> /\ frames = <<>>
<1>n. HeaderLen \in Nat /\ Len(bytes) \in Nat /\ Len(frames) \in Nat
  BY FrameFacts
<1>1. PICK at \in [0..Len(frames) -> (0 - HeaderLen)..Len(bytes)] : Split(bytes, frames, 0, at)
  BY DEF Carries
<1>2. /\ at[0] = 0 /\ at[Len(frames)] = Len(bytes)
      /\ \A k \in 0..Len(frames) : at[k] \in 0..Len(bytes)
      /\ \A k \in 1..Len(frames) : at[k] = at[k - 1] + HeaderLen + Len(frames[k])
  <2>1. 0 \in {0, HeaderLen} /\ 0 - 0 = 0
    OBVIOUS
  <2>2. QED
    BY <1>1, <2>1, Places
<1>3. Len(frames) = 0
  <2>1. SUFFICES ASSUME 1 \in 1..Len(frames) PROVE FALSE
    BY <1>n
  <2>2. at[1] = at[0] + HeaderLen + Len(frames[1]) /\ at[1] \in 0..Len(bytes)
    BY <1>2, <1>n, <2>1
  <2>3. Len(frames[1]) \in Nat
    BY <2>1, FrameFacts
  <2>4. QED
    BY <1>2, <1>n, <2>2, <2>3
<1>4. Len(bytes) = 0
  BY <1>2, <1>3
<1>5. QED
  BY <1>3, <1>4

\* One more frame is written.
LEMMA FrameAdded ==
  ASSUME NEW bytes \in Seq(Byte), NEW frames \in Seq(Frames), NEW skip \in {0, HeaderLen},
         NEW f \in Frames, Carries(bytes, frames, skip)
  PROVE  Carries(bytes \o Packed(f), Append(frames, f), skip)
<1> DEFINE n == Len(frames)
           b2 == bytes \o Packed(f)
           f2 == Append(frames, f)
<1>n. HeaderLen \in Nat /\ Len(bytes) \in Nat /\ n \in Nat /\ Len(f) \in Nat /\ f \in Seq(Byte)
      /\ \A k \in 1..n : Len(frames[k]) \in Nat
  BY FrameFacts
<1>1. PICK at \in [0..n -> (0 - HeaderLen)..Len(bytes)] : Split(bytes, frames, skip, at)
  BY DEF Carries
<1>2. /\ at[0] = 0 - skip /\ at[n] = Len(bytes)
      /\ \A k \in 0..n : at[k] \in (0 - skip)..Len(bytes)
      /\ \A k \in 1..n : at[k] = at[k - 1] + HeaderLen + Len(frames[k])
      /\ \A k \in 1..n : \A j \in 1..(HeaderLen + Len(frames[k])) :
              at[k - 1] + j > 0 =>
                /\ at[k - 1] + j \in 1..Len(bytes)
                /\ bytes[at[k - 1] + j] = Packed(frames[k])[j]
  BY <1>1, Places
<1>3. Packed(f) \in Seq(Byte) /\ Len(Packed(f)) = HeaderLen + Len(f)
  BY <1>n, PackedFacts
<1>4. /\ b2 \in Seq(Byte) /\ Len(b2) = Len(bytes) + HeaderLen + Len(f)
      /\ \A j \in 1..Len(bytes) : b2[j] = bytes[j]
      /\ \A j \in 1..(HeaderLen + Len(f)) : b2[Len(bytes) + j] = Packed(f)[j]
  <2>1. /\ b2 \in Seq(Byte) /\ Len(b2) = Len(bytes) + Len(Packed(f))
        /\ \A j \in 1..Len(bytes) : b2[j] = bytes[j]
        /\ \A j \in 1..Len(Packed(f)) : b2[Len(bytes) + j] = Packed(f)[j]
    BY <1>3, CatBytes
  <2> HIDE DEF b2
  <2>2. QED
    BY <1>n, <1>3, <2>1
<1>5. /\ f2 \in Seq(Frames) /\ Len(f2) = n + 1 /\ f2[n + 1] = f
      /\ \A k \in 1..n : f2[k] = frames[k]
  OBVIOUS
<1> DEFINE at2 == [k \in 0..(n + 1) |-> IF k <= n THEN at[k] ELSE Len(bytes) + HeaderLen + Len(f)]
<1>6. at2 \in [0..Len(f2) -> (0 - HeaderLen)..Len(b2)]
  <2>1. ASSUME NEW k \in 0..(n + 1) PROVE at2[k] \in (0 - HeaderLen)..Len(b2)
    <3>1. CASE k <= n
      <4>1. k \in 0..n
        BY <1>n, <3>1
      <4>2. at[k] \in (0 - HeaderLen)..Len(bytes)
        BY <4>1
      <4>3. QED
        <5> HIDE DEF b2
        <5> QED BY <1>4, <1>n, <3>1, <4>2
    <3>2. CASE ~(k <= n)
      <4> HIDE DEF b2
      <4> QED BY <1>4, <1>n, <3>2
    <3>3. QED
      BY <3>1, <3>2
  <2>2. QED
    <3> HIDE DEF b2, f2
    <3> QED BY <1>5, <2>1
<1>7. at2[0] = 0 - skip /\ at2[n + 1] = Len(b2)
  <2>1. 0 \in 0..(n + 1) /\ 0 <= n /\ n + 1 \in 0..(n + 1) /\ ~(n + 1 <= n)
    BY <1>n
  <2> HIDE DEF b2
  <2> QED BY <1>2, <1>4, <2>1
<1>8. ASSUME NEW k \in 1..(n + 1)
      PROVE  /\ at2[k] = at2[k - 1] + HeaderLen + Len(f2[k])
             /\ \A j \in 1..(HeaderLen + Len(f2[k])) :
                  at2[k - 1] + j > 0 => b2[at2[k - 1] + j] = Packed(f2[k])[j]
  <2>1. k - 1 \in 0..(n + 1) /\ k \in 0..(n + 1) /\ k - 1 <= n
    BY <1>n
  <2>2. at2[k - 1] = at[k - 1]
    BY <2>1
  <2>3. CASE k <= n
    <3>1. k \in 1..n /\ at2[k] = at[k] /\ f2[k] = frames[k]
      BY <1>5, <1>n, <2>1, <2>3
    <3>2. ASSUME NEW j \in 1..(HeaderLen + Len(frames[k])), at[k - 1] + j > 0
          PROVE  b2[at[k - 1] + j] = Packed(frames[k])[j]
      <4> HIDE DEF b2
      <4> QED BY <1>2, <1>4, <3>1, <3>2
    <3>3. QED
      <4> HIDE DEF b2, f2, at2
      <4> QED BY <1>2, <2>2, <3>1, <3>2
  <2>4. CASE k = n + 1
    <3>1. at2[k] = Len(bytes) + HeaderLen + Len(f) /\ at[k - 1] = Len(bytes) /\ f2[k] = f
      BY <1>2, <1>5, <1>n, <2>1, <2>4
    <3>2. QED
      <4> HIDE DEF b2, f2, at2
      <4> QED BY <1>4, <1>n, <2>2, <3>1
  <2>5. k <= n \/ k = n + 1
    BY <1>n
  <2>6. QED
    <3> HIDE DEF b2, f2, at2
    <3> QED BY <2>3, <2>4, <2>5
<1>9. Split(b2, f2, skip, at2)
  <2> HIDE DEF b2, f2, at2
  <2> QED BY <1>5, <1>7, <1>8 DEF Split
<1>10. QED
  <2>1. Carries(b2, f2, skip)
    <3> HIDE DEF b2, f2, at2
    <3> QED BY <1>6, <1>9 DEF Carries
  <2> QED BY <2>1

\* The header of the next frame is taken.
LEMMA HeaderTaken ==
  ASSUME NEW bytes \in Seq(Byte), NEW frames \in Seq(Frames),
         Carries(bytes, frames, 0), Len(bytes) >= HeaderLen
  PROVE  /\ Len(frames) > 0 /\ \A j \in 1..HeaderLen : bytes[j] = Header(Len(frames[1]))[j]
         /\ Carries(Drop(bytes, HeaderLen), frames, HeaderLen)
<1> DEFINE n == Len(frames)
           b2 == Drop(bytes, HeaderLen)
<1>n. HeaderLen \in Nat /\ HeaderLen > 0 /\ Len(bytes) \in Nat /\ n \in Nat
      /\ \A k \in 1..n : Len(frames[k]) \in Nat
  BY FrameFacts
<1>1. PICK at \in [0..n -> (0 - HeaderLen)..Len(bytes)] : Split(bytes, frames, 0, at)
  BY DEF Carries
<1>2. /\ at[0] = 0 /\ at[n] = Len(bytes)
      /\ \A k \in 0..n : at[k] \in 0..Len(bytes)
      /\ \A k \in 1..n : at[k] = at[k - 1] + HeaderLen + Len(frames[k])
      /\ \A k \in 1..n : \A j \in 1..(HeaderLen + Len(frames[k])) :
              at[k - 1] + j > 0 =>
                /\ at[k - 1] + j \in 1..Len(bytes)
                /\ bytes[at[k - 1] + j] = Packed(frames[k])[j]
  <2>1. 0 \in {0, HeaderLen} /\ 0 - 0 = 0
    OBVIOUS
  <2>2. QED
    BY <1>1, <2>1, Places
<1>3. n > 0
  BY <1>2, <1>n
<1>4. \A j \in 1..HeaderLen : bytes[j] = Header(Len(frames[1]))[j]
  <2>1. 1 \in 1..n /\ frames[1] \in Frames
    BY <1>3, <1>n
  <2>2. frames[1] \in Seq(Byte) /\ Len(frames[1]) \in Nat /\ Len(frames[1]) < Weight[HeaderLen]
    BY <2>1, FrameFacts
  <2>3. ASSUME NEW j \in 1..HeaderLen
        PROVE  bytes[j] = Header(Len(frames[1]))[j]
    <3>1. j \in 1..(HeaderLen + Len(frames[1])) /\ at[0] + j > 0 /\ at[0] + j = j
      BY <1>2, <1>n, <2>2
    <3>2. bytes[j] = Packed(frames[1])[j]
      BY <1>2, <2>1, <3>1
    <3>3. Packed(frames[1])[j] = Header(Len(frames[1]))[j]
      BY <2>2, PackedFacts
    <3>4. QED
      BY <3>2, <3>3
  <2>4. QED
    BY <2>3
<1>5. /\ b2 \in Seq(Byte) /\ Len(b2) = Len(bytes) - HeaderLen
      /\ \A j \in 1..(Len(bytes) - HeaderLen) : b2[j] = bytes[HeaderLen + j]
  <2>1. HeaderLen \in 0..Len(bytes)
    BY <1>n
  <2>2. QED
    BY <2>1, DropFacts
<1> DEFINE at2 == [k \in 0..n |-> at[k] - HeaderLen]
<1>6. at2 \in [0..n -> (0 - HeaderLen)..Len(b2)]
  <2>1. ASSUME NEW k \in 0..n PROVE at[k] - HeaderLen \in (0 - HeaderLen)..Len(b2)
    <3>1. at[k] \in 0..Len(bytes)
      BY <1>2
    <3> HIDE DEF b2
    <3> QED BY <1>5, <1>n, <3>1
  <2>2. QED
    <3> HIDE DEF b2
    <3> QED BY <2>1
<1>7. at2[0] = 0 - HeaderLen /\ at2[n] = Len(b2)
  <2>1. 0 \in 0..n /\ n \in 0..n
    BY <1>n
  <2> HIDE DEF b2
  <2> QED BY <1>2, <1>5, <2>1
<1>8. ASSUME NEW k \in 1..n
      PROVE  /\ at2[k] = at2[k - 1] + HeaderLen + Len(frames[k])
             /\ \A j \in 1..(HeaderLen + Len(frames[k])) :
                  at2[k - 1] + j > 0 => b2[at2[k - 1] + j] = Packed(frames[k])[j]
  <2>1. k - 1 \in 0..n /\ k \in 0..n
    BY <1>n
  <2>2. at[k] \in Int /\ at[k - 1] \in Int /\ Len(frames[k]) \in Nat
    BY <1>2, <1>n, <2>1
  <2>3. at2[k - 1] = at[k - 1] - HeaderLen /\ at2[k] = at[k] - HeaderLen
    BY <2>1
  <2>4. at2[k] = at2[k - 1] + HeaderLen + Len(frames[k])
    <3> HIDE DEF at2
    <3> QED BY <1>2, <1>n, <2>2, <2>3, SMTT(30)
  <2>5. ASSUME NEW j \in 1..(HeaderLen + Len(frames[k])), at2[k - 1] + j > 0
        PROVE  b2[at2[k - 1] + j] = Packed(frames[k])[j]
    <3>1. j \in Int
      BY <1>n, <2>2
    <3>2. at[k - 1] + j > 0 /\ at2[k - 1] + j \in Int /\ HeaderLen + (at2[k - 1] + j) = at[k - 1] + j
      <4> HIDE DEF at2
      <4> QED BY <1>n, <2>2, <2>3, <2>5, <3>1
    <3>3. at[k - 1] + j \in 1..Len(bytes) /\ bytes[at[k - 1] + j] = Packed(frames[k])[j]
      BY <1>2, <3>2
    <3>4. at2[k - 1] + j \in 1..(Len(bytes) - HeaderLen)
      <4> DEFINE x == at2[k - 1] + j
                 y == at[k - 1] + j
      <4>1. x > 0 /\ x \in Int /\ HeaderLen + x = y /\ y \in 1..Len(bytes)
        BY <2>5, <3>2, <3>3
      <4> HIDE DEF x, y
      <4>2. x \in 1..(Len(bytes) - HeaderLen)
        BY <1>n, <4>1
      <4>3. QED
        BY <4>2 DEF x
    <3>5. b2[at2[k - 1] + j] = bytes[HeaderLen + (at2[k - 1] + j)]
      <4> HIDE DEF b2, at2
      <4> QED BY <1>5, <3>4
    <3>6. QED
      BY <3>2, <3>3, <3>5
  <2>6. QED
    BY <2>4, <2>5
<1>9. Split(b2, frames, HeaderLen, at2)
  <2> HIDE DEF b2, at2
  <2> QED BY <1>7, <1>8 DEF Split
<1>10. Carries(b2, frames, HeaderLen)
  <2> HIDE DEF b2, at2
  <2> QED BY <1>6, <1>9 DEF Carries
<1>11. QED
  BY <1>3, <1>4, <1>10

\* A frame whose header is taken is read.
LEMMA FrameTaken ==
  ASSUME NEW bytes \in Seq(Byte), NEW frames \in Seq(Frames), Len(frames) > 0,
         Carries(bytes, frames, HeaderLen)
  PROVE  /\ Len(frames[1]) <= Len(bytes)
         /\ SubSeq(bytes, 1, Len(frames[1])) = frames[1]
         /\ Carries(Drop(bytes, Len(frames[1])), Drop(frames, 1), 0)
<1> DEFINE n == Len(frames)
           m == Len(frames[1])
           b2 == Drop(bytes, m)
           f2 == Drop(frames, 1)
<1>n. HeaderLen \in Nat /\ HeaderLen > 0 /\ Len(bytes) \in Nat /\ n \in Nat /\ 1 \in 1..n
      /\ \A k \in 1..n : Len(frames[k]) \in Nat
  BY FrameFacts
<1>m. m \in Nat /\ frames[1] \in Seq(Byte)
  <2>1. frames[1] \in Frames
    BY <1>n
  <2> QED BY <2>1, FrameFacts
<1>1. PICK at \in [0..n -> (0 - HeaderLen)..Len(bytes)] : Split(bytes, frames, HeaderLen, at)
  BY DEF Carries
<1>2. /\ at[0] = 0 - HeaderLen /\ at[n] = Len(bytes)
      /\ \A k \in 0..n : at[k] \in (0 - HeaderLen)..Len(bytes)
      /\ \A k \in 1..n : at[k] = at[k - 1] + HeaderLen + Len(frames[k])
      /\ \A k \in 1..n : \A j \in 1..(HeaderLen + Len(frames[k])) :
              at[k - 1] + j > 0 =>
                /\ at[k - 1] + j \in 1..Len(bytes)
                /\ bytes[at[k - 1] + j] = Packed(frames[k])[j]
  <2>1. HeaderLen \in {0, HeaderLen}
    OBVIOUS
  <2>2. QED
    BY <1>1, <2>1, Places
<1>3. \A k \in 1..n : at[k] \in m..Len(bytes)
  <2>1. at[1] = m
    BY <1>2, <1>m, <1>n
  <2>2. ASSUME NEW k \in 1..n PROVE at[1] <= at[k]
    <3>1. 1 \in 0..n /\ k \in 0..n /\ 1 <= k /\ HeaderLen \in {0, HeaderLen}
      BY <1>n
    <3>2. QED
      BY <1>1, <3>1, Rising
  <2>3. ASSUME NEW k \in 1..n PROVE at[k] \in m..Len(bytes)
    <3>1. k \in 0..n /\ at[k] \in (0 - HeaderLen)..Len(bytes)
      BY <1>2, <1>n
    <3> HIDE DEF m
    <3> QED BY <1>m, <1>n, <2>1, <2>2, <3>1
  <2>4. QED
    BY <2>3
<1>4. at[1] = m /\ m <= Len(bytes)
  BY <1>2, <1>3, <1>m, <1>n
<1>5. SubSeq(bytes, 1, m) = frames[1]
  <2> DEFINE s == SubSeq(bytes, 1, m)
             t == frames[1]
  <2>1. s \in Seq(Byte) /\ Len(s) = m /\ \A i \in 1..m : s[i] = bytes[i]
    <3> HIDE DEF m
    <3> QED BY <1>4, <1>m, <1>n
  <2>2. ASSUME NEW i \in 1..m PROVE s[i] = t[i]
    <3>1. HeaderLen + i \in 1..(HeaderLen + m) /\ at[0] + (HeaderLen + i) = i /\ i > 0
      <4> HIDE DEF m
      <4> QED BY <1>2, <1>m, <1>n
    <3>2. bytes[i] = Packed(t)[HeaderLen + i]
      <4>1. 1 - 1 = 0
        OBVIOUS
      <4> QED BY <1>2, <1>n, <3>1, <4>1
    <3>3. Packed(t)[HeaderLen + i] = t[i]
      BY <1>m, PackedFacts
    <3>4. QED
      <4> HIDE DEF s, t
      <4> QED BY <2>1, <3>2, <3>3
  <2>3. t \in Seq(Byte) /\ Len(t) = m
    BY <1>m
  <2>4. QED
    <3>1. s = t
      <4> HIDE DEF s, t, m
      <4> QED BY <2>1, <2>2, <2>3, SeqEqual
    <3> QED BY <3>1
<1>6. /\ b2 \in Seq(Byte) /\ Len(b2) = Len(bytes) - m
      /\ \A j \in 1..(Len(bytes) - m) : b2[j] = bytes[m + j]
  <2>1. m \in 0..Len(bytes)
    BY <1>4, <1>m, <1>n
  <2>2. QED
    BY <2>1, DropFacts
<1>7. /\ f2 \in Seq(Frames) /\ Len(f2) = n - 1
      /\ \A k \in 1..(n - 1) : f2[k] = frames[1 + k]
  <2>1. 1 \in 0..n
    BY <1>n
  <2>2. QED
    BY <2>1, DropFacts
<1> DEFINE at2 == [k \in 0..(n - 1) |-> at[k + 1] - m]
<1>8. at2 \in [0..Len(f2) -> (0 - HeaderLen)..Len(b2)]
  <2>1. ASSUME NEW k \in 0..(n - 1) PROVE at[k + 1] - m \in (0 - HeaderLen)..Len(b2)
    <3>1. k + 1 \in 1..n
      BY <1>n
    <3>2. at[k + 1] \in m..Len(bytes)
      BY <1>3, <3>1
    <3> HIDE DEF b2, m
    <3> QED BY <1>6, <1>m, <1>n, <3>2
  <2>2. QED
    <3> HIDE DEF b2, f2, m
    <3> QED BY <1>7, <2>1
<1>9. at2[0] = 0 - 0 /\ at2[n - 1] = Len(b2)
  <2>1. 0 \in 0..(n - 1) /\ n - 1 \in 0..(n - 1) /\ 0 + 1 = 1 /\ (n - 1) + 1 = n
    BY <1>n
  <2> HIDE DEF b2, m
  <2> QED BY <1>2, <1>4, <1>6, <1>m, <1>n, <2>1
<1>10. ASSUME NEW k \in 1..(n - 1)
       PROVE  /\ at2[k] = at2[k - 1] + HeaderLen + Len(f2[k])
              /\ \A j \in 1..(HeaderLen + Len(f2[k])) :
                   at2[k - 1] + j > 0 => b2[at2[k - 1] + j] = Packed(f2[k])[j]
  <2>1. k - 1 \in 0..(n - 1) /\ k \in 0..(n - 1) /\ (k - 1) + 1 = k /\ k + 1 \in 1..n
        /\ k \in 1..n /\ 1 + k = k + 1 /\ (k + 1) - 1 = k
    BY <1>n
  <2>2. at[k] \in Int /\ at[k + 1] \in Int /\ Len(frames[k + 1]) \in Nat
    <3> HIDE DEF m
    <3> QED BY <1>3, <1>m, <1>n, <2>1
  <2>3. at2[k - 1] = at[k] - m /\ at2[k] = at[k + 1] - m /\ f2[k] = frames[k + 1]
    <3> HIDE DEF m, f2
    <3> QED BY <1>7, <2>1
  <2>4. at[k + 1] = at[k] + HeaderLen + Len(frames[k + 1])
    BY <1>2, <2>1
  <2>5. at2[k] = at2[k - 1] + HeaderLen + Len(f2[k])
    <3> DEFINE x == at[k]
               y == at[k + 1]
               l == Len(frames[k + 1])
    <3>1. x \in Int /\ y \in Int /\ l \in Nat /\ y = x + HeaderLen + l
      BY <2>2, <2>4
    <3>2. at2[k - 1] = x - m /\ at2[k] = y - m /\ Len(f2[k]) = l
      <4> HIDE DEF at2, f2, m
      <4> QED BY <2>3
    <3> HIDE DEF at2, f2, m, x, y, l
    <3>3. y - m = (x - m) + HeaderLen + l
      BY <1>m, <1>n, <3>1
    <3>4. QED
      BY <3>2, <3>3
  <2>6. ASSUME NEW j \in 1..(HeaderLen + Len(frames[k + 1])), at2[k - 1] + j > 0
        PROVE  b2[at2[k - 1] + j] = Packed(frames[k + 1])[j]
    <3>1. j \in Int
      BY <1>n, <2>2
    <3>2. at[k] + j > 0 /\ at2[k - 1] + j \in Int /\ m + (at2[k - 1] + j) = at[k] + j
      <4> DEFINE x == at[k]
                 z == at2[k - 1]
      <4>1. x \in Int /\ z = x - m /\ z + j > 0
        <5> HIDE DEF at2, m
        <5> QED BY <2>2, <2>3, <2>6
      <4> HIDE DEF x, z, at2, m
      <4>2. x + j > 0 /\ z + j \in Int /\ m + (z + j) = x + j
        BY <1>m, <3>1, <4>1
      <4>3. QED
        BY <4>2 DEF x, z
    <3>3. at[k] + j \in 1..Len(bytes) /\ bytes[at[k] + j] = Packed(frames[k + 1])[j]
      BY <1>2, <2>1, <3>2
    <3>4. at2[k - 1] + j \in 1..(Len(bytes) - m)
      <4> DEFINE x == at2[k - 1] + j
                 y == at[k] + j
      <4>1. x > 0 /\ x \in Int /\ m + x = y /\ y \in 1..Len(bytes)
        <5> HIDE DEF at2, m
        <5> QED BY <2>6, <3>2, <3>3
      <4> HIDE DEF x, y, m
      <4>2. x \in 1..(Len(bytes) - m)
        BY <1>m, <1>n, <4>1
      <4>3. QED
        BY <4>2 DEF x
    <3>5. b2[at2[k - 1] + j] = bytes[m + (at2[k - 1] + j)]
      <4> HIDE DEF b2, at2, m
      <4> QED BY <1>6, <3>4
    <3>6. QED
      <4> HIDE DEF b2, at2, m
      <4> QED BY <3>2, <3>3, <3>5
  <2>7. QED
    <3> HIDE DEF b2, at2, f2
    <3> QED BY <2>3, <2>5, <2>6
<1>11. Split(b2, f2, 0, at2)
  <2> HIDE DEF b2, at2, f2
  <2> QED BY <1>7, <1>9, <1>10 DEF Split
<1>12. Carries(b2, f2, 0)
  <2> HIDE DEF b2, at2, f2
  <2> QED BY <1>8, <1>11 DEF Carries
<1>13. QED
  BY <1>4, <1>5, <1>12

-----------------------------------------------------------------------------
(* A reader in step. *)

\* A chunk leaves the buffer in front of the rest of the stream.
LEMMA Cut ==
  ASSUME NEW S, NEW a \in Seq(S), NEW b \in Seq(S), NEW n \in 0..Len(b)
  PROVE  /\ SubSeq(b, 1, n) \in Seq(S)
         /\ (a \o SubSeq(b, 1, n)) \o Drop(b, n) = a \o b
<1> DEFINE p == SubSeq(b, 1, n)
           q == Drop(b, n)
           u == a \o p
           l == u \o q
           r == a \o b
<1>0. Len(a) \in Nat /\ Len(b) \in Nat /\ n \in Nat /\ n <= Len(b)
  OBVIOUS
<1>1. p \in Seq(S) /\ Len(p) = n /\ \A j \in 1..n : p[j] = b[j]
  OBVIOUS
<1>2. q \in Seq(S) /\ Len(q) = Len(b) - n /\ \A j \in 1..(Len(b) - n) : q[j] = b[n + j]
  BY DropFacts
<1>3. /\ u \in Seq(S) /\ Len(u) = Len(a) + n
      /\ \A j \in 1..(Len(a) + n) : u[j] = IF j <= Len(a) THEN a[j] ELSE p[j - Len(a)]
  <2>1. /\ u \in Seq(S) /\ Len(u) = Len(a) + Len(p)
        /\ \A j \in 1..(Len(a) + Len(p)) : u[j] = IF j <= Len(a) THEN a[j] ELSE p[j - Len(a)]
    <3>1. p \in Seq(S)
      BY <1>1
    <3> HIDE DEF p
    <3> QED BY <3>1, ConcatProperties
  <2> HIDE DEF p, u
  <2> QED BY <1>1, <2>1
<1>4. /\ l \in Seq(S) /\ Len(l) = Len(a) + Len(b)
      /\ \A j \in 1..(Len(a) + Len(b)) :
           l[j] = IF j <= Len(a) + n THEN u[j] ELSE q[j - (Len(a) + n)]
  <2>1. /\ l \in Seq(S) /\ Len(l) = Len(u) + Len(q)
        /\ \A j \in 1..(Len(u) + Len(q)) : l[j] = IF j <= Len(u) THEN u[j] ELSE q[j - Len(u)]
    <3>1. u \in Seq(S) /\ q \in Seq(S)
      BY <1>2, <1>3
    <3> HIDE DEF u, q
    <3> QED BY <3>1, ConcatProperties
  <2>2. Len(u) + Len(q) = Len(a) + Len(b)
    <3> HIDE DEF u, q
    <3> QED BY <1>0, <1>2, <1>3
  <2> HIDE DEF u, q, l
  <2> QED BY <1>3, <2>1, <2>2
<1>5. /\ r \in Seq(S) /\ Len(r) = Len(a) + Len(b)
      /\ \A j \in 1..(Len(a) + Len(b)) : r[j] = IF j <= Len(a) THEN a[j] ELSE b[j - Len(a)]
  OBVIOUS
<1> HIDE DEF l, r, u, p, q
<1>6. ASSUME NEW j \in 1..(Len(a) + Len(b)) PROVE l[j] = r[j]
  <2>0. j \in Nat /\ j > 0 /\ j <= Len(a) + Len(b)
    BY <1>0
  <2>1. CASE j <= Len(a)
    <3>1. j <= Len(a) + n /\ j \in 1..(Len(a) + n)
      BY <1>0, <2>0, <2>1
    <3>2. l[j] = u[j] /\ u[j] = a[j] /\ r[j] = a[j]
      BY <1>3, <1>4, <1>5, <2>1, <3>1
    <3>3. QED
      BY <3>2
  <2>2. CASE ~(j <= Len(a)) /\ j <= Len(a) + n
    <3>1. j \in 1..(Len(a) + n) /\ j - Len(a) \in 1..n
      BY <1>0, <2>0, <2>2
    <3>2. l[j] = u[j] /\ u[j] = p[j - Len(a)] /\ r[j] = b[j - Len(a)]
      BY <1>3, <1>4, <1>5, <2>2, <3>1
    <3>3. QED
      BY <1>1, <3>1, <3>2
  <2>3. CASE ~(j <= Len(a)) /\ ~(j <= Len(a) + n)
    <3>1. j - (Len(a) + n) \in 1..(Len(b) - n) /\ n + (j - (Len(a) + n)) = j - Len(a)
      BY <1>0, <2>0, <2>3
    <3>2. l[j] = q[j - (Len(a) + n)] /\ r[j] = b[j - Len(a)]
      BY <1>4, <1>5, <2>3
    <3>3. q[j - (Len(a) + n)] = b[n + (j - (Len(a) + n))]
      BY <1>2, <3>1
    <3>4. QED
      BY <3>1, <3>2, <3>3
  <2>4. QED
    BY <2>1, <2>2, <2>3
<1>7. l = r
  BY <1>0, <1>4, <1>5, <1>6, SeqEqual
<1>8. QED
  BY <1>1, <1>7 DEF l, r, u, p, q

\* A reader of nothing is in step with a stream of nothing.
LEMMA StartsInStep ==
  ASSUME NEW size
  PROVE  InStep(<<>>, <<>>, <<>>, FALSE, size)
<1>1. Len(<<>>) = 0 /\ SubSeq(<<>>, 1, 0) = <<>> /\ Drop(<<>>, 0) = <<>>
  BY DEF Drop
<1>2. QED
  BY <1>1, NothingSent DEF InStep

\* Writing a frame keeps the reader in step.
LEMMA SendKeepsStep ==
  ASSUME NEW sent \in Seq(Frames), NEW read \in Seq(Seq(Byte)), NEW bytes \in Seq(Byte),
         NEW taken \in BOOLEAN, NEW size, NEW f \in Frames,
         InStep(sent, read, bytes, taken, size)
  PROVE  InStep(Append(sent, f), read, bytes \o Packed(f), taken, size)
<1> DEFINE n == Len(read)
           s2 == Append(sent, f)
           skip == IF taken THEN HeaderLen ELSE 0
<1>1. /\ n <= Len(sent) /\ read = SubSeq(sent, 1, n)
      /\ Carries(bytes, Drop(sent, n), skip)
      /\ taken => n < Len(sent) /\ size = Len(sent[n + 1])
  BY DEF InStep
<1>2. n \in Nat /\ Len(sent) \in Nat /\ n \in 0..Len(sent)
  BY <1>1
<1>3. /\ s2 \in Seq(Frames) /\ Len(s2) = Len(sent) + 1 /\ s2[Len(sent) + 1] = f
      /\ \A k \in 1..Len(sent) : s2[k] = sent[k]
  OBVIOUS
<1>4. n <= Len(s2)
  <2> HIDE DEF s2, n
  <2> QED BY <1>2, <1>3
<1>5. read = SubSeq(s2, 1, n)
  <2>1. \A k \in 1..n : s2[k] = sent[k]
    BY <1>2, <1>3
  <2> DEFINE a == SubSeq(s2, 1, n)
             b == SubSeq(sent, 1, n)
  <2>2. a \in Seq(Frames) /\ Len(a) = n /\ \A k \in 1..n : a[k] = s2[k]
    <3> HIDE DEF s2, n
    <3> QED BY <1>2, <1>3
  <2>3. b \in Seq(Frames) /\ Len(b) = n /\ \A k \in 1..n : b[k] = sent[k]
    <3> HIDE DEF n
    <3> QED BY <1>2
  <2>4. a = b
    <3> HIDE DEF a, b, n, s2
    <3> QED BY <1>2, <2>1, <2>2, <2>3, SeqEqual
  <2>5. QED
    BY <1>1, <2>4
<1>6. Drop(s2, n) = Append(Drop(sent, n), f)
  <2> DEFINE a == Drop(s2, n)
             d == Drop(sent, n)
             b == Append(d, f)
  <2>1. a \in Seq(Frames) /\ Len(a) = Len(sent) + 1 - n
        /\ \A k \in 1..(Len(sent) + 1 - n) : a[k] = s2[n + k]
    <3>1. n \in 0..Len(s2)
      <4> HIDE DEF s2, n
      <4> QED BY <1>2, <1>3
    <3> HIDE DEF s2, n
    <3>2. Drop(s2, n) \in Seq(Frames) /\ Len(Drop(s2, n)) = Len(s2) - n
          /\ \A k \in 1..(Len(s2) - n) : Drop(s2, n)[k] = s2[n + k]
      BY <1>3, <3>1, DropFacts
    <3>3. Len(s2) = Len(sent) + 1
      BY <1>3
    <3>4. Len(s2) - n = Len(sent) + 1 - n
      BY <1>2, <3>3
    <3> HIDE DEF a
    <3>5. a = Drop(s2, n)
      BY DEF a
    <3> QED BY <3>2, <3>4, <3>5, Zenon
  <2>2. d \in Seq(Frames) /\ Len(d) = Len(sent) - n
        /\ \A k \in 1..(Len(sent) - n) : d[k] = sent[n + k]
    BY <1>2, DropFacts
  <2>3. /\ b \in Seq(Frames) /\ Len(b) = Len(d) + 1 /\ b[Len(d) + 1] = f
        /\ \A k \in 1..Len(d) : b[k] = d[k]
    <3> HIDE DEF d
    <3> QED BY <2>2
  <2>4. ASSUME NEW k \in 1..(Len(sent) + 1 - n) PROVE a[k] = b[k]
    <3> HIDE DEF a, b, d, s2, n
    <3>1. CASE k <= Len(sent) - n
      <4>1. k \in 1..(Len(sent) - n) /\ k \in 1..Len(d) /\ n + k \in 1..Len(sent)
        BY <1>2, <2>2, <3>1
      <4>2. QED
        BY <1>3, <2>1, <2>2, <2>3, <4>1
    <3>2. CASE k = Len(sent) + 1 - n
      <4>1. n + k = Len(sent) + 1 /\ k = Len(d) + 1
        BY <1>2, <2>2, <3>2
      <4>2. QED
        BY <1>3, <2>1, <2>3, <4>1
    <3>3. QED
      BY <1>2, <3>1, <3>2
  <2>5. Len(a) = Len(b)
    <3> HIDE DEF a, b, d, n
    <3> QED BY <1>2, <2>1, <2>2, <2>3
  <2>6. a = b
    <3> HIDE DEF a, b, d, n
    <3> QED BY <2>1, <2>3, <2>4, <2>5, SeqEqual
  <2>7. QED
    BY <2>6
<1>7. Carries(bytes \o Packed(f), Append(Drop(sent, n), f), skip)
  <2>1. Drop(sent, n) \in Seq(Frames)
    BY <1>2, DropFacts
  <2>2. skip \in {0, HeaderLen}
    OBVIOUS
  <2> HIDE DEF skip
  <2>3. QED
    BY <1>1, <2>1, <2>2, FrameAdded
<1>8. taken => n < Len(s2) /\ size = Len(s2[n + 1])
  <2>1. ASSUME taken PROVE n < Len(s2) /\ size = Len(s2[n + 1])
    <3>1. n + 1 \in 1..Len(sent)
      BY <1>1, <1>2, <2>1
    <3> HIDE DEF s2, n
    <3> QED BY <1>1, <1>2, <1>3, <2>1, <3>1
  <2>2. QED
    BY <2>1
<1>9. QED
  <2>1. Carries(bytes \o Packed(f), Drop(s2, n), skip)
    BY <1>6, <1>7
  <2> HIDE DEF s2
  <2>2. InStep(s2, read, bytes \o Packed(f), taken, size)
    BY <1>4, <1>5, <1>8, <2>1 DEF InStep
  <2>3. QED
    BY <2>2 DEF s2

\* The header at the front of the buffer tells the size of the next frame.
LEMMA HeaderKeepsStep ==
  ASSUME NEW sent \in Seq(Frames), NEW read \in Seq(Seq(Byte)),
         NEW buffer \in Seq(Byte), NEW later \in Seq(Byte), NEW old,
         InStep(sent, read, buffer \o later, FALSE, old), Len(buffer) >= HeaderLen
  PROVE  /\ InStep(sent, read, Drop(buffer, HeaderLen) \o later, TRUE, SizeOf(buffer))
         /\ SizeOf(buffer) \in 0..(Weight[HeaderLen] - 1)
<1> DEFINE n == Len(read)
           bytes == buffer \o later
           rest == Drop(sent, n)
<1>0. HeaderLen \in Nat /\ n \in Nat /\ Len(sent) \in Nat /\ Len(buffer) \in Nat
      /\ Len(later) \in Nat
  BY FrameFacts
<1>1. n <= Len(sent) /\ read = SubSeq(sent, 1, n) /\ Carries(bytes, rest, 0)
  BY DEF InStep
<1>2. rest \in Seq(Frames) /\ Len(rest) = Len(sent) - n
      /\ \A k \in 1..(Len(sent) - n) : rest[k] = sent[n + k]
  <2>1. n \in 0..Len(sent)
    BY <1>0, <1>1
  <2>2. QED
    BY <2>1, DropFacts
<1>3. bytes \in Seq(Byte) /\ Len(bytes) = Len(buffer) + Len(later)
      /\ \A j \in 1..Len(buffer) : bytes[j] = buffer[j]
  BY CatFacts
<1>4. Len(bytes) >= HeaderLen
  <2> HIDE DEF bytes
  <2> QED BY <1>0, <1>3
<1>5. /\ Len(rest) > 0 /\ \A j \in 1..HeaderLen : bytes[j] = Header(Len(rest[1]))[j]
      /\ Carries(Drop(bytes, HeaderLen), rest, HeaderLen)
  <2> HIDE DEF bytes, rest
  <2> QED BY <1>1, <1>2, <1>3, <1>4, HeaderTaken
<1>6. n < Len(sent) /\ n + 1 \in 1..Len(sent) /\ rest[1] = sent[n + 1]
  <2>1. Len(sent) - n > 0
    <3> HIDE DEF rest
    <3> QED BY <1>2, <1>5
  <2>2. 1 \in 1..(Len(sent) - n)
    BY <1>0, <2>1
  <2>3. QED
    <3> HIDE DEF rest
    <3> QED BY <1>0, <1>2, <2>1, <2>2
<1> DEFINE m == Len(rest[1])
<1>7. m \in Nat /\ m < Weight[HeaderLen]
  <2>1. rest[1] \in Frames
    <3> HIDE DEF rest
    <3> QED BY <1>6
  <2>2. QED
    <3> HIDE DEF rest
    <3> QED BY <2>1, FrameFacts DEF m
<1>8. SizeOf(buffer) = m
  <2>1. \A j \in 1..HeaderLen : buffer[j] = Header(m)[j]
    <3> HIDE DEF bytes, rest
    <3>1. \A j \in 1..HeaderLen : j \in 1..Len(buffer)
      BY <1>0
    <3> QED BY <1>3, <1>5, <3>1 DEF m
  <2> HIDE DEF m
  <2> QED BY <1>7, <2>1, SizeOfHeader
<1>9. Drop(bytes, HeaderLen) = Drop(buffer, HeaderLen) \o later
  <2>1. HeaderLen \in 0..Len(buffer)
    BY <1>0
  <2>2. QED
    BY <2>1, DropFromBoth
<1>10. InStep(sent, read, Drop(buffer, HeaderLen) \o later, TRUE, SizeOf(buffer))
  <2>1. Carries(Drop(buffer, HeaderLen) \o later, Drop(sent, n), HeaderLen)
    BY <1>5, <1>9
  <2>2. SizeOf(buffer) = Len(sent[n + 1])
    <3> HIDE DEF rest
    <3> QED BY <1>6, <1>8 DEF m
  <2>3. QED
    BY <1>1, <1>6, <2>1, <2>2 DEF InStep
<1>11. SizeOf(buffer) \in 0..(Weight[HeaderLen] - 1)
  <2>1. Weight[HeaderLen] \in Nat
    BY <1>0, WeightFacts
  <2> HIDE DEF m
  <2> QED BY <1>7, <1>8, <2>1
<1>12. QED
  BY <1>10, <1>11

\* The frame whose header is taken is all in the stream, and is the next that was sent.
LEMMA FrameKeepsStep ==
  ASSUME NEW sent \in Seq(Frames), NEW read \in Seq(Seq(Byte)),
         NEW buffer \in Seq(Byte), NEW later \in Seq(Byte), NEW size \in Nat, NEW new,
         InStep(sent, read, buffer \o later, TRUE, size)
  PROVE  /\ size <= Len(buffer) + Len(later)
         /\ size <= Len(buffer) =>
              InStep(sent, Append(read, SubSeq(buffer, 1, size)), Drop(buffer, size) \o later,
                     FALSE, new)
<1> DEFINE n == Len(read)
           bytes == buffer \o later
           rest == Drop(sent, n)
<1>0. HeaderLen \in Nat /\ n \in Nat /\ Len(sent) \in Nat /\ Len(buffer) \in Nat
      /\ Len(later) \in Nat
  BY FrameFacts
<1>1. /\ n < Len(sent) /\ read = SubSeq(sent, 1, n) /\ Carries(bytes, rest, HeaderLen)
      /\ size = Len(sent[n + 1])
  BY DEF InStep
<1>2. rest \in Seq(Frames) /\ Len(rest) = Len(sent) - n
      /\ \A k \in 1..(Len(sent) - n) : rest[k] = sent[n + k]
  <2>1. n \in 0..Len(sent)
    BY <1>0, <1>1
  <2>2. QED
    BY <2>1, DropFacts
<1>3. bytes \in Seq(Byte) /\ Len(bytes) = Len(buffer) + Len(later)
      /\ \A j \in 1..Len(buffer) : bytes[j] = buffer[j]
  BY CatFacts
<1>4. Len(rest) > 0 /\ rest[1] = sent[n + 1] /\ Len(rest[1]) = size
  <2>1. 1 \in 1..(Len(sent) - n) /\ Len(sent) - n > 0
    BY <1>0, <1>1
  <2> HIDE DEF rest
  <2> QED BY <1>1, <1>2, <2>1
<1>5. /\ size <= Len(bytes) /\ SubSeq(bytes, 1, size) = sent[n + 1]
      /\ Carries(Drop(bytes, size), Drop(rest, 1), 0)
  <2> HIDE DEF bytes, rest
  <2> QED BY <1>1, <1>2, <1>3, <1>4, FrameTaken
<1>6. size <= Len(buffer) + Len(later)
  <2> HIDE DEF bytes
  <2> QED BY <1>3, <1>5
<1>7. ASSUME size <= Len(buffer)
      PROVE  InStep(sent, Append(read, SubSeq(buffer, 1, size)), Drop(buffer, size) \o later,
                    FALSE, new)
  <2>1. size \in 0..Len(buffer)
    BY <1>0, <1>7
  <2>2. SubSeq(buffer, 1, size) = sent[n + 1]
    <3> DEFINE a == SubSeq(buffer, 1, size)
               b == SubSeq(bytes, 1, size)
    <3>1. a \in Seq(Byte) /\ Len(a) = size /\ \A j \in 1..size : a[j] = buffer[j]
      BY <2>1
    <3>2. b \in Seq(Byte) /\ Len(b) = size /\ \A j \in 1..size : b[j] = bytes[j]
      <4> HIDE DEF bytes
      <4> QED BY <1>3, <1>5
    <3>3. \A j \in 1..size : j \in 1..Len(buffer)
      BY <1>0, <1>7
    <3>4. a = b
      <4> HIDE DEF a, b, bytes
      <4> QED BY <1>3, <3>1, <3>2, <3>3, SeqEqual
    <3>5. QED
      BY <1>5, <3>4
  <2>3. Drop(bytes, size) = Drop(buffer, size) \o later
    BY <2>1, DropFromBoth
  <2> DEFINE r2 == Append(read, sent[n + 1])
  <2>4. /\ sent[n + 1] \in Seq(Byte) /\ sent[n + 1] \in Frames
        /\ r2 \in Seq(Seq(Byte)) /\ Len(r2) = n + 1 /\ r2[n + 1] = sent[n + 1]
        /\ \A k \in 1..n : r2[k] = read[k]
    <3>1. n + 1 \in 1..Len(sent)
      BY <1>0, <1>1
    <3>2. sent[n + 1] \in Frames
      BY <3>1
    <3>3. sent[n + 1] \in Seq(Byte)
      BY <3>2, FrameFacts
    <3>4. QED
      BY <3>2, <3>3
  <2>5. n + 1 <= Len(sent) /\ n + 1 \in 0..Len(sent) /\ n + 1 \in Nat
    BY <1>0, <1>1
  <2>6. r2 = SubSeq(sent, 1, n + 1)
    <3> DEFINE b == SubSeq(sent, 1, n + 1)
               c == SubSeq(sent, 1, n)
    <3>1. b \in Seq(Frames) /\ Len(b) = n + 1 /\ \A k \in 1..(n + 1) : b[k] = sent[k]
      BY <2>5
    <3>2. \A k \in 1..n : c[k] = sent[k]
      BY <1>0, <1>1
    <3>3. \A k \in 1..n : r2[k] = sent[k]
      <4> HIDE DEF r2, c
      <4> QED BY <1>1, <2>4, <3>2 DEF c
    <3>4. \A k \in 1..(n + 1) : r2[k] = b[k]
      <4>1. \A k \in 1..(n + 1) : k \in 1..n \/ k = n + 1
        BY <1>0
      <4> HIDE DEF r2, b
      <4> QED BY <2>4, <3>1, <3>3, <4>1
    <3>5. b \in Seq(Seq(Byte))
      <4>1. Frames \subseteq Seq(Byte)
        BY FrameFacts
      <4>2. \A k \in 1..(n + 1) : b[k] \in Seq(Byte)
        <5> HIDE DEF b
        <5> QED BY <3>1, <4>1
      <4> HIDE DEF b
      <4> QED BY <2>5, <3>1, <4>2
    <3>6. r2 = b
      <4> HIDE DEF r2, b
      <4> QED BY <2>4, <3>1, <3>4, <3>5, SeqEqual
    <3>7. QED
      BY <3>6
  <2>7. Drop(rest, 1) = Drop(sent, n + 1)
    <3> DEFINE a == Drop(rest, 1)
               b == Drop(sent, n + 1)
    <3>1. /\ a \in Seq(Frames) /\ Len(a) = Len(rest) - 1
          /\ \A k \in 1..(Len(rest) - 1) : a[k] = rest[1 + k]
      <4>1. 1 \in 0..Len(rest)
        <5> HIDE DEF rest
        <5> QED BY <1>0, <1>2, <1>4
      <4> HIDE DEF rest
      <4>2. rest \in Seq(Frames)
        BY <1>2
      <4> HIDE DEF a
      <4>3. a = Drop(rest, 1)
        BY DEF a
      <4> QED BY <4>1, <4>2, <4>3, DropFacts
    <3>2. /\ b \in Seq(Frames) /\ Len(b) = Len(sent) - (n + 1)
          /\ \A k \in 1..(Len(sent) - (n + 1)) : b[k] = sent[(n + 1) + k]
      BY <2>5, DropFacts
    <3>3. Len(rest) - 1 = Len(sent) - (n + 1)
      <4> HIDE DEF rest
      <4> QED BY <1>0, <1>2
    <3>4. ASSUME NEW k \in 1..(Len(sent) - (n + 1)) PROVE a[k] = b[k]
      <4>1. 1 + k \in 1..(Len(sent) - n) /\ n + (1 + k) = (n + 1) + k
        BY <1>0
      <4> HIDE DEF rest, a, b
      <4> QED BY <1>2, <3>1, <3>2, <3>3, <4>1
    <3>5. a = b
      <4> HIDE DEF rest, a, b
      <4> QED BY <3>1, <3>2, <3>3, <3>4, SeqEqual
    <3>6. QED
      BY <3>5
  <2>8. InStep(sent, r2, Drop(buffer, size) \o later, FALSE, new)
    <3>1. Carries(Drop(buffer, size) \o later, Drop(sent, n + 1), 0)
      BY <1>5, <2>3, <2>7
    <3> HIDE DEF r2
    <3> QED BY <2>4, <2>5, <2>6, <3>1 DEF InStep
  <2>9. QED
    BY <2>2, <2>8
<1>8. QED
  BY <1>6, <1>7

\* With no whole header left at a boundary, everything is read.
LEMMA AllRead ==
  ASSUME NEW sent \in Seq(Frames), NEW read \in Seq(Seq(Byte)), NEW bytes \in Seq(Byte), NEW old,
         InStep(sent, read, bytes, FALSE, old), Len(bytes) < HeaderLen
  PROVE  read = sent /\ bytes = <<>>
<1> DEFINE n == Len(read)
           rest == Drop(sent, n)
<1>0. n \in Nat /\ Len(sent) \in Nat
  OBVIOUS
<1>1. n <= Len(sent) /\ read = SubSeq(sent, 1, n) /\ Carries(bytes, rest, 0)
  BY DEF InStep
<1>2. rest \in Seq(Frames) /\ Len(rest) = Len(sent) - n
  <2>1. n \in 0..Len(sent)
    BY <1>0, <1>1
  <2>2. QED
    BY <2>1, DropFacts
<1>3. bytes = <<>> /\ rest = <<>>
  <2> HIDE DEF rest
  <2> QED BY <1>1, <1>2, NothingLeft
<1>4. n = Len(sent)
  <2>1. Len(sent) - n = 0
    BY <1>2, <1>3
  <2> QED BY <1>0, <2>1
<1>5. SubSeq(sent, 1, Len(sent)) = sent
  OBVIOUS
<1>6. QED
  BY <1>1, <1>3, <1>4, <1>5

-----------------------------------------------------------------------------
(* Alice's loop. *)

\* The states of her reader that are in step with a stream.
Readers(sent, later) ==
  {r \in [buffer : Seq(Byte), expected : 0..(Weight[HeaderLen] - 1), frames : Seq(Seq(Byte))] :
     InStep(sent, r.frames, r.buffer \o later, r.expected # 0, r.expected)}

\* A frame that is all in the buffer is taken from it.
LEMMA TakeFrameFacts ==
  ASSUME NEW sent \in Seq(Frames), NEW later \in Seq(Byte),
         NEW h \in [buffer : Seq(Byte), expected : 0..(Weight[HeaderLen] - 1),
                    frames : Seq(Seq(Byte))],
         InStep(sent, h.frames, h.buffer \o later, TRUE, h.expected),
         h.expected <= Len(h.buffer)
  PROVE  /\ TakeFrame(h) \in Readers(sent, later)
         /\ Len(TakeFrame(h).frames) = Len(h.frames) + 1
         /\ Len(TakeFrame(h).buffer) = Len(h.buffer) - h.expected
<1> DEFINE frame == SubSeq(h.buffer, 1, h.expected)
           rest == Drop(h.buffer, h.expected)
<1>0. HeaderLen \in Nat /\ Weight[HeaderLen] \in Nat \ {0}
  BY FrameFacts, WeightFacts
<1>1. h.buffer \in Seq(Byte) /\ h.frames \in Seq(Seq(Byte)) /\ h.expected \in Nat
      /\ h.expected \in 0..Len(h.buffer)
  BY <1>0
<1>2. InStep(sent, Append(h.frames, frame), rest \o later, FALSE, 0)
  BY <1>1, FrameKeepsStep
<1>3. frame \in Seq(Byte)
  BY <1>1
<1>4. rest \in Seq(Byte) /\ Len(rest) = Len(h.buffer) - h.expected
  BY <1>1, DropFacts
<1>5. /\ Append(h.frames, frame) \in Seq(Seq(Byte))
      /\ Len(Append(h.frames, frame)) = Len(h.frames) + 1
  <2> HIDE DEF frame
  <2> QED BY <1>1, <1>3
<1>6. TakeFrame(h) = [buffer |-> rest, expected |-> 0, frames |-> Append(h.frames, frame)]
  BY DEF TakeFrame
<1>7. 0 \in 0..(Weight[HeaderLen] - 1)
  BY <1>0
<1> DEFINE t == TakeFrame(h)
<1>8. t.buffer = rest /\ t.expected = 0 /\ t.frames = Append(h.frames, frame)
  <2> HIDE DEF frame, rest
  <2> QED BY <1>6
<1>9. t \in [buffer : Seq(Byte), expected : 0..(Weight[HeaderLen] - 1), frames : Seq(Seq(Byte))]
  <2> HIDE DEF frame, rest
  <2> QED BY <1>4, <1>5, <1>6, <1>7
<1>10. InStep(sent, t.frames, t.buffer \o later, t.expected # 0, t.expected)
  <2> HIDE DEF frame, rest, t
  <2>1. (t.expected # 0) = FALSE
    BY <1>8
  <2> QED BY <1>2, <1>8, <2>1
<1>11. t \in Readers(sent, later)
  <2> HIDE DEF t
  <2> QED BY <1>9, <1>10 DEF Readers
<1>12. QED
  <2> HIDE DEF frame, rest
  <2> QED BY <1>4, <1>5, <1>8, <1>11

\* A turn of the loop keeps the reader in step, and waits or consumes bytes.
LEMMA TurnFacts ==
  ASSUME NEW sent \in Seq(Frames), NEW later \in Seq(Byte), NEW r \in Readers(sent, later)
  PROVE  /\ Turn(r) \in Readers(sent, later) /\ Len(Turn(r).frames) >= Len(r.frames)
         /\ Waits(r) => Turn(r) = r
         /\ Waits(Turn(r)) \/ Len(Turn(r).buffer) < Len(r.buffer)
<1> DEFINE h == TakeHeader(r)
           R == [buffer : Seq(Byte), expected : 0..(Weight[HeaderLen] - 1),
                 frames : Seq(Seq(Byte))]
<1>0. HeaderLen \in Nat /\ HeaderLen > 0 /\ Weight[HeaderLen] \in Nat \ {0}
  BY FrameFacts, WeightFacts
<1>1. /\ r \in R /\ InStep(sent, r.frames, r.buffer \o later, r.expected # 0, r.expected)
      /\ r.buffer \in Seq(Byte) /\ r.frames \in Seq(Seq(Byte)) /\ r.expected \in Nat
      /\ Len(r.buffer) \in Nat /\ Len(r.frames) \in Nat
  BY <1>0 DEF Readers
<1>2. CASE Waits(r)
  BY <1>1, <1>2 DEF Turn
<1>3. CASE ~Waits(r)
  <2>1. /\ h \in R /\ InStep(sent, h.frames, h.buffer \o later, TRUE, h.expected)
        /\ h.frames = r.frames /\ Len(h.buffer) <= Len(r.buffer)
        /\ r.expected = 0 => Len(h.buffer) < Len(r.buffer)
        /\ r.expected # 0 => h = r
    <3>1. CASE r.expected = 0
      <4>1. Len(r.buffer) >= HeaderLen
        BY <1>0, <1>1, <1>3, <3>1 DEF Waits
      <4>2. InStep(sent, r.frames, r.buffer \o later, FALSE, r.expected)
        BY <1>1, <3>1
      <4>3. /\ InStep(sent, r.frames, Drop(r.buffer, HeaderLen) \o later, TRUE, SizeOf(r.buffer))
            /\ SizeOf(r.buffer) \in 0..(Weight[HeaderLen] - 1)
        BY <1>1, <4>1, <4>2, HeaderKeepsStep
      <4>4. h = [buffer |-> Drop(r.buffer, HeaderLen), expected |-> SizeOf(r.buffer),
                 frames |-> r.frames]
        BY <1>1, <3>1 DEF TakeHeader
      <4>5. /\ Drop(r.buffer, HeaderLen) \in Seq(Byte)
            /\ Len(Drop(r.buffer, HeaderLen)) = Len(r.buffer) - HeaderLen
        <5>1. HeaderLen \in 0..Len(r.buffer)
          BY <1>0, <1>1, <4>1
        <5> QED BY <1>1, <5>1, DropFacts
      <4>6. Len(r.buffer) - HeaderLen < Len(r.buffer)
        BY <1>0, <1>1
      <4>7. h \in R
        <5> HIDE DEF h
        <5> QED BY <1>1, <4>3, <4>4, <4>5
      <4>8. h.buffer = Drop(r.buffer, HeaderLen) /\ h.expected = SizeOf(r.buffer)
            /\ h.frames = r.frames
        <5> HIDE DEF h
        <5> QED BY <4>4
      <4> HIDE DEF h, R
      <4>9. InStep(sent, h.frames, h.buffer \o later, TRUE, h.expected)
        BY <4>3, <4>8
      <4>10. Len(h.buffer) < Len(r.buffer) /\ Len(h.buffer) <= Len(r.buffer)
        BY <1>0, <1>1, <4>5, <4>6, <4>8
      <4>11. QED
        BY <3>1, <4>7, <4>8, <4>9, <4>10
    <3>2. CASE r.expected # 0
      <4>1. h = r
        BY <3>2 DEF TakeHeader
      <4>2. (r.expected # 0) = TRUE
        BY <3>2
      <4>3. QED
        <5> HIDE DEF h, R
        <5>1. InStep(sent, r.frames, r.buffer \o later, TRUE, r.expected)
          BY <1>1, <4>2
        <5>2. Len(r.buffer) <= Len(r.buffer)
          BY <1>1
        <5> QED BY <1>1, <3>2, <4>1, <5>1, <5>2
    <3>3. QED
      BY <3>1, <3>2
  <2>2. h.buffer \in Seq(Byte) /\ Len(h.buffer) \in Nat /\ h.expected \in Nat
        /\ Len(h.frames) \in Nat
    <3> HIDE DEF h
    <3>1. h.buffer \in Seq(Byte) /\ h.expected \in Nat /\ h.frames \in Seq(Seq(Byte))
      BY <1>0, <2>1
    <3> QED BY <3>1
  <2>3. CASE Len(h.buffer) < h.expected
    <3>1. Turn(r) = h
      BY <1>3, <2>3 DEF Turn
    <3>2. h.expected # 0 /\ Waits(h)
      <4> HIDE DEF h
      <4> QED BY <2>2, <2>3 DEF Waits
    <3>3. h \in Readers(sent, later)
      <4> HIDE DEF h
      <4>1. (h.expected # 0) = TRUE
        BY <3>2
      <4> QED BY <2>1, <4>1 DEF Readers
    <3>4. QED
      <4> HIDE DEF h, R
      <4> QED BY <1>1, <1>3, <2>1, <3>1, <3>2, <3>3
  <2>4. CASE ~(Len(h.buffer) < h.expected)
    <3>1. Turn(r) = TakeFrame(h)
      BY <1>3, <2>4 DEF Turn
    <3>2. h.expected <= Len(h.buffer)
      <4> HIDE DEF h
      <4> QED BY <2>2, <2>4
    <3>3. /\ TakeFrame(h) \in Readers(sent, later)
          /\ Len(TakeFrame(h).frames) = Len(h.frames) + 1
          /\ Len(TakeFrame(h).buffer) = Len(h.buffer) - h.expected
      <4> HIDE DEF h
      <4> QED BY <2>1, <3>2, TakeFrameFacts
    <3>4. Len(h.buffer) - h.expected < Len(r.buffer)
      <4> HIDE DEF h, R
      <4>1. CASE r.expected = 0
        BY <1>1, <2>1, <2>2, <4>1
      <4>2. CASE r.expected # 0
        BY <1>1, <2>1, <2>2, <4>2
      <4> QED BY <4>1, <4>2
    <3>5. QED
      <4> HIDE DEF h, R
      <4> QED BY <1>1, <1>3, <2>1, <2>2, <3>1, <3>3, <3>4
  <2>5. QED
    BY <2>3, <2>4
<1>4. QED
  BY <1>2, <1>3

\* The loop ends, in step and with nothing more to take, and forgets nothing it has read.
LEMMA LoopFacts ==
  ASSUME NEW sent \in Seq(Frames), NEW later \in Seq(Byte), NEW r \in Readers(sent, later)
  PROVE  /\ ProcessReceivedData(r) \in Readers(sent, later)
         /\ Waits(ProcessReceivedData(r))
         /\ Len(ProcessReceivedData(r).frames) >= Len(r.frames)
<1> DEFINE n == Len(r.buffer)
           D == Readers(sent, later)
           s == [i \in Nat |-> [q \in D |-> Turn(q)]]
<1>0. /\ HeaderLen \in Nat /\ HeaderLen > 0 /\ Weight[HeaderLen] \in Nat \ {0} /\ n \in Nat
      /\ \A q \in D : /\ q.buffer \in Seq(Byte) /\ Len(q.buffer) \in Nat
                      /\ Len(q.frames) \in Nat /\ q.expected \in Nat
  BY FrameFacts, WeightFacts DEF Readers
<1>1. s \in [Nat -> [D -> D]]
  <2>1. \A q \in D : Turn(q) \in D
    BY TurnFacts
  <2> HIDE DEF D
  <2> QED BY <2>1
<1>2. StepByStep(D, r, s, n)
  <2>1. r \in D /\ n \in Nat
    BY <1>0
  <2> HIDE DEF s, D, n
  <2>2. QED
    BY <1>1, <2>1, Iterates
<1>3. PICK g \in [0..n -> D] : \A i \in 0..n : g[i] = IF i = 0 THEN r ELSE s[i][g[i - 1]]
  <2> HIDE DEF s, D, n
  <2> QED BY <1>2 DEF StepByStep
<1>4. ASSUME NEW i \in 0..n
      PROVE  g[i] = IF i = 0 THEN r ELSE Turn(g[i - 1])
  <2> HIDE DEF D, n
  <2>1. CASE i # 0
    <3>1. i \in Nat /\ i - 1 \in 0..n
      BY <1>0, <2>1
    <3>2. g[i - 1] \in D
      BY <3>1
    <3>3. g[i] = s[i][g[i - 1]]
      BY <1>3, <2>1
    <3>4. s[i][g[i - 1]] = Turn(g[i - 1])
      BY <3>1, <3>2
    <3>5. QED
      BY <2>1, <3>3, <3>4
  <2>2. QED
    BY <1>3, <2>1
<1> DEFINE F == CHOOSE v : v = [i \in 0..n |-> IF i = 0 THEN r ELSE Turn(v[i - 1])]
<1>5. F = [i \in 0..n |-> IF i = 0 THEN r ELSE Turn(F[i - 1])]
  <2>1. g = [i \in 0..n |-> IF i = 0 THEN r ELSE Turn(g[i - 1])]
    <3> HIDE DEF D, n
    <3> QED BY <1>4
  <2>2. QED
    BY <2>1
<1>6. ProcessReceivedData(r) = F[n]
  BY DEF ProcessReceivedData
<1> HIDE DEF F, n, D, s
<1>7. F[0] = r /\ \A i \in 1..n : F[i] = Turn(F[i - 1])
  <2>1. 0 \in 0..n /\ \A i \in 1..n : i \in 0..n /\ i # 0
    BY <1>0
  <2>2. QED
    BY <1>5, <2>1, Zenon
<1> DEFINE Q(i) == /\ F[i] \in D /\ Len(F[i].frames) >= Len(r.frames)
                   /\ Waits(F[i]) \/ Len(F[i].buffer) + i <= n
           T == {i \in Nat : i \in 0..n => Q(i)}
<1>8. 0 \in T
  <2>1. r \in D
    BY DEF D
  <2>2. QED
    BY <1>0, <1>7, <2>1 DEF n
<1>9. ASSUME NEW i \in T, i + 1 \in 0..n
      PROVE  Q(i + 1)
  <2>1. i \in Nat /\ i \in 0..n /\ i + 1 \in 1..n /\ (i + 1) - 1 = i
    BY <1>0, <1>9
  <2>2. Q(i)
    BY <2>1
  <2> DEFINE q == F[i]
  <2>3. F[i + 1] = Turn(q)
    BY <1>7, <2>1
  <2>4. q \in D /\ Len(q.frames) >= Len(r.frames) /\ (Waits(q) \/ Len(q.buffer) + i <= n)
    BY <2>2
  <2> HIDE DEF q
  <2>5. /\ Turn(q) \in D /\ Len(Turn(q).frames) >= Len(q.frames)
        /\ Waits(q) => Turn(q) = q
        /\ Waits(Turn(q)) \/ Len(Turn(q).buffer) < Len(q.buffer)
    BY <2>4, TurnFacts DEF D
  <2>6. /\ Len(q.frames) \in Nat /\ Len(r.frames) \in Nat /\ Len(Turn(q).frames) \in Nat
        /\ Len(q.buffer) \in Nat /\ Len(Turn(q).buffer) \in Nat
    <3>1. r \in D
      BY DEF D
    <3> QED BY <1>0, <2>4, <2>5, <3>1
  <2>7. Len(Turn(q).frames) >= Len(r.frames)
    BY <2>4, <2>5, <2>6
  <2>8. Waits(Turn(q)) \/ Len(Turn(q).buffer) + (i + 1) <= n
    <3>1. CASE Waits(q)
      BY <2>5, <3>1
    <3>2. CASE Len(q.buffer) + i <= n /\ Len(Turn(q).buffer) < Len(q.buffer)
      <4> DEFINE x == Len(q.buffer)
                 y == Len(Turn(q).buffer)
      <4>1. x \in Nat /\ y \in Nat /\ x + i <= n /\ y < x /\ i \in Nat
        BY <2>1, <2>6, <3>2
      <4> HIDE DEF x, y
      <4>2. y + (i + 1) <= n
        BY <1>0, <4>1
      <4> QED BY <4>2 DEF y
    <3>3. QED
      BY <2>4, <2>5, <3>1, <3>2
  <2>9. QED
    BY <2>3, <2>5, <2>7, <2>8
<1>10. T = Nat
  <2> HIDE DEF Q
  <2>1. ASSUME NEW i \in T PROVE i + 1 \in T
    <3>1. i + 1 \in Nat
      OBVIOUS
    <3> QED BY <1>9, <3>1
  <2>2. T \in SUBSET Nat
    OBVIOUS
  <2> HIDE DEF T
  <2>3. QED
    BY <1>8, <2>1, <2>2, Inductive
<1>11. Q(n)
  <2>1. n \in T /\ n \in 0..n
    <3> HIDE DEF T
    <3> QED BY <1>0, <1>10
  <2> HIDE DEF Q
  <2> QED BY <2>1
<1>12. Waits(F[n])
  <2>1. CASE Len(F[n].buffer) + n <= n
    <3> DEFINE q == F[n]
    <3>1. q \in D /\ Len(q.buffer) + n <= n
      BY <1>11, <2>1
    <3> HIDE DEF q
    <3>2. Len(q.buffer) \in Nat /\ q.expected \in Nat
      BY <1>0, <3>1
    <3>3. Len(q.buffer) = 0
      BY <1>0, <3>1, <3>2
    <3>4. Waits(q)
      BY <1>0, <3>2, <3>3 DEF Waits
    <3>5. QED
      BY <3>4 DEF q
  <2>2. QED
    BY <1>11, <2>1
<1>13. QED
  BY <1>6, <1>11, <1>12 DEF D

-----------------------------------------------------------------------------
(* The invariant. *)

\* The invariant of a connection holds at first.
LEMMA Starts == Init => IInv
<1> SUFFICES ASSUME Init PROVE IInv
  OBVIOUS
<1>0. /\ HeaderLen \in Nat /\ HeaderLen > 0 /\ Weight[HeaderLen] \in Nat \ {0}
      /\ MaxFrames \in Nat /\ BufferLen \in Nat /\ 0 \in Byte
  BY FrameFacts, WeightFacts, FramingAssumption, ReaderAssumption DEF Byte
<1>1. /\ sentToAlice = <<>> /\ s2cBytes = <<>> /\ readByAlice = <<>> /\ readBuffer = <<>>
      /\ expectedMessageSize = 0
      /\ sentToBob = <<>> /\ c2sBytes = <<>> /\ readByBob = <<>>
      /\ read_buffer_ = [i \in 1..BufferLen |-> 0] /\ last_message_size_ = 0
      /\ pending = "read_size"
  BY DEF Init, ClientReaderInit, ServerReaderInit
<1>2. read_buffer_ \in Seq(Byte) /\ Len(read_buffer_) = BufferLen
  BY <1>0, <1>1
<1>3. TypeOK
  BY <1>0, <1>1, <1>2 DEF TypeOK, ClientReaderTypeOK, ServerReaderTypeOK
<1>4. InStep(<<>>, <<>>, <<>>, FALSE, 0)
  BY StartsInStep
<1>5. AliceInStep
  <2>1. (expectedMessageSize # 0) = FALSE /\ readBuffer \o s2cBytes = <<>> /\ Len(readBuffer) = 0
    BY <1>1
  <2>2. InStep(sentToAlice, readByAlice, readBuffer \o s2cBytes,
               expectedMessageSize # 0, expectedMessageSize)
    BY <1>1, <1>4, <2>1
  <2>3. QED
    BY <1>0, <1>1, <2>1, <2>2 DEF AliceInStep
<1>6. BobInStep
  <2>1. (pending = "read_body") = FALSE
    BY <1>1
  <2>2. QED
    BY <1>1, <1>4, <2>1 DEF BobInStep
<1>7. OneAnswerEach
  BY <1>0, <1>1 DEF OneAnswerEach
<1>8. QED
  BY <1>3, <1>5, <1>6, <1>7 DEF IInv

\* A chunk arrives at Alice.
LEMMA DataKeeps ==
  ASSUME ClientReaderTypeOK, AliceInStep, DataEvent
  PROVE  /\ ClientReaderTypeOK' /\ AliceInStep' /\ sentToAlice' = sentToAlice
         /\ Len(readByAlice') >= Len(readByAlice)
<1>1. PICK n \in 1..Len(s2cBytes) :
        LET r == ProcessReceivedData([buffer |-> readBuffer \o SubSeq(s2cBytes, 1, n),
                                      expected |-> expectedMessageSize,
                                      frames |-> readByAlice]) IN
        /\ s2cBytes' = Drop(s2cBytes, n)
        /\ readBuffer' = r.buffer
        /\ expectedMessageSize' = r.expected
        /\ readByAlice' = r.frames
  BY DEF DataEvent
<1>2. sentToAlice' = sentToAlice
  BY DEF DataEvent
<1> DEFINE later == Drop(s2cBytes, n)
           chunk == SubSeq(s2cBytes, 1, n)
           b == readBuffer \o chunk
           r0 == [buffer |-> b, expected |-> expectedMessageSize, frames |-> readByAlice]
           r == ProcessReceivedData(r0)
<1>3. /\ sentToAlice \in Seq(Frames) /\ s2cBytes \in Seq(Byte) /\ readByAlice \in Seq(Seq(Byte))
      /\ readBuffer \in Seq(Byte) /\ expectedMessageSize \in 0..(Weight[HeaderLen] - 1)
      /\ InStep(sentToAlice, readByAlice, readBuffer \o s2cBytes,
                expectedMessageSize # 0, expectedMessageSize)
      /\ n \in 0..Len(s2cBytes)
  BY DEF ClientReaderTypeOK, AliceInStep
<1>4. later \in Seq(Byte)
  BY <1>3, DropFacts
<1>5. chunk \in Seq(Byte) /\ b \o later = readBuffer \o s2cBytes
  BY <1>3, Cut, ZenonT(60)
<1>6. b \in Seq(Byte)
  <2> HIDE DEF chunk
  <2> QED BY <1>3, <1>5
<1>7. r0 \in Readers(sentToAlice, later)
  <2>1. r0.buffer = b /\ r0.expected = expectedMessageSize /\ r0.frames = readByAlice
    <3> HIDE DEF b
    <3> QED OBVIOUS
  <2>2. r0 \in [buffer : Seq(Byte), expected : 0..(Weight[HeaderLen] - 1),
                frames : Seq(Seq(Byte))]
    <3> HIDE DEF b
    <3> QED BY <1>3, <1>6
  <2>3. InStep(sentToAlice, r0.frames, r0.buffer \o later, r0.expected # 0, r0.expected)
    <3> HIDE DEF b, later, r0
    <3> QED BY <1>3, <1>5, <2>1
  <2> HIDE DEF r0, later
  <2> QED BY <2>2, <2>3 DEF Readers
<1>8. r \in Readers(sentToAlice, later) /\ Waits(r) /\ Len(r.frames) >= Len(readByAlice)
  <2>1. r0.frames = readByAlice
    <3> HIDE DEF b
    <3> QED OBVIOUS
  <2> HIDE DEF r0, later
  <2> QED BY <1>3, <1>4, <1>7, <2>1, LoopFacts
<1>9. /\ s2cBytes' = later /\ readBuffer' = r.buffer /\ expectedMessageSize' = r.expected
      /\ readByAlice' = r.frames
  BY <1>1
<1> HIDE DEF r, later
<1>10. /\ r.buffer \in Seq(Byte) /\ r.expected \in 0..(Weight[HeaderLen] - 1)
       /\ r.frames \in Seq(Seq(Byte))
       /\ InStep(sentToAlice, r.frames, r.buffer \o later, r.expected # 0, r.expected)
       /\ Len(r.buffer) < IF r.expected = 0 THEN HeaderLen ELSE r.expected
  BY <1>8 DEF Readers, Waits
<1>11. ClientReaderTypeOK'
  BY <1>2, <1>3, <1>4, <1>9, <1>10 DEF ClientReaderTypeOK
<1>12. AliceInStep'
  BY <1>2, <1>9, <1>10 DEF AliceInStep
<1>13. QED
  BY <1>2, <1>8, <1>9, <1>11, <1>12

\* Bytes that arrive overwrite the front of the buffer.
LEMMA OverwrittenFacts ==
  ASSUME read_buffer_ \in Seq(Byte), c2sBytes \in Seq(Byte), NEW n \in 0..Len(c2sBytes)
  PROVE  /\ Overwritten(n) \in Seq(Byte) /\ Len(Overwritten(n)) = Len(read_buffer_)
         /\ \A i \in 1..Len(read_buffer_) : i <= n => Overwritten(n)[i] = c2sBytes[i]
<1>1. DOMAIN read_buffer_ = 1..Len(read_buffer_) /\ Len(read_buffer_) \in Nat
      /\ Len(c2sBytes) \in Nat
  OBVIOUS
<1>2. ASSUME NEW i \in 1..Len(read_buffer_)
      PROVE  (IF i <= n THEN c2sBytes[i] ELSE read_buffer_[i]) \in Byte
  <2>1. CASE i <= n
    <3>1. i \in 1..Len(c2sBytes)
      BY <1>1, <2>1
    <3> QED BY <2>1, <3>1
  <2>2. QED
    BY <2>1
<1>3. Overwritten(n) = [i \in 1..Len(read_buffer_) |->
                          IF i <= n THEN c2sBytes[i] ELSE read_buffer_[i]]
  BY <1>1 DEF Overwritten
<1>4. Overwritten(n) \in [1..Len(read_buffer_) -> Byte]
  BY <1>2, <1>3
<1>5. Overwritten(n) \in Seq(Byte) /\ Len(Overwritten(n)) = Len(read_buffer_)
  <2> DEFINE o == Overwritten(n)
  <2> HIDE DEF o
  <2>1. o \in [1..Len(read_buffer_) -> Byte]
    BY <1>4 DEF o
  <2>2. o \in Seq(Byte) /\ Len(o) = Len(read_buffer_)
    BY <1>1, <2>1
  <2> QED BY <2>2 DEF o
<1>6. QED
  BY <1>3, <1>5

\* The buffer has room for the message, and never shrinks.
LEMMA GrownFacts ==
  ASSUME NEW buffer \in Seq(Byte), NEW size \in Nat
  PROVE  /\ Grown(buffer, size) \in Seq(Byte) /\ size <= Len(Grown(buffer, size))
         /\ Len(Grown(buffer, size)) >= Len(buffer)
<1>0. 0 \in Byte /\ Len(buffer) \in Nat
  BY FramingAssumption DEF Byte
<1>1. CASE size <= Len(buffer)
  BY <1>0, <1>1 DEF Grown
<1>2. CASE ~(size <= Len(buffer))
  <2> DEFINE g == [i \in 1..size |-> IF i <= Len(buffer) THEN buffer[i] ELSE 0]
  <2>1. g \in [1..size -> Byte]
    <3>1. ASSUME NEW i \in 1..size, i <= Len(buffer) PROVE buffer[i] \in Byte
      <4>1. i \in 1..Len(buffer)
        BY <1>0, <3>1
      <4> QED BY <4>1
    <3> QED BY <1>0, <3>1
  <2>2. Grown(buffer, size) = g
    BY <1>2 DEF Grown
  <2> HIDE DEF g
  <2>3. g \in Seq(Byte) /\ Len(g) = size
    BY <2>1
  <2>4. QED
    BY <1>0, <1>2, <2>2, <2>3
<1>3. QED
  BY <1>1, <1>2

\* Bob reads a header.
LEMMA ReadSizeKeeps ==
  ASSUME ServerReaderTypeOK, BobInStep, ReadSize
  PROVE  ServerReaderTypeOK' /\ BobInStep'
<1> DEFINE size == SizeOf(c2sBytes)
<1>0. HeaderLen \in Nat /\ BufferLen \in Nat
  BY FrameFacts, ReaderAssumption
<1>1. /\ pending = "read_size" /\ Len(c2sBytes) >= HeaderLen
      /\ last_message_size_' = size /\ read_buffer_' = Grown(Overwritten(HeaderLen), size)
      /\ c2sBytes' = Drop(c2sBytes, HeaderLen) /\ pending' = "read_body"
      /\ sentToBob' = sentToBob /\ readByBob' = readByBob
  BY DEF ReadSize, Consume
<1>2. /\ sentToBob \in Seq(Frames) /\ c2sBytes \in Seq(Byte) /\ readByBob \in Seq(Seq(Byte))
      /\ read_buffer_ \in Seq(Byte) /\ Len(read_buffer_) >= BufferLen
      /\ InStep(sentToBob, readByBob, c2sBytes, pending = "read_body", last_message_size_)
      /\ HeaderLen \in 0..Len(c2sBytes)
  BY <1>0, <1>1 DEF ServerReaderTypeOK, BobInStep
<1>3. /\ InStep(sentToBob, readByBob, Drop(c2sBytes, HeaderLen), TRUE, size)
      /\ size \in 0..(Weight[HeaderLen] - 1)
  <2>1. (pending = "read_body") = FALSE /\ c2sBytes \o <<>> = c2sBytes /\ <<>> \in Seq(Byte)
    BY <1>1, <1>2
  <2>2. Drop(c2sBytes, HeaderLen) \in Seq(Byte)
    BY <1>2, DropFacts
  <2>3. Drop(c2sBytes, HeaderLen) \o <<>> = Drop(c2sBytes, HeaderLen)
    BY <2>2, ConcatEmptySeq
  <2>4. InStep(sentToBob, readByBob, c2sBytes \o <<>>, FALSE, last_message_size_)
    BY <1>2, <2>1
  <2>5. /\ InStep(sentToBob, readByBob, Drop(c2sBytes, HeaderLen) \o <<>>, TRUE, size)
        /\ size \in 0..(Weight[HeaderLen] - 1)
    BY <1>1, <1>2, <2>1, <2>4, HeaderKeepsStep
  <2>6. QED
    BY <2>3, <2>5
<1> HIDE DEF size
<1>4. size \in Nat
  BY <1>0, <1>3, WeightFacts
<1>5. Overwritten(HeaderLen) \in Seq(Byte) /\ Len(Overwritten(HeaderLen)) = Len(read_buffer_)
  BY <1>2, OverwrittenFacts
<1>6. /\ read_buffer_' \in Seq(Byte) /\ size <= Len(read_buffer_')
      /\ Len(read_buffer_') >= Len(read_buffer_)
  BY <1>1, <1>4, <1>5, GrownFacts
<1>7. Len(read_buffer_') >= BufferLen
  <2>1. Len(read_buffer_) \in Nat /\ Len(read_buffer_') \in Nat
    BY <1>2, <1>6
  <2> QED BY <1>0, <1>2, <1>6, <2>1
<1>8. Drop(c2sBytes, HeaderLen) \in Seq(Byte)
  BY <1>2, DropFacts
<1>9. ServerReaderTypeOK'
  BY <1>1, <1>2, <1>3, <1>6, <1>7, <1>8 DEF ServerReaderTypeOK
<1>10. BobInStep'
  <2>1. (pending' = "read_body") = TRUE
    BY <1>1
  <2>2. InStep(sentToBob', readByBob', c2sBytes', pending' = "read_body", last_message_size_')
    BY <1>1, <1>3, <2>1
  <2>3. QED
    BY <1>1, <1>6, <2>2 DEF BobInStep
<1>11. QED
  BY <1>9, <1>10

\* Bob reads a message.
LEMMA ReadBodyKeeps ==
  ASSUME ServerReaderTypeOK, BobInStep, ReadBody
  PROVE  /\ ServerReaderTypeOK' /\ BobInStep' /\ Len(readByBob') = Len(readByBob) + 1
         /\ sentToBob' = sentToBob /\ pending = "read_body" /\ pending' = "write"
<1> DEFINE size == last_message_size_
           o == Overwritten(size)
           frame == SubSeq(c2sBytes, 1, size)
<1>0. HeaderLen \in Nat /\ BufferLen \in Nat /\ Weight[HeaderLen] \in Nat
  BY FrameFacts, ReaderAssumption, WeightFacts
<1>1. /\ pending = "read_body" /\ Len(c2sBytes) >= size
      /\ read_buffer_' = o /\ readByBob' = Append(readByBob, SubSeq(o, 1, size))
      /\ c2sBytes' = Drop(c2sBytes, size) /\ pending' = "write"
      /\ sentToBob' = sentToBob /\ last_message_size_' = size
  BY DEF ReadBody, Consume
<1>2. /\ sentToBob \in Seq(Frames) /\ c2sBytes \in Seq(Byte) /\ readByBob \in Seq(Seq(Byte))
      /\ read_buffer_ \in Seq(Byte) /\ Len(read_buffer_) >= BufferLen
      /\ InStep(sentToBob, readByBob, c2sBytes, TRUE, size)
      /\ size \in Nat /\ size <= Len(read_buffer_) /\ Len(read_buffer_) \in Nat
      /\ size \in 0..Len(c2sBytes)
  <2>1. (pending = "read_body") = TRUE
    BY <1>1
  <2>2. /\ sentToBob \in Seq(Frames) /\ c2sBytes \in Seq(Byte) /\ readByBob \in Seq(Seq(Byte))
        /\ read_buffer_ \in Seq(Byte) /\ Len(read_buffer_) >= BufferLen
        /\ size \in 0..(Weight[HeaderLen] - 1)
    BY DEF ServerReaderTypeOK
  <2>3. InStep(sentToBob, readByBob, c2sBytes, TRUE, size) /\ size <= Len(read_buffer_)
    BY <1>1, <2>1 DEF BobInStep
  <2>4. size \in Nat
    BY <1>0, <2>2
  <2> HIDE DEF size
  <2>5. Len(read_buffer_) \in Nat /\ Len(c2sBytes) \in Nat /\ size \in 0..Len(c2sBytes)
    BY <1>1, <2>2, <2>4
  <2>6. QED
    BY <2>2, <2>3, <2>4, <2>5
<1>3. /\ o \in Seq(Byte) /\ Len(o) = Len(read_buffer_)
      /\ \A i \in 1..Len(read_buffer_) : i <= size => o[i] = c2sBytes[i]
  BY <1>2, OverwrittenFacts
<1>4. SubSeq(o, 1, size) = frame /\ frame \in Seq(Byte)
  <2> DEFINE a == SubSeq(o, 1, size)
  <2>1. a \in Seq(Byte) /\ Len(a) = size /\ \A j \in 1..size : a[j] = o[j]
    <3> HIDE DEF o
    <3> QED BY <1>2, <1>3
  <2>2. frame \in Seq(Byte) /\ Len(frame) = size /\ \A j \in 1..size : frame[j] = c2sBytes[j]
    BY <1>2
  <2>3. \A j \in 1..size : j \in 1..Len(read_buffer_) /\ j <= size
    BY <1>2
  <2>4. a = frame
    <3> HIDE DEF a, frame, o
    <3> QED BY <1>3, <2>1, <2>2, <2>3, SeqEqual
  <2>5. QED
    BY <2>2, <2>4
<1>5. InStep(sentToBob, Append(readByBob, frame), Drop(c2sBytes, size), FALSE, size)
  <2>1. c2sBytes \o <<>> = c2sBytes /\ <<>> \in Seq(Byte) /\ size <= Len(c2sBytes)
    BY <1>2
  <2>2. Drop(c2sBytes, size) \in Seq(Byte)
    BY <1>2, DropFacts
  <2>3. Drop(c2sBytes, size) \o <<>> = Drop(c2sBytes, size)
    BY <2>2, ConcatEmptySeq
  <2>4. InStep(sentToBob, readByBob, c2sBytes \o <<>>, TRUE, size)
    BY <1>2, <2>1
  <2>5. InStep(sentToBob, Append(readByBob, frame), Drop(c2sBytes, size) \o <<>>, FALSE, size)
    BY <1>2, <2>1, <2>4, FrameKeepsStep
  <2>6. QED
    BY <2>3, <2>5
<1>6. Drop(c2sBytes, size) \in Seq(Byte)
  BY <1>2, DropFacts
<1>7. readByBob' = Append(readByBob, frame)
  BY <1>1, <1>4
<1>8. readByBob' \in Seq(Seq(Byte)) /\ Len(readByBob') = Len(readByBob) + 1
  <2> HIDE DEF frame
  <2> QED BY <1>2, <1>4, <1>7
<1>9. ServerReaderTypeOK'
  <2> HIDE DEF o
  <2>1. size \in 0..(Weight[HeaderLen] - 1)
    BY DEF ServerReaderTypeOK
  <2> QED BY <1>1, <1>2, <1>3, <1>6, <1>8, <2>1 DEF ServerReaderTypeOK
<1>10. BobInStep'
  <2>1. (pending' = "read_body") = FALSE
    BY <1>1
  <2>2. InStep(sentToBob', readByBob', c2sBytes', pending' = "read_body", last_message_size_')
    <3> HIDE DEF frame
    <3> QED BY <1>1, <1>5, <1>7, <2>1
  <2>3. QED
    BY <2>1, <2>2 DEF BobInStep
<1>11. QED
  BY <1>1, <1>8, <1>9, <1>10

\* Bob answers and reads on.
LEMMA BobAnswersKeeps ==
  ASSUME IInv, BobAnswers
  PROVE  /\ IInv' /\ Len(sentToAlice) < MaxFrames /\ readByAlice' = readByAlice
         /\ \E f \in Frames : sentToAlice' = Append(sentToAlice, f)
         /\ sentToBob' = sentToBob /\ readByBob' = readByBob
<1>1. PICK f \in Frames : BobSends(f)
  BY DEF BobAnswers
<1>2. /\ sentToAlice' = Append(sentToAlice, f) /\ s2cBytes' = s2cBytes \o Packed(f)
      /\ readByAlice' = readByAlice /\ readBuffer' = readBuffer
      /\ expectedMessageSize' = expectedMessageSize
      /\ pending = "write" /\ pending' = "read_size"
      /\ sentToBob' = sentToBob /\ c2sBytes' = c2sBytes /\ readByBob' = readByBob
      /\ read_buffer_' = read_buffer_ /\ last_message_size_' = last_message_size_
  BY <1>1 DEF BobAnswers, BobSends, ReadNext
<1>3. ClientReaderTypeOK /\ ServerReaderTypeOK /\ AliceInStep /\ BobInStep /\ OneAnswerEach
  BY DEF IInv, TypeOK
<1>4. /\ sentToAlice \in Seq(Frames) /\ s2cBytes \in Seq(Byte) /\ readByAlice \in Seq(Seq(Byte))
      /\ readBuffer \in Seq(Byte) /\ sentToBob \in Seq(Frames) /\ readByBob \in Seq(Seq(Byte))
  BY <1>3 DEF ClientReaderTypeOK, ServerReaderTypeOK
<1>5. Packed(f) \in Seq(Byte)
  BY FrameFacts, PackedFacts
<1>6. /\ sentToAlice' \in Seq(Frames) /\ Len(sentToAlice') = Len(sentToAlice) + 1
      /\ s2cBytes' \in Seq(Byte)
  BY <1>2, <1>4, <1>5
<1>7. TypeOK'
  BY <1>2, <1>3, <1>6 DEF TypeOK, ClientReaderTypeOK, ServerReaderTypeOK
<1>8. AliceInStep'
  <2> DEFINE bytes == readBuffer \o s2cBytes
             taken == expectedMessageSize # 0
  <2>1. bytes \in Seq(Byte) /\ taken \in BOOLEAN
    BY <1>4
  <2>2. InStep(sentToAlice, readByAlice, bytes, taken, expectedMessageSize)
    BY <1>3 DEF AliceInStep
  <2>3. bytes \o Packed(f) = readBuffer \o s2cBytes'
    <3>1. (readBuffer \o s2cBytes) \o Packed(f) = readBuffer \o (s2cBytes \o Packed(f))
      BY <1>4, <1>5, ConcatAssociative, SMTT(30)
    <3>2. QED
      BY <1>2, <3>1
  <2>4. InStep(sentToAlice', readByAlice, bytes \o Packed(f), taken, expectedMessageSize)
    <3> HIDE DEF bytes, taken
    <3> QED BY <1>1, <1>2, <1>4, <2>1, <2>2, SendKeepsStep
  <2>5. InStep(sentToAlice', readByAlice', readBuffer' \o s2cBytes',
               expectedMessageSize' # 0, expectedMessageSize')
    BY <1>2, <2>3, <2>4
  <2>6. QED
    BY <1>2, <1>3, <2>5 DEF AliceInStep
<1>9. BobInStep'
  <2>1. (pending = "read_body") = FALSE /\ (pending' = "read_body") = FALSE
    BY <1>2
  <2>2. InStep(sentToBob', readByBob', c2sBytes', pending' = "read_body", last_message_size_')
    BY <1>2, <1>3, <2>1 DEF BobInStep
  <2>3. QED
    BY <2>1, <2>2 DEF BobInStep
<1>10. OneAnswerEach' /\ Len(sentToAlice) < MaxFrames
  <2>0. MaxFrames \in Nat /\ Len(sentToAlice) \in Nat /\ Len(readByBob) \in Nat
        /\ Len(sentToBob) \in Nat
    BY <1>4, FramingAssumption
  <2>1. Len(readByBob) = Len(sentToAlice) + 1 /\ Len(sentToBob) <= MaxFrames
    BY <1>2, <1>3 DEF OneAnswerEach
  <2>2. Len(readByBob) <= Len(sentToBob)
    BY <1>3 DEF BobInStep, InStep
  <2>3. Len(sentToAlice) < MaxFrames
    BY <2>0, <2>1, <2>2
  <2>4. OneAnswerEach'
    BY <1>2, <1>6, <2>0, <2>1 DEF OneAnswerEach
  <2>5. QED
    BY <2>3, <2>4
<1>11. QED
  BY <1>1, <1>2, <1>7, <1>8, <1>9, <1>10 DEF IInv

\* Alice writes a frame.
LEMMA AliceSendsKeeps ==
  ASSUME IInv, AliceSends, UNCHANGED clientReaderVars
  PROVE  IInv'
<1>1. PICK f \in Frames :
        sentToBob' = Append(sentToBob, f) /\ c2sBytes' = c2sBytes \o Packed(f)
  BY DEF AliceSends
<1>2. /\ Len(sentToBob) < MaxFrames
      /\ readByBob' = readByBob /\ read_buffer_' = read_buffer_
      /\ last_message_size_' = last_message_size_ /\ pending' = pending
      /\ sentToAlice' = sentToAlice /\ s2cBytes' = s2cBytes /\ readByAlice' = readByAlice
      /\ readBuffer' = readBuffer /\ expectedMessageSize' = expectedMessageSize
  BY DEF AliceSends, clientReaderVars
<1>3. ClientReaderTypeOK /\ ServerReaderTypeOK /\ AliceInStep /\ BobInStep /\ OneAnswerEach
  BY DEF IInv, TypeOK
<1>4. c2sBytes \in Seq(Byte) /\ sentToBob \in Seq(Frames) /\ readByBob \in Seq(Seq(Byte))
  BY <1>3 DEF ServerReaderTypeOK
<1>5. Packed(f) \in Seq(Byte)
  BY FrameFacts, PackedFacts
<1>6. /\ sentToBob' \in Seq(Frames) /\ Len(sentToBob') = Len(sentToBob) + 1
      /\ c2sBytes' \in Seq(Byte)
  BY <1>1, <1>4, <1>5
<1>7. TypeOK'
  BY <1>2, <1>3, <1>6 DEF TypeOK, ClientReaderTypeOK, ServerReaderTypeOK
<1>8. AliceInStep'
  BY <1>2, <1>3 DEF AliceInStep
<1>9. BobInStep'
  <2> DEFINE taken == pending = "read_body"
  <2>1. taken \in BOOLEAN /\ InStep(sentToBob, readByBob, c2sBytes, taken, last_message_size_)
    BY <1>3 DEF BobInStep
  <2>2. InStep(sentToBob', readByBob, c2sBytes', taken, last_message_size_)
    <3> HIDE DEF taken
    <3> QED BY <1>1, <1>4, <2>1, SendKeepsStep
  <2>3. QED
    BY <1>2, <1>3, <2>2 DEF BobInStep
<1>10. OneAnswerEach'
  <2>1. MaxFrames \in Nat /\ Len(sentToBob) \in Nat
    BY <1>4, FramingAssumption
  <2>2. Len(sentToBob') <= MaxFrames
    BY <1>2, <1>6, <2>1
  <2>3. QED
    BY <1>2, <1>3, <2>2 DEF OneAnswerEach
<1>11. QED
  BY <1>7, <1>8, <1>9, <1>10 DEF IInv

\* Every step keeps both readers in step.
LEMMA Keeps == IInv /\ [Next]_vars => IInv'
<1> SUFFICES ASSUME IInv, [Next]_vars PROVE IInv'
  OBVIOUS
<1>1. ClientReaderTypeOK /\ ServerReaderTypeOK /\ AliceInStep /\ BobInStep /\ OneAnswerEach
  BY DEF IInv, TypeOK
<1>2. CASE AliceSends /\ UNCHANGED clientReaderVars
  BY <1>2, AliceSendsKeeps
<1>3. CASE AliceReads
  <2>1. ClientReaderTypeOK' /\ AliceInStep' /\ sentToAlice' = sentToAlice
    BY <1>1, <1>3, DataKeeps DEF AliceReads
  <2>2. /\ sentToBob' = sentToBob /\ c2sBytes' = c2sBytes /\ readByBob' = readByBob
        /\ read_buffer_' = read_buffer_ /\ last_message_size_' = last_message_size_
        /\ pending' = pending
    BY <1>3 DEF AliceReads, serverReaderVars
  <2>3. ServerReaderTypeOK' /\ BobInStep' /\ OneAnswerEach'
    BY <1>1, <2>1, <2>2 DEF ServerReaderTypeOK, BobInStep, OneAnswerEach
  <2>4. QED
    BY <2>1, <2>3 DEF IInv, TypeOK
<1>4. ASSUME ReadSize \/ ReadBody, UNCHANGED clientReaderVars PROVE IInv'
  <2>1. /\ sentToAlice' = sentToAlice /\ s2cBytes' = s2cBytes /\ readByAlice' = readByAlice
        /\ readBuffer' = readBuffer /\ expectedMessageSize' = expectedMessageSize
    BY <1>4 DEF clientReaderVars
  <2>2. ClientReaderTypeOK' /\ AliceInStep'
    BY <1>1, <2>1 DEF ClientReaderTypeOK, AliceInStep
  <2>3. CASE ReadSize
    <3>1. ServerReaderTypeOK' /\ BobInStep'
      BY <1>1, <2>3, ReadSizeKeeps
    <3>2. /\ sentToBob' = sentToBob /\ readByBob' = readByBob
          /\ pending = "read_size" /\ pending' = "read_body"
      BY <2>3 DEF ReadSize
    <3>3. OneAnswerEach'
      BY <1>1, <2>1, <3>2 DEF OneAnswerEach
    <3>4. QED
      BY <2>2, <3>1, <3>3 DEF IInv, TypeOK
  <2>4. CASE ReadBody
    <3>1. /\ ServerReaderTypeOK' /\ BobInStep' /\ Len(readByBob') = Len(readByBob) + 1
          /\ sentToBob' = sentToBob /\ pending = "read_body" /\ pending' = "write"
      BY <1>1, <2>4, ReadBodyKeeps
    <3>2. Len(sentToAlice) \in Nat
      BY <1>1 DEF ClientReaderTypeOK
    <3>3. OneAnswerEach'
      BY <1>1, <2>1, <3>1, <3>2 DEF OneAnswerEach
    <3>4. QED
      BY <2>2, <3>1, <3>3 DEF IInv, TypeOK
  <2>5. QED
    BY <1>4, <2>3, <2>4
<1>5. CASE BobAnswers
  BY <1>5, BobAnswersKeeps
<1>6. CASE UNCHANGED vars
  BY <1>6 DEF vars, clientReaderVars, serverReaderVars, IInv, TypeOK, ClientReaderTypeOK,
              ServerReaderTypeOK, AliceInStep, BobInStep, OneAnswerEach
<1>7. QED
  BY <1>2, <1>3, <1>4, <1>5, <1>6 DEF Next, BobStep

(***************************************************************************)
(* For any header, buffer and frames, and however the network cuts the     *)
(* streams: what either reader has not read yet is the bytes of the frames *)
(* it has not read yet, and Bob answers each message once.                 *)
(***************************************************************************)
THEOREM ConnectionInvariance == Spec => []IInv
<1>1. Init => IInv
  BY Starts
<1>2. IInv /\ [Next]_vars => IInv'
  BY Keeps
<1>3. QED
  BY <1>1, <1>2, PTL DEF Spec

\* The readers' buffers hold bytes, and a size is one that fits the header.
THEOREM ConnectionTypes == Spec => []TypeOK
<1>1. IInv => TypeOK
  BY DEF IInv
<1>2. QED
  BY <1>1, ConnectionInvariance, PTL

(***************************************************************************)
(* processReceivedData leaves nothing behind (mta-client.ts:62): with every *)
(* byte arrived, every message is processed and no part of one waits.      *)
(***************************************************************************)
THEOREM NothingIsHeldBack == Spec => []NothingHeldBack
<1>1. IInv => NothingHeldBack
  <2> SUFFICES ASSUME IInv, s2cBytes = <<>>
               PROVE  readByAlice = sentToAlice /\ readBuffer = <<>> /\ expectedMessageSize = 0
    BY DEF NothingHeldBack
  <2>1. /\ sentToAlice \in Seq(Frames) /\ readByAlice \in Seq(Seq(Byte))
        /\ readBuffer \in Seq(Byte) /\ expectedMessageSize \in 0..(Weight[HeaderLen] - 1)
        /\ InStep(sentToAlice, readByAlice, readBuffer \o s2cBytes,
                  expectedMessageSize # 0, expectedMessageSize)
        /\ Len(readBuffer) < IF expectedMessageSize = 0 THEN HeaderLen ELSE expectedMessageSize
    BY DEF IInv, TypeOK, ClientReaderTypeOK, AliceInStep
  <2>2. readBuffer \o <<>> = readBuffer /\ <<>> \in Seq(Byte) /\ Len(<<>>) = 0
        /\ Len(readBuffer) \in Nat
    BY <2>1
  <2>3. expectedMessageSize \in Nat
    BY <2>1, FrameFacts, WeightFacts
  <2>4. expectedMessageSize = 0
    <3> SUFFICES ASSUME expectedMessageSize # 0 PROVE FALSE
      OBVIOUS
    <3>1. (expectedMessageSize # 0) = TRUE
      OBVIOUS
    <3>2. InStep(sentToAlice, readByAlice, readBuffer \o <<>>, TRUE, expectedMessageSize)
      BY <2>1, <3>1
    <3>3. expectedMessageSize <= Len(readBuffer) + Len(<<>>)
      BY <2>1, <2>2, <2>3, <3>2, FrameKeepsStep
    <3>4. QED
      BY <2>1, <2>2, <2>3, <3>3
  <2>5. (expectedMessageSize # 0) = FALSE
    BY <2>4
  <2>6. InStep(sentToAlice, readByAlice, readBuffer, FALSE, expectedMessageSize)
    BY <2>1, <2>2, <2>5
  <2>7. Len(readBuffer) < HeaderLen
    BY <2>1, <2>4
  <2>8. readByAlice = sentToAlice /\ readBuffer = <<>>
    BY <2>1, <2>6, <2>7, AllRead
  <2>9. QED
    BY <2>4, <2>8
<1>2. QED
  BY <1>1, ConnectionInvariance, PTL

-----------------------------------------------------------------------------
(* Each direction is a queue of frames. *)

(***************************************************************************)
(* What processMessage is called with are the messages Bob sent, in order, *)
(* once each: every step of the connection is one of the queue, or none.   *)
(***************************************************************************)
THEOREM AliceReadsInOrder == Spec => ToAlice!InOrder
<1>1. Init => ToAlice!Init
  BY DEF Init, ClientReaderInit, ToAlice!Init
<1>2. IInv /\ IInv' /\ [Next]_vars => [ToAlice!Send \/ ToAlice!Receive]_(ToAlice!queueVars)
  <2> SUFFICES ASSUME IInv, IInv', [Next]_vars
               PROVE  ToAlice!Send \/ ToAlice!Receive \/ UNCHANGED ToAlice!queueVars
    OBVIOUS
  <2>1. CASE (AliceSends \/ ((ReadSize \/ ReadBody))) /\ UNCHANGED clientReaderVars
    BY <2>1 DEF clientReaderVars, ToAlice!queueVars
  <2>2. CASE UNCHANGED vars
    BY <2>2 DEF vars, clientReaderVars, ToAlice!queueVars
  <2>3. CASE BobAnswers
    BY <2>3, BobAnswersKeeps DEF ToAlice!Send
  <2>4. CASE AliceReads
    <3>1. sentToAlice' = sentToAlice /\ Len(readByAlice') >= Len(readByAlice)
      BY <2>4, DataKeeps DEF AliceReads, IInv, TypeOK
    <3>2. readByAlice = SubSeq(sentToAlice, 1, Len(readByAlice))
      BY DEF IInv, AliceInStep, InStep
    <3>3. /\ readByAlice' = SubSeq(sentToAlice, 1, Len(readByAlice'))
          /\ Len(readByAlice') <= Len(sentToAlice)
      BY <3>1 DEF IInv, AliceInStep, InStep
    <3>4. Len(readByAlice) \in Nat /\ Len(readByAlice') \in Nat /\ Len(sentToAlice) \in Nat
      BY DEF IInv, TypeOK, ClientReaderTypeOK
    <3>5. CASE Len(readByAlice') = Len(readByAlice)
      BY <3>1, <3>2, <3>3, <3>5 DEF ToAlice!queueVars
    <3>6. CASE Len(readByAlice') # Len(readByAlice)
      <4>1. Len(readByAlice') \in (Len(readByAlice) + 1)..Len(sentToAlice)
        BY <3>1, <3>3, <3>4, <3>6
      <4>2. QED
        BY <3>1, <3>3, <4>1 DEF ToAlice!Receive
    <3>7. QED
      BY <3>5, <3>6
  <2>5. QED
    BY <2>1, <2>2, <2>3, <2>4 DEF Next, BobStep
<1>3. QED
  BY <1>1, <1>2, ConnectionInvariance, PTL DEF Spec, ToAlice!InOrder

(***************************************************************************)
(* What process_received_message is given are the messages Alice sent, in  *)
(* order, once each, though one buffer that is never cleared serves all.   *)
(***************************************************************************)
THEOREM BobReadsInOrder == Spec => ToBob!InOrder
<1>1. Init => ToBob!Init
  BY DEF Init, ServerReaderInit, ToBob!Init
<1>2. IInv /\ IInv' /\ [Next]_vars => [ToBob!Send \/ ToBob!Receive]_(ToBob!queueVars)
  <2> SUFFICES ASSUME IInv, IInv', [Next]_vars
               PROVE  ToBob!Send \/ ToBob!Receive \/ UNCHANGED ToBob!queueVars
    OBVIOUS
  <2>1. CASE AliceSends
    BY <2>1 DEF AliceSends, ToBob!Send
  <2>2. CASE AliceReads \/ UNCHANGED vars
    BY <2>2 DEF AliceReads, vars, serverReaderVars, ToBob!queueVars
  <2>3. CASE BobAnswers
    BY <2>3, BobAnswersKeeps DEF ToBob!queueVars
  <2>4. CASE ReadSize
    BY <2>4 DEF ReadSize, ToBob!queueVars
  <2>5. CASE ReadBody
    <3>1. sentToBob' = sentToBob /\ Len(readByBob') = Len(readByBob) + 1
      BY <2>5, ReadBodyKeeps DEF IInv, TypeOK
    <3>2. /\ readByBob' = SubSeq(sentToBob, 1, Len(readByBob'))
          /\ Len(readByBob') <= Len(sentToBob)
      BY <3>1 DEF IInv, BobInStep, InStep
    <3>3. Len(readByBob) \in Nat /\ Len(sentToBob) \in Nat
      BY DEF IInv, TypeOK, ServerReaderTypeOK
    <3>4. Len(readByBob') \in (Len(readByBob) + 1)..Len(sentToBob)
      BY <3>1, <3>2, <3>3
    <3>5. QED
      BY <3>1, <3>2, <3>4 DEF ToBob!Receive
  <2>6. QED
    BY <2>1, <2>2, <2>3, <2>4, <2>5 DEF Next, BobStep
<1>3. QED
  BY <1>1, <1>2, ConnectionInvariance, PTL DEF Spec, ToBob!InOrder

=============================================================================
