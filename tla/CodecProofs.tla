----------------------------- MODULE CodecProofs -----------------------------
(***************************************************************************)
(* Proofs about the conversions, for any number and size of points, shares *)
(* and words.                                                              *)
(***************************************************************************)
EXTENDS MtaCodec, NatLemmas, SequenceTheorems

-----------------------------------------------------------------------------
(* Alice's frames. *)

\* A word that is not 0 has a highest bit.
LEMMA HighestBit ==
  ASSUME NEW w \in SUBSET (0..31), w # {}
  PROVE  Max(w) \in w /\ \A i \in w : i <= Max(w)
<1> DEFINE T == {k \in 0..31 : 31 - k \in w}
<1>1. T \in SUBSET Nat /\ T # {}
  <2>1. PICK i \in w : TRUE
    OBVIOUS
  <2>2. 31 - i \in 0..31 /\ 31 - (31 - i) = i
    OBVIOUS
  <2>3. 31 - i \in T
    BY <2>2
  <2>4. T # {}
    <3> HIDE DEF T
    <3> QED BY <2>3
  <2>5. QED
    BY <2>4
<1>2. PICK m \in T : \A k \in T : m <= k
  <2> HIDE DEF T
  <2> QED BY <1>1, LeastOf
<1>3. m \in 0..31 /\ 31 - m \in w
  OBVIOUS
<1>4. ASSUME NEW i \in w PROVE 31 - m >= i
  <2>1. 31 - i \in T
    <3>1. 31 - i \in 0..31 /\ 31 - (31 - i) = i
      OBVIOUS
    <3> QED BY <3>1
  <2>2. m <= 31 - i
    <3> HIDE DEF T
    <3> QED BY <1>2, <2>1
  <2>3. QED
    BY <1>3, <2>2
<1>5. \E x \in w : \A y \in w : x >= y
  BY <1>3, <1>4
<1>6. Max(w) \in w /\ \A y \in w : Max(w) >= y
  BY <1>5 DEF Max
<1>7. QED
  BY <1>6

\* How far the groups of a word reach.
LEMMA GroupFacts ==
  ASSUME NEW w \in SUBSET (0..31)
  PROVE  /\ LastGroup(w) \in 0..4
         /\ \A i \in w : i <= 7 * LastGroup(w) + 6
         /\ w # {} => 7 * LastGroup(w) <= Max(w)
<1>1. CASE w = {}
  BY <1>1 DEF LastGroup
<1>2. CASE w # {}
  <2> DEFINE m == Max(w)
             d == m \div 7
  <2>1. m \in 0..31 /\ \A i \in w : i <= m
    BY <1>2, HighestBit
  <2>2. LastGroup(w) = d
    BY <1>2 DEF LastGroup, Group
  <2> HIDE DEF m
  <2>3. d \in 0..4 /\ 7 * d <= m /\ m <= 7 * d + 6
    BY <2>1
  <2> HIDE DEF d
  <2>4. \A i \in w : i <= 7 * d + 6
    BY <2>1, <2>3
  <2>5. QED
    BY <2>2, <2>3, <2>4 DEF m
<1>3. QED
  BY <1>1, <1>2

\* The bytes of a varint: seven bits each, and the top bit on all but the last.
LEMMA VarintFacts ==
  ASSUME NEW w \in SUBSET (0..31)
  PROVE  /\ Varint(w) \in Seq(Byte) /\ Len(Varint(w)) = LastGroup(w) + 1
         /\ \A k \in 1..(LastGroup(w) + 1) : \A b \in 0..7 :
              b \in Varint(w)[k] <=> IF b = 7 THEN k <= LastGroup(w) ELSE 7 * (k - 1) + b \in w
<1> DEFINE n == LastGroup(w)
           Part(k) == Slice(w, Group * (k - 1), Group * k - 1) \cup {b \in {Group} : k <= n}
<1>1. n \in 0..4
  BY GroupFacts
<1>2. Varint(w) = [k \in 1..(n + 1) |-> Part(k)]
  BY DEF Varint
<1> HIDE DEF n
<1>3. ASSUME NEW k \in 1..(n + 1) PROVE
        /\ Part(k) \in Byte
        /\ \A b \in 0..7 : b \in Part(k) <=> IF b = 7 THEN k <= n ELSE 7 * (k - 1) + b \in w
  <2>1. Group * (k - 1) = 7 * (k - 1) /\ (Group * k - 1) - (Group * (k - 1)) = 6
    BY <1>1 DEF Group
  <2>2. Slice(w, Group * (k - 1), Group * k - 1) = {i \in 0..6 : 7 * (k - 1) + i \in w}
    BY <2>1 DEF Slice
  <2>3. Part(k) = {i \in 0..6 : 7 * (k - 1) + i \in w} \cup {b \in {7} : k <= n}
    BY <2>2 DEF Group
  <2> HIDE DEF Part
  <2>4. Part(k) \in Byte
    BY <2>3 DEF Byte
  <2>5. ASSUME NEW b \in 0..7
        PROVE  b \in Part(k) <=> IF b = 7 THEN k <= n ELSE 7 * (k - 1) + b \in w
    BY <2>3
  <2>6. QED
    BY <2>4, <2>5
<1> HIDE DEF Part
<1> DEFINE v == Varint(w)
<1>4. v = [k \in 1..(n + 1) |-> Part(k)]
  BY <1>2
<1> HIDE DEF v
<1>5. v \in Seq(Byte) /\ Len(v) = n + 1
  BY <1>1, <1>3, <1>4
<1>6. \A k \in 1..(n + 1) : \A b \in 0..7 :
        b \in v[k] <=> IF b = 7 THEN k <= n ELSE 7 * (k - 1) + b \in w
  BY <1>3, <1>4
<1>7. QED
  BY <1>5, <1>6 DEF n, v

\* The frame of a delta is two bytes longer than its last group.
LEMMA DeltaFrame ==
  ASSUME NEW w \in SUBSET (0..31)
  PROVE  EncodeDelta(w) \in Seq(Byte) /\ Len(EncodeDelta(w)) = LastGroup(w) + 2
<1>1. << {3} >> \in Seq(Byte) /\ Len(<< {3} >>) = 1
  BY DEF Byte
<1>2. Varint(w) \in Seq(Byte) /\ Len(Varint(w)) = LastGroup(w) + 1 /\ LastGroup(w) \in 0..4
  BY VarintFacts, GroupFacts
<1>3. QED
  BY <1>1, <1>2, ConcatProperties DEF EncodeDelta

\* AliceMessages, byte by byte.
LEMMA MessagesFrame ==
  ASSUME NEW w \in SUBSET (0..31), NEW c \in {{}, {0}}
  PROVE  /\ EncodeAliceMessages(w, c) \in Seq(Byte)
         /\ Len(EncodeAliceMessages(w, c)) = LastGroup(w) + 5
         /\ \A k \in 1..(LastGroup(w) + 1) : EncodeAliceMessages(w, c)[k + 1] = Varint(w)[k]
         /\ EncodeAliceMessages(w, c)[LastGroup(w) + 3] = {1, 4}
<1> DEFINE n == LastGroup(w)
           v == Varint(w)
           h == << {3} >>
           t == << {1, 4}, {5}, c >>
           g == h \o v
           f == g \o t
<1>1. h \in Seq(Byte) /\ Len(h) = 1 /\ t \in Seq(Byte) /\ Len(t) = 3
  BY DEF Byte
<1>t. t[1] = {1, 4}
  OBVIOUS
<1>2. v \in Seq(Byte) /\ Len(v) = n + 1 /\ n \in 0..4
  BY VarintFacts, GroupFacts
<1> HIDE DEF n, v, h, t
<1>3. g \in Seq(Byte) /\ Len(g) = n + 2 /\ \A k \in 1..(n + 1) : g[k + 1] = v[k]
  <2>0. h \in Seq(Byte) /\ v \in Seq(Byte)
    BY <1>1, <1>2
  <2>1. /\ g \in Seq(Byte) /\ Len(g) = Len(h) + Len(v)
        /\ \A k \in 1..(Len(h) + Len(v)) : g[k] = IF k <= Len(h) THEN h[k] ELSE v[k - Len(h)]
    BY <2>0, ConcatProperties
  <2> HIDE DEF g
  <2>2. ASSUME NEW k \in 1..(n + 1) PROVE g[k + 1] = v[k]
    <3>1. k + 1 \in 1..(Len(h) + Len(v)) /\ ~(k + 1 <= Len(h)) /\ (k + 1) - Len(h) = k
      BY <1>1, <1>2
    <3> QED BY <2>1, <3>1
  <2>3. QED
    BY <1>1, <1>2, <2>1, <2>2
<1> HIDE DEF g
<1>4. f \in Seq(Byte) /\ Len(f) = n + 5
      /\ \A k \in 1..(n + 5) : f[k] = IF k <= n + 2 THEN g[k] ELSE t[k - (n + 2)]
  <2>1. f \in Seq(Byte) /\ Len(f) = Len(g) + Len(t)
    BY <1>1, <1>3, ConcatProperties, ZenonT(60)
  <2>2. \A k \in 1..(Len(g) + Len(t)) : f[k] = IF k <= Len(g) THEN g[k] ELSE t[k - Len(g)]
    BY <1>1, <1>3, ConcatProperties, ZenonT(60)
  <2> HIDE DEF f
  <2>3. QED
    BY <1>1, <1>2, <1>3, <2>1, <2>2
<1> HIDE DEF f
<1>5. \A k \in 1..(n + 1) : f[k + 1] = v[k]
  BY <1>2, <1>3, <1>4
<1>6. f[n + 3] = t[1]
  BY <1>2, <1>4
<1>7. EncodeAliceMessages(w, c) = f
  BY DEF EncodeAliceMessages, f, g, h, t, v
<1>8. QED
  BY <1>t, <1>4, <1>5, <1>6, <1>7 DEF n, v

\* The server's layout, bit by bit: bit b of byte j of the share.
LEMMA BitTaken ==
  ASSUME NEW w \in SUBSET (0..31), NEW c \in {{}, {0}},
         NEW j \in 0..3, NEW b \in 0..7
  PROVE  /\ j <= LastGroup(w) =>
              (8 * j + b \in DecodeMaskedShare(EncodeAliceMessages(w, c))
                 <=> IF b = 7 THEN j + 1 <= LastGroup(w) ELSE 7 * j + b \in w)
         /\ j = LastGroup(w) + 1 =>
              (8 * j + b \in DecodeMaskedShare(EncodeAliceMessages(w, c)) <=> b \in {1, 4})
<1> DEFINE i == 8 * j + b
           n == LastGroup(w)
           f == EncodeAliceMessages(w, c)
           m == DecodeMaskedShare(f)
<1>1. n \in 0..4 /\ (\A k \in 1..(n + 1) : f[k + 1] = Varint(w)[k]) /\ f[n + 3] = {1, 4}
  <2>1. n \in 0..4
    BY GroupFacts
  <2>2. (\A k \in 1..(n + 1) : f[k + 1] = Varint(w)[k]) /\ f[n + 3] = {1, 4}
    BY MessagesFrame
  <2>3. QED
    BY <2>1, <2>2
<1>2. i \in 0..31 /\ i \div 8 = j /\ i % 8 = b
  OBVIOUS
<1> HIDE DEF i
<1>3. i \in m <=> b \in f[2 + j]
  BY <1>2 DEF DecodeMaskedShare
<1> HIDE DEF f, m
<1> HIDE DEF n
<1>4. ASSUME j <= n
      PROVE  i \in m <=> IF b = 7 THEN j + 1 <= n ELSE 7 * j + b \in w
  <2>1. j + 1 \in 1..(n + 1) /\ (j + 1) + 1 = 2 + j /\ (j + 1) - 1 = j
    BY <1>1, <1>4
  <2>2. f[2 + j] = Varint(w)[j + 1]
    BY <1>1, <2>1
  <2>3. b \in Varint(w)[j + 1] <=> IF b = 7 THEN j + 1 <= n ELSE 7 * ((j + 1) - 1) + b \in w
    BY <2>1, VarintFacts DEF n
  <2>4. QED
    BY <1>3, <2>1, <2>2, <2>3
<1>5. ASSUME j = n + 1
      PROVE  i \in m <=> b \in {1, 4}
  <2>1. 2 + j = n + 3
    BY <1>1, <1>5
  <2>2. QED
    BY <1>1, <1>3, <2>1
<1>6. QED
  BY <1>4, <1>5 DEF f, i, m, n

\* The layouts agree on the words with ones from bit 7 on.
LEMMA LayoutsAgree ==
  ASSUME NEW w \in SUBSET (0..31), NEW c \in {{}, {0}}
  PROVE  DecodeMaskedShare(EncodeAliceMessages(w, c)) = w <=> 7..31 \subseteq w
<1> DEFINE n == LastGroup(w)
           m == DecodeMaskedShare(EncodeAliceMessages(w, c))
<1>1. n \in 0..4 /\ (\A i \in w : i <= 7 * n + 6) /\ m \in SUBSET (0..31)
  BY GroupFacts DEF DecodeMaskedShare
<1>2. \A j \in 0..3, b \in 0..7 :
        j <= n => (8 * j + b \in m <=> IF b = 7 THEN j + 1 <= n ELSE 7 * j + b \in w)
  <2>1. ASSUME NEW j \in 0..3, NEW b \in 0..7, j <= n
        PROVE  8 * j + b \in m <=> IF b = 7 THEN j + 1 <= n ELSE 7 * j + b \in w
    BY <2>1, BitTaken DEF n, m
  <2>2. QED
    BY <2>1
<1>3. \A j \in 0..3, b \in 0..7 : j = n + 1 => (8 * j + b \in m <=> b \in {1, 4})
  <2>1. ASSUME NEW j \in 0..3, NEW b \in 0..7, j = n + 1
        PROVE  8 * j + b \in m <=> b \in {1, 4}
    BY <2>1, BitTaken DEF n, m
  <2>2. QED
    BY <2>1
<1> HIDE DEF n, m
<1>4. ASSUME 7..31 \subseteq w PROVE m = w
  <2>1. n = 4
    <3>1. 31 \in w
      BY <1>4
    <3> QED BY <1>1, <3>1
  <2>2. ASSUME NEW i \in 0..31 PROVE i \in m <=> i \in w
    <3> DEFINE j == i \div 8
               b == i % 8
    <3>1. j \in 0..3 /\ b \in 0..7 /\ i = 8 * j + b
      OBVIOUS
    <3> HIDE DEF j, b
    <3>2. 8 * j + b \in m <=> IF b = 7 THEN TRUE ELSE 7 * j + b \in w
      BY <1>2, <2>1, <3>1
    <3>3. CASE j = 0 /\ b # 7
      BY <3>1, <3>2, <3>3
    <3>4. CASE b = 7
      <4>1. i \in 7..31
        BY <3>1, <3>4
      <4> QED BY <1>4, <3>1, <3>2, <3>4, <4>1
    <3>5. CASE j # 0 /\ b # 7
      <4>1. 7 * j + b \in 7..31 /\ i \in 7..31
        BY <3>1, <3>5
      <4> QED BY <1>4, <3>1, <3>2, <3>5, <4>1
    <3>6. QED
      BY <3>1, <3>3, <3>4, <3>5
  <2>3. QED
    BY <1>1, <2>2
<1>5. ASSUME m = w PROVE 7..31 \subseteq w
  <2>1. ASSUME n <= 2 PROVE FALSE
    <3>1. n + 1 \in 0..3 /\ 1 \in 0..7
      BY <1>1, <2>1
    <3>2. 8 * (n + 1) + 1 \in m
      BY <1>3, <3>1
    <3>3. 8 * (n + 1) + 1 \in w
      BY <1>5, <3>2
    <3>4. 8 * (n + 1) + 1 <= 7 * n + 6
      BY <1>1, <3>3
    <3>5. QED
      BY <1>1, <3>4
  <2>2. ASSUME NEW i \in 7..31, 7..(i - 1) \subseteq w PROVE i \in w
    <3> DEFINE j == i \div 8
               b == i % 8
    <3>1. j \in 0..3 /\ b \in 0..7 /\ i = 8 * j + b
      OBVIOUS
    <3> HIDE DEF j, b
    <3>2. 8 * j + b \in m <=> IF b = 7 THEN j + 1 <= n ELSE 7 * j + b \in w
      <4>1. j <= n
        BY <1>1, <2>1, <3>1
      <4> QED BY <1>2, <3>1, <4>1
    <3>3. CASE b = 7
      <4>1. j + 1 <= n
        <5>1. CASE j = 3
          <6>1. 30 \in 7..(i - 1)
            BY <3>1, <3>3, <5>1
          <6>2. 30 <= 7 * n + 6
            BY <1>1, <2>2, <6>1
          <6> QED BY <1>1, <5>1, <6>2
        <5>2. CASE j # 3
          BY <1>1, <2>1, <3>1, <5>2
        <5> QED BY <5>1, <5>2
      <4> QED BY <1>5, <3>1, <3>2, <3>3, <4>1
    <3>4. CASE b # 7
      <4>1. 7 * j + b \in 7..(i - 1)
        BY <3>1, <3>4
      <4> QED BY <1>5, <2>2, <3>1, <3>2, <3>4, <4>1
    <3>5. QED
      BY <3>3, <3>4
  <2>3. SUFFICES ASSUME (7..31) \ w # {} PROVE FALSE
    OBVIOUS
  <2>4. (7..31) \ w \in SUBSET Nat
    OBVIOUS
  <2>5. PICK i \in (7..31) \ w : \A k \in (7..31) \ w : i <= k
    BY <2>3, <2>4, LeastOf
  <2>6. 7..(i - 1) \subseteq w
    <3>1. ASSUME NEW k \in 7..(i - 1), k \notin w PROVE FALSE
      <4>1. k \in (7..31) \ w /\ ~(i <= k)
        BY <3>1
      <4> QED BY <2>5, <4>1
    <3> QED BY <3>1
  <2>7. QED
    BY <2>2, <2>5, <2>6
<1>6. QED
  BY <1>4, <1>5 DEF m

\* A delta of three groups at most is shorter than a header, AliceMessages never are.
LEMMA LengthTells ==
  ASSUME NEW w \in SUBSET (0..31)
  PROVE  /\ w # {} /\ Max(w) < 21 => Len(EncodeDelta(w)) < HeaderLen
         /\ \A c \in {{}, {0}} : Len(EncodeAliceMessages(w, c)) >= HeaderLen
<1>1. LastGroup(w) \in 0..4 /\ Len(EncodeDelta(w)) = LastGroup(w) + 2
      /\ \A c \in {{}, {0}} : Len(EncodeAliceMessages(w, c)) = LastGroup(w) + 5
  BY GroupFacts, DeltaFrame, MessagesFrame
<1>2. ASSUME w # {}, Max(w) < 21 PROVE LastGroup(w) <= 2
  <2>1. Max(w) \in 0..31 /\ 7 * LastGroup(w) <= Max(w)
    BY <1>2, HighestBit, GroupFacts
  <2> DEFINE n == LastGroup(w)
             m == Max(w)
  <2>2. n \in 0..4 /\ m \in 0..31 /\ 7 * n <= m /\ m < 21
    BY <1>1, <1>2, <2>1
  <2> HIDE DEF n, m
  <2>3. n <= 2
    BY <2>2
  <2>4. QED
    BY <2>3 DEF n
<1>3. QED
  BY <1>1, <1>2 DEF HeaderLen

\* What Alice's side of the invariant says of the server's verdict.
LEMMA VerdictRight ==
  ASSUME IInv, DeltaBits <= 3 * Group
  PROVE  OnlyAliceMessagesAccepted
<1>1. SUFFICES ASSUME verdict # "unread"
               PROVE  verdict = "accepted" <=> kind = "AliceMessages"
  BY DEF OnlyAliceMessagesAccepted
<1>2. kind \in {"CorrelationDelta", "AliceMessages"} /\ value \in SUBSET (0..31)
      /\ (verdict = "accepted" <=> Len(frame) >= HeaderLen)
  BY <1>1 DEF IInv, AliceFaithful, TypeOK, AliceTypeOK
<1>3. CASE kind = "CorrelationDelta"
  <2>1. value # {} /\ Max(value) < DeltaBits /\ frame = EncodeDelta(value)
    BY <1>3 DEF IInv, AliceFaithful
  <2>2. Max(value) < 21
    <3>1. DeltaBits \in Int /\ DeltaBits <= 21
      BY CodecAssumption DEF Group
    <3>2. Max(value) \in 0..31
      BY <1>2, <2>1, HighestBit
    <3> QED BY <2>1, <3>1, <3>2
  <2>3. Len(frame) < HeaderLen /\ Len(frame) \in Nat
    <3>1. EncodeDelta(value) \in Seq(Byte)
      BY <1>2, DeltaFrame
    <3>2. Len(EncodeDelta(value)) \in Nat
      BY <3>1, LenProperties
    <3> QED BY <1>2, <2>1, <2>2, <3>2, LengthTells
  <2>4. ~(Len(frame) >= HeaderLen)
    BY <2>3 DEF HeaderLen
  <2>5. QED
    BY <1>2, <1>3, <2>4
<1>4. CASE kind = "AliceMessages"
  <2>1. PICK c \in {{}, {0}} : frame = EncodeAliceMessages(value, c)
    BY <1>4 DEF IInv, AliceFaithful
  <2>2. Len(frame) >= HeaderLen
    BY <1>2, <2>1, LengthTells
  <2>3. QED
    BY <1>2, <1>4, <2>2
<1>5. QED
  BY <1>2, <1>3, <1>4

\* And of the masked share Bob reads.
LEMMA AgreeRight ==
  ASSUME IInv, DeltaBits <= 3 * Group
  PROVE  LayoutsAgreeOnOnes
<1>1. SUFFICES ASSUME verdict = "accepted"
               PROVE  masked_share = value <=> 7..31 \subseteq value
  BY DEF LayoutsAgreeOnOnes
<1>2. kind = "AliceMessages"
  BY <1>1, VerdictRight DEF OnlyAliceMessagesAccepted
<1>3. PICK c \in {{}, {0}} : frame = EncodeAliceMessages(value, c)
  BY <1>2 DEF IInv, AliceFaithful
<1>4. masked_share = DecodeMaskedShare(frame) /\ value \in SUBSET (0..31)
  BY <1>1 DEF IInv, AliceFaithful, TypeOK, AliceTypeOK
<1>5. QED
  BY <1>3, <1>4, LayoutsAgree

\* Alice's steps keep her side.
LEMMA AliceStep ==
  ASSUME AliceTypeOK, AliceFaithful, AliceNext
  PROVE  AliceTypeOK' /\ AliceFaithful'
<1>0. \A w \in Words : w \in SUBSET (0..31)
  BY CodecAssumption
<1>1. CASE SendCorrelationDelta
  <2>1. verdict = "unread" /\ verdict' = "unread" /\ masked_share' = masked_share
    BY <1>1 DEF SendCorrelationDelta, AliceFaithful
  <2>2. value' \in Words \ {{}} /\ Max(value') < DeltaBits /\ frame' = EncodeDelta(value')
        /\ kind' = "CorrelationDelta"
    BY <1>1 DEF SendCorrelationDelta
  <2>3. frame' \in Seq(Byte) /\ value' \subseteq 0..31
    BY <1>0, <2>2, DeltaFrame
  <2>4. QED
    BY <2>1, <2>2, <2>3 DEF AliceTypeOK, AliceFaithful
<1>2. CASE SendAliceMessages
  <2>1. verdict = "unread" /\ verdict' = "unread" /\ masked_share' = masked_share
    BY <1>2 DEF SendAliceMessages, AliceFaithful
  <2>2. value' \in Words /\ kind' = "AliceMessages"
        /\ \E c \in {{}, {0}} : frame' = EncodeAliceMessages(value', c)
    BY <1>2 DEF SendAliceMessages
  <2>3. frame' \in Seq(Byte) /\ value' \subseteq 0..31
    <3>1. PICK c \in {{}, {0}} : frame' = EncodeAliceMessages(value', c)
      BY <2>2
    <3>2. value' \in SUBSET (0..31)
      BY <1>0, <2>2
    <3>3. EncodeAliceMessages(value', c) \in Seq(Byte)
      BY <3>2, MessagesFrame
    <3> QED BY <3>1, <3>2, <3>3
  <2>4. QED
    BY <2>1, <2>2, <2>3 DEF AliceTypeOK, AliceFaithful
<1>3. CASE DeserializeAliceMessages
  <2>1. kind # "none" /\ UNCHANGED <<kind, value, frame>>
    BY <1>3 DEF DeserializeAliceMessages, AliceFaithful
  <2>2. \/ Len(frame) >= HeaderLen /\ verdict' = "accepted" /\ masked_share' = DecodeMaskedShare(frame)
        \/ ~(Len(frame) >= HeaderLen) /\ verdict' = "refused" /\ masked_share' = masked_share
    BY <1>3 DEF DeserializeAliceMessages, LongEnough
  <2>3. DecodeMaskedShare(frame) \in SUBSET (0..31)
    BY DEF DecodeMaskedShare
  <2>4. AliceTypeOK'
    BY <2>1, <2>2, <2>3 DEF AliceTypeOK
  <2>5. AliceFaithful'
    BY <2>1, <2>2 DEF AliceFaithful
  <2>6. QED
    BY <2>4, <2>5
<1>4. QED
  BY <1>1, <1>2, <1>3 DEF AliceNext

-----------------------------------------------------------------------------
(* The layouts by hand. *)

\* What the writers write.
Written == {"success", "correlation", "masked_share", "additive_share", "points", "m0", "m1"} \X Nat

\* The parts of the layouts, and how long they are.
LEMMA PartFacts ==
  /\ Flag \in Seq(Written) /\ Len(Flag) = 1
  /\ \A f \in {"correlation", "masked_share", "additive_share"} :
       Word(f) \in Seq(Written) /\ Len(Word(f)) = WordLen
  /\ Points \in Seq(Written) /\ Len(Points) = PointsLen
  /\ \A f \in {"m0", "m1"} : Shares(f) \in Seq(Written) /\ Len(Shares(f)) = SharesLen
  /\ WordLen = 4 /\ PointsLen \in Nat \ {0} /\ SharesLen \in Nat \ {0}
<1>1. WordLen = 4 /\ PointsLen \in Nat \ {0} /\ SharesLen \in Nat \ {0}
  BY LegacyAssumption DEF WordLen
<1>2. Flag \in Seq(Written) /\ Len(Flag) = 1
  BY DEF Flag, Written
<1>3. ASSUME NEW n \in Nat, NEW f \in {"correlation", "masked_share", "additive_share", "points", "m0", "m1"}
      PROVE  [k \in 1..n |-> <<f, k>>] \in Seq(Written) /\ Len([k \in 1..n |-> <<f, k>>]) = n
  <2>1. \A k \in 1..n : <<f, k>> \in Written
    BY DEF Written
  <2> DEFINE s == [k \in 1..n |-> <<f, k>>]
  <2>2. s \in [1..n -> Written]
    BY <2>1
  <2> HIDE DEF s
  <2>3. s \in Seq(Written) /\ Len(s) = n
    BY <2>2
  <2>4. QED
    BY <2>3 DEF s
<1>4. \A f \in {"correlation", "masked_share", "additive_share"} :
        Word(f) \in Seq(Written) /\ Len(Word(f)) = WordLen
  <2>1. WordLen \in Nat
    BY <1>1
  <2>2. QED
    BY <1>3, <2>1 DEF Word
<1>5. Points \in Seq(Written) /\ Len(Points) = PointsLen
  BY <1>1, <1>3 DEF Points
<1>6. \A f \in {"m0", "m1"} : Shares(f) \in Seq(Written) /\ Len(Shares(f)) = SharesLen
  BY <1>1, <1>3 DEF Shares
<1>7. QED
  BY <1>1, <1>2, <1>4, <1>5, <1>6

\* A field is taken out from where it lies.
LEMMA TakeField ==
  ASSUME NEW S, NEW a \in Seq(S), NEW b \in Seq(S), NEW c \in Seq(S)
  PROVE  Copy((a \o b) \o c, Len(a), Len(a) + Len(b)) = b
<1> DEFINE g == a \o b
           f == g \o c
           t == Copy(f, Len(a), Len(a) + Len(b))
<1>1. Len(a) \in Nat /\ Len(b) \in Nat /\ Len(c) \in Nat
  BY LenProperties
<1>2. /\ g \in Seq(S) /\ Len(g) = Len(a) + Len(b)
      /\ \A k \in 1..(Len(a) + Len(b)) : g[k] = IF k <= Len(a) THEN a[k] ELSE b[k - Len(a)]
  BY ConcatProperties
<1> HIDE DEF g
<1>3. /\ f \in Seq(S) /\ Len(f) = Len(g) + Len(c)
      /\ \A k \in 1..(Len(g) + Len(c)) : f[k] = IF k <= Len(g) THEN g[k] ELSE c[k - Len(g)]
  <2>1. g \in Seq(S)
    BY <1>2
  <2>2. QED
    BY <2>1, ConcatProperties
<1> HIDE DEF f
<1>4. t = [k \in 1..Len(b) |-> IF Len(a) + k <= Len(f) THEN f[Len(a) + k] ELSE <<"beyond", k>>]
  <2>1. (Len(a) + Len(b)) - Len(a) = Len(b)
    BY <1>1
  <2> QED BY <2>1 DEF Copy
<1>5. ASSUME NEW k \in 1..Len(b) PROVE t[k] = b[k]
  <2>1. Len(a) + k <= Len(f) /\ Len(a) + k \in 1..(Len(g) + Len(c)) /\ Len(a) + k <= Len(g)
        /\ Len(a) + k \in 1..(Len(a) + Len(b)) /\ ~(Len(a) + k <= Len(a))
        /\ (Len(a) + k) - Len(a) = k
    BY <1>1, <1>2, <1>3
  <2>2. t[k] = f[Len(a) + k]
    BY <1>4, <2>1
  <2>3. f[Len(a) + k] = g[Len(a) + k]
    BY <1>3, <2>1
  <2>4. g[Len(a) + k] = b[k]
    BY <1>2, <2>1
  <2>5. QED
    BY <2>2, <2>3, <2>4
<1> HIDE DEF t
<1>6. t = [k \in 1..Len(b) |-> b[k]]
  BY <1>4, <1>5
<1>7. b = [k \in 1..Len(b) |-> b[k]]
  BY LenProperties
<1>8. QED
  BY <1>6, <1>7 DEF t, f, g

\* The last field too.
LEMMA TakeLast ==
  ASSUME NEW S, NEW a \in Seq(S), NEW b \in Seq(S)
  PROVE  Copy(a \o b, Len(a), Len(a) + Len(b)) = b
<1>1. <<>> \in Seq(S) /\ a \o b \in Seq(S)
  BY ConcatProperties
<1>2. (a \o b) \o <<>> = a \o b
  BY <1>1, ConcatEmptySeq
<1>3. Copy((a \o b) \o <<>>, Len(a), Len(a) + Len(b)) = b
  BY <1>1, TakeField
<1>4. QED
  BY <1>2, <1>3, Zenon

\* A flag, then fields end to end: each reader finds the fields again.
LEMMA Glued ==
  ASSUME NEW a \in Seq(Written), NEW b \in Seq(Written)
  PROVE  a \o b \in Seq(Written) /\ Len(a \o b) = Len(a) + Len(b) /\ Len(a) \in Nat /\ Len(b) \in Nat
         /\ (Len(a) # 0 => (a \o b)[1] = a[1])
<1>1. Len(a) \in Nat /\ Len(b) \in Nat
  BY LenProperties
<1> DEFINE g == a \o b
<1>2. /\ g \in Seq(Written) /\ Len(g) = Len(a) + Len(b)
      /\ \A k \in 1..(Len(a) + Len(b)) : g[k] = IF k <= Len(a) THEN a[k] ELSE b[k - Len(a)]
  BY ConcatProperties
<1> HIDE DEF g
<1>3. ASSUME Len(a) # 0 PROVE g[1] = a[1]
  <2>1. 1 \in 1..(Len(a) + Len(b)) /\ 1 <= Len(a)
    BY <1>1, <1>3
  <2> QED BY <1>2, <2>1
<1>4. QED
  BY <1>1, <1>2, <1>3 DEF g

\* The length of two pieces glued together.
LEMMA GluedLength ==
  ASSUME NEW a \in Seq(Written), NEW b \in Seq(Written)
  PROVE  a \o b \in Seq(Written) /\ Len(a \o b) = Len(a) + Len(b)
BY Glued

\* Gluing is associative.
LEMMA GluedThrice ==
  ASSUME NEW a \in Seq(Written), NEW b \in Seq(Written), NEW c \in Seq(Written)
  PROVE  (a \o b) \o c = a \o (b \o c)
BY ConcatAssociative

\* A flag and one field are read back: BobMessages, MTAResult.
LEMMA OneField ==
  ASSUME NEW w \in Seq(Written)
  PROVE  Copies(Flag \o w, <<1, 1 + Len(w)>>) = [success |-> TRUE, parts |-> <<w>>]
<1>1. Flag \in Seq(Written) /\ Len(Flag) = 1
  BY PartFacts
<1> DEFINE f == Flag \o w
           n == Len(w)
           cuts == <<1, 1 + n>>
<1>2. f[1] = Flag[1] /\ Copy(f, 1, 1 + n) = w
  <2>1. Len(Flag) # 0
    BY <1>1
  <2>2. f[1] = Flag[1]
    BY <1>1, <2>1, Glued
  <2>3. Copy(f, Len(Flag), Len(Flag) + n) = w
    BY <1>1, TakeLast
  <2>4. QED
    BY <1>1, <2>2, <2>3
<1> HIDE DEF f, n
<1>3. Len(cuts) = 2 /\ cuts[1] = 1 /\ cuts[2] = 1 + n
  OBVIOUS
<1> HIDE DEF cuts
<1>4. Copies(f, cuts) = [success |-> f[1] = Flag[1],
                         parts |-> [i \in 1..1 |-> Copy(f, cuts[i], cuts[i + 1])]]
  BY <1>3 DEF Copies
<1>5. [i \in 1..1 |-> Copy(f, cuts[i], cuts[i + 1])] = <<w>>
  BY <1>2, <1>3
<1>6. (f[1] = Flag[1]) = TRUE
  BY <1>2
<1>7. QED
  BY <1>4, <1>5, <1>6, Zenon DEF f, cuts, n

\* A flag and two fields are read back: BobSetup, COTSetup.
LEMMA TwoFields ==
  ASSUME NEW w \in Seq(Written), NEW p \in Seq(Written)
  PROVE  Copies((Flag \o w) \o p, <<1, 1 + Len(w), 1 + Len(w) + Len(p)>>)
           = [success |-> TRUE, parts |-> <<w, p>>]
<1>1. Flag \in Seq(Written) /\ Len(Flag) = 1
  BY PartFacts
<1> DEFINE g == Flag \o w
           f == g \o p
           n == Len(w)
           m == Len(p)
           cuts == <<1, 1 + n, 1 + n + m>>
<1>2. g \in Seq(Written) /\ Len(g) = 1 + n /\ g[1] = Flag[1] /\ n \in Nat /\ m \in Nat
  <2>1. Len(Flag) # 0
    BY <1>1
  <2>2. g \in Seq(Written) /\ Len(g) = Len(Flag) + n /\ g[1] = Flag[1]
    BY <1>1, <2>1, Glued
  <2>3. n \in Nat /\ m \in Nat
    BY LenProperties
  <2>4. QED
    BY <1>1, <2>2, <2>3
<1>3. Copy(f, 1, 1 + n) = w
  <2>1. Copy(f, Len(Flag), Len(Flag) + n) = w
    BY <1>1, TakeField
  <2>2. QED
    BY <1>1, <2>1
<1> HIDE DEF g
<1>4. Copy(f, 1 + n, 1 + n + m) = p /\ f[1] = Flag[1]
  <2>1. Copy(f, Len(g), Len(g) + m) = p
    BY <1>2, TakeLast
  <2>2. Len(g) # 0
    BY <1>2
  <2>3. f[1] = g[1]
    BY <1>2, <2>2, Glued
  <2> HIDE DEF f, n, m
  <2> QED BY <1>2, <2>1, <2>3
<1> HIDE DEF f, n, m
<1>5. Len(cuts) = 3 /\ cuts[1] = 1 /\ cuts[2] = 1 + n /\ cuts[3] = 1 + n + m
  OBVIOUS
<1> HIDE DEF cuts
<1>6. Copies(f, cuts) = [success |-> f[1] = Flag[1],
                         parts |-> [i \in 1..2 |-> Copy(f, cuts[i], cuts[i + 1])]]
  BY <1>5 DEF Copies
<1>7. [i \in 1..2 |-> Copy(f, cuts[i], cuts[i + 1])] = <<w, p>>
  BY <1>3, <1>4, <1>5
<1>8. (f[1] = Flag[1]) = TRUE
  BY <1>4
<1>9. QED
  BY <1>6, <1>7, <1>8, Zenon DEF f, cuts, n, m, g

\* A flag and three fields are read back: COTMessages.
LEMMA ThreeFields ==
  ASSUME NEW p \in Seq(Written), NEW s \in Seq(Written), NEW t \in Seq(Written),
         Len(s) = SharesLen, Len(t) = SharesLen, Len(p) = PointsLen
  PROVE  Copies(((Flag \o p) \o s) \o t, NoWord) = [success |-> TRUE, parts |-> <<p, s, t>>]
<1>0. Flag \in Seq(Written) /\ Len(Flag) = 1 /\ SharesLen \in Nat /\ PointsLen \in Nat
  BY PartFacts
<1> DEFINE g == Flag \o p
           h == g \o s
           f == h \o t
           st == s \o t
           cuts == NoWord
           c2 == 1 + PointsLen
           c3 == c2 + SharesLen
           c4 == c2 + 2 * SharesLen
<1>1. g \in Seq(Written) /\ Len(g) = c2 /\ g[1] = Flag[1]
  <2>1. Len(Flag) # 0
    BY <1>0
  <2>2. g \in Seq(Written) /\ Len(g) = Len(Flag) + Len(p) /\ g[1] = Flag[1]
    BY <1>0, <2>1, Glued
  <2>3. QED
    BY <1>0, <2>2
<1>2. h \in Seq(Written) /\ Len(h) = c3 /\ h[1] = Flag[1]
  <2>1. Len(g) # 0
    BY <1>0, <1>1
  <2> HIDE DEF g
  <2>2. h \in Seq(Written) /\ Len(h) = Len(g) + Len(s) /\ h[1] = g[1]
    BY <1>1, <2>1, Glued
  <2>3. QED
    BY <1>0, <1>1, <2>2
<1>3. f[1] = Flag[1]
  <2>1. Len(h) # 0
    BY <1>0, <1>2
  <2> HIDE DEF h
  <2>2. f[1] = h[1]
    BY <1>2, <2>1, Glued
  <2>3. QED
    BY <1>2, <2>2
<1>4. st \in Seq(Written)
  BY Glued
<1>5. f = g \o st
  <2>1. g \in Seq(Written)
    BY <1>1
  <2>2. (g \o s) \o t = g \o (s \o t)
    <3> HIDE DEF g
    <3> QED BY <2>1, GluedThrice
  <2>3. QED
    BY <2>2
<1>6. Copy(f, 1, c2) = p
  <2>1. Copy(g \o st, Len(Flag), Len(Flag) + Len(p)) = p
    <3> HIDE DEF st
    <3> QED BY <1>0, <1>4, TakeField
  <2> HIDE DEF f, st, g
  <2>2. QED
    BY <1>0, <1>5, <2>1
<1>7. Copy(f, c2, c3) = s
  <2>1. Copy((g \o s) \o t, Len(g), Len(g) + Len(s)) = s
    <3> HIDE DEF g
    <3> QED BY <1>1, TakeField
  <2>2. Copy(f, Len(g), Len(g) + Len(s)) = s
    BY <2>1
  <2> HIDE DEF f, g
  <2>3. QED
    BY <1>0, <1>1, <2>2
<1>8. Copy(f, c3, c4) = t
  <2>1. Copy(h \o t, Len(h), Len(h) + Len(t)) = t
    <3> HIDE DEF h
    <3> QED BY <1>2, TakeLast
  <2>2. Copy(f, Len(h), Len(h) + Len(t)) = t
    BY <2>1
  <2>3. c3 + SharesLen = c4
    BY <1>0
  <2> HIDE DEF f, h, c3, c4
  <2>4. QED
    BY <1>0, <1>2, <2>2, <2>3
<1>9. Len(cuts) = 4 /\ cuts[1] = 1 /\ cuts[2] = c2 /\ cuts[3] = c3 /\ cuts[4] = c4
  BY DEF NoWord
<1> HIDE DEF cuts, f, c2, c3, c4
<1>10. Copies(f, cuts) = [success |-> f[1] = Flag[1],
                          parts |-> [i \in 1..3 |-> Copy(f, cuts[i], cuts[i + 1])]]
  BY <1>9 DEF Copies
<1>11. [i \in 1..3 |-> Copy(f, cuts[i], cuts[i + 1])] = <<p, s, t>>
  BY <1>6, <1>7, <1>8, <1>9
<1>12. (f[1] = Flag[1]) = TRUE
  BY <1>3
<1>13. QED
  BY <1>10, <1>11, <1>12, Zenon DEF f, cuts, h, g

\* A flag and four fields are read back: AliceMessages.
LEMMA FourFields ==
  ASSUME NEW w \in Seq(Written), NEW p \in Seq(Written), NEW s \in Seq(Written),
         NEW t \in Seq(Written),
         Len(w) = WordLen, Len(s) = SharesLen, Len(t) = SharesLen, Len(p) = PointsLen
  PROVE  Copies((((Flag \o w) \o p) \o s) \o t, WithWord)
           = [success |-> TRUE, parts |-> <<w, p, s, t>>]
<1>0. Flag \in Seq(Written) /\ Len(Flag) = 1 /\ SharesLen \in Nat /\ PointsLen \in Nat
      /\ WordLen \in Nat
  BY PartFacts
<1> DEFINE e == Flag \o w
           g == e \o p
           h == g \o s
           f == h \o t
           st == s \o t
           pst == p \o st
           cuts == WithWord
           c2 == 1 + WordLen
           c3 == c2 + PointsLen
           c4 == c3 + SharesLen
           c5 == c3 + 2 * SharesLen
<1>1. e \in Seq(Written) /\ Len(e) = c2 /\ e[1] = Flag[1]
  <2>1. Len(Flag) # 0
    BY <1>0
  <2>2. e \in Seq(Written) /\ Len(e) = Len(Flag) + Len(w) /\ e[1] = Flag[1]
    BY <1>0, <2>1, Glued
  <2>3. QED
    BY <1>0, <2>2
<1>2. g \in Seq(Written) /\ Len(g) = c3 /\ g[1] = Flag[1]
  <2>1. Len(e) # 0
    BY <1>0, <1>1
  <2> HIDE DEF e
  <2>2. g \in Seq(Written) /\ Len(g) = Len(e) + Len(p) /\ g[1] = e[1]
    BY <1>1, <2>1, Glued
  <2>3. QED
    BY <1>0, <1>1, <2>2
<1>3. h \in Seq(Written) /\ Len(h) = c4 /\ h[1] = Flag[1]
  <2>1. Len(g) # 0
    BY <1>0, <1>2
  <2> HIDE DEF g
  <2>2. h \in Seq(Written) /\ Len(h) = Len(g) + Len(s) /\ h[1] = g[1]
    BY <1>2, <2>1, Glued
  <2>3. QED
    BY <1>0, <1>2, <2>2
<1>4. f[1] = Flag[1]
  <2>1. Len(h) # 0
    BY <1>0, <1>3
  <2> HIDE DEF h
  <2>2. f[1] = h[1]
    BY <1>3, <2>1, Glued
  <2>3. QED
    BY <1>3, <2>2
<1>5. st \in Seq(Written)
  BY Glued
<1>6. pst \in Seq(Written)
  <2> HIDE DEF st
  <2> QED BY <1>5, Glued
<1>7. f = g \o st
  <2>1. g \in Seq(Written)
    BY <1>2
  <2>2. (g \o s) \o t = g \o (s \o t)
    <3> HIDE DEF g
    <3> QED BY <2>1, GluedThrice
  <2>3. QED
    BY <2>2
<1>8. g \o st = e \o pst
  <2>1. e \in Seq(Written)
    BY <1>1
  <2>2. (e \o p) \o st = e \o (p \o st)
    <3> HIDE DEF e, st
    <3> QED BY <1>5, <2>1, GluedThrice
  <2>3. QED
    BY <2>2
<1>9. Copy(f, 1, c2) = w
  <2>1. Copy(e \o pst, Len(Flag), Len(Flag) + Len(w)) = w
    <3> HIDE DEF pst
    <3> QED BY <1>0, <1>6, TakeField
  <2>2. f = e \o pst
    <3> HIDE DEF f, g, e, st, pst
    <3> QED BY <1>7, <1>8
  <2> HIDE DEF f, pst, e
  <2>3. QED
    BY <1>0, <2>1, <2>2
<1>10. Copy(f, c2, c3) = p
  <2>1. Copy((e \o p) \o st, Len(e), Len(e) + Len(p)) = p
    <3> HIDE DEF e, st
    <3> QED BY <1>1, <1>5, TakeField
  <2>2. f = (e \o p) \o st
    <3> HIDE DEF f, st
    <3> QED BY <1>7
  <2> HIDE DEF f, e, st
  <2>3. QED
    BY <1>0, <1>1, <2>1, <2>2
<1>11. Copy(f, c3, c4) = s
  <2>1. Copy((g \o s) \o t, Len(g), Len(g) + Len(s)) = s
    <3> HIDE DEF g
    <3> QED BY <1>2, TakeField
  <2>2. Copy(f, Len(g), Len(g) + Len(s)) = s
    BY <2>1
  <2> HIDE DEF f, g
  <2>3. QED
    BY <1>0, <1>2, <2>2
<1>12. Copy(f, c4, c5) = t
  <2>1. Copy(h \o t, Len(h), Len(h) + Len(t)) = t
    <3> HIDE DEF h
    <3> QED BY <1>3, TakeLast
  <2>2. Copy(f, Len(h), Len(h) + Len(t)) = t
    BY <2>1
  <2>3. c4 + SharesLen = c5
    BY <1>0
  <2> HIDE DEF f, h, c4, c5
  <2>4. QED
    BY <1>0, <1>3, <2>2, <2>3
<1>13. Len(cuts) = 5 /\ cuts[1] = 1 /\ cuts[2] = c2 /\ cuts[3] = c3 /\ cuts[4] = c4 /\ cuts[5] = c5
  BY DEF WithWord
<1> HIDE DEF cuts, f, c2, c3, c4, c5
<1>14. Copies(f, cuts) = [success |-> f[1] = Flag[1],
                          parts |-> [i \in 1..4 |-> Copy(f, cuts[i], cuts[i + 1])]]
  BY <1>13 DEF Copies
<1>15. [i \in 1..4 |-> Copy(f, cuts[i], cuts[i + 1])] = <<w, p, s, t>>
  BY <1>9, <1>10, <1>11, <1>12, <1>13
<1>16. (f[1] = Flag[1]) = TRUE
  BY <1>4
<1>17. QED
  BY <1>14, <1>15, <1>16, Zenon DEF f, cuts, h, g, e

\* The smaller of two numbers.
LEMMA MinOfTwo ==
  ASSUME NEW a \in Nat, NEW b \in Nat, a <= b
  PROVE  Min({a, b}) = a
<1>1. \A y \in {a, b} : a <= y
  OBVIOUS
<1>2. \A x \in {a, b} : (\A y \in {a, b} : x <= y) => x = a
  OBVIOUS
<1>3. QED
  BY <1>1, <1>2 DEF Min

\* Cuts that lie in the buffer, one behind the other.
Inside(buffer, cuts) ==
  /\ buffer \in Seq(Written) /\ cuts \in Seq(Nat)
  /\ \A i \in 1..Len(cuts) : cuts[i] <= Len(buffer)
  /\ \A i \in 1..(Len(cuts) - 1) : cuts[i] <= cuts[i + 1]

\* What lies in the buffer is copied whole, and a slice of it is the same.
LEMMA SliceIsCopy ==
  ASSUME NEW b \in Seq(Written), NEW from \in Nat, NEW to \in Nat, from <= to, to <= Len(b)
  PROVE  /\ Copy(b, from, to) \in Seq(Written) /\ Len(Copy(b, from, to)) = to - from
         /\ ToSet(Copy(b, from, to)) \subseteq ToSet(b)
         /\ Subarray(b, from, to) = Copy(b, from, to)
<1> DEFINE n == to - from
           c == Copy(b, from, to)
           t == SubSeq(b, from + 1, to)
<1>1. n \in Nat /\ Len(b) \in Nat /\ \A k \in 1..n : from + k \in 1..Len(b) /\ from + k <= Len(b)
  BY LenProperties
<1>2. c = [k \in 1..n |-> b[from + k]]
  BY <1>1 DEF Copy
<1>3. \A k \in 1..n : b[from + k] \in Written /\ b[from + k] \in ToSet(b)
  BY <1>1, LenProperties DEF ToSet
<1> HIDE DEF c
<1>4. c \in Seq(Written) /\ Len(c) = n
  <2> HIDE DEF n
  <2>1. QED
    BY <1>1, <1>2, <1>3
<1>5. ToSet(c) \subseteq ToSet(b)
  <2>1. DOMAIN c = 1..n
    BY <1>2
  <2>2. ToSet(c) = {c[k] : k \in 1..n}
    BY <2>1 DEF ToSet
  <2>3. \A k \in 1..n : c[k] \in ToSet(b)
    BY <1>2, <1>3
  <2>4. QED
    BY <2>2, <2>3
<1>6. t \in Seq(Written) /\ Len(t) = n /\ \A k \in 1..n : t[k] = b[from + k]
  <2>1. \A k \in (from + 1)..to : b[k] \in Written
    BY <1>1, LenProperties
  <2>2. /\ t \in Seq(Written) /\ Len(t) = IF from + 1 <= to THEN to - (from + 1) + 1 ELSE 0
        /\ \A k \in 1..(to - (from + 1) + 1) : t[k] = b[from + 1 + k - 1]
    BY <2>1, SubSeqProperties
  <2> HIDE DEF t
  <2>3. to - (from + 1) + 1 = n /\ \A k \in 1..n : from + 1 + k - 1 = from + k
    OBVIOUS
  <2>4. QED
    BY <1>1, <2>2, <2>3
<1> HIDE DEF t
<1>7. t = c
  <2> HIDE DEF n
  <2>1. \A k \in 1..Len(t) : t[k] = c[k]
    BY <1>2, <1>6
  <2>2. QED
    BY <1>4, <1>6, <2>1, SeqEqual
<1>8. Subarray(b, from, to) = t
  <2>1. Min({to, Len(b)}) = to
    BY <1>1, MinOfTwo
  <2>2. QED
    BY <2>1 DEF Subarray, t
<1>9. QED
  BY <1>4, <1>5, <1>7, <1>8 DEF c

\* So the fields between such cuts are whole, and the same in both programs.
LEMMA FieldsInside ==
  ASSUME NEW b, NEW cuts, Inside(b, cuts)
  PROVE  /\ Fields(b, cuts) = Copies(b, cuts)
         /\ DOMAIN Copies(b, cuts).parts = 1..(Len(cuts) - 1)
         /\ \A i \in 1..(Len(cuts) - 1) :
              /\ Len(Copies(b, cuts).parts[i]) = cuts[i + 1] - cuts[i]
              /\ ToSet(Copies(b, cuts).parts[i]) \subseteq ToSet(b)
<1>1. b \in Seq(Written) /\ cuts \in Seq(Nat) /\ Len(cuts) \in Nat
  BY LenProperties DEF Inside
<1>2. ASSUME NEW i \in 1..(Len(cuts) - 1)
      PROVE  /\ Len(Copy(b, cuts[i], cuts[i + 1])) = cuts[i + 1] - cuts[i]
             /\ ToSet(Copy(b, cuts[i], cuts[i + 1])) \subseteq ToSet(b)
             /\ Subarray(b, cuts[i], cuts[i + 1]) = Copy(b, cuts[i], cuts[i + 1])
  <2>1. i \in 1..Len(cuts) /\ i + 1 \in 1..Len(cuts)
    BY <1>1
  <2> DEFINE from == cuts[i]
             to == cuts[i + 1]
  <2>2. from \in Nat /\ to \in Nat
    BY <1>1, <2>1
  <2>3. from <= to /\ to <= Len(b)
    BY <2>1 DEF Inside
  <2> HIDE DEF from, to
  <2>4. /\ Len(Copy(b, from, to)) = to - from /\ ToSet(Copy(b, from, to)) \subseteq ToSet(b)
        /\ Subarray(b, from, to) = Copy(b, from, to)
    BY <1>1, <2>2, <2>3, SliceIsCopy
  <2>5. QED
    BY <2>4 DEF from, to
<1>3. [i \in 1..(Len(cuts) - 1) |-> Subarray(b, cuts[i], cuts[i + 1])]
        = [i \in 1..(Len(cuts) - 1) |-> Copy(b, cuts[i], cuts[i + 1])]
  BY <1>2
<1>4. Fields(b, cuts) = Copies(b, cuts)
  BY <1>3 DEF Fields, Copies
<1>5. Copies(b, cuts).parts = [i \in 1..(Len(cuts) - 1) |-> Copy(b, cuts[i], cuts[i + 1])]
  BY DEF Copies
<1>6. QED
  BY <1>2, <1>4, <1>5

\* The names of the layouts and of their readers.
LEMMA Names ==
  /\ DOMAIN Writers = {"BobSetup", "COTSetup", "AliceMessages", "COTMessages", "BobMessages", "MTAResult"}
  /\ DOMAIN Layout = {"BobSetup", "COTSetup", "AliceMessages", "AliceMessagesOfBob", "COTMessages",
                      "BobMessages", "MTAResult"}
  /\ \A r \in DOMAIN Layout :
       Layout[r] \in DOMAIN Writers /\ (r # "AliceMessagesOfBob" => Layout[r] = r)
  /\ Layout["AliceMessagesOfBob"] = "AliceMessages"
<1>1. DOMAIN Writers = {"BobSetup", "COTSetup", "AliceMessages", "COTMessages", "BobMessages", "MTAResult"}
  BY DEF Writers
<1>2. DOMAIN Layout = {"BobSetup", "COTSetup", "AliceMessages", "AliceMessagesOfBob", "COTMessages",
                       "BobMessages", "MTAResult"}
  BY DEF Layout
<1>3. /\ Layout["BobSetup"] = "BobSetup" /\ Layout["COTSetup"] = "COTSetup"
      /\ Layout["AliceMessages"] = "AliceMessages" /\ Layout["AliceMessagesOfBob"] = "AliceMessages"
      /\ Layout["COTMessages"] = "COTMessages" /\ Layout["BobMessages"] = "BobMessages"
      /\ Layout["MTAResult"] = "MTAResult"
  BY DEF Layout
<1>4. QED
  BY <1>1, <1>2, <1>3

\* The flag and the fields of every layout, and how long they are.
LEMMA WriterFacts ==
  /\ Writers["BobSetup"] = (Flag \o Word("correlation")) \o Points
  /\ Writers["COTSetup"] = (Flag \o Word("correlation")) \o Points
  /\ Writers["AliceMessages"]
       = (((Flag \o Word("masked_share")) \o Points) \o Shares("m0")) \o Shares("m1")
  /\ Writers["COTMessages"] = ((Flag \o Points) \o Shares("m0")) \o Shares("m1")
  /\ Writers["BobMessages"] = Flag \o Word("masked_share")
  /\ Writers["MTAResult"] = Flag \o Word("additive_share")
BY DEF Writers, WriteBobSetup, WriteCOTSetup, WriteAliceMessages, WriteCOTMessages,
       WriteBobMessages, WriteMTAResult

\* What every writer makes is a sequence of its length.
LEMMA WriterLengths ==
  /\ \A l \in DOMAIN Writers : Writers[l] \in Seq(Written)
  /\ Len(Writers["BobSetup"]) = 1 + WordLen + PointsLen
  /\ Len(Writers["COTSetup"]) = 1 + WordLen + PointsLen
  /\ Len(Writers["AliceMessages"]) = 1 + WordLen + PointsLen + 2 * SharesLen
  /\ Len(Writers["COTMessages"]) = 1 + PointsLen + 2 * SharesLen
  /\ Len(Writers["BobMessages"]) = 1 + WordLen
  /\ Len(Writers["MTAResult"]) = 1 + WordLen
<1>1. Flag \in Seq(Written) /\ Len(Flag) = 1 /\ Points \in Seq(Written) /\ Len(Points) = PointsLen
      /\ Shares("m0") \in Seq(Written) /\ Len(Shares("m0")) = SharesLen
      /\ Shares("m1") \in Seq(Written) /\ Len(Shares("m1")) = SharesLen
      /\ WordLen \in Nat /\ PointsLen \in Nat /\ SharesLen \in Nat
      /\ \A f \in {"correlation", "masked_share", "additive_share"} :
           Word(f) \in Seq(Written) /\ Len(Word(f)) = WordLen
  BY PartFacts
<1>2. ASSUME NEW f \in {"correlation", "masked_share", "additive_share"}
      PROVE  Flag \o Word(f) \in Seq(Written) /\ Len(Flag \o Word(f)) = 1 + WordLen
  <2>1. Flag \in Seq(Written) /\ Word(f) \in Seq(Written)
    BY <1>1
  <2>2. Flag \o Word(f) \in Seq(Written) /\ Len(Flag \o Word(f)) = Len(Flag) + Len(Word(f))
    BY <2>1, GluedLength
  <2>3. Len(Flag) = 1 /\ Len(Word(f)) = WordLen
    BY <1>1
  <2>4. QED
    BY <2>2, <2>3
<1>3. ASSUME NEW f \in {"correlation", "masked_share", "additive_share"}
      PROVE  /\ (Flag \o Word(f)) \o Points \in Seq(Written)
             /\ Len((Flag \o Word(f)) \o Points) = 1 + WordLen + PointsLen
  <2> DEFINE g == Flag \o Word(f)
  <2>1. g \in Seq(Written) /\ Len(g) = 1 + WordLen
    BY <1>2
  <2> HIDE DEF g
  <2>2. g \in Seq(Written) /\ Points \in Seq(Written) /\ Len(Points) = PointsLen
    BY <1>1, <2>1
  <2>3. g \o Points \in Seq(Written) /\ Len(g \o Points) = Len(g) + Len(Points)
    BY <2>2, GluedLength
  <2>4. QED
    BY <2>1, <2>2, <2>3 DEF g
<1>4. ASSUME NEW a \in Seq(Written)
      PROVE  /\ (a \o Shares("m0")) \o Shares("m1") \in Seq(Written)
             /\ Len((a \o Shares("m0")) \o Shares("m1")) = Len(a) + 2 * SharesLen
  <2> DEFINE b == a \o Shares("m0")
  <2>1. /\ Shares("m0") \in Seq(Written) /\ Len(Shares("m0")) = SharesLen
        /\ Shares("m1") \in Seq(Written) /\ Len(Shares("m1")) = SharesLen
        /\ SharesLen \in Nat /\ Len(a) \in Nat
    BY <1>1, LenProperties
  <2>2. b \in Seq(Written) /\ Len(b) = Len(a) + Len(Shares("m0"))
    BY <2>1, GluedLength
  <2> HIDE DEF b
  <2>3. b \o Shares("m1") \in Seq(Written) /\ Len(b \o Shares("m1")) = Len(b) + Len(Shares("m1"))
    BY <2>1, <2>2, GluedLength
  <2>4. Len(b) + Len(Shares("m1")) = Len(a) + 2 * SharesLen
    <3> DEFINE n == Len(b)
               m == Len(a)
    <3>1. n = m + SharesLen /\ m \in Nat /\ SharesLen \in Nat /\ Len(Shares("m1")) = SharesLen
      BY <2>1, <2>2
    <3> HIDE DEF n, m
    <3>2. n + SharesLen = m + 2 * SharesLen
      BY <3>1
    <3> QED BY <3>1, <3>2 DEF n, m
  <2>5. QED
    BY <2>3, <2>4 DEF b
<1>5. Flag \o Points \in Seq(Written) /\ Len(Flag \o Points) = 1 + PointsLen
  <2>1. Flag \in Seq(Written) /\ Points \in Seq(Written)
    BY <1>1
  <2>2. Flag \o Points \in Seq(Written) /\ Len(Flag \o Points) = Len(Flag) + Len(Points)
    BY <2>1, GluedLength
  <2>3. Len(Flag) = 1 /\ Len(Points) = PointsLen
    BY <1>1
  <2>4. QED
    BY <2>2, <2>3
<1>6. Writers["COTMessages"] \in Seq(Written)
      /\ Len(Writers["COTMessages"]) = 1 + PointsLen + 2 * SharesLen
  BY <1>4, <1>5, WriterFacts
<1>7. Writers["AliceMessages"] \in Seq(Written)
      /\ Len(Writers["AliceMessages"]) = 1 + WordLen + PointsLen + 2 * SharesLen
  BY <1>3, <1>4, WriterFacts
<1>8. /\ Writers["BobSetup"] \in Seq(Written) /\ Writers["COTSetup"] \in Seq(Written)
      /\ Len(Writers["BobSetup"]) = 1 + WordLen + PointsLen
      /\ Len(Writers["COTSetup"]) = 1 + WordLen + PointsLen
      /\ Writers["BobMessages"] \in Seq(Written) /\ Writers["MTAResult"] \in Seq(Written)
      /\ Len(Writers["BobMessages"]) = 1 + WordLen /\ Len(Writers["MTAResult"]) = 1 + WordLen
  BY <1>2, <1>3, WriterFacts
<1>9. QED
  BY <1>6, <1>7, <1>8, Names

\* What arrives whole is read as it was written.
LEMMA WholeRead ==
  ASSUME NEW r \in DOMAIN Layout
  PROVE  Read(r, Writers[Layout[r]]) = [success |-> TRUE, parts |-> Meant[Layout[r]]]
<1>1. Flag \in Seq(Written) /\ Len(Flag) = 1 /\ Points \in Seq(Written) /\ Len(Points) = PointsLen
      /\ Shares("m0") \in Seq(Written) /\ Len(Shares("m0")) = SharesLen
      /\ Shares("m1") \in Seq(Written) /\ Len(Shares("m1")) = SharesLen
      /\ WordLen \in Nat /\ PointsLen \in Nat /\ SharesLen \in Nat
      /\ \A f \in {"correlation", "masked_share", "additive_share"} :
           Word(f) \in Seq(Written) /\ Len(Word(f)) = WordLen
  BY PartFacts
<1> DEFINE W(f) == [success |-> TRUE, parts |-> <<Word(f)>>]
           S == [success |-> TRUE, parts |-> <<Word("correlation"), Points>>]
           A == [success |-> TRUE,
                 parts |-> <<Word("masked_share"), Points, Shares("m0"), Shares("m1")>>]
           C == [success |-> TRUE, parts |-> <<Points, Shares("m0"), Shares("m1")>>]
           setup == (Flag \o Word("correlation")) \o Points
           long == (((Flag \o Word("masked_share")) \o Points) \o Shares("m0")) \o Shares("m1")
           short == ((Flag \o Points) \o Shares("m0")) \o Shares("m1")
<1>2. Copies(setup, <<1, 1 + WordLen, 1 + WordLen + PointsLen>>) = S
  <2> HIDE DEF S
  <2>1. Copies((Flag \o Word("correlation")) \o Points,
               <<1, 1 + Len(Word("correlation")), 1 + Len(Word("correlation")) + Len(Points)>>) = S
    BY <1>1, TwoFields DEF S
  <2>2. Len(Word("correlation")) = WordLen /\ Len(Points) = PointsLen
    BY <1>1
  <2>3. QED
    BY <2>1, <2>2
<1>3. Copies(long, WithWord) = A
  BY <1>1, FourFields
<1>4. Copies(short, NoWord) = C
  BY <1>1, ThreeFields
<1>5. ASSUME NEW f \in {"correlation", "masked_share", "additive_share"}
      PROVE  Copies(Flag \o Word(f), <<1, 1 + WordLen>>) = W(f)
  <2> HIDE DEF W
  <2>1. Copies(Flag \o Word(f), <<1, 1 + Len(Word(f))>>) = W(f)
    BY <1>1, OneField DEF W
  <2>2. Len(Word(f)) = WordLen
    BY <1>1
  <2>3. QED
    BY <2>1, <2>2
<1>6. /\ Writers["BobSetup"] = setup /\ Writers["COTSetup"] = setup /\ Writers["AliceMessages"] = long
      /\ Writers["COTMessages"] = short
  BY WriterFacts
<1> HIDE DEF S, A, C, W, setup, long, short
<1>7. Fields(setup, <<1, 1 + WordLen, 1 + WordLen + PointsLen>>) = S
  <2> DEFINE cuts == <<1, 1 + WordLen, 1 + WordLen + PointsLen>>
  <2>1. setup \in Seq(Written) /\ Len(setup) = 1 + WordLen + PointsLen
    BY <1>6, Names, WriterLengths
  <2>2. Inside(setup, cuts)
    <3>1. cuts \in Seq(Nat) /\ Len(cuts) = 3
      BY <1>1
    <3>2. /\ cuts[1] <= Len(setup) /\ cuts[2] <= Len(setup) /\ cuts[3] <= Len(setup)
          /\ cuts[1] <= cuts[1 + 1] /\ cuts[2] <= cuts[2 + 1]
      BY <1>1, <2>1
    <3> HIDE DEF cuts
    <3>3. (\A i \in 1..Len(cuts) : i = 1 \/ i = 2 \/ i = 3) /\ \A i \in 1..(Len(cuts) - 1) : i = 1 \/ i = 2
      BY <3>1
    <3>4. QED
      BY <2>1, <3>1, <3>2, <3>3 DEF Inside
  <2>3. Fields(setup, cuts) = Copies(setup, cuts)
    <3> HIDE DEF cuts
    <3> QED BY <2>2, FieldsInside
  <2>4. QED
    BY <1>2, <2>3
<1>8. Fields(long, WithWord) = A
  <2>1. long \in Seq(Written) /\ Len(long) = 1 + WordLen + PointsLen + 2 * SharesLen
    BY <1>6, Names, WriterLengths
  <2>2. Inside(long, WithWord)
    <3>1. WithWord \in Seq(Nat) /\ Len(WithWord) = 5
      BY <1>1 DEF WithWord
    <3>2. /\ WithWord[1] <= Len(long) /\ WithWord[2] <= Len(long) /\ WithWord[3] <= Len(long)
          /\ WithWord[4] <= Len(long) /\ WithWord[5] <= Len(long)
          /\ WithWord[1] <= WithWord[1 + 1] /\ WithWord[2] <= WithWord[2 + 1]
          /\ WithWord[3] <= WithWord[3 + 1] /\ WithWord[4] <= WithWord[4 + 1]
      BY <1>1, <2>1 DEF WithWord
    <3>3. /\ \A i \in 1..Len(WithWord) : i = 1 \/ i = 2 \/ i = 3 \/ i = 4 \/ i = 5
          /\ \A i \in 1..(Len(WithWord) - 1) : i = 1 \/ i = 2 \/ i = 3 \/ i = 4
      BY <3>1
    <3>4. QED
      BY <2>1, <3>1, <3>2, <3>3 DEF Inside
  <2>3. QED
    BY <1>3, <2>2, FieldsInside
<1>9. ASSUME NEW f \in {"correlation", "masked_share", "additive_share"},
             Flag \o Word(f) \in Seq(Written), Len(Flag \o Word(f)) = 1 + WordLen
      PROVE  Fields(Flag \o Word(f), <<1, 1 + WordLen>>) = W(f)
  <2> DEFINE cuts == <<1, 1 + WordLen>>
             v == Flag \o Word(f)
  <2>1. cuts \in Seq(Nat) /\ Len(cuts) = 2 /\ cuts[1] <= Len(v) /\ cuts[2] <= Len(v)
        /\ cuts[1] <= cuts[1 + 1]
    BY <1>1, <1>9
  <2>2. v \in Seq(Written) /\ Copies(v, cuts) = W(f)
    BY <1>5, <1>9
  <2> HIDE DEF cuts, v
  <2>3. Inside(v, cuts)
    <3>1. (\A i \in 1..Len(cuts) : i = 1 \/ i = 2) /\ \A i \in 1..(Len(cuts) - 1) : i = 1
      BY <2>1
    <3>2. QED
      BY <2>1, <2>2, <3>1 DEF Inside
  <2>4. Fields(v, cuts) = W(f)
    BY <2>2, <2>3, FieldsInside
  <2>5. QED
    BY <2>4 DEF v, cuts
<1>10. CASE r = "BobSetup"
  <2>1. Len(setup) = 1 + WordLen + PointsLen /\ ~(Len(setup) < 1 + WordLen)
    BY <1>1, <1>6, WriterLengths
  <2>2. ReadBobSetup(setup) = S
    BY <1>7, <2>1 DEF ReadBobSetup
  <2>3. Meant["BobSetup"] = <<Word("correlation"), Points>> /\ Layout[r] = "BobSetup"
    BY <1>10, Names DEF Meant
  <2>4. Read(r, setup) = ReadBobSetup(setup)
    BY <1>10 DEF Read
  <2>5. QED
    BY <1>6, <2>2, <2>3, <2>4 DEF S
<1>11. CASE r = "COTSetup"
  <2>1. Len(setup) = 1 + WordLen + PointsLen /\ ~(Len(setup) < 1 + WordLen + PointsLen)
    BY <1>1, <1>6, WriterLengths
  <2>2. ReadCOTSetup(setup) = S
    BY <1>7, <2>1 DEF ReadCOTSetup
  <2>3. Meant["COTSetup"] = <<Word("correlation"), Points>> /\ Layout[r] = "COTSetup"
    BY <1>11, Names DEF Meant
  <2>4. Read(r, setup) = ReadCOTSetup(setup)
    BY <1>11 DEF Read
  <2>5. QED
    BY <1>6, <2>2, <2>3, <2>4 DEF S
<1>12. CASE r \in {"AliceMessages", "AliceMessagesOfBob"}
  <2>1. /\ Len(long) = 1 + WordLen + PointsLen + 2 * SharesLen
        /\ ~(Len(long) < 1 + WordLen + PointsLen + 2 * SharesLen) /\ ~(Len(long) < 1 + WordLen)
    BY <1>1, <1>6, WriterLengths
  <2>2. ReadAliceMessages(long) = A
    BY <1>8, <2>1 DEF ReadAliceMessages
  <2>3. ReadAliceMessagesOfBob(long) = A
    <3>1. ReadAliceMessagesOfBob(long) = [A EXCEPT !.success = TRUE]
      BY <1>3, <2>1 DEF ReadAliceMessagesOfBob
    <3>2. [A EXCEPT !.success = TRUE] = A
      <4>1. DOMAIN A = {"success", "parts"} /\ A.success = TRUE
        BY DEF A
      <4>2. A = [x \in {"success", "parts"} |-> A[x]]
        BY DEF A
      <4>3. QED
        BY <4>1, <4>2
    <3>3. QED
      BY <3>1, <3>2
  <2>4. Meant["AliceMessages"] = <<Word("masked_share"), Points, Shares("m0"), Shares("m1")>>
        /\ Layout[r] = "AliceMessages"
    BY <1>12, Names DEF Meant
  <2>5. Read(r, long) \in {ReadAliceMessages(long), ReadAliceMessagesOfBob(long)}
    BY <1>12 DEF Read
  <2>6. QED
    BY <1>6, <2>2, <2>3, <2>4, <2>5 DEF A
<1>13. CASE r = "COTMessages"
  <2>1. ~(Len(short) < 1 + PointsLen + 2 * SharesLen)
    BY <1>1, <1>6, WriterLengths
  <2>2. ReadCOTMessages(short) = C
    BY <1>4, <2>1 DEF ReadCOTMessages
  <2>3. Meant["COTMessages"] = <<Points, Shares("m0"), Shares("m1")>> /\ Layout[r] = "COTMessages"
    BY <1>13, Names DEF Meant
  <2>4. Read(r, short) = ReadCOTMessages(short)
    BY <1>13 DEF Read
  <2>5. QED
    BY <1>6, <2>2, <2>3, <2>4 DEF C
<1>14. CASE r = "BobMessages"
  <2> DEFINE v == Flag \o Word("masked_share")
  <2>1. Writers["BobMessages"] = v /\ v \in Seq(Written) /\ Len(v) = 1 + WordLen
    <3>1. Writers["BobMessages"] = v
      BY WriterFacts
    <3>2. Writers["BobMessages"] \in Seq(Written) /\ Len(Writers["BobMessages"]) = 1 + WordLen
      BY Names, WriterLengths
    <3>3. QED
      BY <3>1, <3>2
  <2>2. ReadBobMessages(v) = W("masked_share")
    BY <1>9, <2>1 DEF ReadBobMessages
  <2>3. Meant["BobMessages"] = <<Word("masked_share")>> /\ Layout[r] = "BobMessages"
    BY <1>14, Names DEF Meant
  <2> HIDE DEF v
  <2>4. Read(r, v) = ReadBobMessages(v)
    BY <1>14 DEF Read
  <2>5. QED
    BY <2>1, <2>2, <2>3, <2>4 DEF W
<1>15. CASE r = "MTAResult"
  <2> DEFINE v == Flag \o Word("additive_share")
  <2>1. Writers["MTAResult"] = v /\ v \in Seq(Written) /\ Len(v) = 1 + WordLen
    <3>1. Writers["MTAResult"] = v
      BY WriterFacts
    <3>2. Writers["MTAResult"] \in Seq(Written) /\ Len(Writers["MTAResult"]) = 1 + WordLen
      BY Names, WriterLengths
    <3>3. QED
      BY <3>1, <3>2
  <2>2. ReadMTAResult(v) = W("additive_share")
    BY <1>9, <2>1 DEF ReadMTAResult
  <2>3. Meant["MTAResult"] = <<Word("additive_share")>> /\ Layout[r] = "MTAResult"
    BY <1>15, Names DEF Meant
  <2> HIDE DEF v
  <2>4. Read(r, v) = ReadMTAResult(v)
    BY <1>15 DEF Read
  <2>5. QED
    BY <2>1, <2>2, <2>3, <2>4 DEF W
<1>16. QED
  BY <1>10, <1>11, <1>12, <1>13, <1>14, <1>15, Names

\* What arrives is a first part of what was written.
LEMMA CutShort ==
  ASSUME NEW l \in DOMAIN Writers, NEW n \in 0..Len(Writers[l])
  PROVE  /\ SubSeq(Writers[l], 1, n) \in Seq(Written) /\ Len(SubSeq(Writers[l], 1, n)) = n
         /\ n = Len(Writers[l]) <=> SubSeq(Writers[l], 1, n) = Writers[l]
         /\ \A k \in 1..n : SubSeq(Writers[l], 1, n)[k] = Writers[l][k]
<1> DEFINE w == Writers[l]
           b == SubSeq(w, 1, n)
<1>1. w \in Seq(Written) /\ Len(w) \in Nat
  BY WriterLengths, LenProperties
<1> HIDE DEF w
<1>2. n \in Nat /\ n <= Len(w)
  BY <1>1 DEF w
<1>3. b \in Seq(Written) /\ Len(b) = n /\ \A k \in 1..n : b[k] = w[k]
  <2>1. \A k \in 1..n : w[k] \in Written
    BY <1>1, <1>2, LenProperties
  <2>2. /\ b \in Seq(Written) /\ Len(b) = IF 1 <= n THEN n - 1 + 1 ELSE 0
        /\ \A k \in 1..(n - 1 + 1) : b[k] = w[1 + k - 1]
    BY <1>2, <2>1, SubSeqProperties
  <2> HIDE DEF b
  <2>3. Len(b) = n /\ \A k \in 1..n : b[k] = w[k]
    <3>1. n - 1 + 1 = n /\ \A k \in 1..n : 1 + k - 1 = k
      BY <1>2
    <3> QED BY <1>2, <2>2, <3>1
  <2>4. QED
    BY <2>2, <2>3
<1> HIDE DEF b
<1>4. n = Len(w) => b = w
  BY <1>1, <1>3, SeqEqual
<1>5. QED
  BY <1>3, <1>4 DEF b, w

\* A reader that asks for the whole length refuses less.
LEMMA ShortRefused ==
  ASSUME NEW r \in DOMAIN Layout, NEW b \in Seq(Written),
         Len(b) < Len(Writers[Layout[r]]),
         r \notin {"AliceMessagesOfBob", "BobSetup"}
  PROVE  Read(r, b) = Refused
<1>1. Len(b) \in Nat /\ WordLen \in Nat /\ PointsLen \in Nat /\ SharesLen \in Nat
  BY LenProperties, PartFacts
<1>2. Layout[r] = r
  BY Names
<1>3. CASE r = "COTSetup"
  <2>1. Len(b) < 1 + WordLen + PointsLen
    BY <1>2, <1>3, WriterLengths
  <2>2. QED
    BY <1>3, <2>1 DEF Read, ReadCOTSetup
<1>4. CASE r = "AliceMessages"
  <2>1. Len(b) < 1 + WordLen + PointsLen + 2 * SharesLen
    BY <1>2, <1>4, WriterLengths
  <2>2. QED
    BY <1>4, <2>1 DEF Read, ReadAliceMessages
<1>5. CASE r = "COTMessages"
  <2>1. Len(b) < 1 + PointsLen + 2 * SharesLen
    BY <1>2, <1>5, WriterLengths
  <2>2. QED
    BY <1>5, <2>1 DEF Read, ReadCOTMessages
<1>6. CASE r \in {"BobMessages", "MTAResult"}
  <2>1. Len(b) < 1 + WordLen
    BY <1>2, <1>6, WriterLengths
  <2>2. Len(b) # 1 + WordLen
    BY <1>1, <2>1
  <2>3. QED
    BY <1>6, <2>2 DEF Read, ReadBobMessages, ReadMTAResult
<1>7. QED
  BY <1>3, <1>4, <1>5, <1>6, Names

\* The state in which a reader has read.
LEMMA AfterRead ==
  ASSUME IInv, reader # "none"
  PROVE  /\ reader \in DOMAIN Layout /\ written \in DOMAIN Writers
         /\ decoded = Read(reader, bytes)
         /\ bytes \in Seq(Written) /\ Len(bytes) \in Nat /\ Len(bytes) <= Len(Writers[written])
         /\ bytes = Writers[written] <=> Len(bytes) = Len(Writers[written])
         /\ \A k \in 1..Len(bytes) : bytes[k] = Writers[written][k]
<1>1. reader \in DOMAIN Layout /\ written \in DOMAIN Writers /\ decoded = Read(reader, bytes)
  BY DEF IInv, TypeOK, LegacyFaithful
<1>2. PICK n \in 0..Len(Writers[written]) : bytes = SubSeq(Writers[written], 1, n)
  <2>1. written # "none"
    BY DEF IInv, LegacyFaithful
  <2>2. QED
    BY <2>1 DEF IInv, LegacyFaithful
<1>3. Len(Writers[written]) \in Nat
  BY <1>1, WriterLengths, LenProperties
<1>4. /\ bytes \in Seq(Written) /\ Len(bytes) = n
      /\ n = Len(Writers[written]) <=> bytes = Writers[written]
      /\ \A k \in 1..n : bytes[k] = Writers[written][k]
  BY <1>1, <1>2, CutShort
<1>5. QED
  BY <1>1, <1>3, <1>4

\* Each field comes back, and only from a whole frame.
LEMMA ReadsAsWritten == IInv => ReadAsWritten
<1>1. SUFFICES ASSUME IInv, reader # "none", Layout[reader] = written
               PROVE  /\ bytes = Writers[written] =>
                           decoded.success /\ decoded.parts = Meant[written]
                      /\ bytes # Writers[written] /\ decoded.success =>
                           \/ reader = "AliceMessagesOfBob"
                           \/ reader = "BobSetup" /\ Len(decoded.parts[2]) < PointsLen
  BY DEF ReadAsWritten
<1>2. /\ reader \in DOMAIN Layout /\ decoded = Read(reader, bytes)
      /\ bytes \in Seq(Written) /\ Len(bytes) \in Nat /\ Len(bytes) <= Len(Writers[written])
      /\ bytes = Writers[written] <=> Len(bytes) = Len(Writers[written])
      /\ written \in DOMAIN Writers
  BY <1>1, AfterRead
<1>3. ASSUME bytes = Writers[written]
      PROVE  decoded.success /\ decoded.parts = Meant[written]
  <2>1. decoded = [success |-> TRUE, parts |-> Meant[written]]
    BY <1>1, <1>2, <1>3, WholeRead
  <2>2. QED
    BY <2>1
<1>4. ASSUME bytes # Writers[written], decoded.success, reader # "AliceMessagesOfBob"
      PROVE  reader = "BobSetup" /\ Len(decoded.parts[2]) < PointsLen
  <2>1. Len(bytes) < Len(Writers[written])
    <3>1. Len(Writers[written]) \in Nat
      BY <1>2, WriterLengths, LenProperties
    <3> QED BY <1>2, <1>4, <3>1
  <2>2. reader = "BobSetup"
    <3>1. ASSUME reader # "BobSetup" PROVE FALSE
      <4>1. decoded = Refused
        BY <1>1, <1>2, <1>4, <2>1, <3>1, ShortRefused
      <4> QED BY <1>4, <4>1 DEF Refused
    <3> QED BY <3>1
  <2>3. Len(bytes) < 1 + WordLen + PointsLen
    BY <1>1, <2>1, <2>2, Names, WriterLengths
  <2>4. WordLen \in Nat /\ PointsLen \in Nat
    BY PartFacts
  <2>5. decoded = ReadBobSetup(bytes)
    BY <1>2, <2>2 DEF Read
  <2>6. ~(Len(bytes) < 1 + WordLen)
    BY <1>4, <2>5 DEF ReadBobSetup, Refused
  <2> DEFINE cuts == <<1, 1 + WordLen, Len(bytes)>>
  <2>7. decoded = Fields(bytes, cuts)
    BY <2>5, <2>6 DEF ReadBobSetup
  <2>8. Len(cuts) = 3 /\ cuts[2] = 1 + WordLen /\ cuts[3] = Len(bytes)
    OBVIOUS
  <2> HIDE DEF cuts
  <2>9. decoded.parts = [i \in 1..2 |-> Subarray(bytes, cuts[i], cuts[i + 1])]
    BY <2>7, <2>8 DEF Fields
  <2>10. decoded.parts[2] = Subarray(bytes, 1 + WordLen, Len(bytes))
    BY <2>8, <2>9
  <2>11. Len(Subarray(bytes, 1 + WordLen, Len(bytes))) = Len(bytes) - (1 + WordLen)
    <3> DEFINE from == 1 + WordLen
               to == Len(bytes)
    <3>1. from \in Nat /\ to \in Nat /\ from <= to /\ to <= Len(bytes)
      BY <1>2, <2>4, <2>6
    <3> HIDE DEF from, to
    <3>2. Subarray(bytes, from, to) = Copy(bytes, from, to) /\ Len(Copy(bytes, from, to)) = to - from
      BY <1>2, <3>1, SliceIsCopy
    <3>3. QED
      BY <3>2 DEF from, to
  <2>12. QED
    BY <1>2, <2>2, <2>3, <2>4, <2>10, <2>11
<1>5. QED
  BY <1>3, <1>4

\* The readers but one check that what they cut has arrived.
LEMMA WholeFields == IInv => FieldsAreWhole
<1> DEFINE Whole(d, r) == \A i \in DOMAIN d.parts :
                            /\ ToSet(d.parts[i]) \subseteq ToSet(bytes)
                            /\ \/ Len(d.parts[i]) = Len(Meant[Layout[r]][i])
                               \/ r = "BobSetup" /\ i = 2
<1>1. SUFFICES ASSUME IInv, reader \notin {"none", "AliceMessagesOfBob"} PROVE Whole(decoded, reader)
  BY DEF FieldsAreWhole
<1>2. Whole(Refused, reader)
  BY DEF Refused
<1>3. /\ reader \in DOMAIN Layout /\ decoded = Read(reader, bytes)
      /\ bytes \in Seq(Written) /\ Len(bytes) \in Nat
  BY <1>1, AfterRead
<1>4. /\ WordLen \in Nat /\ PointsLen \in Nat /\ SharesLen \in Nat
      /\ Len(Points) = PointsLen /\ Len(Shares("m0")) = SharesLen /\ Len(Shares("m1")) = SharesLen
      /\ \A f \in {"correlation", "masked_share", "additive_share"} : Len(Word(f)) = WordLen
  BY PartFacts
<1>5. Layout[reader] = reader
  BY <1>1, <1>3, Names
<1>6. ASSUME NEW cuts, Inside(bytes, cuts), NEW d \in {Fields(bytes, cuts), Copies(bytes, cuts)},
             \A i \in 1..(Len(cuts) - 1) :
               \/ cuts[i + 1] - cuts[i] = Len(Meant[reader][i])
               \/ reader = "BobSetup" /\ i = 2
      PROVE  Whole(d, reader)
  <2>1. /\ d = Copies(bytes, cuts) /\ DOMAIN d.parts = 1..(Len(cuts) - 1)
        /\ \A i \in 1..(Len(cuts) - 1) : /\ Len(d.parts[i]) = cuts[i + 1] - cuts[i]
                                         /\ ToSet(d.parts[i]) \subseteq ToSet(bytes)
    BY <1>6, FieldsInside
  <2>2. QED
    BY <1>5, <1>6, <2>1
<1> HIDE DEF Whole
<1>7. CASE reader = "BobSetup"
  <2> DEFINE cuts == <<1, 1 + WordLen, Len(bytes)>>
  <2>1. decoded = IF Len(bytes) < 1 + WordLen THEN Refused ELSE Fields(bytes, cuts)
    BY <1>3, <1>7 DEF Read, ReadBobSetup
  <2>2. cuts \in Seq(Nat) /\ Len(cuts) = 3
    BY <1>3, <1>4
  <2>3. ~(Len(bytes) < 1 + WordLen) => Inside(bytes, cuts)
    BY <1>3, <1>4 DEF Inside
  <2>4. Len(Meant["BobSetup"][1]) = WordLen
    BY <1>4 DEF Meant
  <2>5. cuts[1 + 1] - cuts[1] = WordLen
    BY <1>4
  <2> HIDE DEF cuts
  <2>6. \A i \in 1..(Len(cuts) - 1) : \/ cuts[i + 1] - cuts[i] = Len(Meant[reader][i])
                                      \/ reader = "BobSetup" /\ i = 2
    <3>1. \A i \in 1..(Len(cuts) - 1) : i = 1 \/ i = 2
      BY <2>2
    <3>2. QED
      BY <1>7, <2>4, <2>5, <3>1
  <2>7. QED
    BY <1>2, <1>6, <2>1, <2>3, <2>6
<1>8. CASE reader = "COTSetup"
  <2> DEFINE cuts == <<1, 1 + WordLen, 1 + WordLen + PointsLen>>
  <2>1. decoded = IF Len(bytes) < 1 + WordLen + PointsLen THEN Refused ELSE Fields(bytes, cuts)
    BY <1>3, <1>8 DEF Read, ReadCOTSetup
  <2>2. cuts \in Seq(Nat) /\ Len(cuts) = 3
    BY <1>4
  <2>3. ~(Len(bytes) < 1 + WordLen + PointsLen) => Inside(bytes, cuts)
    BY <1>3, <1>4 DEF Inside
  <2>4. Len(Meant["COTSetup"][1]) = WordLen /\ Len(Meant["COTSetup"][2]) = PointsLen
    BY <1>4 DEF Meant
  <2>5. cuts[1 + 1] - cuts[1] = WordLen /\ cuts[2 + 1] - cuts[2] = PointsLen
    BY <1>4
  <2> HIDE DEF cuts
  <2>6. \A i \in 1..(Len(cuts) - 1) : cuts[i + 1] - cuts[i] = Len(Meant[reader][i])
    <3>1. \A i \in 1..(Len(cuts) - 1) : i = 1 \/ i = 2
      BY <2>2
    <3>2. QED
      BY <1>8, <2>4, <2>5, <3>1
  <2>7. QED
    BY <1>2, <1>6, <2>1, <2>3, <2>6
<1>9. CASE reader = "AliceMessages"
  <2> DEFINE cuts == WithWord
  <2>1. decoded = IF Len(bytes) < 1 + WordLen + PointsLen + 2 * SharesLen THEN Refused
                  ELSE Fields(bytes, cuts)
    BY <1>3, <1>9 DEF Read, ReadAliceMessages
  <2>2. cuts \in Seq(Nat) /\ Len(cuts) = 5
    BY <1>4 DEF WithWord
  <2>3. ~(Len(bytes) < 1 + WordLen + PointsLen + 2 * SharesLen) => Inside(bytes, cuts)
    BY <1>3, <1>4 DEF Inside, WithWord
  <2>4. /\ Len(Meant["AliceMessages"][1]) = WordLen /\ Len(Meant["AliceMessages"][2]) = PointsLen
        /\ Len(Meant["AliceMessages"][3]) = SharesLen /\ Len(Meant["AliceMessages"][4]) = SharesLen
    BY <1>4 DEF Meant
  <2>5. /\ cuts[1 + 1] - cuts[1] = WordLen /\ cuts[2 + 1] - cuts[2] = PointsLen
        /\ cuts[3 + 1] - cuts[3] = SharesLen /\ cuts[4 + 1] - cuts[4] = SharesLen
    BY <1>4 DEF WithWord
  <2> HIDE DEF cuts
  <2>6. \A i \in 1..(Len(cuts) - 1) : cuts[i + 1] - cuts[i] = Len(Meant[reader][i])
    <3>1. \A i \in 1..(Len(cuts) - 1) : i = 1 \/ i = 2 \/ i = 3 \/ i = 4
      BY <2>2
    <3>2. QED
      BY <1>9, <2>4, <2>5, <3>1
  <2>7. QED
    BY <1>2, <1>6, <2>1, <2>3, <2>6
<1>10. CASE reader = "COTMessages"
  <2> DEFINE cuts == NoWord
  <2>1. decoded = IF Len(bytes) < 1 + PointsLen + 2 * SharesLen THEN Refused ELSE Copies(bytes, cuts)
    BY <1>3, <1>10 DEF Read, ReadCOTMessages
  <2>2. cuts \in Seq(Nat) /\ Len(cuts) = 4
    BY <1>4 DEF NoWord
  <2>3. ~(Len(bytes) < 1 + PointsLen + 2 * SharesLen) => Inside(bytes, cuts)
    BY <1>3, <1>4 DEF Inside, NoWord
  <2>4. /\ Len(Meant["COTMessages"][1]) = PointsLen /\ Len(Meant["COTMessages"][2]) = SharesLen
        /\ Len(Meant["COTMessages"][3]) = SharesLen
    BY <1>4 DEF Meant
  <2>5. /\ cuts[1 + 1] - cuts[1] = PointsLen /\ cuts[2 + 1] - cuts[2] = SharesLen
        /\ cuts[3 + 1] - cuts[3] = SharesLen
    BY <1>4 DEF NoWord
  <2> HIDE DEF cuts
  <2>6. \A i \in 1..(Len(cuts) - 1) : cuts[i + 1] - cuts[i] = Len(Meant[reader][i])
    <3>1. \A i \in 1..(Len(cuts) - 1) : i = 1 \/ i = 2 \/ i = 3
      BY <2>2
    <3>2. QED
      BY <1>10, <2>4, <2>5, <3>1
  <2>7. QED
    BY <1>2, <1>6, <2>1, <2>3, <2>6
<1>11. CASE reader \in {"BobMessages", "MTAResult"}
  <2> DEFINE cuts == <<1, 1 + WordLen>>
  <2>1. decoded = IF Len(bytes) # 1 + WordLen THEN Refused ELSE Fields(bytes, cuts)
    BY <1>3, <1>11 DEF Read, ReadBobMessages, ReadMTAResult
  <2>2. cuts \in Seq(Nat) /\ Len(cuts) = 2
    BY <1>4
  <2>3. ~(Len(bytes) # 1 + WordLen) => Inside(bytes, cuts)
    BY <1>3, <1>4 DEF Inside
  <2>4. Len(Meant["BobMessages"][1]) = WordLen /\ Len(Meant["MTAResult"][1]) = WordLen
    BY <1>4 DEF Meant
  <2>5. cuts[1 + 1] - cuts[1] = WordLen
    BY <1>4
  <2> HIDE DEF cuts
  <2>6. \A i \in 1..(Len(cuts) - 1) : cuts[i + 1] - cuts[i] = Len(Meant[reader][i])
    <3>1. \A i \in 1..(Len(cuts) - 1) : i = 1
      BY <2>2
    <3>2. QED
      BY <1>11, <2>4, <2>5, <3>1
  <2>7. QED
    BY <1>2, <1>6, <2>1, <2>3, <2>6
<1>12. QED
  BY <1>1, <1>3, <1>7, <1>8, <1>9, <1>10, <1>11, Names

\* The longer layout passes for the shorter, not the other way.
LEMMA MixedUp == IInv => MessagesMixedUpOneWay
<1>1. ASSUME IInv, written = "AliceMessages", reader = "COTMessages", decoded.success
      PROVE  bytes[2] \in ToSet(decoded.parts[1])
  <2>1. decoded = Read(reader, bytes) /\ bytes \in Seq(Written) /\ Len(bytes) \in Nat
    BY <1>1, AfterRead
  <2>2. WordLen \in Nat /\ PointsLen \in Nat \ {0} /\ SharesLen \in Nat
    BY PartFacts
  <2>3. decoded = ReadCOTMessages(bytes)
    BY <1>1, <2>1 DEF Read
  <2>4. ~(Len(bytes) < 1 + PointsLen + 2 * SharesLen)
    BY <1>1, <2>3 DEF ReadCOTMessages, Refused
  <2>5. decoded.parts = [i \in 1..(Len(NoWord) - 1) |-> Copy(bytes, NoWord[i], NoWord[i + 1])]
    BY <2>3, <2>4 DEF ReadCOTMessages, Copies
  <2>6. Len(NoWord) = 4 /\ NoWord[1] = 1 /\ NoWord[2] = 1 + PointsLen
    BY DEF NoWord
  <2>7. decoded.parts[1] = Copy(bytes, 1, 1 + PointsLen)
    BY <2>5, <2>6
  <2> DEFINE t == Copy(bytes, 1, 1 + PointsLen)
  <2>8. 1 \in DOMAIN t /\ t[1] = bytes[2]
    <3>1. (1 + PointsLen) - 1 = PointsLen /\ 1 \in 1..PointsLen /\ 1 + 1 <= Len(bytes) /\ 1 + 1 = 2
      BY <2>1, <2>2, <2>4
    <3>2. QED
      BY <3>1 DEF Copy
  <2> HIDE DEF t
  <2>9. bytes[2] \in ToSet(t)
    BY <2>8 DEF ToSet
  <2>10. QED
    BY <2>7, <2>9 DEF t
<1>2. ASSUME IInv, written = "COTMessages", reader = "AliceMessages" PROVE ~decoded.success
  <2>1. /\ decoded = Read(reader, bytes) /\ Len(bytes) \in Nat
        /\ Len(bytes) <= Len(Writers["COTMessages"])
    BY <1>2, AfterRead
  <2>2. WordLen = 4 /\ PointsLen \in Nat /\ SharesLen \in Nat
    BY PartFacts
  <2>3. Len(bytes) < 1 + WordLen + PointsLen + 2 * SharesLen
    BY <2>1, <2>2, WriterLengths
  <2>4. decoded = Refused
    BY <1>2, <2>1, <2>3 DEF Read, ReadAliceMessages
  <2>5. QED
    BY <2>4 DEF Refused
<1>3. QED
  BY <1>1, <1>2 DEF MessagesMixedUpOneWay

\* Every reader answers with a success that is true or false.
LEMMA ReadTyped ==
  ASSUME NEW r \in DOMAIN Layout, NEW b
  PROVE  Read(r, b).success \in BOOLEAN
<1>1. Refused.success \in BOOLEAN
  BY DEF Refused
<1>2. ASSUME NEW cuts
      PROVE  /\ Fields(b, cuts).success \in BOOLEAN /\ Copies(b, cuts).success \in BOOLEAN
             /\ [Copies(b, cuts) EXCEPT !.success = TRUE].success \in BOOLEAN
  BY DEF Fields, Copies
<1>3. Read(r, b) \in {ReadBobSetup(b), ReadCOTSetup(b), ReadAliceMessages(b),
                      ReadAliceMessagesOfBob(b), ReadCOTMessages(b), ReadBobMessages(b),
                      ReadMTAResult(b)}
  BY Names DEF Read
<1>4. QED
  BY <1>1, <1>2, <1>3 DEF ReadBobSetup, ReadCOTSetup, ReadAliceMessages, ReadAliceMessagesOfBob,
                          ReadCOTMessages, ReadBobMessages, ReadMTAResult

LegacyTypeOK ==
  /\ written \in DOMAIN Writers \cup {"none"} /\ reader \in DOMAIN Layout \cup {"none"}
  /\ decoded.success \in BOOLEAN

\* The steps of the layouts keep their side.
LEMMA LegacyStep ==
  ASSUME LegacyTypeOK, LegacyFaithful, LegacyNext
  PROVE  LegacyTypeOK' /\ LegacyFaithful'
<1>0. "none" \notin DOMAIN Writers /\ "none" \notin DOMAIN Layout
  BY Names
<1>1. CASE Write
  <2>1. reader = "none" /\ reader' = "none" /\ decoded' = decoded /\ written' \in DOMAIN Writers
        /\ \E n \in 0..Len(Writers[written']) : bytes' = SubSeq(Writers[written'], 1, n)
    BY <1>1 DEF Write, LegacyFaithful
  <2>2. decoded = Refused
    BY <2>1 DEF LegacyFaithful
  <2>3. QED
    BY <1>0, <2>1, <2>2 DEF LegacyTypeOK, LegacyFaithful
<1>2. CASE ReadBack
  <2>1. written # "none" /\ reader' \in DOMAIN Layout /\ decoded' = Read(reader', bytes)
        /\ written' = written /\ bytes' = bytes
    BY <1>2 DEF ReadBack
  <2>2. decoded'.success \in BOOLEAN
    BY <2>1, ReadTyped
  <2>3. QED
    BY <1>0, <2>1, <2>2 DEF LegacyTypeOK, LegacyFaithful
<1>3. QED
  BY <1>1, <1>2 DEF LegacyNext

-----------------------------------------------------------------------------
(* Bob's frames. *)

\* Where the bytes of part i lie when parts of p bytes are glued together.
LEMMA PlaceInside ==
  ASSUME NEW p \in Nat, NEW m \in Nat, NEW i \in 1..m, NEW k \in 1..p
  PROVE  (i - 1) * p + k \in 1..(m * p)
<1>1. i - 1 \in Nat /\ m - i \in Nat /\ k >= 1 /\ k <= p
  OBVIOUS
<1>2. (i - 1) * p \in Nat /\ (m - i) * p \in Nat /\ m * p \in Nat
  BY <1>1
<1>3. m * p = ((i - 1) * p + p) + (m - i) * p
  <2>1. m = ((i - 1) + 1) + (m - i)
    BY <1>1
  <2>2. (((i - 1) + 1) + (m - i)) * p = ((i - 1) * p + p) + (m - i) * p
    BY <1>1
  <2>3. QED
    BY <2>1, <2>2
<1> DEFINE a == (i - 1) * p
           b == (m - i) * p
           c == m * p
<1>4. a \in Nat /\ b \in Nat /\ c \in Nat /\ c = (a + p) + b
  BY <1>2, <1>3
<1> HIDE DEF a, b, c
<1>5. a + k \in 1..c
  BY <1>1, <1>4
<1>6. QED
  BY <1>5 DEF a, c

\* All the parts up to one glued together, and where their bytes lie.
Flat(S, s, p, m, f) ==
  /\ f \in Seq(S) /\ Len(f) = m * p
  /\ \A i \in 1..m, k \in 1..p : f[(i - 1) * p + k] = s[i][k]

\* One more part of p elements behind those glued so far.
LEMMA OneMorePart ==
  ASSUME NEW S, NEW s, NEW p \in Nat, NEW m \in Nat, NEW f, Flat(S, s, p, m, f),
         s[m + 1] \in Seq(S), Len(s[m + 1]) = p
  PROVE  Flat(S, s, p, m + 1, f \o s[m + 1])
<1> DEFINE t == s[m + 1]
           g == f \o t
<1>1. f \in Seq(S) /\ Len(f) = m * p /\ t \in Seq(S) /\ Len(t) = p
      /\ \A i \in 1..m, k \in 1..p : f[(i - 1) * p + k] = s[i][k]
  BY DEF Flat
<1>2. /\ g \in Seq(S) /\ Len(g) = Len(f) + Len(t)
      /\ \A k \in 1..(Len(f) + Len(t)) : g[k] = IF k <= Len(f) THEN f[k] ELSE t[k - Len(f)]
  <2> HIDE DEF t
  <2>1. f \in Seq(S) /\ t \in Seq(S)
    BY <1>1
  <2>2. QED
    BY <2>1, ConcatProperties
<1> HIDE DEF g
<1> DEFINE mp == m * p
           np == (m + 1) * p
<1>3. mp \in Nat /\ np = mp + p
  OBVIOUS
<1>4. Len(g) = np /\ \A k \in 1..np : g[k] = IF k <= mp THEN f[k] ELSE t[k - mp]
  BY <1>1, <1>2, <1>3
<1>5. ASSUME NEW i \in 1..(m + 1), NEW k \in 1..p
      PROVE  g[(i - 1) * p + k] = s[i][k]
  <2> DEFINE j == (i - 1) * p + k
  <2>1. CASE i = m + 1
    <3>1. j = mp + k
      <4>1. i - 1 = m
        BY <2>1
      <4> QED BY <4>1
    <3> HIDE DEF j, mp, np, t
    <3>2. j \in 1..np /\ ~(j <= mp) /\ j - mp = k
      BY <1>3, <3>1
    <3>3. g[j] = t[k]
      BY <1>4, <3>2
    <3>4. QED
      BY <2>1, <3>3 DEF j, t
  <2>2. CASE i # m + 1
    <3>1. i \in 1..m
      BY <2>2
    <3>2. j \in 1..mp
      BY <3>1, PlaceInside
    <3>3. f[j] = s[i][k]
      BY <1>1, <3>1
    <3> HIDE DEF j, mp, np, t
    <3>4. j \in 1..np /\ j <= mp
      BY <1>3, <3>2
    <3>5. g[j] = f[j]
      BY <1>4, <3>4
    <3>6. QED
      BY <3>3, <3>5 DEF j
  <2>3. QED
    BY <2>1, <2>2
<1>6. Flat(S, s, p, m + 1, g)
  BY <1>2, <1>4, <1>5 DEF Flat
<1>7. QED
  BY <1>6 DEF g

\* FlattenSeq glues parts of one length.
LEMMA Flattened ==
  ASSUME NEW S, NEW n \in Nat \ {0}, NEW p \in Nat, NEW s \in Seq(Seq(S)), Len(s) = n,
         \A i \in 1..n : Len(s[i]) = p
  PROVE  Flat(S, s, p, n, FlattenSeq(s))
<1> DEFINE D == Seq(S)
           c == s[1]
           t == [i \in Nat |-> [w \in D |-> IF i + 1 \in 1..n THEN w \o s[i + 1] ELSE w]]
           F == CHOOSE f : f = [i \in 1..Len(s) |-> IF i = 1 THEN s[i] ELSE f[i - 1] \o s[i]]
<1>1. \A i \in 1..n : s[i] \in D
  BY LenProperties
<1>2. c \in D /\ n - 1 \in Nat
  BY <1>1
<1>3. t \in [Nat -> [D -> D]]
  <2>1. ASSUME NEW i \in Nat, NEW w \in D
        PROVE  (IF i + 1 \in 1..n THEN w \o s[i + 1] ELSE w) \in D
    <3>1. CASE i + 1 \in 1..n
      <4>1. s[i + 1] \in Seq(S) /\ w \in Seq(S)
        BY <1>1, <3>1
      <4>2. w \o s[i + 1] \in Seq(S)
        BY <4>1, ConcatProperties
      <4> QED BY <3>1, <4>2
    <3>2. QED
      BY <3>1
  <2> HIDE DEF D
  <2>2. QED
    BY <2>1
<1>4. StepByStep(D, c, t, n - 1)
  <2> HIDE DEF D, c, t
  <2> QED BY <1>2, <1>3, Iterates
<1>5. PICK g \in [0..(n - 1) -> D] :
        \A i \in 0..(n - 1) : g[i] = IF i = 0 THEN c ELSE t[i][g[i - 1]]
  <2> HIDE DEF D, c, t
  <2> QED BY <1>4 DEF StepByStep
<1> DEFINE h == [i \in 1..n |-> g[i - 1]]
<1>6. ASSUME NEW i \in 1..n
      PROVE  h[i] = IF i = 1 THEN s[i] ELSE h[i - 1] \o s[i]
  <2>1. CASE i = 1
    <3>1. 0 \in 0..(n - 1) /\ i - 1 = 0
      BY <2>1
    <3>2. g[0] = c
      BY <1>5, <3>1
    <3>3. QED
      BY <2>1, <3>1, <3>2
  <2>2. CASE i # 1
    <3>1. i - 1 \in 0..(n - 1) /\ i - 1 # 0 /\ i - 1 \in Nat /\ (i - 1) - 1 \in 0..(n - 1)
          /\ i - 1 \in 1..n /\ (i - 1) + 1 = i
      BY <2>2
    <3>2. g[i - 1] = t[i - 1][g[(i - 1) - 1]] /\ g[(i - 1) - 1] \in D
      <4> HIDE DEF t, c, D
      <4> QED BY <1>5, <3>1
    <3>3. t[i - 1][g[(i - 1) - 1]] = g[(i - 1) - 1] \o s[i]
      <4> DEFINE v == g[(i - 1) - 1]
      <4>1. v \in D
        BY <3>2
      <4> HIDE DEF v, D
      <4>2. t[i - 1][v] = IF (i - 1) + 1 \in 1..n THEN v \o s[(i - 1) + 1] ELSE v
        BY <3>1, <4>1
      <4>3. t[i - 1][v] = v \o s[i]
        <5> HIDE DEF t
        <5> QED BY <3>1, <4>2
      <4>4. QED
        BY <4>3 DEF v
    <3>4. h[i] = g[i - 1] /\ h[i - 1] = g[(i - 1) - 1]
      BY <3>1
    <3> HIDE DEF h, t
    <3>5. QED
      BY <2>2, <3>2, <3>3, <3>4
  <2>3. QED
    BY <2>1, <2>2
<1>7. h = [i \in 1..Len(s) |-> IF i = 1 THEN s[i] ELSE h[i - 1] \o s[i]]
  <2>1. h = [i \in 1..n |-> h[i]]
    OBVIOUS
  <2> HIDE DEF h
  <2>2. QED
    BY <1>6, <2>1
<1> HIDE DEF h, t, c
<1>8. F = [i \in 1..Len(s) |-> IF i = 1 THEN s[i] ELSE F[i - 1] \o s[i]]
  BY <1>7
<1>9. FlattenSeq(s) = F[n]
  <2>1. ~(Len(s) = 0)
    OBVIOUS
  <2>2. FlattenSeq(s) = F[Len(s)]
    BY <2>1 DEF FlattenSeq
  <2>3. QED
    BY <2>2
<1> HIDE DEF F
<1>10. \A i \in 1..n : F[i] = IF i = 1 THEN s[i] ELSE F[i - 1] \o s[i]
  BY <1>8, Zenon
<1> DEFINE T == {m \in Nat : m + 1 <= n => Flat(S, s, p, m + 1, F[m + 1])}
<1>11. 0 \in T
  <2>1. 1 \in 1..n /\ F[1] = s[1]
    BY <1>10
  <2>2. Flat(S, s, p, 0, <<>>)
    <3>1. <<>> \in Seq(S) /\ Len(<<>>) = 0 * p
      OBVIOUS
    <3>2. QED
      BY <3>1 DEF Flat
  <2>3. s[0 + 1] \in Seq(S) /\ Len(s[0 + 1]) = p
    BY <1>1, <2>1
  <2>4. Flat(S, s, p, 0 + 1, <<>> \o s[0 + 1])
    BY <2>2, <2>3, OneMorePart
  <2>5. <<>> \o s[0 + 1] = s[1]
    <3>1. s[0 + 1] = s[1]
      OBVIOUS
    <3>2. s[1] \in Seq(S)
      BY <2>3, <3>1
    <3>3. <<>> \o s[1] = s[1]
      BY <3>2, ConcatEmptySeq
    <3>4. QED
      BY <3>1, <3>3
  <2>6. QED
    BY <2>1, <2>4, <2>5
<1>12. ASSUME NEW m \in T PROVE m + 1 \in T
  <2>1. SUFFICES ASSUME (m + 1) + 1 <= n PROVE Flat(S, s, p, (m + 1) + 1, F[(m + 1) + 1])
    OBVIOUS
  <2>2. m \in Nat /\ m + 1 \in Nat /\ m + 1 <= n /\ (m + 1) + 1 \in 1..n /\ (m + 1) + 1 # 1
        /\ ((m + 1) + 1) - 1 = m + 1
    BY <2>1
  <2>3. Flat(S, s, p, m + 1, F[m + 1])
    BY <2>2
  <2>4. F[(m + 1) + 1] = F[m + 1] \o s[(m + 1) + 1]
    BY <1>10, <2>2
  <2>5. s[(m + 1) + 1] \in Seq(S) /\ Len(s[(m + 1) + 1]) = p
    BY <1>1, <2>2
  <2>6. Flat(S, s, p, (m + 1) + 1, F[m + 1] \o s[(m + 1) + 1])
    BY <2>2, <2>3, <2>5, OneMorePart
  <2>7. QED
    BY <2>4, <2>6
<1>13. T = Nat
  <2> HIDE DEF T
  <2>1. T \in SUBSET Nat
    BY DEF T
  <2> QED BY <1>11, <1>12, <2>1, Inductive
<1>14. Flat(S, s, p, n, F[n])
  <2>1. n - 1 \in Nat /\ (n - 1) + 1 = n
    BY <1>2
  <2>2. n - 1 \in T
    <3> HIDE DEF T
    <3> QED BY <1>13, <2>1
  <2>3. (n - 1) + 1 <= n => Flat(S, s, p, (n - 1) + 1, F[(n - 1) + 1])
    BY <2>2
  <2>4. QED
    BY <2>1, <2>3
<1>15. QED
  BY <1>9, <1>14

\* n parts of p elements of S.
Parts(S, s, n, p) ==
  /\ n \in Nat \ {0} /\ p \in Nat \ {0} /\ s \in Seq(Seq(S)) /\ Len(s) = n
  /\ \A i \in 1..n : Len(s[i]) = p

\* The parts Bob cuts his one vector into, and Alice hers: those it was glued from.
LEMMA SplitBack ==
  ASSUME NEW S, NEW s, NEW n, NEW p, Parts(S, s, n, p)
  PROVE  Len(FlattenSeq(s)) = n * p /\ SplitIntoByteVectors(FlattenSeq(s), p) = s
<1> DEFINE f == FlattenSeq(s)
<1>0. /\ n \in Nat \ {0} /\ p \in Nat \ {0} /\ s \in Seq(Seq(S)) /\ Len(s) = n
      /\ \A i \in 1..n : Len(s[i]) = p
  BY DEF Parts
<1> USE <1>0
<1>1. f \in Seq(S) /\ Len(f) = n * p /\ \A i \in 1..n, k \in 1..p : f[(i - 1) * p + k] = s[i][k]
  <2>1. Flat(S, s, p, n, FlattenSeq(s))
    BY Flattened
  <2>2. QED
    BY <2>1 DEF Flat
<1> HIDE DEF f
<1>2. n * p \in Nat /\ n * p = p * n
  OBVIOUS
<1>3. (Len(f) + p - 1) \div p = n
  <2> DEFINE a == n * p
             b == (a + p) - 1
  <2>0. a \in Nat /\ p \in Nat /\ p >= 1
    BY <1>2
  <2>1. b \in Nat /\ b = a + (p - 1) /\ p - 1 \in 0..(p - 1)
    <3> HIDE <1>0 DEF a
    <3> QED BY <2>0
  <2>2. b = p * n + (p - 1)
    BY <1>2, <2>1
  <2>3. b \div p = n
    <3> HIDE DEF a, b
    <3> QED BY <2>1, <2>2, Quotient
  <2>4. Len(f) + p - 1 = b
    BY <1>1
  <2>5. QED
    <3> HIDE DEF b
    <3> QED BY <2>3, <2>4
<1>4. ASSUME NEW i \in 1..n
      PROVE  SubSeq(f, (i - 1) * p + 1, Min({i * p, Len(f)})) = s[i]
  <2> DEFINE a == (i - 1) * p
             c == i * p
             e == n * p
  <2>1. a \in Nat /\ c \in Nat /\ c = a + p /\ e \in Nat
    <3>1. i - 1 \in Nat /\ i \in Nat /\ i = (i - 1) + 1
      OBVIOUS
    <3>2. ((i - 1) + 1) * p = (i - 1) * p + p
      BY <3>1
    <3>3. i * p = (i - 1) * p + p
      BY <3>1, <3>2
    <3>4. (i - 1) * p \in Nat /\ i * p \in Nat
      BY <3>1
    <3> QED BY <1>2, <3>3, <3>4
  <2>2. c <= e
    <3>1. (i - 1) * p + p \in 1..(n * p)
      BY PlaceInside
    <3> QED BY <2>1, <3>1
  <2>3. Len(f) = e /\ Min({c, Len(f)}) = c
    <3>1. Len(f) = e
      BY <1>1
    <3> HIDE DEF c, e
    <3> QED BY <2>1, <2>2, <3>1, MinOfTwo
  <2> DEFINE q == SubSeq(f, a + 1, c)
  <2>4. \A k \in 1..p : f[a + k] = s[i][k]
    BY <1>1
  <2>5. s[i] \in Seq(S) /\ Len(s[i]) = p
    BY LenProperties
  <2> HIDE DEF a, c, e
  <2>6. \A k \in (a + 1)..c : f[k] \in S
    <3>1. \A k \in 1..e : f[k] \in S
      <4>1. f \in Seq(S) /\ Len(f) = e
        BY <1>1, <2>3
      <4> QED BY <4>1, LenProperties
    <3>2. \A k \in (a + 1)..c : k \in 1..e
      BY <2>1, <2>2
    <3> QED BY <3>1, <3>2
  <2>7. q = [k \in 1..(c - (a + 1) + 1) |-> f[(a + 1) + k - 1]]
    BY <1>1, <2>1, <2>2, <2>3
  <2>8. c - (a + 1) + 1 = p /\ \A k \in 1..p : (a + 1) + k - 1 = a + k
    BY <2>1
  <2>9. q = [k \in 1..p |-> s[i][k]]
    <3> HIDE DEF q
    <3> QED BY <2>4, <2>7, <2>8
  <2>10. s[i] = [k \in 1..p |-> s[i][k]]
    BY <2>5
  <2>11. q = s[i]
    <3> HIDE DEF q
    <3> QED BY <2>9, <2>10
  <2>12. QED
    BY <2>3, <2>11 DEF a, c
<1>5. SplitIntoByteVectors(f, p) = [i \in 1..n |-> s[i]]
  BY <1>3, <1>4 DEF SplitIntoByteVectors
<1>6. s = [i \in 1..n |-> s[i]]
  OBVIOUS
<1>7. SplitIntoByteVectors(f, p) = s
  BY <1>5, <1>6
<1>8. QED
  BY <1>1, <1>7 DEF f

\* No two fields of a message share a name in camel case.
LEMMA NamesDiffer ==
  ASSUME NEW type \in {"BobSetup", "BobMessages"}, NEW f \in FieldsOf[type], NEW g \in FieldsOf[type],
         Camel[f] = Camel[g]
  PROVE  f = g
<1>1. CASE type = "BobSetup"
  <2>1. FieldsOf[type] = {"success", "ot_messages", "public_key", "num_ot_instances"}
    BY <1>1 DEF FieldsOf
  <2>2. QED
    BY <2>1 DEF Camel
<1>2. CASE type = "BobMessages"
  <2>1. FieldsOf[type] = {"success", "ot_responses", "encrypted_result", "correlation_check",
                          "masked_share"}
    BY <1>2 DEF FieldsOf
  <2>2. QED
    BY <2>1 DEF Camel
<1>3. QED
  BY <1>1, <1>2

\* Every field that is listed comes under its name in camel case with the value it had, left out or not.
LEMMA FieldsCome ==
  ASSUME NEW type \in {"BobSetup", "BobMessages"}, NEW message
  PROVE  /\ DOMAIN ToObject(type, Encode(type, message)) = {Camel[f] : f \in FieldsOf[type]}
         /\ \A f \in Descriptor[type] : ToObject(type, Encode(type, message))[Camel[f]] = message[f]
<1> DEFINE e == Encode(type, message)
           o == ToObject(type, e)
           Field(camel) == CHOOSE f \in FieldsOf[type] : Camel[f] = camel
           Value(f) == IF f \in DOMAIN e THEN e[f] ELSE Default[f]
<1>1. o = [camel \in {Camel[f] : f \in FieldsOf[type]} |-> Value(Field(camel))]
  BY DEF ToObject
<1>2. ASSUME NEW f \in FieldsOf[type] PROVE Field(Camel[f]) = f
  <2> DEFINE g == Field(Camel[f])
  <2>1. g \in FieldsOf[type] /\ Camel[g] = Camel[f]
    OBVIOUS
  <2> HIDE DEF g
  <2>2. g = f
    BY <2>1, NamesDiffer
  <2>3. QED
    BY <2>2 DEF g
<1>3. ASSUME NEW f \in Descriptor[type] PROVE Value(f) = message[f]
  <2>1. e = [h \in {g \in Descriptor[type] : message[g] # Default[g]} |-> message[h]]
    BY DEF Encode
  <2> HIDE DEF e
  <2>2. CASE message[f] # Default[f]
    BY <2>1, <2>2
  <2>3. CASE message[f] = Default[f]
    BY <2>1, <2>3
  <2>4. QED
    BY <2>2, <2>3
<1> HIDE DEF o, Field, Value
<1>4. DOMAIN o = {Camel[f] : f \in FieldsOf[type]}
  BY <1>1
<1>5. ASSUME NEW f \in Descriptor[type] PROVE o[Camel[f]] = message[f]
  <2>0. f \in FieldsOf[type]
    BY DEF Descriptor, FieldsOf
  <2>1. o[Camel[f]] = Value(Field(Camel[f]))
    BY <1>1, <2>0
  <2>2. QED
    BY <1>2, <1>3, <2>0, <2>1
<1>6. QED
  BY <1>4, <1>5 DEF o

\* Whatever the masked share was, Alice is handed the same.
LEMMA NothingOfTheShare ==
  ASSUME NEW masked
  PROVE  Internal(DeserializeBobMessages(Encode("BobMessages", BobMessages(masked))))
           = [success |-> TRUE, masked_share |-> "undefined"]
<1> DEFINE message == BobMessages(masked)
           o == ToObject("BobMessages", Encode("BobMessages", message))
<1>1. message["success"] = TRUE
  BY DEF BobMessages
<1>2. o["success"] = TRUE /\ "success" \in DOMAIN o
  <2>1. /\ Camel["success"] = "success" /\ "success" \in FieldsOf["BobMessages"]
        /\ "success" \in Descriptor["BobMessages"]
    BY DEF Camel, FieldsOf, Descriptor
  <2> HIDE DEF message
  <2>2. /\ DOMAIN o = {Camel[f] : f \in FieldsOf["BobMessages"]}
        /\ \A f \in Descriptor["BobMessages"] : o[Camel[f]] = message[f]
    BY FieldsCome
  <2> HIDE DEF o
  <2>3. o[Camel["success"]] = message["success"] /\ Camel["success"] \in DOMAIN o
    BY <2>1, <2>2
  <2>4. QED
    BY <1>1, <2>1, <2>3
<1> DEFINE m == DeserializeBobMessages(Encode("BobMessages", message))
<1> HIDE DEF message
<1>3. m = [success          |-> Get(o, "success", FALSE),
           otResponses      |-> Get(o, "ot_responses", <<>>),
           encryptedResult  |-> Get(o, "encrypted_result", <<>>),
           correlationCheck |-> Get(o, "correlation_check", 0)]
  BY DEF DeserializeBobMessages
<1> HIDE DEF o, m
<1>4. m.success = TRUE
  BY <1>2, <1>3 DEF Get
<1>5. "masked_share" \notin DOMAIN m
  BY <1>3
<1>6. Internal(m) = [success |-> TRUE, masked_share |-> "undefined"]
  BY <1>4, <1>5 DEF Internal, Get
<1>7. QED
  BY <1>6 DEF m, message

\* Nor does a frame hold anything of it.
LEMMA SameFrame ==
  ASSUME NEW masked, NEW other
  PROVE  Encode("BobMessages", BobMessages(masked)) = Encode("BobMessages", BobMessages(other))
<1> DEFINE listed == Descriptor["BobMessages"]
           m == BobMessages(masked)
           n == BobMessages(other)
<1>1. \A f \in listed : m[f] = n[f]
  <2>1. listed = {"success", "ot_responses", "encrypted_result", "correlation_check"}
    BY DEF Descriptor
  <2>2. /\ m["success"] = n["success"] /\ m["ot_responses"] = n["ot_responses"]
        /\ m["encrypted_result"] = n["encrypted_result"]
        /\ m["correlation_check"] = n["correlation_check"]
    BY DEF BobMessages
  <2> HIDE DEF m, n, listed
  <2>3. QED
    BY <2>1, <2>2
<1> HIDE DEF m, n
<1>2. {g \in listed : m[g] # Default[g]} = {g \in listed : n[g] # Default[g]}
  BY <1>1
<1>3. [f \in {g \in listed : m[g] # Default[g]} |-> m[f]]
        = [f \in {g \in listed : n[g] # Default[g]} |-> n[f]]
  BY <1>1, <1>2
<1>4. QED
  BY <1>3 DEF Encode, m, n

\* So the share stays where it is.
LEMMA ShareUnsent == IInv => MaskedShareUnsent
<1>1. SUFFICES ASSUME IInv, bobSent = "BobMessages"
               PROVE  /\ \A masked \in MaskedShares : fields = Encode("BobMessages", BobMessages(masked))
                      /\ heard # <<>> => heard = [success |-> TRUE, masked_share |-> "undefined"]
  BY DEF MaskedShareUnsent
<1>2. PICK masked \in MaskedShares : fields = Encode("BobMessages", BobMessages(masked))
  BY <1>1 DEF IInv, BobFaithful
<1>3. \A other \in MaskedShares : fields = Encode("BobMessages", BobMessages(other))
  BY <1>2, SameFrame
<1>4. heard # <<>> => heard = Internal(DeserializeBobMessages(fields))
  BY <1>1 DEF IInv, BobFaithful
<1>5. heard # <<>> => heard = [success |-> TRUE, masked_share |-> "undefined"]
  BY <1>2, <1>4, NothingOfTheShare
<1>6. QED
  BY <1>3, <1>5

\* Bob cuts his vector into the points he drew.
LEMMA PointsCut ==
  ASSUME NEW drawn, drawn = [i \in 1..Instances |-> PointOf(i)]
  PROVE  /\ SplitIntoByteVectors(points_B, PointLen) = drawn
         /\ Len(FlattenSeq(drawn)) = Instances * PointLen
         /\ SplitIntoByteVectors(FlattenSeq(drawn), PointLen) = drawn
<1>1. Instances \in Nat \ {0} /\ PointLen \in Nat \ {0}
  BY BobCodecAssumption
<1>2. points_B = FlattenSeq(drawn)
  BY DEF points_B
<1> DEFINE Pairs == Nat \X Nat
<1>3. ASSUME NEW i \in 1..Instances
      PROVE  PointOf(i) \in Seq(Pairs) /\ Len(PointOf(i)) = PointLen
  <2>1. \A k \in 1..PointLen : <<i, k>> \in Pairs
    BY <1>1
  <2> HIDE DEF Pairs
  <2>2. PointOf(i) = [k \in 1..PointLen |-> <<i, k>>]
    BY DEF PointOf
  <2>3. QED
    BY <1>1, <2>1, <2>2
<1> HIDE DEF Pairs
<1>4. drawn \in Seq(Seq(Pairs)) /\ Len(drawn) = Instances
      /\ \A i \in 1..Instances : Len(drawn[i]) = PointLen
  BY <1>1, <1>3
<1>5. Parts(Pairs, drawn, Instances, PointLen)
  BY <1>1, <1>4 DEF Parts
<1>6. QED
  BY <1>2, <1>5, SplitBack

\* What Alice makes of a setup.
LEMMA SetupComes ==
  LET setup == Prepare(DeserializeBobSetup(Encode("BobSetup", BobSetup))) IN
    /\ setup.prepared /\ setup.choices = Instances
    /\ setup.points = [i \in 1..Instances |-> PointOf(i)]
<1> DEFINE drawn == [i \in 1..Instances |-> PointOf(i)]
           message == BobSetup
           o == ToObject("BobSetup", Encode("BobSetup", message))
<1>1. /\ message["success"] = TRUE
      /\ message["num_ot_instances"] = Instances
      /\ message["ot_messages"] = SplitIntoByteVectors(points_B, PointLen)
  BY DEF BobSetup
<1> HIDE DEF message
<1>2. /\ DOMAIN o = {Camel[f] : f \in FieldsOf["BobSetup"]}
      /\ \A f \in Descriptor["BobSetup"] : o[Camel[f]] = message[f]
  BY FieldsCome
<1>3. {"success", "ot_messages", "num_ot_instances"} \subseteq FieldsOf["BobSetup"]
      /\ {"success", "ot_messages", "num_ot_instances"} \subseteq Descriptor["BobSetup"]
      /\ Camel["success"] = "success" /\ Camel["ot_messages"] = "otMessages"
      /\ Camel["num_ot_instances"] = "numOtInstances"
  BY DEF Camel, FieldsOf, Descriptor
<1> HIDE DEF o
<1>4. /\ Get(o, "success", FALSE) = TRUE
      /\ Get(o, "otMessages", <<>>) = SplitIntoByteVectors(points_B, PointLen)
      /\ Get(o, "numOtInstances", 0) = Instances
  <2>1. /\ o["success"] = message["success"] /\ "success" \in DOMAIN o
        /\ o["otMessages"] = message["ot_messages"] /\ "otMessages" \in DOMAIN o
        /\ o["numOtInstances"] = message["num_ot_instances"] /\ "numOtInstances" \in DOMAIN o
    BY <1>2, <1>3
  <2>2. QED
    BY <1>1, <2>1 DEF Get
<1> DEFINE d == DeserializeBobSetup(Encode("BobSetup", message))
<1>5. d.success = TRUE /\ d.otMessages = SplitIntoByteVectors(points_B, PointLen)
      /\ d.numOtInstances = Instances
  <2>1. d = [success        |-> Get(o, "success", FALSE),
             otMessages     |-> Get(o, "otMessages", <<>>),
             publicKey      |-> Get(o, "publicKey", <<>>),
             numOtInstances |-> Get(o, "numOtInstances", 0)]
    BY DEF DeserializeBobSetup, o
  <2> HIDE DEF d
  <2>2. QED
    BY <1>4, <2>1
<1> HIDE DEF d, drawn
<1>6. /\ SplitIntoByteVectors(points_B, PointLen) = drawn
      /\ Len(FlattenSeq(drawn)) = Instances * PointLen
      /\ SplitIntoByteVectors(FlattenSeq(drawn), PointLen) = drawn
  BY PointsCut DEF drawn
<1>7. Prepare(d) = [prepared |-> TRUE, points |-> drawn, choices |-> Instances]
  BY <1>5, <1>6 DEF Prepare
<1>8. Prepare(d).prepared /\ Prepare(d).choices = Instances /\ Prepare(d).points = drawn
  BY <1>7
<1>9. d = DeserializeBobSetup(Encode("BobSetup", BobSetup))
  BY DEF d, message
<1>10. QED
  BY <1>8, <1>9 DEF drawn

\* And so of the one she has.
LEMMA SetupHeard == IInv => SetupArrives
<1>1. SUFFICES ASSUME IInv, bobSent = "BobSetup", heard # <<>>
               PROVE  /\ heard.prepared /\ heard.choices = Instances
                      /\ \A i \in 1..Instances : heard.points[i] = PointOf(i)
  BY DEF SetupArrives
<1>2. heard = Prepare(DeserializeBobSetup(Encode("BobSetup", BobSetup)))
  BY <1>1 DEF IInv, BobFaithful
<1>3. heard.prepared /\ heard.choices = Instances
      /\ heard.points = [i \in 1..Instances |-> PointOf(i)]
  BY <1>2, SetupComes
<1>4. QED
  BY <1>3

\* Bob's side of the type invariant.
BobTypeOK ==
  bobSent \in {"nothing", "BobSetup", "BobMessages"} /\ DOMAIN fields \subseteq DOMAIN Default

\* The steps of Bob's frames keep his side.
LEMMA BobStep ==
  ASSUME BobTypeOK, BobFaithful, BobNext
  PROVE  BobTypeOK' /\ BobFaithful'
<1>0. ASSUME NEW type \in {"BobSetup", "BobMessages"}, NEW message
      PROVE  DOMAIN Encode(type, message) \subseteq DOMAIN Default
  <2>1. Descriptor[type] \subseteq DOMAIN Default
    BY DEF Descriptor, Default
  <2>2. DOMAIN Encode(type, message) \subseteq Descriptor[type]
    BY DEF Encode
  <2>3. QED
    BY <2>1, <2>2
<1>1. CASE SendBobSetup
  <2>1. bobSent = "nothing" /\ heard = <<>> /\ heard' = heard
    BY <1>1 DEF SendBobSetup, BobFaithful
  <2>2. bobSent' = "BobSetup" /\ fields' = Encode("BobSetup", BobSetup)
    BY <1>1 DEF SendBobSetup
  <2>3. DOMAIN fields' \subseteq DOMAIN Default
    BY <1>0, <2>2
  <2>4. QED
    BY <2>1, <2>2, <2>3 DEF BobTypeOK, BobFaithful
<1>2. CASE SendBobMessages
  <2>1. bobSent = "nothing" /\ heard = <<>> /\ heard' = heard
    BY <1>2 DEF SendBobMessages, BobFaithful
  <2>2. bobSent' = "BobMessages"
    BY <1>2 DEF SendBobMessages
  <2>3. PICK masked \in MaskedShares : fields' = Encode("BobMessages", BobMessages(masked))
    BY <1>2 DEF SendBobMessages
  <2>4. DOMAIN fields' \subseteq DOMAIN Default
    BY <1>0, <2>3
  <2>5. QED
    BY <2>1, <2>2, <2>3, <2>4 DEF BobTypeOK, BobFaithful
<1>3. CASE ProcessBobSetup
  <2>1. bobSent = "BobSetup" /\ bobSent' = bobSent /\ fields' = fields
        /\ heard' = Prepare(DeserializeBobSetup(fields))
    BY <1>3 DEF ProcessBobSetup
  <2>2. QED
    BY <2>1 DEF BobTypeOK, BobFaithful
<1>4. CASE ProcessBobMessages
  <2>1. bobSent = "BobMessages" /\ bobSent' = bobSent /\ fields' = fields
        /\ heard' = Internal(DeserializeBobMessages(fields))
    BY <1>4 DEF ProcessBobMessages
  <2>2. QED
    BY <2>1 DEF BobTypeOK, BobFaithful
<1>5. QED
  BY <1>1, <1>2, <1>3, <1>4 DEF BobNext

-----------------------------------------------------------------------------
(* The theorems. *)

\* The parts of the invariant are the three sides'.
LEMMA Sides ==
  IInv <=> /\ AliceTypeOK /\ AliceFaithful
           /\ BobTypeOK /\ BobFaithful
           /\ LegacyTypeOK /\ LegacyFaithful
BY DEF IInv, TypeOK, BobTypeOK, LegacyTypeOK

\* A side that does not move keeps what holds of it.
LEMMA AliceRests ==
  ASSUME AliceTypeOK, AliceFaithful, UNCHANGED aliceVars
  PROVE  AliceTypeOK' /\ AliceFaithful'
BY DEF AliceTypeOK, AliceFaithful, aliceVars

\* The same of Bob's frames.
LEMMA BobRests ==
  ASSUME BobTypeOK, BobFaithful, UNCHANGED bobVars
  PROVE  BobTypeOK' /\ BobFaithful'
BY DEF BobTypeOK, BobFaithful, bobVars

\* The same of the layouts.
LEMMA LegacyRests ==
  ASSUME LegacyTypeOK, LegacyFaithful, UNCHANGED legacyVars
  PROVE  LegacyTypeOK' /\ LegacyFaithful'
BY DEF LegacyTypeOK, LegacyFaithful, legacyVars

(***************************************************************************)
(* Every message is what its sender's encoder made of it, and every thing  *)
(* that was read is what the reader's decoder makes of those bytes.        *)
(***************************************************************************)
LEMMA CodecInvariance == Spec => []IInv
<1>1. Init => IInv
  <2>1. Init => AliceTypeOK /\ AliceFaithful
    BY DEF Init, AliceInit, AliceTypeOK, AliceFaithful
  <2>2. Init => BobTypeOK /\ BobFaithful
    BY DEF Init, BobInit, BobTypeOK, BobFaithful
  <2>3. Init => LegacyTypeOK /\ LegacyFaithful
    BY Names DEF Init, LegacyInit, LegacyTypeOK, LegacyFaithful, Refused
  <2>4. QED
    BY <2>1, <2>2, <2>3, Sides
<1>2. IInv /\ [Next]_vars => IInv'
  <2> SUFFICES ASSUME IInv, [Next]_vars
               PROVE  /\ AliceTypeOK' /\ AliceFaithful'
                      /\ BobTypeOK' /\ BobFaithful'
                      /\ LegacyTypeOK' /\ LegacyFaithful'
    BY DEF IInv, TypeOK, BobTypeOK, LegacyTypeOK
  <2>0. /\ AliceTypeOK /\ AliceFaithful /\ BobTypeOK /\ BobFaithful
        /\ LegacyTypeOK /\ LegacyFaithful
    BY Sides
  <2>1. CASE AliceNext /\ UNCHANGED <<bobVars, legacyVars>>
    BY <2>0, <2>1, AliceStep, BobRests, LegacyRests
  <2>2. CASE BobNext /\ UNCHANGED <<aliceVars, legacyVars>>
    BY <2>0, <2>2, AliceRests, BobStep, LegacyRests
  <2>3. CASE LegacyNext /\ UNCHANGED <<aliceVars, bobVars>>
    BY <2>0, <2>3, AliceRests, BobRests, LegacyStep
  <2>4. CASE UNCHANGED vars
    BY <2>0, <2>4, AliceRests, BobRests, LegacyRests DEF vars
  <2>5. QED
    BY <2>1, <2>2, <2>3, <2>4 DEF Next
<1>3. QED
  BY <1>1, <1>2, PTL DEF Spec

\* Every frame is made of bytes, and every verdict and field is of its kind.
THEOREM CodecTypes == Spec => []TypeOK
<1>1. IInv => TypeOK
  BY DEF IInv
<1>2. QED
  BY <1>1, CodecInvariance, PTL

(***************************************************************************)
(* The server's size check tells Alice's two messages apart whenever the   *)
(* deltas fit into three groups, 21 bits: the code's have 20.              *)
(***************************************************************************)
THEOREM SizeTellsMessages ==
  ASSUME DeltaBits <= 3 * Group
  PROVE  Spec => []OnlyAliceMessagesAccepted
<1>1. IInv => OnlyAliceMessagesAccepted
  BY VerdictRight
<1>2. QED
  BY <1>1, CodecInvariance, PTL

(***************************************************************************)
(* The server reads the masked share Alice sent exactly if all its bits    *)
(* from bit 7 on are 1.                                                    *)
(***************************************************************************)
THEOREM LayoutsDisagree ==
  ASSUME DeltaBits <= 3 * Group
  PROVE  Spec => []LayoutsAgreeOnOnes
<1>1. IInv => LayoutsAgreeOnOnes
  BY AgreeRight
<1>2. QED
  BY <1>1, CodecInvariance, PTL

(***************************************************************************)
(* For any number of points of any length, those Bob drew are those Alice  *)
(* has after splitting, gluing and splitting again.                        *)
(***************************************************************************)
THEOREM EveryPointArrives == Spec => []SetupArrives
BY SetupHeard, CodecInvariance, PTL

\* For any set of shares, Bob's frame is the same whichever he computed.
THEOREM ShareNeverSent == Spec => []MaskedShareUnsent
BY ShareUnsent, CodecInvariance, PTL

(***************************************************************************)
(* For any size of points and shares, the layouts by hand are read back as *)
(* they were written, and a frame cut short is refused but by two readers. *)
(***************************************************************************)
THEOREM LayoutsReadBack == Spec => []ReadAsWritten
BY ReadsAsWritten, CodecInvariance, PTL

(***************************************************************************)
(* For any size of points and shares, a reader other than                  *)
(* MTAProtocol::deserializeAliceMessages hands on whole fields or nothing. *)
(***************************************************************************)
THEOREM NoFieldIsShort == Spec => []FieldsAreWhole
BY WholeFields, CodecInvariance, PTL

\* AliceMessages with a masked share pass for those without, never the other way.
THEOREM MixedUpOneWay == Spec => []MessagesMixedUpOneWay
BY MixedUp, CodecInvariance, PTL

=============================================================================
