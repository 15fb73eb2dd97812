--------------------------- MODULE TransferProofs ---------------------------
(***************************************************************************)
(* The properties of ObliviousTransfer, for every group and every scalar.  *)
(***************************************************************************)
EXTENDS ObliviousTransfer, Curve, NatLemmas

(***************************************************************************)
(* Algebra: what a transfer needs of the group, from the assumptions.      *)
(***************************************************************************)

\* A point added on both sides of an equation may be left out.
LEMMA Cancel ==
  ASSUME NEW P \in Point, NEW Q \in Point, NEW R \in Point, PointAdd(P, Q) = PointAdd(R, Q)
  PROVE  P = R
<1>1. CASE Q = Infinity
  BY <1>1, GroupAssumption
<1>2. CASE Q # Infinity
  <2>1. NegatePoint(Q) \in Point /\ PointAdd(Q, NegatePoint(Q)) = Infinity
    BY <1>2, GroupAssumption
  <2>2. PointAdd(PointAdd(P, Q), NegatePoint(Q)) = P
    BY <2>1, GroupAssumption
  <2>3. PointAdd(PointAdd(R, Q), NegatePoint(Q)) = R
    BY <2>1, GroupAssumption
  <2> QED
    BY <2>2, <2>3
<1> QED
  BY <1>1, <1>2

\* A difference is a point, and Q added to it gives P again.
LEMMA SubtractIsInverse ==
  ASSUME NEW P \in Point, NEW Q \in Point \ {Infinity}
  PROVE  /\ PointSubtract(P, Q) \in Point
         /\ PointAdd(PointSubtract(P, Q), Q) = P
<1>1. NegatePoint(Q) \in Point /\ PointAdd(NegatePoint(Q), Q) = Infinity
  BY GroupAssumption
<1>2. PointAdd(PointAdd(P, NegatePoint(Q)), Q) = PointAdd(P, PointAdd(NegatePoint(Q), Q))
  BY <1>1, GroupAssumption
<1> QED
  BY <1>1, <1>2, GroupAssumption DEF PointSubtract

\* encryptMessages takes away the A that Bob added for choice 1.
LEMMA AddThenSubtract ==
  ASSUME NEW P \in Point, NEW Q \in Point \ {Infinity}
  PROVE  PointSubtract(PointAdd(P, Q), Q) = P
<1>1. PointAdd(P, Q) \in Point
  BY GroupAssumption
<1>2. PointAdd(PointSubtract(PointAdd(P, Q), Q), Q) = PointAdd(P, Q)
  BY <1>1, SubtractIsInverse
<1> QED
  BY <1>1, <1>2, SubtractIsInverse, Cancel

\* A difference is infinity only for equal points, a sum only for opposite ones.
LEMMA WhenInfinity ==
  ASSUME NEW P \in Point, NEW Q \in Point \ {Infinity}
  PROVE  /\ PointSubtract(P, Q) = Infinity <=> P = Q
         /\ PointAdd(P, Q) = Infinity <=> P = NegatePoint(Q)
<1>1. /\ NegatePoint(Q) \in Point
      /\ PointAdd(Q, NegatePoint(Q)) = Infinity /\ PointAdd(NegatePoint(Q), Q) = Infinity
  BY GroupAssumption
<1>2. PointAdd(P, NegatePoint(Q)) = PointAdd(Q, NegatePoint(Q)) => P = Q
  BY <1>1, Cancel
<1>3. PointAdd(P, Q) = PointAdd(NegatePoint(Q), Q) => P = NegatePoint(Q)
  BY <1>1, Cancel
<1> QED
  BY <1>1, <1>2, <1>3 DEF PointSubtract

\* A scalar takes different points to different points.
LEMMA MultipleInjective ==
  ASSUME NEW k \in Scalar, NEW P \in Point, NEW Q \in Point, Multiple(k, P) = Multiple(k, Q)
  PROVE  P = Q
<1>1. CASE Q = Infinity
  BY <1>1, MultipleAssumption DEF Scalar
<1>2. CASE Q # Infinity
  <2> DEFINE N == NegatePoint(Q)
  <2>1. N \in Point /\ PointAdd(Q, N) = Infinity
    BY <1>2, GroupAssumption
  <2>2. Multiple(k, PointAdd(P, N)) = PointAdd(Multiple(k, P), Multiple(k, N))
    BY <2>1, MultipleAssumption DEF Scalar
  <2>3. Multiple(k, PointAdd(Q, N)) = PointAdd(Multiple(k, Q), Multiple(k, N))
    BY <2>1, MultipleAssumption DEF Scalar
  <2>4. PointAdd(P, N) \in Point /\ PointAdd(Q, N) \in Point
    BY <2>1, GroupAssumption
  <2>5. Multiple(k, PointAdd(P, N)) = Infinity
    BY <2>1, <2>2, <2>3, <2>4, MultipleAssumption DEF Scalar
  <2>6. PointAdd(P, N) = Infinity
    BY <2>4, <2>5, MultipleAssumption DEF Scalar
  <2> HIDE DEF N
  <2> QED
    BY <2>1, <2>6, Cancel
<1> QED
  BY <1>1, <1>2

\* Two keys made with one scalar are equal for equal and for opposite points only.
LEMMA KeysMeet ==
  ASSUME NEW k \in Scalar, NEW P \in Point \ {Infinity}, NEW Q \in Point \ {Infinity}
  PROVE  XCoord(Multiple(k, P)) = XCoord(Multiple(k, Q))
           <=> Q = P \/ PointAdd(P, Q) = Infinity
<1>1. Multiple(k, P) \in Point \ {Infinity} /\ Multiple(k, Q) \in Point \ {Infinity}
  BY MultipleAssumption DEF Scalar
<1>2. PointAdd(P, Q) \in Point
  BY GroupAssumption
<1>3. PointAdd(Multiple(k, P), Multiple(k, Q)) = Infinity <=> PointAdd(P, Q) = Infinity
  <2>1. Multiple(k, PointAdd(P, Q)) = PointAdd(Multiple(k, P), Multiple(k, Q))
    BY MultipleAssumption DEF Scalar
  <2> QED
    BY <1>2, <2>1, MultipleAssumption DEF Scalar
<1>4. Multiple(k, Q) = Multiple(k, P) <=> Q = P
  BY MultipleInjective
<1> QED
  BY <1>1, <1>3, <1>4, XCoordAssumption

-----------------------------------------------------------------------------
(***************************************************************************)
(* The inductive invariant: what was drawn and sent by which stage, and    *)
(* what the point B and the keys were made of.                             *)
(***************************************************************************)

Drawn ==
  /\ stage # "start" => a \in Scalar
  /\ stage = "offered" => bob = "ot"
  /\ stage \in {"chosen", "encrypted", "failed", "done"} => b \in Scalar
  /\ bob = "cot" /\ b # 0 => b \in Scalar

Sent ==
  /\ bob = "ot" /\ stage \in {"chosen", "encrypted", "failed", "done"}
       => pointB = ChosenPoint(PointB, choice)
  /\ bob = "cot" /\ b # 0 => pointB = PointB

Difference == PointSubtract(pointB, PointA)

Encrypted ==
  /\ stage = "failed" => Infinity \in {pointB, Difference}
  /\ stage \in {"encrypted", "done"} =>
       /\ Infinity \notin {pointB, Difference}
       /\ keys = <<XCoord(Multiple(a, pointB)), XCoord(Multiple(a, Difference))>>
  /\ bob = "ot" /\ stage = "done" => received = Decrypt(BobKey, choice)

Inv == TypeOK /\ Drawn /\ Sent /\ Encrypted

\* Multiples of G by a scalar have an encoding.
LEMMA ScalarPoint ==
  ASSUME NEW k \in Scalar
  PROVE  Multiple(k, Generator) \in Point \ {Infinity}
BY GroupAssumption, MultipleAssumption DEF Scalar

\* Scalars and the choice are typed, and so is every point made of them.
LEMMA SentTyped ==
  ASSUME Inv, stage \in {"chosen", "encrypted", "failed", "done"}
  PROVE  /\ a \in Scalar /\ b \in Scalar /\ choice \in {0, 1} /\ bob \in {"ot", "cot"}
         /\ PointA \in Point \ {Infinity} /\ PointB \in Point \ {Infinity}
         /\ pointB = IF bob = "ot" /\ choice = 1 THEN PointAdd(PointB, PointA) ELSE PointB
         /\ pointB \in Point /\ Difference \in Point
<1>1. a \in Scalar /\ b \in Scalar /\ choice \in {0, 1} /\ bob \in {"ot", "cot"} /\ b # 0
  BY DEF Inv, Drawn, TypeOK, Scalar
<1>2. PointA \in Point \ {Infinity} /\ PointB \in Point \ {Infinity}
  BY <1>1, ScalarPoint DEF PointA, PointB
<1>3. pointB = IF bob = "ot" /\ choice = 1 THEN PointAdd(PointB, PointA) ELSE PointB
  BY <1>1 DEF Inv, Sent, ChosenPoint
<1>4. pointB \in Point
  BY DEF Inv, TypeOK
<1> QED
  BY <1>1, <1>2, <1>3, <1>4, SubtractIsInverse DEF Difference

\* The invariant holds at first.
LEMMA InvInit == Init => Inv
BY GroupAssumption, MultipleAssumption
   DEF Init, Inv, TypeOK, Drawn, Sent, Encrypted, Scalar

\* Every step of a transfer keeps the invariant.
LEMMA InvNext == Inv /\ [Next]_vars => Inv'
<1> SUFFICES ASSUME Inv, [Next]_vars PROVE Inv'
  OBVIOUS
<1> USE DEF Inv
<1>1. CASE GeneratePointA
  BY <1>1, MultipleAssumption
     DEF GeneratePointA, TypeOK, Drawn, Sent, Encrypted, Scalar, PointB
<1>2. CASE SendChoice
  <2>1. a \in Scalar /\ b' \in Scalar /\ choice \in {0, 1} /\ bob = "ot"
    BY <1>2 DEF SendChoice, TypeOK, Drawn, Sent
  <2>2. PointA \in Point /\ PointB' \in Point
    BY <2>1, ScalarPoint DEF PointA, PointB
  <2>3. pointB' = ChosenPoint(PointB, choice)'
    BY <1>2 DEF SendChoice, ChosenPoint, PointA, PointB
  <2>4. pointB' \in Point
    BY <1>2, <2>1, <2>2, GroupAssumption DEF SendChoice, ChosenPoint, PointB
  <2>5. TypeOK'
    BY <1>2, <2>1, <2>4 DEF SendChoice, TypeOK, Scalar
  <2>6. Drawn' /\ Sent' /\ Encrypted'
    BY <1>2, <2>1, <2>3 DEF SendChoice, Drawn, Sent, Encrypted
  <2> QED
    BY <2>5, <2>6
<1>3. CASE GeneratePointB
  <2>1. b' \in Scalar /\ pointB' = PointB' /\ pointB' \in Point
    BY <1>3, ScalarPoint DEF GeneratePointB, PointB
  <2>2. TypeOK'
    BY <1>3, <2>1 DEF GeneratePointB, TypeOK, Scalar
  <2>3. Drawn' /\ Sent' /\ Encrypted'
    BY <1>3, <2>1 DEF GeneratePointB, Drawn, Sent, Encrypted
  <2> QED
    BY <2>2, <2>3
<1>4. CASE GeneratePointAForB
  <2>1. a' \in Scalar /\ b \in Scalar /\ pointB' = PointB'
    BY <1>4 DEF GeneratePointAForB, Drawn, Sent, PointB
  <2>2. TypeOK'
    BY <1>4, <2>1 DEF GeneratePointAForB, TypeOK, Scalar
  <2>3. Drawn' /\ Sent' /\ Encrypted'
    BY <1>4, <2>1 DEF GeneratePointAForB, Drawn, Sent, Encrypted
  <2> QED
    BY <2>2, <2>3
<1>5. CASE EncryptMessages
  <2>1. a \in Scalar /\ pointB \in Point /\ Difference \in Point
    BY <1>5, SentTyped DEF EncryptMessages
  <2>2. Drawn' /\ Sent'
    BY <1>5 DEF EncryptMessages, Drawn, Sent, ChosenPoint, PointA, PointB
  <2>3. CASE Infinity \in {pointB, Difference}
    <3>1. stage' = "failed" /\ UNCHANGED <<bob, a, b, choice, pointB, received, keys>>
      BY <1>5, <2>3 DEF EncryptMessages, Difference
    <3>2. Encrypted'
      BY <2>3, <3>1 DEF Encrypted, Difference, PointA
    <3>3. TypeOK'
      BY <3>1 DEF TypeOK
    <3> QED
      BY <2>2, <3>2, <3>3
  <2>4. CASE Infinity \notin {pointB, Difference}
    <3>1. /\ stage' = "encrypted" /\ UNCHANGED <<bob, a, b, choice, pointB, received>>
          /\ keys' = <<XCoord(Multiple(a, pointB)), XCoord(Multiple(a, Difference))>>
      BY <1>5, <2>4 DEF EncryptMessages, Difference
    <3>2. Encrypted'
      BY <2>4, <3>1 DEF Encrypted, Difference, PointA
    <3>3. Multiple(a, pointB) \in Point \ {Infinity} /\ Multiple(a, Difference) \in Point \ {Infinity}
      BY <2>1, <2>4, MultipleAssumption DEF Scalar
    <3>4. XCoord(Multiple(a, pointB)) \in Key /\ XCoord(Multiple(a, Difference)) \in Key
      BY <3>3 DEF Key
    <3>5. TypeOK'
      BY <3>1, <3>4 DEF TypeOK
    <3> QED
      BY <2>2, <3>2, <3>5
  <2> QED
    BY <2>3, <2>4
<1>6. CASE ReceiveMessage
  <2>1. received' = Decrypt(BobKey, choice)' /\ Difference' = Difference
    BY <1>6 DEF ReceiveMessage, Decrypt, BobKey, Difference, PointA
  <2>2. choice \in {0, 1}
    BY DEF TypeOK
  <2>3. received' \in {"m0", "m1", "garbage"}
    BY <1>6, <2>2 DEF ReceiveMessage, Decrypt
  <2>4. TypeOK'
    BY <1>6, <2>3 DEF ReceiveMessage, TypeOK
  <2>5. Drawn' /\ Sent'
    BY <1>6 DEF ReceiveMessage, Drawn, Sent, ChosenPoint, PointA, PointB
  <2>6. Encrypted'
    BY <1>6, <2>1 DEF ReceiveMessage, Encrypted
  <2> QED
    BY <2>4, <2>5, <2>6
<1>7. CASE ProcessSingleCOT
  <2>1. Difference' = Difference /\ choice \in {0, 1}
    BY <1>7 DEF ProcessSingleCOT, Difference, PointA, TypeOK
  <2>2. received' \in {"m0", "m1", "garbage"}
    BY <1>7, <2>1 DEF ProcessSingleCOT, Decrypt
  <2>3. TypeOK'
    BY <1>7, <2>2 DEF ProcessSingleCOT, TypeOK
  <2>4. Drawn' /\ Sent'
    BY <1>7 DEF ProcessSingleCOT, Drawn, Sent, ChosenPoint, PointA, PointB
  <2>5. Encrypted'
    BY <1>7, <2>1 DEF ProcessSingleCOT, Encrypted
  <2> QED
    BY <2>3, <2>4, <2>5
<1>8. CASE UNCHANGED vars
  BY <1>8
     DEF vars, TypeOK, Drawn, Sent, Encrypted, Difference, ChosenPoint, PointA, PointB,
         Decrypt, BobKey
<1> QED
  BY <1>1, <1>2, <1>3, <1>4, <1>5, <1>6, <1>7, <1>8 DEF Next

\* What scalars, points and keys are made of, at every stage of a transfer.
THEOREM TransferInvariance == Spec => []Inv
BY InvInit, InvNext, PTL DEF Spec

-----------------------------------------------------------------------------

(***************************************************************************)
(* Keys, points and scalars are typed in every transfer.                   *)
(***************************************************************************)
THEOREM TransferTyped == Spec => []TypeOK
<1>1. Inv => TypeOK
  BY DEF Inv
<1> QED
  BY <1>1, TransferInvariance, PTL

\* The message Bob asked for is under bA, whichever it is.
LEMMA ChosenKey ==
  ASSUME Inv, bob = "ot", stage = "done"
  PROVE  BobKey = keys[choice + 1]
<1>1. /\ a \in Scalar /\ b \in Scalar /\ choice \in {0, 1}
      /\ PointA \in Point \ {Infinity} /\ PointB \in Point \ {Infinity}
      /\ pointB = IF choice = 1 THEN PointAdd(PointB, PointA) ELSE PointB
  BY SentTyped
<1>2. Multiple(b, PointA) = Multiple(a, PointB)
  BY <1>1, MultipleAssumption DEF Scalar, PointA, PointB
<1>3. keys[1] = XCoord(Multiple(a, pointB)) /\ keys[2] = XCoord(Multiple(a, Difference))
  BY DEF Inv, Encrypted
<1>4. choice = 1 => Difference = PointB
  BY <1>1, AddThenSubtract DEF Difference
<1> QED
  BY <1>1, <1>2, <1>3, <1>4 DEF BobKey

(***************************************************************************)
(* Bob reads the message of his choice (ot-protocol.ts:65-79), in every    *)
(* group and for every pair of scalars.                                    *)
(***************************************************************************)
THEOREM ChosenAlwaysArrives == Spec => []ChosenArrives
<1>1. Inv => ChosenArrives
  <2> SUFFICES ASSUME Inv, bob = "ot", stage = "done"
               PROVE  received = <<"m0", "m1">>[choice + 1]
    BY DEF ChosenArrives
  <2>1. received = Decrypt(BobKey, choice)
    BY DEF Inv, Encrypted
  <2> QED
    BY <2>1, ChosenKey DEF Decrypt
<1> QED
  BY <1>1, TransferInvariance, PTL

(***************************************************************************)
(* A transfer fails for one scalar of Bob in the group (ot-protocol.ts:88) *)
(* and for no other.                                                       *)
(***************************************************************************)
THEOREM FailureIsDegenerate == Spec => []FailsOnlyDegenerate
<1>1. Inv => FailsOnlyDegenerate
  <2> SUFFICES ASSUME Inv, stage = "failed"
               PROVE  PointB = IF bob = "ot" /\ choice = 1 THEN NegatePoint(PointA) ELSE PointA
    BY DEF FailsOnlyDegenerate
  <2>1. /\ PointA \in Point \ {Infinity} /\ PointB \in Point \ {Infinity}
        /\ pointB = IF bob = "ot" /\ choice = 1 THEN PointAdd(PointB, PointA) ELSE PointB
    BY SentTyped
  <2>2. pointB = Infinity \/ PointSubtract(pointB, PointA) = Infinity
    BY DEF Inv, Encrypted, Difference
  <2>3. PointSubtract(PointAdd(PointB, PointA), PointA) = PointB
    BY <2>1, AddThenSubtract
  <2> QED
    BY <2>1, <2>2, <2>3, WhenInfinity
<1> QED
  BY <1>1, TransferInvariance, PTL

-----------------------------------------------------------------------------
(***************************************************************************)
(* The other key.  Both forms of it lead to one question: for which bG the *)
(* points bG and bG + A, or bG and bG - A, make the same key.              *)
(***************************************************************************)

\* Key 1 where B = bG.
LEMMA KeyOfDifference ==
  ASSUME NEW k \in Scalar, NEW P \in Point \ {Infinity}, NEW Q \in Point \ {Infinity},
         PointSubtract(P, Q) # Infinity
  PROVE  XCoord(Multiple(k, P)) = XCoord(Multiple(k, PointSubtract(P, Q)))
           <=> PointAdd(P, P) = Q
<1> DEFINE D == PointSubtract(P, Q)
<1>1. D \in Point \ {Infinity} /\ PointAdd(D, Q) = P
  BY SubtractIsInverse
<1> HIDE DEF D
<1>2. D # P
  <2>1. SUFFICES ASSUME D = P PROVE FALSE
    OBVIOUS
  <2>2. PointAdd(Q, P) = PointAdd(Infinity, P)
    BY <1>1, <2>1, GroupAssumption
  <2> QED
    BY <2>2, Cancel, GroupAssumption
<1>3. PointAdd(PointAdd(P, D), Q) = PointAdd(P, P)
  BY <1>1, GroupAssumption
<1>4. PointAdd(Infinity, Q) = Q /\ Infinity \in Point /\ PointAdd(P, D) \in Point
  BY <1>1, GroupAssumption
<1>5. PointAdd(P, D) = Infinity <=> PointAdd(P, P) = Q
  BY <1>1, <1>3, <1>4, Cancel
<1> QED
  BY <1>1, <1>2, <1>5, KeysMeet DEF D

\* Key 0 where B = bG + A.
LEMMA KeyOfSum ==
  ASSUME NEW k \in Scalar, NEW P \in Point \ {Infinity}, NEW Q \in Point \ {Infinity},
         PointAdd(P, Q) # Infinity
  PROVE  XCoord(Multiple(k, P)) = XCoord(Multiple(k, PointAdd(P, Q)))
           <=> PointAdd(P, P) = NegatePoint(Q)
<1> DEFINE S == PointAdd(P, Q)
<1>1. S \in Point \ {Infinity} /\ PointAdd(P, P) \in Point /\ Infinity \in Point
  BY GroupAssumption
<1>2. S # P
  <2>1. SUFFICES ASSUME S = P PROVE FALSE
    OBVIOUS
  <2>2. PointAdd(Q, P) = PointAdd(Infinity, P)
    BY <2>1, GroupAssumption
  <2> QED
    BY <2>2, <1>1, Cancel
<1>3. PointAdd(P, S) = PointAdd(PointAdd(P, P), Q)
  BY GroupAssumption
<1>4. PointAdd(P, S) = Infinity <=> PointAdd(P, P) = NegatePoint(Q)
  BY <1>1, <1>3, WhenInfinity
<1> HIDE DEF S
<1> QED
  BY <1>1, <1>2, <1>4, KeysMeet DEF S

(***************************************************************************)
(* Bob's key opens the message he did not ask for if and only if his       *)
(* scalar is one of those for which the two keys are one.                  *)
(***************************************************************************)
THEOREM OtherKeyDiffers == Spec => []OtherStaysClosed
<1>1. Inv => OtherStaysClosed
  <2> SUFFICES ASSUME Inv, bob = "ot", stage = "done"
               PROVE  BobKey = keys[2 - choice]
                        <=> PointAdd(PointB, PointB)
                              = IF choice = 0 THEN PointA ELSE NegatePoint(PointA)
    BY DEF OtherStaysClosed
  <2>1. /\ a \in Scalar /\ b \in Scalar /\ choice \in {0, 1}
        /\ PointA \in Point \ {Infinity} /\ PointB \in Point \ {Infinity}
        /\ pointB = IF choice = 1 THEN PointAdd(PointB, PointA) ELSE PointB
    BY SentTyped
  <2>2. BobKey = XCoord(Multiple(a, PointB))
    BY <2>1, MultipleAssumption DEF Scalar, PointA, PointB, BobKey
  <2>3. /\ keys[1] = XCoord(Multiple(a, pointB)) /\ keys[2] = XCoord(Multiple(a, Difference))
        /\ pointB # Infinity /\ Difference # Infinity
    BY DEF Inv, Encrypted
  <2>4. CASE choice = 0
    BY <2>1, <2>2, <2>3, <2>4, KeyOfDifference DEF Difference
  <2>5. CASE choice = 1
    BY <2>1, <2>2, <2>3, <2>5, KeyOfSum
  <2> QED
    BY <2>1, <2>4, <2>5
<1> QED
  BY <1>1, TransferInvariance, PTL

(***************************************************************************)
(* The scalar the server stores (cot_protocol.cpp:20) would open m0, and   *)
(* m1 only where the two keys are one.                                     *)
(***************************************************************************)
THEOREM StoredScalarOpensZero == Spec => []OnlyZeroOpens
<1>1. Inv => OnlyZeroOpens
  <2> SUFFICES ASSUME Inv, bob = "cot", stage \in {"encrypted", "done"}
               PROVE  /\ BobKey = keys[1]
                      /\ BobKey = keys[2] <=> PointAdd(PointB, PointB) = PointA
    BY DEF OnlyZeroOpens
  <2>1. /\ a \in Scalar /\ b \in Scalar /\ pointB = PointB
        /\ PointA \in Point \ {Infinity} /\ PointB \in Point \ {Infinity}
    BY SentTyped
  <2>2. BobKey = XCoord(Multiple(a, PointB))
    BY <2>1, MultipleAssumption DEF Scalar, PointA, PointB, BobKey
  <2>3. /\ keys[1] = XCoord(Multiple(a, pointB)) /\ keys[2] = XCoord(Multiple(a, Difference))
        /\ Difference # Infinity
    BY DEF Inv, Encrypted
  <2> QED
    BY <2>1, <2>2, <2>3, KeyOfDifference DEF Difference
<1> QED
  BY <1>1, TransferInvariance, PTL

-----------------------------------------------------------------------------
(* The negation of ot-protocol.ts, on a curve over any field, with         *)
(* coordinates of any number of digits in any base.                        *)

\* What the digits are worth: the powers of Base.
LEMMA PowerFacts ==
  /\ Power \in [0..Digits -> Nat \ {0}] /\ Power[0] = 1
  /\ \A i \in 1..Digits : Power[i] = Base * Power[i - 1]
<1>0. Digits \in Nat /\ Base \in Nat \ {0, 1}
  BY CurveAssumption
<1> DEFINE D == Nat \ {0}
           s == [i \in Nat |-> [w \in D |-> Base * w]]
<1>1. s \in [Nat -> [D -> D]]
  BY <1>0
<1>2. StepByStep(D, 1, s, Digits)
  <2>1. 1 \in D /\ Digits \in Nat
    BY <1>0
  <2> HIDE DEF s, D
  <2>2. QED
    BY <1>1, <2>1, Iterates
<1>r. PICK g \in [0..Digits -> D] :
        \A i \in 0..Digits : g[i] = IF i = 0 THEN 1 ELSE s[i][g[i - 1]]
  <2> HIDE DEF s, D
  <2> QED BY <1>2 DEF StepByStep
<1>3. ASSUME NEW i \in 0..Digits
      PROVE  g[i] = IF i = 0 THEN 1 ELSE Base * g[i - 1]
  <2>1. CASE i # 0
    <3>1. i \in Nat /\ i - 1 \in 0..Digits
      BY <1>0, <2>1
    <3>2. g[i - 1] \in D
      BY <3>1
    <3>3. g[i] = s[i][g[i - 1]]
      BY <1>r, <2>1
    <3>4. s[i][g[i - 1]] = Base * g[i - 1]
      BY <3>1, <3>2
    <3>5. QED
      BY <2>1, <3>3, <3>4
  <2>2. QED
    BY <1>r, <2>1
<1>4. g = [i \in 0..Digits |-> IF i = 0 THEN 1 ELSE Base * g[i - 1]]
  BY <1>r, <1>3
<1>5. Power = [i \in 0..Digits |-> IF i = 0 THEN 1 ELSE Base * Power[i - 1]]
  BY <1>4 DEF Power
<1>q. 0 \in 0..Digits /\ \A i \in 1..Digits : i \in 0..Digits /\ i # 0
  BY <1>0
<1>6. Power[0] = 1 /\ \A i \in 1..Digits : Power[i] = Base * Power[i - 1]
  BY <1>5, <1>q, Zenon
<1>7. \A i \in 0..Digits : Power[i] \in Nat \ {0}
  <2> DEFINE T == {i \in Nat : i \in 0..Digits => Power[i] \in Nat \ {0}}
  <2>1. 0 \in T
    BY <1>6
  <2>2. ASSUME NEW i \in T PROVE i + 1 \in T
    <3>1. CASE i + 1 \in 0..Digits
      <4>1. i \in 0..Digits /\ i + 1 \in 1..Digits
        BY <1>0, <3>1
      <4>2. Power[i + 1] = Base * Power[i]
        BY <1>6, <4>1
      <4>3. QED
        BY <1>0, <4>1, <4>2
    <3>2. QED
      BY <3>1
  <2>3. T = Nat
    <3> HIDE DEF T
    <3>1. T \in SUBSET Nat
      BY DEF T
    <3> QED BY <2>1, <2>2, <3>1, Inductive
  <2>4. QED
    BY <2>3
<1>8. DOMAIN Power = 0..Digits /\ Power = [i \in DOMAIN Power |-> Power[i]]
  BY <1>5
<1>9. QED
  BY <1>6, <1>7, <1>8

\* The first k + 1 digits of a number from the last on, by the first k.
LEMMA OneMoreByte ==
  ASSUME NEW n \in Nat, NEW k \in 1..Digits
  PROVE  /\ Byte(n, k - 1) \in 0..(Base - 1)
         /\ n % Power[k] = (n % Power[k - 1]) + Power[k - 1] * Byte(n, k - 1)
<1> DEFINE w == Power[k - 1]
           d == Byte(n, k - 1)
<1>1. Base \in Nat \ {0} /\ Digits \in Nat
  BY CurveAssumption
<1>2. k - 1 \in 0..Digits
  BY <1>1
<1>3. w \in Nat \ {0} /\ Power[k] = Base * w
  BY <1>2, PowerFacts
<1>4. d = (n \div w) % Base
  BY DEF Byte
<1> HIDE DEF w, d
<1>5. n \div w \in Nat
  BY <1>3, DivMod
<1>6. d \in 0..(Base - 1)
  BY <1>1, <1>4, <1>5, DivMod
<1>7. n % (w * Base) = (n % w) + ((n \div w) % Base) * w
  BY <1>1, <1>3, Digit
<1>8. w * Base = Base * w /\ d * w = w * d
  BY <1>1, <1>3, <1>6
<1>9. n % Power[k] = (n % w) + w * d
  BY <1>3, <1>4, <1>7, <1>8
<1>10. QED
  BY <1>6, <1>9 DEF w, d

\* One turn of modNegate: what is right of w is right of one more digit, above w.
LEMMA OneMoreTurn ==
  ASSUME NEW base \in Nat \ {0, 1}, NEW w \in Nat \ {0},
         NEW x \in 0..(base - 1), NEW y \in 0..(base - 1), NEW c \in {0, 1},
         NEW low \in Nat, NEW off \in Nat, NEW r \in 0..(w - 1), r + off = low + c * w,
         NEW d, NEW c1, d = (IF x - y - c < 0 THEN (x - y - c) + base ELSE x - y - c),
         c1 = (IF x - y - c < 0 THEN 1 ELSE 0)
  PROVE  /\ c1 \in {0, 1} /\ d \in 0..(base - 1) /\ r + w * d \in 0..(base * w - 1)
         /\ (r + w * d) + (off + w * y) = (low + w * x) + c1 * (base * w)
<1>1. c1 \in {0, 1} /\ d \in 0..(base - 1) /\ d = ((x - y) - c) + c1 * base
  OBVIOUS
<1>2. r + w * d \in 0..(base * w - 1)
  <2>1. w * d <= w * (base - 1) /\ w * d \in Nat
    BY <1>1
  <2>2. w * (base - 1) = base * w - w /\ base * w \in Nat
    OBVIOUS
  <2>3. QED
    BY <2>1, <2>2
<1>3. w * d = ((w * x - w * y) - c * w) + c1 * (base * w)
  <2>1. w * (((x - y) - c) + c1 * base) = ((w * x - w * y) - c * w) + c1 * (base * w)
    <3>1. CASE c1 = 0
      BY <3>1
    <3>2. CASE c1 = 1
      BY <3>2
    <3>3. QED
      BY <1>1, <3>1, <3>2
  <2>2. QED
    BY <1>1, <2>1
<1>4. w * x \in Nat /\ w * y \in Nat /\ c * w \in Nat /\ c1 * (base * w) \in Nat /\ w * d \in Nat
  BY <1>1
<1> DEFINE wx == w * x
           wy == w * y
           cw == c * w
           top == c1 * (base * w)
           wd == w * d
<1>5. (r + wd) + (off + wy) = (low + wx) + top
  <2>1. wx \in Nat /\ wy \in Nat /\ cw \in Nat /\ top \in Nat /\ wd \in Nat
        /\ wd = ((wx - wy) - cw) + top /\ r + off = low + cw
    BY <1>3, <1>4
  <2> HIDE DEF wx, wy, cw, top, wd
  <2>2. QED
    BY <2>1
<1>6. QED
  BY <1>1, <1>2, <1>5

\* What modNegate has after k bytes: the difference of what it has seen, up to a borrow.
Negated(value, k, state) ==
  /\ state.borrow \in {0, 1} /\ state.result \in 0..(Power[k] - 1)
  /\ state.result + (value % Power[k]) = (FieldPrime % Power[k]) + state.borrow * Power[k]

\* One turn of its loop.
Turn(value, k, state) ==
  LET diff == Byte(FieldPrime, k - 1) - Byte(value, k - 1) - state.borrow IN
  [borrow |-> IF diff < 0 THEN 1 ELSE 0,
   result |-> state.result + Power[k - 1] * (IF diff < 0 THEN diff + Base ELSE diff)]

\* A turn takes what is right of k - 1 bytes to what is right of k.
LEMMA TurnRight ==
  ASSUME NEW value \in Nat, NEW k \in 1..Digits, NEW state, Negated(value, k - 1, state)
  PROVE  Negated(value, k, Turn(value, k, state))
<1> DEFINE w == Power[k - 1]
           x == Byte(FieldPrime, k - 1)
           y == Byte(value, k - 1)
           c == state.borrow
           r == state.result
           diff == x - y - c
           d == IF diff < 0 THEN diff + Base ELSE diff
           c1 == IF diff < 0 THEN 1 ELSE 0
           low == FieldPrime % w
           off == value % w
<1>0. Base \in Nat \ {0, 1} /\ Digits \in Nat /\ FieldPrime \in Nat
  BY CurveAssumption
<1>1. w \in Nat \ {0} /\ Power[k] = Base * w
  BY <1>0, PowerFacts
<1>2. /\ x \in 0..(Base - 1) /\ FieldPrime % Power[k] = low + w * x
      /\ y \in 0..(Base - 1) /\ value % Power[k] = off + w * y
  BY <1>0, OneMoreByte
<1>3. c \in {0, 1} /\ r \in 0..(w - 1) /\ r + off = low + c * w
  <2> HIDE DEF w
  <2>1. state.borrow \in {0, 1} /\ state.result \in 0..(w - 1)
        /\ state.result + (value % w) = (FieldPrime % w) + state.borrow * w
    BY Zenon DEF Negated, w
  <2>2. QED
    BY <2>1, Zenon
<1>4. Turn(value, k, state) = [borrow |-> c1, result |-> r + w * d]
  BY DEF Turn
<1>5. low \in Nat /\ off \in Nat
  <2> HIDE DEF w
  <2>1. FieldPrime % w \in 0..(w - 1) /\ value % w \in 0..(w - 1)
    BY <1>0, <1>1, DivMod
  <2>2. QED
    BY <1>1, <2>1
<1>6. d = (IF x - y - c < 0 THEN (x - y - c) + Base ELSE x - y - c)
      /\ c1 = (IF x - y - c < 0 THEN 1 ELSE 0)
  OBVIOUS
<1> HIDE DEF w, x, y, c, r, diff, d, c1, low, off
<1>7. /\ c1 \in {0, 1} /\ r + w * d \in 0..(Base * w - 1)
      /\ (r + w * d) + (off + w * y) = (low + w * x) + c1 * (Base * w)
  BY <1>0, <1>1, <1>2, <1>3, <1>5, <1>6, OneMoreTurn
<1> DEFINE after == [borrow |-> c1, result |-> r + w * d]
<1>8. after.borrow = c1 /\ after.result = r + w * d
  OBVIOUS
<1> HIDE DEF after
<1>9. Negated(value, k, after)
  <2> DEFINE top == Power[k]
             whole == FieldPrime % top
             part  == value % top
  <2>1. top = Base * w /\ whole = low + w * x /\ part = off + w * y
    BY <1>1, <1>2
  <2> HIDE DEF whole, part
  <2>2. after.result + part = whole + after.borrow * top
    <3> HIDE DEF top
    <3> QED BY <1>7, <1>8, <2>1
  <2>3. after.borrow \in {0, 1} /\ after.result \in 0..(top - 1)
    <3> HIDE DEF top
    <3> QED BY <1>7, <1>8, <2>1
  <2>4. QED
    BY <2>2, <2>3 DEF Negated, whole, part
<1>10. QED
  BY <1>4, <1>9 DEF after

\* The loop of modNegate turns Digits times.
LEMMA LoopTurns ==
  ASSUME NEW value \in Nat
  PROVE  \E state : Negated(value, Digits, state) /\ ModNegate(value) = state.result
<1> DEFINE D == [borrow : {0, 1}, result : Nat]
           start == [borrow |-> 0, result |-> 0]
           st == [k \in Nat |-> [w \in D |-> IF k \in 1..Digits /\ Negated(value, k - 1, w)
                                              THEN Turn(value, k, w) ELSE w]]
           F == CHOOSE loop : loop = [k \in 0..Digits |->
                  IF k = 0 THEN [borrow |-> 0, result |-> 0]
                  ELSE LET before == loop[k - 1]
                           diff   == Byte(FieldPrime, k - 1) - Byte(value, k - 1) - before.borrow
                       IN [borrow |-> IF diff < 0 THEN 1 ELSE 0,
                           result |-> before.result
                                        + Power[k - 1] * (IF diff < 0 THEN diff + Base ELSE diff)]]
<1>0. Digits \in Nat /\ Base \in Nat \ {0, 1} /\ FieldPrime \in Nat /\ FieldPrime > 7
  BY CurveAssumption
<1>1. start \in D /\ Negated(value, 0, start)
  <2>1. Power[0] = 1
    BY PowerFacts
  <2>2. value % 1 = 0 /\ FieldPrime % 1 = 0
    BY <1>0
  <2>3. start.borrow = 0 /\ start.result = 0
    OBVIOUS
  <2>4. start \in D
    OBVIOUS
  <2> HIDE DEF start
  <2>5. Negated(value, 0, start)
    BY <2>1, <2>2, <2>3 DEF Negated
  <2>6. QED
    BY <2>4, <2>5
<1>2. ASSUME NEW k \in 1..Digits, NEW w \in D, Negated(value, k - 1, w)
      PROVE  Turn(value, k, w) \in D /\ Negated(value, k, Turn(value, k, w))
  <2>1. Negated(value, k, Turn(value, k, w))
    BY <1>2, TurnRight
  <2> DEFINE t == Turn(value, k, w)
  <2>2. t = [borrow |-> t.borrow, result |-> t.result]
    BY DEF Turn
  <2>3. k \in 0..Digits
    BY <1>0
  <2>4. Power[k] \in Nat
    BY <2>3, PowerFacts
  <2> HIDE DEF t
  <2>5. Negated(value, k, t)
    BY <2>1 DEF t
  <2>6. t.borrow \in {0, 1} /\ t.result \in 0..(Power[k] - 1)
    BY <2>5 DEF Negated
  <2>7. t.result \in Nat
    BY <2>4, <2>6
  <2>8. t \in D
    BY <2>2, <2>6, <2>7
  <2>9. QED
    BY <2>5, <2>8 DEF t
<1>3. st \in [Nat -> [D -> D]]
  <2>1. ASSUME NEW k \in Nat, NEW w \in D
        PROVE  (IF k \in 1..Digits /\ Negated(value, k - 1, w) THEN Turn(value, k, w) ELSE w) \in D
    BY <1>2
  <2> HIDE DEF D
  <2>2. QED
    BY <2>1
<1>4. StepByStep(D, start, st, Digits)
  <2> HIDE DEF D, start, st
  <2> QED BY <1>0, <1>1, <1>3, Iterates
<1>5. PICK g \in [0..Digits -> D] :
        \A k \in 0..Digits : g[k] = IF k = 0 THEN start ELSE st[k][g[k - 1]]
  <2> HIDE DEF D, start, st
  <2> QED BY <1>4 DEF StepByStep
<1> DEFINE T == {k \in Nat : k <= Digits => Negated(value, k, g[k])}
<1>6. ASSUME NEW k \in 1..Digits, Negated(value, k - 1, g[k - 1])
      PROVE  g[k] = Turn(value, k, g[k - 1]) /\ Negated(value, k, g[k])
  <2>1. k \in 0..Digits /\ k # 0 /\ k - 1 \in 0..Digits /\ k \in Nat
    BY <1>0
  <2>2. g[k - 1] \in D /\ g[k] = st[k][g[k - 1]]
    <3> HIDE DEF D, start, st
    <3> QED BY <1>5, <2>1
  <2> DEFINE w == g[k - 1]
  <2>3. w \in D /\ g[k] = st[k][w] /\ Negated(value, k - 1, w)
    BY <1>6, <2>2
  <2> HIDE DEF w, D
  <2>4. st[k][w] = Turn(value, k, w)
    BY <2>1, <2>3
  <2>5. Negated(value, k, Turn(value, k, w))
    BY <1>2, <2>3
  <2>6. QED
    <3> HIDE DEF st
    <3> QED BY <2>3, <2>4, <2>5 DEF w
<1>7. T = Nat
  <2>1. 0 \in T
    <3>1. 0 \in 0..Digits
      BY <1>0
    <3>2. g[0] = start
      <4> HIDE DEF start, st
      <4> QED BY <1>5, <3>1
    <3>3. Negated(value, 0, g[0])
      BY <1>1, <3>2
    <3>4. QED
      BY <3>3
  <2>2. ASSUME NEW k \in T PROVE k + 1 \in T
    <3>1. CASE k + 1 <= Digits
      <4>1. k \in Nat /\ k + 1 \in 1..Digits /\ (k + 1) - 1 = k /\ k <= Digits
        BY <1>0, <3>1
      <4>2. Negated(value, (k + 1) - 1, g[(k + 1) - 1])
        BY <4>1
      <4>3. Negated(value, k + 1, g[k + 1])
        <5> HIDE DEF T
        <5> QED BY <1>6, <4>1, <4>2
      <4>4. QED
        BY <4>1, <4>3
    <3>2. QED
      BY <3>1
  <2> HIDE DEF T
  <2>3. T \in SUBSET Nat
    BY DEF T
  <2>4. QED
    BY <2>1, <2>2, <2>3, Inductive
<1>8. \A k \in 0..Digits : Negated(value, k, g[k])
  <2>1. \A k \in 0..Digits : k \in Nat /\ k <= Digits
    BY <1>0
  <2>2. QED
    BY <1>7, <2>1
<1>9. ASSUME NEW k \in 0..Digits
      PROVE  g[k] = IF k = 0 THEN [borrow |-> 0, result |-> 0] ELSE Turn(value, k, g[k - 1])
  <2>1. CASE k = 0
    <3>1. g[0] = start
      <4>1. 0 \in 0..Digits
        BY <1>0
      <4> HIDE DEF start, st
      <4> QED BY <1>5, <4>1
    <3>2. QED
      BY <2>1, <3>1
  <2>2. CASE k # 0
    <3>1. k \in 1..Digits /\ k - 1 \in 0..Digits
      BY <1>0, <2>2
    <3>2. Negated(value, k - 1, g[k - 1])
      BY <1>8, <3>1
    <3>3. g[k] = Turn(value, k, g[k - 1])
      <4> HIDE DEF T
      <4> QED BY <1>6, <3>1, <3>2
    <3>4. QED
      BY <2>2, <3>3
  <2>3. QED
    BY <2>1, <2>2
<1>10. g = [k \in 0..Digits |-> IF k = 0 THEN [borrow |-> 0, result |-> 0]
                                 ELSE Turn(value, k, g[k - 1])]
  <2>1. g = [k \in 0..Digits |-> g[k]]
    BY <1>5
  <2>2. QED
    BY <1>9, <2>1
<1>11. F = [k \in 0..Digits |-> IF k = 0 THEN [borrow |-> 0, result |-> 0]
                                 ELSE Turn(value, k, F[k - 1])]
  BY <1>10 DEF Turn
<1>12. ModNegate(value) = F[Digits].result
  BY DEF ModNegate
<1> HIDE DEF F
<1>13. \A k \in 0..Digits : F[k] = IF k = 0 THEN [borrow |-> 0, result |-> 0]
                                   ELSE Turn(value, k, F[k - 1])
  BY <1>11, Zenon
<1> DEFINE U == {k \in Nat : k <= Digits => F[k] = g[k]}
<1>14. U = Nat
  <2>1. 0 \in U
    <3>1. 0 \in 0..Digits
      BY <1>0
    <3>2. F[0] = g[0]
      BY <1>9, <1>13, <3>1
    <3>3. QED
      BY <3>2
  <2>2. ASSUME NEW k \in U PROVE k + 1 \in U
    <3>1. CASE k + 1 <= Digits
      <4>1. k \in Nat /\ k + 1 \in 0..Digits /\ (k + 1) - 1 = k /\ k <= Digits /\ k + 1 # 0
        BY <1>0, <3>1
      <4>2. F[k] = g[k]
        BY <4>1
      <4>3. F[k + 1] = Turn(value, k + 1, F[k]) /\ g[k + 1] = Turn(value, k + 1, g[k])
        BY <1>9, <1>13, <4>1
      <4>4. QED
        BY <4>1, <4>2, <4>3
    <3>2. QED
      BY <3>1
  <2> HIDE DEF U
  <2>3. U \in SUBSET Nat
    BY DEF U
  <2>4. QED
    BY <2>1, <2>2, <2>3, Inductive
<1>15. F[Digits] = g[Digits] /\ Negated(value, Digits, g[Digits])
  <2>1. Digits \in 0..Digits
    BY <1>0
  <2>2. Digits \in U /\ Digits <= Digits
    BY <1>0, <1>14
  <2>3. QED
    BY <1>8, <2>1, <2>2
<1>16. QED
  BY <1>12, <1>15

(***************************************************************************)
(* For a field of any prime, written in any base with enough digits, the   *)
(* bytewise negation of ot-protocol.ts is p - value for every coordinate   *)
(* but 0, and the library's negation for every point of the curve.         *)
(***************************************************************************)
THEOREM NegationRight == NegationsAgree
<1> DEFINE p == FieldPrime
           top == Power[Digits]
<1>0. Digits \in Nat /\ p \in Nat /\ p > 7 /\ p < top /\ top \in Nat \ {0}
  <2>1. Digits \in Nat /\ p \in Nat /\ p > 7 /\ p < top
    BY CurveAssumption
  <2>2. Digits \in 0..Digits
    BY <2>1
  <2>3. QED
    BY <2>1, <2>2, PowerFacts
<1>1. ASSUME NEW value \in 1..(p - 1) PROVE ModNegate(value) = p - value
  <2>0. value \in Nat /\ value < p
    BY <1>0
  <2>1. PICK state : Negated(value, Digits, state) /\ ModNegate(value) = state.result
    BY <2>0, LoopTurns
  <2>2. state.borrow \in {0, 1} /\ state.result \in 0..(top - 1)
        /\ state.result + (value % top) = (p % top) + state.borrow * top
    BY <2>1 DEF Negated
  <2>3. value % top = value /\ p % top = p
    <3> HIDE DEF p, top
    <3> QED BY <1>0, <2>0
  <2> HIDE DEF p, top
  <2>4. state.result + value = p + state.borrow * top
    BY <2>2, <2>3
  <2>5. state.borrow # 1
    <3> SUFFICES ASSUME state.borrow = 1 PROVE FALSE
      OBVIOUS
    <3>1. state.result + value = p + top
      BY <1>0, <2>4
    <3>2. QED
      BY <1>0, <2>0, <2>2, <3>1
  <2>6. state.result = p - value
    BY <1>0, <2>0, <2>2, <2>4, <2>5
  <2>7. QED
    BY <2>1, <2>6
<1>2. ASSUME NEW P \in CurvePoint \ {CurveInfinity} PROVE CurveNegate(P) = LibraryNegate(P)
  <2>1. P \in Field \X Field
    BY DEF CurvePoint
  <2>2. P[2] \in Field /\ P[2] # 0
    BY <2>1, AxisAssumption
  <2>3. P[2] \in 1..(p - 1)
    BY <1>0, <2>2 DEF Field
  <2>4. ModNegate(P[2]) = p - P[2]
    BY <1>1, <2>3
  <2>5. (p - P[2]) % p = p - P[2]
    <3>1. p - P[2] \in 0..(p - 1)
      BY <1>0, <2>3
    <3> DEFINE q == p - P[2]
    <3> HIDE DEF q, p
    <3>2. q % p = q
      BY <1>0, <3>1 DEF q
    <3>3. QED
      BY <3>2 DEF q
  <2>6. QED
    BY <2>4, <2>5 DEF CurveNegate, LibraryNegate
<1>3. QED
  BY <1>1, <1>2 DEF NegationsAgree

(***************************************************************************)
(* Of what a transfer assumes of its group, any such curve satisfies the   *)
(* part about negation and keys: negatePoint leads from a point of the     *)
(* curve to one that takes it to infinity, and a key hides just the sign.  *)
(***************************************************************************)
THEOREM NegationInverts ==
  /\ \A P \in CurvePoint \ {CurveInfinity} :
       /\ CurveNegate(P) \in CurvePoint \ {CurveInfinity}
       /\ CurveAdd(P, CurveNegate(P)) = CurveInfinity
  /\ \A P, Q \in CurvePoint \ {CurveInfinity} :
       CurveXCoord(P) = CurveXCoord(Q) <=> Q = P \/ CurveAdd(P, Q) = CurveInfinity
<1> DEFINE p == FieldPrime
<1>0. p \in Nat /\ p > 7
  BY CurveAssumption
<1>1. ASSUME NEW P \in CurvePoint \ {CurveInfinity}
      PROVE  P \in Field \X Field /\ P # <<>> /\ IsValidPoint(P) /\ P[1] \in Field
             /\ P[2] \in 1..(p - 1)
  <2>1. P \in Field \X Field /\ P # <<>> /\ IsValidPoint(P)
    BY DEF CurvePoint, CurveInfinity
  <2>2. P[2] # 0
    BY AxisAssumption
  <2>3. P[2] \in 1..(p - 1)
    BY <1>0, <2>1, <2>2 DEF Field
  <2>4. QED
    BY <2>1, <2>3
<1>2. ASSUME NEW P \in CurvePoint \ {CurveInfinity}, NEW Q \in CurvePoint \ {CurveInfinity}
      PROVE  CurveAdd(P, Q) = CurveInfinity <=> P[1] = Q[1] /\ P # Q
  BY <1>1 DEF CurveAdd, CurveInfinity
<1>3. ASSUME NEW P \in CurvePoint \ {CurveInfinity}
      PROVE  /\ CurveNegate(P) \in CurvePoint \ {CurveInfinity}
             /\ CurveAdd(P, CurveNegate(P)) = CurveInfinity
  <2> DEFINE x == P[1]
             y == P[2]
             z == p - y
  <2>1. P = <<x, y>> /\ x \in Field /\ y \in 1..(p - 1) /\ IsValidPoint(P)
    BY <1>1
  <2>2. CurveNegate(P) = <<x, z>>
    BY <2>1, NegationRight DEF NegationsAgree, CurveNegate
  <2>3. z \in Field
    BY <1>0, <2>1 DEF Field
  <2>4. (z * z) % p = (y * y) % p
    <3>1. (p - y) * (p - y) = y * y + p * (p - 2 * y)
      BY <1>0, <2>1
    <3>2. z * z \in Int /\ y * y \in Int /\ p - 2 * y \in Int
      BY <1>0, <2>1
    <3>3. Congruent(z * z, y * y, p)
      BY <3>1, <3>2 DEF Congruent
    <3> DEFINE zz == z * z
               yy == y * y
    <3>4. p \in Nat \ {0} /\ zz \in Int /\ yy \in Int /\ Congruent(zz, yy, p)
      BY <1>0, <3>2, <3>3
    <3>5. zz % p = yy % p
      <4> HIDE DEF zz, yy, p
      <4> QED BY <3>4, CongruentSame
    <3>6. QED
      BY <3>5
  <2>5. IsValidPoint(<<x, z>>)
    BY <2>1, <2>4 DEF IsValidPoint
  <2>6. <<x, z>> \in CurvePoint \ {CurveInfinity}
    BY <2>1, <2>3, <2>5 DEF CurvePoint, CurveInfinity
  <2>7. z # y
    <3> SUFFICES ASSUME z = y PROVE FALSE
      OBVIOUS
    <3>1. p = 2 * y
      BY <1>0, <2>1
    <3>2. p % 2 = 0
      BY <2>1, <3>1
    <3>3. 2 \in 2..(p - 1)
      BY <1>0
    <3>4. QED
      BY <3>2, <3>3, CurveAssumption
  <2>8. P # <<x, z>>
    BY <2>1, <2>7
  <2>9. CurveAdd(P, <<x, z>>) = CurveInfinity
    BY <1>2, <2>6, <2>8
  <2>10. QED
    BY <2>2, <2>6, <2>9
<1>4. ASSUME NEW P \in CurvePoint \ {CurveInfinity}, NEW Q \in CurvePoint \ {CurveInfinity}
      PROVE  CurveXCoord(P) = CurveXCoord(Q) <=> Q = P \/ CurveAdd(P, Q) = CurveInfinity
  BY <1>2 DEF CurveXCoord
<1>5. QED
  BY <1>3, <1>4

=============================================================================
