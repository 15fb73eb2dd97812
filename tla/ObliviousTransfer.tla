-------------------------- MODULE ObliviousTransfer --------------------------
(***************************************************************************)
(* One 1-out-of-2 transfer, in the two forms that are in the code: Alice's *)
(* OTProtocol (ot-protocol.ts) with Bob's ObliviousTransferProtocol        *)
(* (ot_protocol.cpp), and Alice's with what CorrelatedOTProtocol does in   *)
(* the place of Bob's.                                                     *)
(*                                                                         *)
(* The curve is any group of odd prime order, as far as a transfer can     *)
(* tell.  A key is the x-coordinate of a point, which hides the sign.      *)
(***************************************************************************)
EXTENDS Integers

CONSTANTS
  Order,               \* the group's order
  Point, Infinity,     \* its elements, and the one without an encoding
  Generator,           \* G
  PointAdd(_, _),      \* P + Q
  NegatePoint(_),      \* -P, from the bytes of P
  Multiple(_, _),      \* k * P
  XCoord(_)            \* the key that P makes

ASSUME GroupAssumption ==
  /\ Infinity \in Point /\ Generator \in Point \ {Infinity}
  /\ \A P, Q \in Point : PointAdd(P, Q) \in Point /\ PointAdd(P, Q) = PointAdd(Q, P)
  /\ \A P, Q, R \in Point : PointAdd(PointAdd(P, Q), R) = PointAdd(P, PointAdd(Q, R))
  /\ \A P \in Point : PointAdd(P, Infinity) = P
  /\ \A P \in Point \ {Infinity} :
       NegatePoint(P) \in Point \ {Infinity} /\ PointAdd(P, NegatePoint(P)) = Infinity

ASSUME MultipleAssumption ==
  /\ Order \in Nat /\ Order > 2
  /\ \A k \in 1..(Order - 1), P \in Point :
       Multiple(k, P) \in Point /\ (Multiple(k, P) = Infinity <=> P = Infinity)
  /\ \A k \in 1..(Order - 1), P, Q \in Point :
       Multiple(k, PointAdd(P, Q)) = PointAdd(Multiple(k, P), Multiple(k, Q))
  /\ \A k, l \in 1..(Order - 1) :
       Multiple(k, Multiple(l, Generator)) = Multiple(l, Multiple(k, Generator))

ASSUME XCoordAssumption ==
  \A P, Q \in Point \ {Infinity} : XCoord(P) = XCoord(Q) <=> Q = P \/ PointAdd(P, Q) = Infinity

\* Mutant of Scalar: the candidate need not be less than the order.
ScalarUpToOrder == 1..Order

\* generateScalar: another candidate is drawn until one is in range.
Scalar == 1..(Order - 1)

VARIABLES
  bob,      \* the class on Bob's side: ot or cot
  a, b,     \* the scalars of Alice and of Bob; 0 before they are drawn
  choice,   \* Bob's bit
  pointB,   \* sent by Bob
  keys,     \* the keys Alice encrypted m0 and m1 with, <<>> before
  received, \* what Bob decrypted: m0, m1 or garbage
  stage     \* start, offered (A sent), chosen (B sent), encrypted, failed, done

vars == <<bob, a, b, choice, pointB, keys, received, stage>>

\* Mutant of PointSubtract: the negation is left out.
PointSubtractNothing(P, Q) == PointAdd(P, Q)

PointSubtract(P, Q) == PointAdd(P, NegatePoint(Q))

PointB == Multiple(b, Generator)   \* bG

Init ==
  /\ bob \in {"ot", "cot"}
  /\ a = 0 /\ b = 0 /\ pointB = Infinity
  /\ choice \in {0, 1}
  /\ keys = <<>> /\ received = "nothing" /\ stage = "start"

PointA == Multiple(a, Generator)

\* Alice draws a and sends A = aG.
GeneratePointA ==
  /\ bob = "ot" /\ stage = "start"
  /\ a' \in Scalar
  /\ stage' = "offered"
  /\ UNCHANGED <<bob, b, choice, pointB, keys, received>>

\* Mutant of ChosenPoint: A is added for the other choice.
ChosenPointSwapped(bG, c) == IF c = 0 THEN PointAdd(bG, PointA) ELSE bG

\* B = bG or B = bG + A.
ChosenPoint(bG, c) == IF c = 0 THEN bG ELSE PointAdd(bG, PointA)

\* obliviousTransferWithStorage: Bob stores b and sends B.
SendChoice ==
  /\ stage = "offered"
  /\ b' \in Scalar
  /\ pointB' = ChosenPoint(Multiple(b', Generator), choice)
  /\ stage' = "chosen"
  /\ UNCHANGED <<bob, a, choice, keys, received>>

(***************************************************************************)
(* encryptMessages: key 0 from aB, key 1 from a(B - A).  It throws for an  *)
(* invalid B, and where B - A is infinity, which has no encoding.          *)
(***************************************************************************)
EncryptMessages ==
  /\ stage = "chosen"
  /\ LET difference == PointSubtract(pointB, PointA) IN
     IF Infinity \in {pointB, difference}
       THEN stage' = "failed" /\ UNCHANGED keys
       ELSE /\ keys' = <<XCoord(Multiple(a, pointB)), XCoord(Multiple(a, difference))>>
            /\ stage' = "encrypted"
  /\ UNCHANGED <<bob, a, b, choice, pointB, received>>

Decrypt(key, c) == IF key = keys[c + 1] THEN <<"m0", "m1">>[c + 1] ELSE "garbage"

\* Mutant of BobKey: the key is taken from bB.
BobKeyFromB == XCoord(Multiple(b, pointB))

BobKey == XCoord(Multiple(b, PointA))

\* bobReceiveMessage: the chosen message with the key from bA.
ReceiveMessage ==
  /\ bob = "ot" /\ stage = "encrypted"
  /\ received' = Decrypt(BobKey, choice)
  /\ stage' = "done"
  /\ UNCHANGED <<bob, a, b, choice, pointB, keys>>

-----------------------------------------------------------------------------
(* CorrelatedOTProtocol. *)

\* generatePointB: B goes out before A is drawn, whatever the choice.
GeneratePointB ==
  /\ bob = "cot" /\ stage = "start" /\ b = 0
  /\ b' \in Scalar
  /\ pointB' = Multiple(b', Generator)
  /\ UNCHANGED <<bob, a, choice, keys, received, stage>>

\* The points A are drawn with the ot_instances, for a B that has come.
GeneratePointAForB ==
  /\ bob = "cot" /\ stage = "start" /\ b # 0
  /\ a' \in Scalar
  /\ stage' = "chosen"
  /\ UNCHANGED <<bob, b, choice, pointB, keys, received>>

\* processSingleCOT: the key is whatever was on the stack.
ProcessSingleCOT ==
  /\ bob = "cot" /\ stage = "encrypted"
  /\ \E P \in Point \ {Infinity} : received' = Decrypt(XCoord(P), choice)
  /\ stage' = "done"
  /\ UNCHANGED <<bob, a, b, choice, pointB, keys>>

Next ==
  \/ GeneratePointA \/ SendChoice
  \/ GeneratePointB \/ GeneratePointAForB
  \/ EncryptMessages
  \/ ReceiveMessage \/ ProcessSingleCOT

Spec == Init /\ [][Next]_vars

-----------------------------------------------------------------------------

Key == {XCoord(P) : P \in Point \ {Infinity}}

TypeOK ==
  /\ bob \in {"ot", "cot"}
  /\ {a, b} \subseteq 0..(Order - 1) /\ choice \in {0, 1} /\ pointB \in Point
  /\ keys = <<>> \/ keys \in Key \X Key
  /\ received \in {"nothing", "m0", "m1", "garbage"}
  /\ stage \in {"start", "offered", "chosen", "encrypted", "failed", "done"}

(***************************************************************************)
(* The two programs derive the same key, one from bA, the other from aB or *)
(* a(B - A): Bob reads the message of his choice (ot-protocol.ts:65-79).   *)
(***************************************************************************)
ChosenArrives == bob = "ot" /\ stage = "done" => received = <<"m0", "m1">>[choice + 1]

(***************************************************************************)
(* Bob's key opens the other message too only for the one b in the group   *)
(* for which aB and a(B - A) are opposite points: x-coordinates hide the   *)
(* sign.                                                                   *)
(***************************************************************************)
OtherStaysClosed ==
  bob = "ot" /\ stage = "done" =>
    (BobKey = keys[2 - choice]
       <=> PointAdd(PointB, PointB) = IF choice = 0 THEN PointA ELSE NegatePoint(PointA))

(***************************************************************************)
(* A transfer fails only for the one b that makes B equal to A or to       *)
(* infinity (ot-protocol.ts:88), never for another one.                    *)
(***************************************************************************)
FailsOnlyDegenerate ==
  stage = "failed" =>
    PointB = IF bob = "ot" /\ choice = 1 THEN NegatePoint(PointA) ELSE PointA

(***************************************************************************)
(* In place of this transfer, the correlated one fixes B before a choice   *)
(* counts: with the b of cot_protocol.cpp:20 Bob could open m0 and, but    *)
(* for one b, never m1, so m1 would be garbage even with a key.            *)
(***************************************************************************)
OnlyZeroOpens ==
  bob = "cot" /\ stage \in {"encrypted", "done"} =>
    BobKey = keys[1] /\ (BobKey = keys[2] <=> PointAdd(PointB, PointB) = PointA)

(***************************************************************************)
(* ot-protocol.ts:29: "Bob sends B = bG (if c=0) or B = bG + A (if c=1)".  *)
(***************************************************************************)
PointFollowsChoice ==
  stage = "chosen" => pointB = ChosenPoint(PointB, choice)

=============================================================================
