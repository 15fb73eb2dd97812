------------------------------- MODULE Curve -------------------------------
(***************************************************************************)
(* Points of y^2 = x^3 + 7, as both programs compute with them: elliptic   *)
(* and OpenSSL behind ECCUtils (utils.ts), trezor-crypto behind            *)
(* CryptoOperations (crypto_operations.cpp), and the one negation that     *)
(* ot-protocol.ts writes out on bytes.  A point is its two coordinates.    *)
(* secp256k1 has a prime of 32 bytes; this is the same curve over a small  *)
(* one.                                                                    *)
(***************************************************************************)
EXTENDS Integers, FiniteSets

CONSTANTS FieldPrime,   \* p of modNegate
          Base, Digits  \* values of a byte, bytes of a coordinate: 256 and 32

Field == 0..(FieldPrime - 1)

CurveInfinity == <<>>

\* decodePoint and validate: what 04 || 0 || 0 stands for is no point.
IsValidPoint(P) == (P[2] * P[2]) % FieldPrime = (P[1] * P[1] * P[1] + 7) % FieldPrime

CurvePoint == {P \in Field \X Field : IsValidPoint(P)} \cup {CurveInfinity}
CurveOrder == Cardinality(CurvePoint)

\* What a byte is worth, the last one first.
Power[k \in 0..Digits] == IF k = 0 THEN 1 ELSE Base * Power[k - 1]

ASSUME CurveAssumption ==
  /\ FieldPrime \in Nat /\ FieldPrime > 7
  /\ \A k \in 2..(FieldPrime - 1) : FieldPrime % k # 0
  /\ \A k \in 2..(CurveOrder - 1) : CurveOrder % k # 0
  /\ Base \in Nat \ {0, 1} /\ Digits \in Nat /\ FieldPrime < Power[Digits]

\* No point of a curve of odd order is its own negative.
ASSUME AxisAssumption == \A P \in CurvePoint \ {CurveInfinity} : P[2] # 0

\* n / d in the field.
Divide(n, d) == CHOOSE q \in Field : (q * d) % FieldPrime = n % FieldPrime

\* add of elliptic, point_add of trezor-crypto.
CurveAdd(P, Q) ==
  CASE P = CurveInfinity -> Q
    [] Q = CurveInfinity -> P
    [] P # CurveInfinity /\ Q # CurveInfinity ->
       IF P[1] = Q[1] /\ P # Q THEN CurveInfinity
       ELSE LET slope == IF P = Q THEN Divide(3 * P[1] * P[1], 2 * P[2])
                                  ELSE Divide(Q[2] - P[2], Q[1] - P[1])
                x     == (slope * slope - P[1] - Q[1]) % FieldPrime
            IN <<x, (slope * (P[1] - x) - P[2]) % FieldPrime>>

CurveMultiple(k, P) ==
  LET multiple[n \in 0..k] ==
        IF n = 0 THEN CurveInfinity
        ELSE LET half == multiple[n \div 2]
                 twice == CurveAdd(half, half)
             IN IF n % 2 = 0 THEN twice ELSE CurveAdd(twice, P)
  IN multiple[k]

\* The key: deriveKeyFromPoint of what computeSecret returns, and &result.x.
CurveXCoord(P) == P[1]

CurveGenerator == CHOOSE P \in CurvePoint : P # CurveInfinity

-----------------------------------------------------------------------------
(* Negation. *)

\* P.neg() of elliptic.
LibraryNegate(P) == <<P[1], (FieldPrime - P[2]) % FieldPrime>>

\* Byte k of a coordinate, counted from the last.
Byte(n, k) == (n \div Power[k]) % Base

\* modNegate: p - value, byte after byte from the last one.
ModNegate(value) ==
  LET loop[k \in 0..Digits] ==
        IF k = 0 THEN [borrow |-> 0, result |-> 0]
        ELSE LET before == loop[k - 1]
                 diff   == Byte(FieldPrime, k - 1) - Byte(value, k - 1) - before.borrow
             IN [borrow |-> IF diff < 0 THEN 1 ELSE 0,
                 result |-> before.result + Power[k - 1] * (IF diff < 0 THEN diff + Base ELSE diff)]
  IN loop[Digits].result

\* negatePoint.
CurveNegate(P) == <<P[1], ModNegate(P[2])>>

-----------------------------------------------------------------------------

(***************************************************************************)
(* The negation that ot-protocol.ts writes out byte by byte is that of the *)
(* library: no borrow is lost or taken twice, whichever bytes a coordinate *)
(* has (ot-protocol.ts:147).                                               *)
(***************************************************************************)
NegationsAgree ==
  /\ \A value \in 1..(FieldPrime - 1) : ModNegate(value) = FieldPrime - value
  /\ \A P \in CurvePoint \ {CurveInfinity} : CurveNegate(P) = LibraryNegate(P)

=============================================================================
