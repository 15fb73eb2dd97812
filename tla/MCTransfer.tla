----------------------------- MODULE MCTransfer -----------------------------
(* A transfer over a curve that TLC can enumerate. *)
EXTENDS ObliviousTransfer, Curve

\* Here of the curve that is enumerated; TransferProofs proves it for any field.
ASSUME NegationAssumption == NegationsAgree

=============================================================================
