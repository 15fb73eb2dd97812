------------------------------ MODULE MCSystem ------------------------------
(* Instances of MtaSystem and its refinement for TLC. *)
EXTENDS MtaRefinement, TLC

CONSTANTS p1, p2

OneClient == {p1}
TwoClients == {p1, p2}

\* Client processes are interchangeable: no action names one of them.
Symmetry == Permutations(Clients)

=============================================================================
