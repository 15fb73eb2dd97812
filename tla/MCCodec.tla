------------------------------ MODULE MCCodec ------------------------------
(* Instances of MtaCodec for TLC. *)
EXTENDS MtaCodec

(***************************************************************************)
(* Every run of ones and every run of zeroes: each length of the varint,   *)
(* each edge of a group and of a byte.                                     *)
(***************************************************************************)
Runs == {i..j : i \in 0..31, j \in 0..31}

MCWords == Runs \cup {(0..31) \ r : r \in Runs}

=============================================================================
