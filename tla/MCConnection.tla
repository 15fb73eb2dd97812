---------------------------- MODULE MCConnection ----------------------------
(* Bits for bytes, two of them for a header; one frame of each length. *)
EXTENDS MtaConnection

MCFrames == {<<>>, <<1>>, <<1, 0>>, <<0, 0, 1>>}

=============================================================================
