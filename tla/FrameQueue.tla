----------------------------- MODULE FrameQueue -----------------------------
(***************************************************************************)
(* What a direction of a connection promises above the byte stream: whole  *)
(* frames arrive, in order, once each; several may arrive together.        *)
(***************************************************************************)
EXTENDS Naturals, Sequences

CONSTANTS Frames, MaxFrames

VARIABLES sent, received

queueVars == <<sent, received>>

Init == sent = <<>> /\ received = <<>>

Send == /\ Len(sent) < MaxFrames
        /\ \E f \in Frames : sent' = Append(sent, f)
        /\ UNCHANGED received

Receive == /\ \E n \in (Len(received) + 1)..Len(sent) : received' = SubSeq(sent, 1, n)
           /\ UNCHANGED sent

InOrder == Init /\ [][Send \/ Receive]_queueVars

Spec == InOrder /\ WF_queueVars(Receive)

=============================================================================
