------------------------------ MODULE MtaCodec ------------------------------
(***************************************************************************)
(* Every conversion between a message and its bytes: Alice's frames, Bob's *)
(* frames, and the layouts the classes carry besides.  A behaviour is one  *)
(* message, written and read.                                              *)
(***************************************************************************)
EXTENDS AliceCodec, BobCodec, LegacyCodec

vars == <<aliceVars, bobVars, legacyVars>>

Init == AliceInit /\ BobInit /\ LegacyInit

Next ==
  \/ BobInit   /\ LegacyInit /\ AliceNext  /\ UNCHANGED <<bobVars, legacyVars>>
  \/ AliceInit /\ LegacyInit /\ BobNext    /\ UNCHANGED <<aliceVars, legacyVars>>
  \/ AliceInit /\ BobInit    /\ LegacyNext /\ UNCHANGED <<aliceVars, bobVars>>

Spec == Init /\ [][Next]_vars

TypeOK ==
  /\ AliceTypeOK
  /\ bobSent \in {"nothing", "BobSetup", "BobMessages"} /\ DOMAIN fields \subseteq DOMAIN Default
  /\ written \in DOMAIN Writers \cup {"none"} /\ reader \in DOMAIN Layout \cup {"none"}
  /\ decoded.success \in BOOLEAN

\* What the proofs start from: each side holds what it made of what the other sent.
IInv == TypeOK /\ AliceFaithful /\ BobFaithful /\ LegacyFaithful

=============================================================================
