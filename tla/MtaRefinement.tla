--------------------------- MODULE MtaRefinement ---------------------------
(***************************************************************************)
(* MtaSystem implements MtaPromise: how far a conversation is follows from *)
(* the states of the two ends, Alice's of AliceMTAClient and Bob's of      *)
(* Session, and a verdict is how the client process ended.                 *)
(***************************************************************************)
EXTENDS MtaSystem

Said(c) ==
  IF cst[c] = "PROTOCOL_COMPLETE" THEN 5
  ELSE IF sst[c] \in {"SENDING_BOB_MESSAGES", "PROTOCOL_COMPLETE"} THEN 4
  ELSE IF cst[c] = "WAITING_FOR_BOB_MESSAGES" THEN 3
  ELSE IF sst[c] \in {"SENDING_BOB_SETUP", "WAITING_FOR_ALICE_MESSAGES"} THEN 2
  ELSE IF cst[c] = "WAITING_FOR_BOB_SETUP" THEN 1
  ELSE 0

Verdict(p) ==
  IF phase[p] = "exit0" THEN "success"
  ELSE IF phase[p] \in {"exit1", "signal"} THEN "failure"
  ELSE "none"

Promise == INSTANCE MtaPromise WITH
  said <- [c \in Conns |-> Said(c)],
  verdict <- [p \in Clients |-> Verdict(p)]

(***************************************************************************)
(* Every step of clients, sessions, network and crashes is a step of the   *)
(* promise or none: no frame is answered twice or out of turn, on whatever *)
(* connection and however late the timers of mta-client.ts:277 fire.       *)
(***************************************************************************)
KeepsPromise == Promise!Spec

\* And every client reports in the end, through retries, resets and crashes.
KeepsFairPromise == Promise!FairSpec

=============================================================================
