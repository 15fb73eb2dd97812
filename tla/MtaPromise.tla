----------------------------- MODULE MtaPromise -----------------------------
(***************************************************************************)
(* What the handshake promises, with no sockets, states or timers: on each *)
(* connection Alice and Bob speak in turns and nobody speaks out of turn   *)
(* or twice, and a client reports success only after a conversation of its *)
(* own in which everything was said.                                       *)
(***************************************************************************)
EXTENDS Naturals

CONSTANTS Clients, MaxRetries

Conns == Clients \X (0..MaxRetries)

VARIABLES
  said,    \* steps of the conversation on a connection
  verdict  \* what a client process has reported

promiseVars == <<said, verdict>>

\* CorrelationDelta, BobSetup, AliceMessages, BobMessages, and Alice is done.
LastStep == 5

PromiseTypeOK ==
  /\ said \in [Conns -> 0..LastStep]
  /\ verdict \in [Clients -> {"none", "success", "failure"}]

Init ==
  /\ said = [c \in Conns |-> 0]
  /\ verdict = [p \in Clients |-> "none"]

\* The even steps are Alice's: she speaks only while she has not reported.
Say(c) ==
  /\ said[c] < LastStep
  /\ said[c] % 2 = 0 => verdict[c[1]] = "none"
  /\ said' = [said EXCEPT ![c] = @ + 1]
  /\ UNCHANGED verdict

Succeed(p) ==
  /\ verdict[p] = "none"
  /\ \E k \in 1..MaxRetries : said[<<p, k>>] = LastStep
  /\ verdict' = [verdict EXCEPT ![p] = "success"]
  /\ UNCHANGED said

Fail(p) ==
  /\ verdict[p] = "none"
  /\ verdict' = [verdict EXCEPT ![p] = "failure"]
  /\ UNCHANGED said

Report(p) == Succeed(p) \/ Fail(p)

Next == (\E c \in Conns : Say(c)) \/ (\E p \in Clients : Report(p))

Spec == Init /\ [][Next]_promiseVars

\* Every client reports in the end.
FairSpec == Spec /\ \A p \in Clients : WF_promiseVars(Report(p))

=============================================================================
