------------------------ MODULE MtaRefinementProofs ------------------------
(***************************************************************************)
(* MtaSystem implements MtaPromise, for any clients, retries, faults and   *)
(* crashes.                                                                *)
(***************************************************************************)
EXTENDS MtaRefinement, MtaSystemProofs

\* One thing said on one connection is a step of the promise.
LEMMA SayStep ==
  ASSUME NEW c \in Conns,
         Said(c)' = Said(c) + 1, Said(c) \in 0..4,
         \A d \in Conns : d # c => Said(d)' = Said(d),
         \A p \in Clients : Verdict(p)' = Verdict(p),
         Said(c) \in {0, 2, 4} => Verdict(Owner(c)) = "none"
  PROVE  Promise!Next
<1> DEFINE said == [d \in Conns |-> Said(d)]
           verdict == [p \in Clients |-> Verdict(p)]
<1>a. said[c] = Said(c) /\ verdict[c[1]] = Verdict(Owner(c))
  BY ConnFacts DEF Owner
<1>b. said[c] < 5 /\ (said[c] % 2 = 0 => verdict[c[1]] = "none")
  BY <1>a
<1>c. said' = [said EXCEPT ![c] = @ + 1] /\ verdict' = verdict
  <2>1. said' = [d \in Conns |-> Said(d)'] /\ verdict' = [p \in Clients |-> Verdict(p)']
    OBVIOUS
  <2>2. [d \in Conns |-> Said(d)'] = [said EXCEPT ![c] = @ + 1]
    BY <1>a
  <2>3. [p \in Clients |-> Verdict(p)'] = verdict
    OBVIOUS
  <2>4. QED
    BY <2>1, <2>2, <2>3
<1>1. Promise!Say(c)
  BY <1>b, <1>c DEF Promise!Say, Promise!LastStep
<1>2. QED
  BY <1>1 DEF Promise!Next, Promise!Conns, Conns

\* One client that reports is one, too.
LEMMA ReportStep ==
  ASSUME NEW p \in Clients,
         Verdict(p) = "none",
         \/ Verdict(p)' = "failure"
         \/ Verdict(p)' = "success" /\ \E k \in 1..MaxRetries : Said(<<p, k>>) = 5,
         \A q \in Clients : q # p => Verdict(q)' = Verdict(q),
         \A d \in Conns : Said(d)' = Said(d)
  PROVE  Promise!Next
<1> DEFINE said == [d \in Conns |-> Said(d)]
           verdict == [q \in Clients |-> Verdict(q)]
<1>a. verdict[p] = "none"
  OBVIOUS
<1>b. \A k \in 1..MaxRetries : said[<<p, k>>] = Said(<<p, k>>)
  BY WireAssumption DEF Conns
<1>c. said' = said
  OBVIOUS
<1>d. CASE Verdict(p)' = "failure"
  <2>1. verdict' = [verdict EXCEPT ![p] = "failure"]
    BY <1>d
  <2>2. Promise!Fail(p)
    BY <1>a, <1>c, <2>1 DEF Promise!Fail
  <2>3. QED
    BY <2>2 DEF Promise!Report, Promise!Next
<1>e. CASE Verdict(p)' = "success" /\ \E k \in 1..MaxRetries : Said(<<p, k>>) = 5
  <2>1. verdict' = [verdict EXCEPT ![p] = "success"]
    BY <1>e
  <2>2. Promise!Succeed(p)
    BY <1>a, <1>b, <1>c, <1>e, <2>1 DEF Promise!Succeed, Promise!LastStep
  <2>3. QED
    BY <2>2 DEF Promise!Report, Promise!Next
<1>f. QED
  BY <1>d, <1>e

\* And one where nothing is said or reported changes nothing.
LEMMA SilentStep ==
  ASSUME \A d \in Conns : Said(d)' = Said(d),
         \A q \in Clients : Verdict(q)' = Verdict(q)
  PROVE  UNCHANGED Promise!promiseVars
BY DEF Promise!promiseVars

\* A step of a session is a turn of Bob, or none.
LEMMA SessionRefines ==
  ASSUME IInv, NEW c \in Conns, SessionStep(c), UNCHANGED clientVars
  PROVE  Promise!Next \/ UNCHANGED Promise!promiseVars
<1>0. /\ Conversation(c) /\ OpMatchesState(c)
      /\ c2s \in [Conns -> Seq(AliceKinds)] /\ s2c \in [Conns -> Seq(BobKinds)]
      /\ sst \in [Conns -> ProtocolState \cup {"none"}]
  BY DEF IInv, TypeOK, WireTypeOK, ServerTypeOK
<1>1. \A p \in Clients : Verdict(p)' = Verdict(p)
  BY DEF Verdict, clientVars
<1>2. \A d \in Conns : d # c => Said(d)' = Said(d)
  BY SessionFrame DEF IInv, Said, clientVars
<1>3. CASE MessageRead(c) /\ Decodes(c)
  <2>1. \/ DeltaSaid(c) /\ sst'[c] = "SENDING_BOB_SETUP"
        \/ AliceSaid(c) /\ sst'[c] = "SENDING_BOB_MESSAGES"
    BY <1>0, <1>3 DEF MessageRead, ProcessCorrelationDelta, ProcessAliceMessages,
       Conversation, Unsaid, DeltaSaid, SetupSaid, AliceSaid, BobSaid, AllSaid
  <2>2. CASE DeltaSaid(c) /\ sst'[c] = "SENDING_BOB_SETUP"
    <3>1. Said(c) = 1 /\ Said(c)' = 2
      BY <2>2 DEF DeltaSaid, Said, clientVars
    <3>2. QED
      BY <1>1, <1>2, <3>1, SayStep
  <2>3. CASE AliceSaid(c) /\ sst'[c] = "SENDING_BOB_MESSAGES"
    <3>1. Said(c) = 3 /\ Said(c)' = 4
      BY <2>3 DEF AliceSaid, Said, clientVars
    <3>2. QED
      BY <1>1, <1>2, <3>1, SayStep
  <2>4. QED
    BY <2>1, <2>2, <2>3
<1>4. CASE ~(MessageRead(c) /\ Decodes(c))
  <2>1. \/ sst'[c] = sst[c]
        \/ sst[c] = "none" /\ sst'[c] = "WAITING_FOR_CORRELATION_DELTA"
        \/ sst[c] = "SENDING_BOB_SETUP" /\ sst'[c] = "WAITING_FOR_ALICE_MESSAGES"
        \/ sst[c] = "SENDING_BOB_MESSAGES" /\ sst'[c] = "PROTOCOL_COMPLETE"
    BY <1>0, <1>4 DEF OpMatchesState, SessionStep, AcceptSession, AcceptFails, SizeRead,
       ReadFails, MessageRead, SetupSent, MessagesSent, WriteFails
  <2>2. Said(c)' = Said(c)
    BY <2>1 DEF Said, clientVars
  <2>3. QED
    BY <1>1, <1>2, <2>2, SilentStep
<1>5. QED
  BY <1>3, <1>4

\* A conversation that belongs to p does not make another client's verdict.
LEMMA VerdictOf ==
  ASSUME NEW q \in Clients, phase'[q] = phase[q]
  PROVE  Verdict(q)' = Verdict(q)
BY DEF Verdict

\* What is said on a connection depends on the states of its two ends.
LEMMA SaidOf ==
  ASSUME NEW d \in Conns, cst'[d] = cst[d], sst'[d] = sst[d]
  PROVE  Said(d)' = Said(d)
BY DEF Said

\* Steps of main and executeMTAWithRetry say nothing.
LEMMA MainRefines ==
  ASSUME IInv, NEW p \in Clients, UNCHANGED serverVars,
         \/ StartProbe(p) \/ ProbeConnected(p) \/ ProbeFails(p)
         \/ CreateClient(p) \/ CreateFails(p) \/ BackoffOver(p)
  PROVE  Promise!Next \/ UNCHANGED Promise!promiseVars
<1>1. \A d \in Conns : Said(d)' = Said(d)
  BY SaidOf DEF StartProbe, ProbeConnected, ProbeFails, CreateClient, CreateFails, BackoffOver,
                serverVars
<1>2. phase \in [Clients -> {"start", "probe", "create", "running", "backoff"} \cup Exits]
  BY DEF IInv, TypeOK, ClientTypeOK
<1>3. /\ \A q \in Clients : q # p => phase'[q] = phase[q]
      /\ phase[p] \in {"start", "probe", "create", "backoff"}
      /\ phase'[p] \in {"probe", "create", "running", "backoff", "exit1"}
  BY <1>2 DEF StartProbe, ProbeConnected, ProbeFails, CreateClient, CreateFails, BackoffOver,
              FailAttempt
<1>4. CASE phase'[p] = "exit1"
  <2>1. Verdict(p) = "none" /\ Verdict(p)' = "failure"
    BY <1>3, <1>4 DEF Verdict
  <2>2. QED
    BY <1>1, <1>3, <2>1, VerdictOf, ReportStep
<1>5. CASE phase'[p] # "exit1"
  <2>1. Verdict(p)' = Verdict(p)
    BY <1>3, <1>5 DEF Verdict
  <2>2. QED
    BY <1>1, <1>3, <2>1, VerdictOf, SilentStep
<1>6. QED
  BY <1>4, <1>5

\* A microtask is a turn of Alice, or none.
LEMMA JobRefines ==
  ASSUME IInv, NEW p \in Clients, UNCHANGED serverVars,
         SetupPrepared(p) \/ ShareComputed(p)
  PROVE  Promise!Next \/ UNCHANGED Promise!promiseVars
<1>0. PICK c \in Conns :
         /\ c = Current(p) /\ Owner(c) = p /\ c[2] = attempt[p] /\ c = <<p, attempt[p]>>
         /\ attempt[p] \in 0..MaxRetries /\ attempt[p] \in Nat
         /\ Conversation(c) /\ Unestablished(c) /\ SocketInUse(c) /\ OpMatchesState(c)
         /\ AttemptsAhead(p) /\ AttemptMatchesPhase(p)
  BY AtCurrent
<1>1. cst \in [Conns -> ClientState]
  BY DEF IInv, TypeOK, ClientTypeOK
<1>2. /\ \A d \in Conns : d # c => Said(d)' = Said(d)
      /\ \A q \in Clients : Verdict(q)' = Verdict(q)
  BY <1>0, <1>1, SaidOf, VerdictOf DEF SetupPrepared, ShareComputed, serverVars
<1>3. Verdict(Owner(c)) = "none"
  BY <1>0 DEF SetupPrepared, ShareComputed, AttemptMatchesPhase, Verdict
<1>4. CASE cst' = cst
  BY <1>2, <1>4, SaidOf, SilentStep DEF serverVars
<1>5. CASE SetupPrepared(p) /\ cst' # cst
  <2>1. cst[c] = "WAITING_FOR_BOB_SETUP" /\ sst[c] \in {"SENDING_BOB_SETUP", "WAITING_FOR_ALICE_MESSAGES"}
    BY <1>0, <1>5 DEF SetupPrepared, Conversation, Unsaid, DeltaSaid, SetupSaid, AliceSaid,
                      BobSaid, AllSaid, NoJobs, OneJob
  <2>2. cst'[c] = "WAITING_FOR_BOB_MESSAGES" /\ sst' = sst
    BY <1>0, <1>1, <1>5 DEF SetupPrepared, serverVars
  <2>3. Said(c) = 2 /\ Said(c)' = 3
    BY <2>1, <2>2 DEF Said
  <2>4. QED
    BY <1>2, <1>3, <2>3, SayStep
<1>6. CASE ShareComputed(p)
  <2>1. cst[c] = "WAITING_FOR_BOB_MESSAGES" /\ sst[c] \in {"SENDING_BOB_MESSAGES", "PROTOCOL_COMPLETE"}
    BY <1>0, <1>6 DEF ShareComputed, Conversation, Unsaid, DeltaSaid, SetupSaid, AliceSaid,
                      BobSaid, AllSaid, NoJobs, OneJob
  <2>2. cst'[c] = "PROTOCOL_COMPLETE"
    BY <1>0, <1>1, <1>6 DEF ShareComputed
  <2>3. Said(c) = 4 /\ Said(c)' = 5
    BY <2>1, <2>2 DEF Said
  <2>4. QED
    BY <1>2, <1>3, <2>3, SayStep
<1>7. QED
  BY <1>4, <1>5, <1>6

\* A handler of a socket is a turn of Alice, a success reported, or none.
LEMMA SocketRefines ==
  ASSUME IInv, NEW p \in Clients, NEW c \in Conns, Owner(c) = p, UNCHANGED serverVars,
         \/ Connected(c) \/ ConnectFails(c) \/ TimerFires(c)
         \/ DataEvent(c) \/ CloseEvent(c) \/ ErrorEvent(c)
  PROVE  Promise!Next \/ UNCHANGED Promise!promiseVars
<1>0. /\ Conversation(c) /\ Unestablished(c) /\ SocketInUse(c)
      /\ AttemptMatchesPhase(p) /\ attempt[p] \in Nat /\ attempt[p] <= MaxRetries
      /\ csock[c] \in {"connecting", "open"} => c = Current(p) /\ c[2] = attempt[p]
      /\ phase \in [Clients -> {"start", "probe", "create", "running", "backoff"} \cup Exits]
      /\ cst \in [Conns -> ClientState]
      /\ sst' = sst
  BY AtSocket DEF serverVars
<1>1. CASE Connected(c)
  <2>1. link[c] = "none" /\ cst[c] = "CONNECTING" /\ sst[c] = "none"
    BY <1>0, <1>1 DEF Connected, SocketInUse, Unestablished
  <2>2. cst' = [cst EXCEPT ![c] = "SENDING_CORRELATION_DELTA"] /\ phase' = phase
    BY <1>1 DEF Connected
  <2>3. Said(c)' = Said(c)
    BY <1>0, <2>1, <2>2 DEF Said
  <2>4. \A d \in Conns : Said(d)' = Said(d)
    BY <1>0, <2>2, <2>3, SaidOf
  <2>5. QED
    BY <2>2, <2>4, VerdictOf, SilentStep
<1>2. CASE TimerFires(c)
  <2>1. Unsaid(c) /\ phase[p] \notin Exits
    BY <1>0, <1>2 DEF TimerFires, Ready, Conversation, DeltaSaid, SetupSaid, AliceSaid,
                      BobSaid, AllSaid
  <2>2. cst' = [cst EXCEPT ![c] = "WAITING_FOR_BOB_SETUP"] /\ phase' = phase
    BY <1>2 DEF TimerFires
  <2>3. Said(c) = 0 /\ Said(c)' = 1
    BY <1>0, <2>1, <2>2 DEF Said, Unsaid
  <2>4. Verdict(Owner(c)) = "none"
    BY <2>1 DEF Verdict, Exits
  <2>5. \A d \in Conns : d # c => Said(d)' = Said(d)
    BY <1>0, <2>2, SaidOf
  <2>6. QED
    BY <2>2, <2>3, <2>4, <2>5, VerdictOf, SayStep
<1>3. CASE DataEvent(c)
  BY <1>0, <1>3, SaidOf, VerdictOf, SilentStep DEF DataEvent
<1>4. CASE ConnectFails(c) \/ CloseEvent(c) \/ ErrorEvent(c)
  <2>1. \A d \in Conns : Said(d)' = Said(d)
    BY <1>0, <1>4, SaidOf DEF ConnectFails, CloseEvent, ErrorEvent
  <2>2. \A q \in Clients : q # p => Verdict(q)' = Verdict(q)
    BY <1>0, <1>4, VerdictOf DEF ConnectFails, CloseEvent, ErrorEvent, FailAttempt
  <2>3. phase[p] = "running" /\ c = Current(p)
    <3>1. ConnectFails(c) => phase[p] = "running" /\ csock[c] = "connecting"
      BY DEF ConnectFails
    <3>2. csock[c] = "open" => phase[p] = "running"
      BY <1>0 DEF SocketInUse, AttemptMatchesPhase
    <3>3. QED
      BY <1>0, <1>4, <3>1, <3>2 DEF CloseEvent, ErrorEvent
  <2>4. \/ phase'[p] \in {"backoff", "exit1"}
        \/ phase'[p] = "exit0" /\ cst[c] = "PROTOCOL_COMPLETE"
    BY <1>0, <1>4 DEF ConnectFails, CloseEvent, ErrorEvent, FailAttempt
  <2>5. Verdict(p) = "none"
    BY <2>3 DEF Verdict
  <2>6. CASE phase'[p] = "backoff"
    <3>1. Verdict(p)' = Verdict(p)
      BY <2>5, <2>6 DEF Verdict
    <3>2. QED
      BY <2>1, <2>2, <3>1, SilentStep
  <2>7. CASE phase'[p] = "exit1"
    <3>1. Verdict(p)' = "failure"
      BY <2>7 DEF Verdict
    <3>2. QED
      BY <2>1, <2>2, <2>5, <3>1, ReportStep
  <2>8. CASE phase'[p] = "exit0" /\ cst[c] = "PROTOCOL_COMPLETE"
    <3>1. Verdict(p)' = "success"
      BY <2>8 DEF Verdict
    <3>2. attempt[p] \in 1..MaxRetries /\ Said(<<p, attempt[p]>>) = 5
      BY <1>0, <2>3, <2>8, WireAssumption DEF AttemptMatchesPhase, Said, Current
    <3>3. QED
      BY <2>1, <2>2, <2>5, <3>1, <3>2, ReportStep
  <2>9. QED
    BY <2>4, <2>6, <2>7, <2>8
<1>5. QED
  BY <1>1, <1>2, <1>3, <1>4

\* Faults, signals, crashes and restarts say nothing.
LEMMA EnvironmentRefines ==
  ASSUME IInv, Environment
  PROVE  Promise!Next \/ UNCHANGED Promise!promiseVars
<1>1. \A d \in Conns : Said(d)' = Said(d)
  BY SaidOf DEF Environment, ConnectionLost, Partition, Interrupt, Crash, Restart, clientVars, serverVars
<1>2. CASE phase' = phase
  BY <1>1, <1>2, VerdictOf, SilentStep
<1>3. ASSUME NEW p \in Clients, Interrupt(p)
      PROVE  Promise!Next
  <2>1. phase \in [Clients -> {"start", "probe", "create", "running", "backoff"} \cup Exits]
    BY DEF IInv, TypeOK, ClientTypeOK
  <2>2. Verdict(p) = "none" /\ Verdict(p)' = "failure"
    BY <1>3, <2>1 DEF Interrupt, Ready, Verdict, Exits
  <2>3. \A q \in Clients : q # p => Verdict(q)' = Verdict(q)
    BY <1>3, <2>1, VerdictOf DEF Interrupt
  <2>4. QED
    BY <1>1, <2>2, <2>3, ReportStep
<1>4. QED
  BY <1>2, <1>3 DEF Environment, ConnectionLost, Partition, clientVars

(***************************************************************************)
(* Whatever clients, sessions, network and operator do, what is said on a  *)
(* connection is said in turns and once, and exit code 0 of index.ts comes *)
(* after a whole conversation: the safety part of MtaPromise.              *)
(***************************************************************************)
THEOREM Refinement == Spec => KeepsPromise
<1>1. Init => Promise!Init
  BY DEF Init, WireInit, ClientInit, ServerInit, Promise!Init, Promise!Conns, Conns,
         Said, Verdict
<1>2. IInv /\ [Next]_vars => [Promise!Next]_Promise!promiseVars
  <2> SUFFICES ASSUME IInv, [Next]_vars
               PROVE  Promise!Next \/ UNCHANGED Promise!promiseVars
    OBVIOUS
  <2>1. ASSUME NEW p \in Clients, ClientStep(p), UNCHANGED serverVars
        PROVE  Promise!Next \/ UNCHANGED Promise!promiseVars
    <3>1. ASSUME NEW k \in 0..MaxRetries,
                 LET c == <<p, k>> IN
                 \/ Connected(c) \/ ConnectFails(c) \/ TimerFires(c)
                 \/ DataEvent(c) \/ CloseEvent(c) \/ ErrorEvent(c)
          PROVE  Promise!Next \/ UNCHANGED Promise!promiseVars
      BY <2>1, <3>1, ConnFacts, SocketRefines
    <3>2. QED
      BY <2>1, <3>1, MainRefines, JobRefines DEF ClientStep
  <2>2. ASSUME NEW c \in Conns, SessionStep(c), UNCHANGED clientVars
        PROVE  Promise!Next \/ UNCHANGED Promise!promiseVars
    BY <2>2, SessionRefines
  <2>3. CASE Environment
    BY <2>3, EnvironmentRefines
  <2>4. CASE UNCHANGED vars
    BY <2>4, SaidOf, VerdictOf, SilentStep DEF vars, clientVars, serverVars
  <2>5. QED
    BY <2>1, <2>2, <2>3, <2>4 DEF Next
<1>3. QED
  BY <1>1, <1>2, Invariance, PTL DEF Spec, KeepsPromise, Promise!Spec

=============================================================================
