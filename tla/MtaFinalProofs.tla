--------------------------- MODULE MtaFinalProofs ---------------------------
(***************************************************************************)
(* Proof that a finished protocol is run once more only after the network  *)
(* has failed: which end of a connection may have closed it, and when.     *)
(***************************************************************************)
EXTENDS MtaSystemProofs

\* A process that has ended does nothing more.
LEMMA EndedForGood ==
  ASSUME IInv, [Next]_vars, NEW p \in Clients, phase[p] \in {"exit0", "signal"}
  PROVE  phase'[p] = phase[p] /\ attempt'[p] = attempt[p] /\ jobs'[p] = <<>> /\ jobs[p] = <<>>
<1>0. jobs[p] = <<>>
  BY DEF IInv, AttemptMatchesPhase
<1>1. CASE UNCHANGED <<phase, attempt, jobs>>
  BY <1>0, <1>1
<1>t. /\ phase \in [Clients -> {"start", "probe", "create", "running", "backoff"} \cup Exits]
      /\ attempt \in [Clients -> 0..MaxRetries] /\ jobs \in [Clients -> Seq(Jobs)]
  BY DEF IInv, TypeOK, ClientTypeOK
<1>2. ASSUME NEW q \in Clients, ClientStep(q)
      PROVE  phase'[p] = phase[p] /\ attempt'[p] = attempt[p] /\ jobs'[p] = <<>>
  <2>1. p # q
    BY <1>0, <1>2, ConnFacts DEF ClientStep, StartProbe, ProbeConnected, ProbeFails, CreateClient,
       CreateFails, BackoffOver, SetupPrepared, ShareComputed, Connected, ConnectFails,
       TimerFires, DataEvent, CloseEvent, ErrorEvent, Ready, Exits
  <2>2. CASE \/ StartProbe(q) \/ ProbeConnected(q) \/ ProbeFails(q) \/ CreateClient(q)
             \/ CreateFails(q) \/ BackoffOver(q) \/ SetupPrepared(q) \/ ShareComputed(q)
    BY <1>0, <1>t, <2>1, <2>2 DEF StartProbe, ProbeConnected, ProbeFails, CreateClient,
       CreateFails, BackoffOver, SetupPrepared, ShareComputed, FailAttempt
  <2>3. ASSUME NEW c \in Conns, Owner(c) = q,
               \/ Connected(c) \/ ConnectFails(c) \/ TimerFires(c)
               \/ DataEvent(c) \/ CloseEvent(c) \/ ErrorEvent(c)
        PROVE  phase'[p] = phase[p] /\ attempt'[p] = attempt[p] /\ jobs'[p] = <<>>
    BY <1>0, <1>t, <2>1, <2>3 DEF Connected, ConnectFails, TimerFires, DataEvent, CloseEvent,
       ErrorEvent, FailAttempt
  <2>4. QED
    BY <1>2, <2>2, <2>3, ConnFacts DEF ClientStep
<1>3. ASSUME NEW q \in Clients, Interrupt(q)
      PROVE  phase'[p] = phase[p] /\ attempt'[p] = attempt[p] /\ jobs'[p] = <<>>
  BY <1>0, <1>t, <1>3 DEF Interrupt, Ready, Exits
<1>4. QED
  BY <1>0, <1>1, <1>2, <1>3 DEF Next, Environment, vars, clientVars

\* What a step leaves alone on a connection is not disturbed.
LEMMA SameEnds ==
  ASSUME IInv, [Next]_vars, NEW d \in Conns, Ends(d),
         link'[d] = link[d], op'[d] = op[d], sst'[d] = sst[d], csock'[d] = csock[d],
         cst'[d] = cst[d], c2sEnd'[d] = c2sEnd[d], s2cEnd'[d] = s2cEnd[d]
  PROVE  Ends(d)'
<1>1. Owner(d) \in Clients
  BY ConnFacts
<1>2. phase[Owner(d)] \in {"exit0", "signal"} =>
        phase'[Owner(d)] = phase[Owner(d)] /\ attempt'[Owner(d)] = attempt[Owner(d)]
  BY <1>1, EndedForGood
<1>3. QED
  BY <1>2 DEF Ends, BothOpen, Current

-----------------------------------------------------------------------------
(* Steps of a session. *)

\* A step of a session keeps who may have closed its connection.
LEMMA SessionEnds ==
  ASSUME IInv, NEW c \in Conns, Ends(c), SessionStep(c), UNCHANGED clientVars
  PROVE  Ends(c)'
<1>0. /\ Unestablished(c) /\ OpMatchesState(c) /\ Conversation(c)
      /\ link \in [Conns -> {"none", "backlog", "accepted", "dropped"}]
      /\ c2sEnd \in [Conns -> EndStates] /\ s2cEnd \in [Conns -> EndStates]
      /\ sst \in [Conns -> ProtocolState \cup {"none"}]
      /\ op \in [Conns -> {"none", "read_size", "read_body", "write"}]
      /\ UNCHANGED <<csock, cst, phase, attempt>>
  BY DEF IInv, TypeOK, WireTypeOK, ServerTypeOK, clientVars
<1>1. CASE AcceptSession(c)
  BY <1>0, <1>1 DEF AcceptSession, Ends, BothOpen, Current
<1>2. CASE AcceptFails(c)
  BY <1>0, <1>2 DEF AcceptFails, ServerClose, EndAfterClose, Ends, BothOpen, Current, OpMatchesState
<1>3. CASE SizeRead(c)
  BY <1>0, <1>3 DEF SizeRead, wireVars, Ends, BothOpen, Current
<1>4. CASE ReadFails(c)
  BY <1>0, <1>4 DEF ReadFails, ServerClose, EndAfterClose, Ends, BothOpen, Current, Unestablished,
                    OpMatchesState
<1>5. CASE MessageRead(c) /\ Decodes(c)
  <2>1. CASE ProcessCorrelationDelta(c)
    BY <1>0, <1>5, <2>1 DEF MessageRead, ProcessCorrelationDelta, ServerSend, Ends, BothOpen,
                            Current, OpMatchesState, Unestablished
  <2>2. CASE ProcessAliceMessages(c)
    BY <1>0, <1>5, <2>2 DEF MessageRead, ProcessAliceMessages, ServerSend, Ends, BothOpen,
                            Current, OpMatchesState, Unestablished
  <2>3. QED
    BY <1>5, <2>1, <2>2 DEF MessageRead
<1>6. CASE MessageRead(c) /\ ~Decodes(c)
  <2>1. sst[c] \in {"WAITING_FOR_CORRELATION_DELTA", "WAITING_FOR_ALICE_MESSAGES"}
    BY <1>0, <1>6 DEF MessageRead, OpMatchesState
  <2>2. QED
    BY <1>0, <1>6, <2>1 DEF MessageRead, ServerClose, EndAfterClose, Ends, BothOpen, Current,
                            Unestablished, OpMatchesState
<1>7. CASE SetupSent(c)
  BY <1>0, <1>7 DEF SetupSent, wireVars, Ends, BothOpen, Current
<1>8. CASE MessagesSent(c)
  <2>1. c2s[c] = <<>>
    BY <1>0, <1>8 DEF MessagesSent, Conversation, Unsaid, DeltaSaid, SetupSaid, AliceSaid,
                      BobSaid, AllSaid
  <2>2. QED
    BY <1>0, <1>8, <2>1 DEF MessagesSent, ServerClose, EndAfterClose, Ends, BothOpen, Current,
                            Unestablished, OpMatchesState
<1>9. CASE WriteFails(c)
  BY <1>0, <1>9 DEF WriteFails, ServerClose, EndAfterClose, Ends, BothOpen, Current,
                    Unestablished, OpMatchesState
<1>10. QED
  BY <1>1, <1>2, <1>3, <1>4, <1>5, <1>6, <1>7, <1>8, <1>9 DEF SessionStep

-----------------------------------------------------------------------------
(* Steps of a client. *)

\* What is known of connection c, the one a step of p is about.
LEMMA AtStep ==
  ASSUME IInv, EndsInv, NEW c \in Conns
  PROVE  /\ Unestablished(c) /\ OpMatchesState(c) /\ Conversation(c) /\ SocketInUse(c)
         /\ Ends(c) /\ Owner(c) \in Clients /\ JobsHaveSocket(Owner(c))
         /\ AttemptMatchesPhase(Owner(c)) /\ AttemptsAhead(Owner(c))
         /\ link \in [Conns -> {"none", "backlog", "accepted", "dropped"}]
         /\ c2sEnd \in [Conns -> EndStates] /\ s2cEnd \in [Conns -> EndStates]
         /\ s2c \in [Conns -> Seq(BobKinds)]
         /\ csock \in [Conns -> {"none", "connecting", "open", "closed"}]
         /\ cst \in [Conns -> ClientState]
         /\ phase \in [Clients -> {"start", "probe", "create", "running", "backoff"} \cup Exits]
         /\ attempt \in [Clients -> 0..MaxRetries]
         /\ jobs \in [Clients -> Seq(Jobs)]
BY ConnFacts DEF IInv, EndsInv, TypeOK, WireTypeOK, ClientTypeOK

\* A socket that is neither open nor complete has no say in the last clauses.
LEMMA MainEnds ==
  ASSUME IInv, EndsInv, NEW p \in Clients, UNCHANGED serverVars,
         \/ StartProbe(p) \/ ProbeConnected(p) \/ ProbeFails(p)
         \/ CreateClient(p) \/ CreateFails(p) \/ BackoffOver(p)
  PROVE  (\A c \in Conns : Owner(c) = p => Ends(c)') /\ jobs'[p] = <<>>
<1>0. PICK c \in Conns :
         /\ c = Current(p) /\ Owner(c) = p /\ c[2] = attempt[p] /\ c = <<p, attempt[p]>>
         /\ attempt[p] \in 0..MaxRetries /\ attempt[p] \in Nat
  BY AtCurrent
<1>1. jobs'[p] = <<>>
  BY <1>0, AtStep DEF StartProbe, ProbeConnected, ProbeFails, CreateClient,
     CreateFails, BackoffOver, AttemptMatchesPhase
<1>2. /\ phase[p] \notin {"exit0", "signal"} /\ UNCHANGED <<sst, op, cst, s2cEnd>>
      /\ \A d \in Conns : d # c => csock'[d] = csock[d] /\ link'[d] = link[d] /\ c2sEnd'[d] = c2sEnd[d]
  BY <1>0, AtStep DEF StartProbe, ProbeConnected, ProbeFails, CreateClient,
     CreateFails, BackoffOver, ClientClose, wireVars, serverVars
<1>3. ASSUME NEW d \in Conns, Owner(d) = p, d # c
      PROVE  Ends(d)'
  BY <1>2, <1>3, AtStep DEF Ends, BothOpen
<1>4. Ends(c)'
  <2>1. CASE StartProbe(p) \/ CreateClient(p)
    <3>1. csock[c] = "none" /\ link[c] = "none" /\ csock'[c] = "connecting"
          /\ UNCHANGED <<link, c2sEnd>>
      <4>1. AttemptsAhead(p) /\ phase[p] \in {"start", "create"}
        BY <1>0, <2>1, AtStep DEF StartProbe, CreateClient
      <4>2. csock[c] = "none" /\ link[c] = "none"
        BY <1>0, <4>1 DEF AttemptsAhead
      <4>3. QED
        BY <1>0, <2>1, <4>2, AtStep DEF StartProbe, CreateClient, wireVars
    <3>2. QED
      <4>1. cst[c] = "CONNECTING"
        BY <3>1, AtStep DEF Unestablished
      <4>2. QED
        BY <1>2, <3>1, <4>1, AtStep DEF Ends, BothOpen
  <2>2. CASE ProbeConnected(p)
    <3>1. link[c] = "none" /\ BothOpen(c) /\ cst[c] = "CONNECTING"
      <4>1. csock[c] = "connecting"
        BY <1>0, <2>2, AtStep DEF ProbeConnected, AttemptMatchesPhase
      <4>2. link[c] = "none"
        BY <4>1, AtStep DEF SocketInUse
      <4>3. QED
        BY <4>2, AtStep DEF Ends, Unestablished
    <3>2. link'[c] = "backlog" /\ c2sEnd'[c] # "open" /\ csock'[c] = "closed"
      BY <1>0, <2>2, AtStep DEF ProbeConnected, ClientClose, EndAfterClose
    <3>3. sst[c] = "none"
      BY <1>0, <3>1, AtStep DEF Unestablished
    <3>4. QED
      BY <1>2, <3>1, <3>2, <3>3 DEF Ends
  <2>3. CASE ProbeFails(p) \/ CreateFails(p) \/ BackoffOver(p)
    <3>1. csock'[c] # "open" /\ csock[c] # "open" /\ UNCHANGED <<link, c2sEnd>>
      BY <1>0, <2>3, AtStep DEF ProbeFails, CreateFails, BackoffOver, SocketInUse,
         AttemptMatchesPhase, wireVars
    <3>2. QED
      BY <1>0, <1>2, <3>1, AtStep DEF Ends, BothOpen
  <2>4. QED
    BY <2>1, <2>2, <2>3
<1>5. QED
  BY <1>1, <1>3, <1>4

\* So does a microtask of a client.
LEMMA JobEnds ==
  ASSUME IInv, EndsInv, NEW p \in Clients, UNCHANGED serverVars,
         SetupPrepared(p) \/ ShareComputed(p)
  PROVE  (\A c \in Conns : Owner(c) = p => Ends(c)') /\ JobsHaveSocket(p)'
<1>0. PICK c \in Conns :
         /\ c = Current(p) /\ Owner(c) = p /\ c[2] = attempt[p] /\ c = <<p, attempt[p]>>
         /\ attempt[p] \in 0..MaxRetries /\ attempt[p] \in Nat
  BY AtCurrent
<1>1. /\ phase[p] = "running" /\ csock[c] = "open"
      /\ UNCHANGED <<sst, op, link, csock, c2sEnd, attempt, phase>>
      /\ \A d \in Conns : d # c => cst'[d] = cst[d] /\ s2cEnd'[d] = s2cEnd[d]
  <2>1. phase[p] = "running" /\ csock[c] = "open"
    <3>1. jobs[p] # <<>>
      BY DEF SetupPrepared, ShareComputed
    <3>2. AttemptMatchesPhase(p) /\ JobsHaveSocket(p)
      BY <1>0, AtStep
    <3>3. QED
      BY <1>0, <3>1, <3>2 DEF AttemptMatchesPhase, JobsHaveSocket
  <2>2. QED
    <3>1. CASE SetupPrepared(p)
      BY <1>0, <2>1, <3>1, AtStep DEF SetupPrepared, ClientSend, serverVars
    <3>2. CASE ShareComputed(p)
      BY <1>0, <2>1, <3>2, AtStep DEF ShareComputed, wireVars, serverVars
    <3>3. QED
      BY <3>1, <3>2
<1>2. ASSUME NEW d \in Conns, Owner(d) = p, d # c
      PROVE  Ends(d)'
  BY <1>1, <1>2, AtStep DEF Ends, BothOpen, Current
<1>3. link[c] # "none"
  BY <1>1, AtStep DEF Unestablished
<1>4. CASE ShareComputed(p)
  BY <1>0, <1>1, <1>2, <1>4, AtStep DEF ShareComputed, Ends, BothOpen, wireVars, JobsHaveSocket, Current
<1>5. CASE SetupPrepared(p)
  <2>1. sst[c] \in {"SENDING_BOB_SETUP", "WAITING_FOR_ALICE_MESSAGES"}
    <3>1. Conversation(c)
      BY AtStep
    <3>2. jobs[p] # <<>> /\ Head(jobs[p]).fn = "processBobSetup"
      BY <1>5 DEF SetupPrepared
    <3>3. ~NoJobs(c) /\ ~OneJob(c, "processBobMessages", "BobMessages")
      BY <1>0, <3>2 DEF NoJobs, OneJob
    <3>4. QED
      BY <3>1, <3>3 DEF Conversation, Unsaid, DeltaSaid, SetupSaid, AliceSaid, BobSaid, AllSaid
  <2>2. s2cEnd' = s2cEnd \/ (s2cEnd[c] # "open" /\ s2cEnd'[c] = "rst")
    BY <1>0, <1>5, AtStep DEF SetupPrepared, ClientSend
  <2>3. Ends(c)'
    BY <1>1, <1>3, <2>1, <2>2, AtStep DEF Ends, BothOpen
  <2>4. QED
    BY <1>0, <1>1, <1>2, <2>3 DEF JobsHaveSocket, Current
<1>6. QED
  BY <1>4, <1>5

\* The callbacks of one socket.
LEMMA SocketEnds ==
  ASSUME IInv, EndsInv, NEW p \in Clients, UNCHANGED serverVars,
         NEW c \in Conns, Owner(c) = p,
         \/ Connected(c) \/ ConnectFails(c) \/ TimerFires(c)
         \/ DataEvent(c) \/ CloseEvent(c) \/ ErrorEvent(c)
  PROVE  (\A d \in Conns : Owner(d) = p => Ends(d)') /\ JobsHaveSocket(p)'
<1>0. jobs[p] = <<>> /\ phase[p] \notin Exits
  BY DEF Connected, ConnectFails, TimerFires, DataEvent, CloseEvent, ErrorEvent, Ready
<1>1. /\ UNCHANGED <<sst, op, attempt>>
      /\ \A d \in Conns : d # c =>
            /\ cst'[d] = cst[d] /\ s2cEnd'[d] = s2cEnd[d] /\ csock'[d] = csock[d]
            /\ link'[d] = link[d] /\ c2sEnd'[d] = c2sEnd[d]
  BY AtStep DEF Connected, ConnectFails, TimerFires, DataEvent, CloseEvent, ErrorEvent,
     ClientSend, ClientClose, serverVars
<1>2. ASSUME NEW d \in Conns, Owner(d) = p, d # c
      PROVE  Ends(d)'
  BY <1>0, <1>1, <1>2, AtStep DEF Ends, BothOpen, Exits
<1>3. CASE Connected(c)
  <2>1. link[c] = "none" /\ cst[c] = "CONNECTING" /\ sst[c] = "none" /\ BothOpen(c)
    BY <1>3, AtStep DEF Connected, SocketInUse, Unestablished, Ends
  <2>2. Ends(c)'
    BY <1>1, <1>3, <2>1, AtStep DEF Connected, Ends, BothOpen
  <2>3. QED
    BY <1>0, <1>2, <1>3, <2>2 DEF Connected, JobsHaveSocket
<1>4. CASE ConnectFails(c)
  <2>1. link[c] = "none" /\ cst[c] = "CONNECTING" /\ sst[c] = "none" /\ BothOpen(c)
    BY <1>4, AtStep DEF ConnectFails, SocketInUse, Unestablished, Ends
  <2>2. Ends(c)'
    BY <1>1, <1>4, <2>1, AtStep DEF ConnectFails, Ends, BothOpen
  <2>3. QED
    BY <1>0, <1>2, <1>4, <2>2 DEF ConnectFails, JobsHaveSocket
<1>5. CASE TimerFires(c)
  <2>1. link[c] # "none" /\ sst[c] \in {"none", "WAITING_FOR_CORRELATION_DELTA"}
    BY <1>5, AtStep DEF TimerFires, Unestablished, Conversation, Unsaid, DeltaSaid, SetupSaid,
       AliceSaid, BobSaid, AllSaid
  <2>2. s2cEnd' = s2cEnd \/ (s2cEnd[c] # "open" /\ s2cEnd'[c] = "rst")
    BY <1>5, AtStep DEF TimerFires, ClientSend
  <2>3. Ends(c)'
    BY <1>1, <1>5, <2>1, <2>2, AtStep DEF TimerFires, Ends, BothOpen
  <2>4. QED
    BY <1>0, <1>2, <1>5, <2>3 DEF TimerFires, JobsHaveSocket
<1>6. CASE DataEvent(c)
  <2>1. c = Current(p) /\ Current(p)' = c /\ csock'[c] = "open"
    BY <1>1, <1>6, AtStep DEF DataEvent, SocketInUse, Current
  <2>2. Ends(c)'
    BY <1>1, <1>6, AtStep DEF DataEvent, Ends, BothOpen
  <2>3. QED
    BY <1>2, <2>1, <2>2 DEF JobsHaveSocket
<1>7. CASE CloseEvent(c) \/ ErrorEvent(c)
  <2>1. c = Current(p) /\ Current(p)' = c /\ csock'[c] = "closed" /\ jobs' = jobs
    BY <1>1, <1>7, AtStep DEF CloseEvent, ErrorEvent, SocketInUse, Current
  <2>2. /\ link[c] # "none" /\ UNCHANGED <<link, s2cEnd, cst>> /\ c2sEnd[c] # "fin"
        /\ c2sEnd'[c] = EndAfterClose(c2sEnd[c], s2c[c])
    BY <1>7, AtStep DEF CloseEvent, ErrorEvent, Unestablished, ClientClose, Ends
  <2>3. cst[c] = "PROTOCOL_COMPLETE" /\ c2sEnd'[c] \in {"open", "fin"} => phase'[p] = "exit0"
    <3>1. CASE CloseEvent(c)
      BY <3>1, AtStep DEF CloseEvent
    <3>2. CASE ErrorEvent(c)
      <4>1. c2sEnd[c] = "open" /\ s2cEnd[c] = "rst" => cst[c] # "PROTOCOL_COMPLETE"
        BY AtStep DEF Ends, Conversation, Unsaid, DeltaSaid, SetupSaid, AliceSaid, BobSaid, AllSaid
      <4>2. QED
        BY <2>2, <3>2, <4>1 DEF ErrorEvent, EndAfterClose
    <3>3. QED
      BY <1>7, <3>1, <3>2
  <2>4. Ends(c)'
    BY <1>1, <2>1, <2>2, <2>3, AtStep DEF Ends, BothOpen, EndAfterClose
  <2>5. QED
    BY <1>0, <1>2, <2>1, <2>4 DEF JobsHaveSocket
<1>8. QED
  BY <1>3, <1>4, <1>5, <1>6, <1>7

-----------------------------------------------------------------------------
(* Steps of the environment. *)

\* A network failure leaves neither end without an error or silence.
LEMMA NetworkEnds ==
  ASSUME IInv, EndsInv, NEW c \in Conns, ConnectionLost(c) \/ Partition(c),
         UNCHANGED <<clientVars, serverVars>>
  PROVE  \A d \in Conns : Ends(d)'
<1>1. /\ UNCHANGED <<sst, op, link, csock, cst, phase, attempt>> /\ link[c] # "none"
      /\ \A d \in Conns : d # c => s2cEnd'[d] = s2cEnd[d] /\ c2sEnd'[d] = c2sEnd[d]
  BY AtStep DEF ConnectionLost, Partition, clientVars, serverVars
<1>2. ASSUME NEW d \in Conns, d # c
      PROVE  Ends(d)'
  BY <1>1, <1>2, AtStep DEF Ends, BothOpen, Current
<1>3. Ends(c)'
  <2>1. c2sEnd'[c] # "open" /\ (c2sEnd'[c] = "fin" => c2sEnd[c] = "fin")
    BY AtStep DEF ConnectionLost, Partition, AfterCut, EndStates
  <2>2. QED
    BY <1>1, <2>1, AtStep DEF Ends, BothOpen, Current
<1>4. QED
  BY <1>2, <1>3

\* A signal closes the socket and leaves the process where it is.
LEMMA InterruptEnds ==
  ASSUME IInv, EndsInv, NEW p \in Clients, Interrupt(p), UNCHANGED serverVars
  PROVE  (\A c \in Conns : Owner(c) = p => Ends(c)') /\ JobsHaveSocket(p)'
<1>0. PICK c \in Conns :
         /\ c = Current(p) /\ Owner(c) = p /\ c[2] = attempt[p] /\ c = <<p, attempt[p]>>
         /\ attempt[p] \in 0..MaxRetries /\ attempt[p] \in Nat
  BY AtCurrent
<1>1. /\ UNCHANGED <<sst, op, link, cst, s2cEnd, attempt, jobs>> /\ jobs[p] = <<>>
      /\ phase[p] \notin Exits /\ phase'[p] = "signal"
      /\ csock'[c] = "closed"
      /\ \A d \in Conns : d # c => csock'[d] = csock[d] /\ c2sEnd'[d] = c2sEnd[d]
      /\ \/ csock[c] # "open" /\ c2sEnd' = c2sEnd
         \/ csock[c] = "open" /\ c2sEnd'[c] = EndAfterClose(c2sEnd[c], s2c[c])
  BY <1>0, AtStep, SMTT(30) DEF Interrupt, Ready, ClientClose, serverVars
<1>2. ASSUME NEW d \in Conns, Owner(d) = p, d # c
      PROVE  Ends(d)'
  BY <1>1, <1>2, AtStep DEF Ends, BothOpen, Exits
<1>3. Current(p)' = c
  BY <1>0, <1>1 DEF Current
<1>4. Ends(c)'
  BY <1>0, <1>1, <1>3, AtStep DEF Ends, BothOpen, EndAfterClose, Exits, Unestablished
<1>5. QED
  BY <1>1, <1>2, <1>4 DEF JobsHaveSocket

\* The kernel of a dead server closes what its sessions had open.
LEMMA CrashEnds ==
  ASSUME IInv, EndsInv, Crash, UNCHANGED clientVars, NEW c \in Conns
  PROVE  Ends(c)'
<1>1. /\ UNCHANGED <<sst, csock, cst, phase, attempt, c2sEnd>>
      /\ op'[c] = "none" /\ link'[c] = IF link[c] = "backlog" THEN "dropped" ELSE link[c]
      /\ s2cEnd'[c] = EndAfterCrash(c)
  BY DEF Crash, clientVars
<1>2. link[c] = "backlog" => sst[c] = "none"
  BY AtStep DEF OpMatchesState
<1>3. sst[c] \in {"SENDING_BOB_MESSAGES", "PROTOCOL_COMPLETE"} => c2s[c] = <<>>
  BY AtStep DEF Conversation, Unsaid, DeltaSaid, SetupSaid, AliceSaid, BobSaid, AllSaid
<1>4. link[c] = "none" => op[c] = "none"
  BY AtStep DEF Unestablished
<1>5. QED
  BY <1>1, <1>2, <1>3, <1>4, AtStep DEF Ends, BothOpen, EndAfterCrash, EndAfterClose, Current

-----------------------------------------------------------------------------
(* The theorem. *)

\* No end is closed at first.
LEMMA InitEnds == Init => EndsInv
BY ConnFacts DEF Init, WireInit, ClientInit, ServerInit, EndsInv, Ends, BothOpen, JobsHaveSocket

\* Every step keeps who may have closed which connection.
LEMMA NextEnds == IInv /\ EndsInv /\ [Next]_vars => EndsInv'
<1> SUFFICES ASSUME IInv, EndsInv, [Next]_vars PROVE EndsInv'
  OBVIOUS
<1>1. ASSUME NEW p \in Clients,
             (\A c \in Conns : Owner(c) = p => Ends(c)') /\ JobsHaveSocket(p)',
             \A c \in Conns : Owner(c) # p =>
               /\ link'[c] = link[c] /\ op'[c] = op[c] /\ sst'[c] = sst[c] /\ csock'[c] = csock[c]
               /\ cst'[c] = cst[c] /\ c2sEnd'[c] = c2sEnd[c] /\ s2cEnd'[c] = s2cEnd[c],
             \A q \in Clients : q # p => jobs'[q] = jobs[q] /\ attempt'[q] = attempt[q]
      PROVE  EndsInv'
  <2>1. \A c \in Conns : Ends(c)'
    BY <1>1, SameEnds DEF EndsInv
  <2>2. ASSUME NEW q \in Clients, q # p
        PROVE  JobsHaveSocket(q)'
    <3>1. Current(q) \in Conns /\ Owner(Current(q)) = q /\ Current(q)' = Current(q)
      BY <1>1, <2>2, CurrentFacts DEF IInv, TypeOK, ClientTypeOK, Current
    <3>2. QED
      BY <1>1, <2>2, <3>1 DEF EndsInv, JobsHaveSocket
  <2>3. QED
    BY <1>1, <2>1, <2>2 DEF EndsInv
<1>2. ASSUME NEW p \in Clients, ClientStep(p), UNCHANGED serverVars
      PROVE  EndsInv'
  <2>0. /\ Current(p) \in Conns /\ Owner(Current(p)) = p
        /\ \A k \in 0..MaxRetries : <<p, k>> \in Conns /\ Owner(<<p, k>>) = p
    BY CurrentFacts, ConnFacts DEF IInv, TypeOK, ClientTypeOK
  <2>t. /\ link \in [Conns -> {"none", "backlog", "accepted", "dropped"}]
        /\ csock \in [Conns -> {"none", "connecting", "open", "closed"}]
        /\ cst \in [Conns -> ClientState]
        /\ c2sEnd \in [Conns -> EndStates] /\ s2cEnd \in [Conns -> EndStates]
        /\ attempt \in [Clients -> 0..MaxRetries] /\ jobs \in [Clients -> Seq(Jobs)]
    BY DEF IInv, TypeOK, WireTypeOK, ClientTypeOK
  <2>1. CASE \/ StartProbe(p) \/ ProbeConnected(p) \/ ProbeFails(p)
             \/ CreateClient(p) \/ CreateFails(p) \/ BackoffOver(p)
    <3>1. (\A c \in Conns : Owner(c) = p => Ends(c)') /\ jobs'[p] = <<>>
      BY <1>2, <2>1, MainEnds
    <3>2. JobsHaveSocket(p)'
      BY <3>1 DEF JobsHaveSocket
    <3>3. QED
      BY <1>1, <1>2, <2>0, <2>1, <2>t, <3>1, <3>2 DEF StartProbe, ProbeConnected, ProbeFails,
         CreateClient, CreateFails, BackoffOver, ClientClose, wireVars, serverVars
  <2>2. CASE SetupPrepared(p) \/ ShareComputed(p)
    <3>1. (\A c \in Conns : Owner(c) = p => Ends(c)') /\ JobsHaveSocket(p)'
      BY <1>2, <2>2, JobEnds
    <3>2. QED
      BY <1>1, <1>2, <2>0, <2>2, <2>t, <3>1 DEF SetupPrepared, ShareComputed, ClientSend,
         wireVars, serverVars
  <2>3. ASSUME NEW c \in Conns, Owner(c) = p,
               \/ Connected(c) \/ ConnectFails(c) \/ TimerFires(c)
               \/ DataEvent(c) \/ CloseEvent(c) \/ ErrorEvent(c)
        PROVE  EndsInv'
    <3>1. (\A d \in Conns : Owner(d) = p => Ends(d)') /\ JobsHaveSocket(p)'
      BY <1>2, <2>3, SocketEnds
    <3>2. QED
      BY <1>1, <1>2, <2>3, <2>t, <3>1 DEF Connected, ConnectFails, TimerFires, DataEvent,
         CloseEvent, ErrorEvent, ClientSend, ClientClose, wireVars, serverVars
  <2>4. QED
    BY <1>2, <2>0, <2>1, <2>2, <2>3 DEF ClientStep
<1>3. ASSUME UNCHANGED <<csock, jobs, attempt>>
      PROVE  \A p \in Clients : JobsHaveSocket(p)'
  BY <1>3 DEF EndsInv, JobsHaveSocket, Current
<1>4. ASSUME NEW c \in Conns, SessionStep(c), UNCHANGED clientVars
      PROVE  EndsInv'
  <2>1. Ends(c)'
    BY <1>4, SessionEnds DEF EndsInv
  <2>2. ASSUME NEW d \in Conns, d # c
        PROVE  Ends(d)'
    <3>1. s2cEnd'[d] = s2cEnd[d] /\ c2sEnd'[d] = c2sEnd[d]
      BY <1>4, <2>2 DEF IInv, TypeOK, WireTypeOK, SessionStep, AcceptSession, AcceptFails,
         SizeRead, ReadFails, MessageRead, ProcessCorrelationDelta, ProcessAliceMessages,
         SetupSent, MessagesSent, WriteFails, ServerSend, ServerClose, wireVars
    <3>2. link'[d] = link[d] /\ sst'[d] = sst[d] /\ op'[d] = op[d]
      BY <1>4, <2>2, SessionFrame DEF IInv
    <3>3. QED
      BY <1>4, <3>1, <3>2, SameEnds DEF EndsInv, clientVars
  <2>3. QED
    BY <1>3, <1>4, <2>1, <2>2 DEF EndsInv, clientVars
<1>5. CASE Environment
  <2>1. ASSUME NEW c \in Conns, ConnectionLost(c) \/ Partition(c),
               UNCHANGED <<clientVars, serverVars>>
        PROVE  EndsInv'
    BY <1>3, <2>1, NetworkEnds DEF EndsInv, clientVars
  <2>2. ASSUME NEW p \in Clients, Interrupt(p), UNCHANGED serverVars
        PROVE  EndsInv'
    <3>0. Current(p) \in Conns /\ Owner(Current(p)) = p
      BY CurrentFacts DEF IInv, TypeOK, ClientTypeOK
    <3>1. (\A c \in Conns : Owner(c) = p => Ends(c)') /\ JobsHaveSocket(p)'
      BY <2>2, InterruptEnds
    <3>2. QED
      BY <1>1, <2>2, <3>0, <3>1 DEF Interrupt, ClientClose, serverVars, IInv, TypeOK,
         WireTypeOK, ClientTypeOK
  <2>3. CASE Crash /\ UNCHANGED clientVars
    BY <1>3, <2>3, CrashEnds DEF EndsInv, clientVars
  <2>4. CASE Restart /\ UNCHANGED clientVars
    BY <1>3, <2>4, SameEnds DEF Restart, EndsInv, clientVars, serverVars
  <2>5. QED
    BY <1>5, <2>1, <2>2, <2>3, <2>4 DEF Environment
<1>6. CASE UNCHANGED vars
  BY <1>3, <1>6, SameEnds DEF EndsInv, vars, wireVars, clientVars, serverVars
<1>7. QED
  BY <1>2, <1>4, <1>5, <1>6 DEF Next

(***************************************************************************)
(* Who has closed a connection, and when: neither end of Alice's and Bob's *)
(* protocol closes one that the other still needs.                         *)
(***************************************************************************)
THEOREM EndsInvariant == Spec => []EndsInv
<1>1. Init => EndsInv
  BY InitEnds
<1>2. IInv /\ EndsInv /\ [Next]_vars => EndsInv'
  BY NextEnds
<1>3. QED
  BY <1>1, <1>2, Invariance, PTL DEF Spec

(***************************************************************************)
(* A protocol that Alice has completed is run again only if the network    *)
(* broke or cut its connection, when startMTA rejects in any state         *)
(* (mta-client.ts:290): for any number of clients, retries, crashes of the *)
(* server and faults.                                                      *)
(***************************************************************************)
THEOREM CompletedFinal == Spec => []CompletedIsFinal
<1>1. ASSUME IInv, EndsInv, NEW c \in Conns, Superseded(c)
      PROVE  c2sEnd[c] \in {"rst", "silent"}
  <2>1. csock[c] # "open"
    BY <1>1, AtStep DEF SocketInUse, Superseded
  <2>2. c2sEnd[c] \in EndStates
    BY <1>1, AtStep
  <2>3. QED
    BY <1>1, <2>1, <2>2, AtStep DEF Ends, Superseded, EndStates
<1>2. IInv /\ EndsInv => CompletedIsFinal
  BY <1>1 DEF CompletedIsFinal
<1>3. QED
  BY <1>2, Invariance, EndsInvariant, PTL

-----------------------------------------------------------------------------
(* An attempt that is over stays over. *)

\* It has no socket in use and no continuation pending, and its timer finds the socket closed.
LEMMA OverIsClosed ==
  ASSUME IInv, EndsInv, NEW c \in Conns, Over(c)
  PROVE  /\ csock[c] \notin {"connecting", "open"}
         /\ c = Current(Owner(c)) => jobs[Owner(c)] = <<>>
         /\ timer[c] => c2sEnd[c] # "open"
<1>1. /\ SocketInUse(c) /\ Unestablished(c) /\ Ends(c) /\ AttemptMatchesPhase(Owner(c))
      /\ attempt[Owner(c)] \in 0..MaxRetries /\ csock[c] \in {"none", "connecting", "open", "closed"}
  BY AtStep
<1>2. ASSUME c = Current(Owner(c))
      PROVE  phase[Owner(c)] \notin {"probe", "running"}
  <2>1. c[2] = attempt[Owner(c)]
    BY <1>2 DEF Current
  <2>2. QED
    BY <1>1, <1>2, <2>1 DEF Over, Exits
<1>3. csock[c] \notin {"connecting", "open"}
  BY <1>1, <1>2 DEF SocketInUse
<1>4. c = Current(Owner(c)) => jobs[Owner(c)] = <<>>
  BY <1>1, <1>2 DEF AttemptMatchesPhase
<1>5. timer[c] => c2sEnd[c] # "open"
  BY <1>1, <1>3 DEF Unestablished, Ends
<1>6. QED
  BY <1>3, <1>4, <1>5

\* A step that leaves the client's side and what it has sent alone is idle.
LEMMA UnchangedIsIdle ==
  ASSUME IInv, NEW c \in Conns, c2s'[c] = c2s[c], draws'[c] = draws[c], cst'[c] = cst[c]
  PROVE  Idle(c)
<1>1. Len(c2s[c]) \in Nat
  BY DEF IInv, TypeOK, WireTypeOK
<1>2. QED
  BY <1>1 DEF Idle

\* A client does nothing for an attempt of its own that is over, nor for anyone else's.
LEMMA ClientLeavesOver ==
  ASSUME IInv, EndsInv, NEW p \in Clients, ClientStep(p), NEW c \in Conns, Over(c)
  PROVE  Idle(c)
<1>0. /\ csock[c] \notin {"connecting", "open"}
      /\ c = Current(Owner(c)) => jobs[Owner(c)] = <<>>
      /\ timer[c] => c2sEnd[c] # "open"
  BY OverIsClosed
<1>t. /\ c2s \in [Conns -> Seq(AliceKinds)] /\ draws \in [Conns -> Nat]
      /\ cst \in [Conns -> ClientState]
  BY DEF IInv, TypeOK, WireTypeOK, ClientTypeOK
<1>1. CASE \/ StartProbe(p) \/ ProbeConnected(p) \/ ProbeFails(p)
           \/ CreateClient(p) \/ CreateFails(p) \/ BackoffOver(p)
  BY <1>1, UnchangedIsIdle DEF StartProbe, ProbeConnected, ProbeFails, CreateClient, CreateFails,
     BackoffOver, wireVars
<1>2. CASE SetupPrepared(p) \/ ShareComputed(p)
  <2>1. c # Current(p)
    BY <1>0, <1>2, CurrentFacts DEF SetupPrepared, ShareComputed, IInv, TypeOK, ClientTypeOK
  <2>2. c2s'[c] = c2s[c] /\ draws'[c] = draws[c] /\ cst'[c] = cst[c]
    BY <1>t, <1>2, <2>1 DEF SetupPrepared, ShareComputed, ClientSend, wireVars
  <2>3. QED
    BY <2>2, UnchangedIsIdle
<1>3. ASSUME NEW d \in Conns, Connected(d) \/ ConnectFails(d)
      PROVE  Idle(c)
  BY <1>0, <1>t, <1>3, UnchangedIsIdle DEF Connected, ConnectFails
<1>4. ASSUME NEW d \in Conns, DataEvent(d) \/ CloseEvent(d) \/ ErrorEvent(d)
      PROVE  Idle(c)
  BY <1>0, <1>t, <1>4, UnchangedIsIdle DEF DataEvent, CloseEvent, ErrorEvent
<1>5. ASSUME NEW d \in Conns, TimerFires(d)
      PROVE  Idle(c)
  <2>1. c2s'[c] = c2s[c] /\ draws'[c] = draws[c]
    BY <1>0, <1>t, <1>5 DEF TimerFires, ClientSend, BothOpen
  <2>2. cst'[c] \in {cst[c], "WAITING_FOR_BOB_SETUP"}
    BY <1>t, <1>5 DEF TimerFires
  <2>3. QED
    BY <1>t, <2>1, <2>2 DEF Idle
<1>6. QED
  BY <1>1, <1>2, <1>3, <1>4, <1>5, ConnFacts DEF ClientStep

\* Nor does a session: it only takes what has been sent.
LEMMA SessionLeavesOver ==
  ASSUME IInv, NEW d \in Conns, SessionStep(d), UNCHANGED clientVars, NEW c \in Conns
  PROVE  Idle(c)
<1>t. c2s \in [Conns -> Seq(AliceKinds)] /\ Len(c2s[c]) \in Nat
  BY DEF IInv, TypeOK, WireTypeOK
<1>1. draws' = draws /\ cst' = cst
  BY DEF clientVars
<1>2. c2s'[c] \in {c2s[c], <<>>} \/ (c2s[c] # <<>> /\ c2s'[c] = Tail(c2s[c]))
  BY <1>t DEF SessionStep, AcceptSession, AcceptFails, SizeRead, ReadFails, MessageRead,
     SetupSent, MessagesSent, WriteFails, ServerClose, wireVars
<1>3. Len(c2s'[c]) <= Len(c2s[c])
  BY <1>t, <1>2
<1>4. QED
  BY <1>1, <1>3 DEF Idle

\* Nor does the environment: it only loses what has been sent.
LEMMA EnvironmentLeavesOver ==
  ASSUME IInv, Environment, NEW c \in Conns
  PROVE  Idle(c)
<1>t. c2s \in [Conns -> Seq(AliceKinds)] /\ Len(c2s[c]) \in Nat
  BY DEF IInv, TypeOK, WireTypeOK
<1>1. draws' = draws /\ cst' = cst
  BY DEF Environment, Interrupt, clientVars
<1>2. ASSUME NEW d \in Conns, Partition(d)
      PROVE  Len(c2s'[c]) <= Len(c2s[c])
  <2>1. \E i \in 0..Len(c2s[d]) : c2s' = [c2s EXCEPT ![d] = SubSeq(@, 1, i)]
    BY <1>2 DEF Partition
  <2>2. PICK i \in 0..Len(c2s[d]) : c2s' = [c2s EXCEPT ![d] = SubSeq(@, 1, i)]
    BY <2>1
  <2>3. CASE c = d
    BY <1>t, <2>2, <2>3
  <2>4. CASE c # d
    BY <1>t, <2>2, <2>4
  <2>5. QED
    BY <2>3, <2>4
<1>3. ASSUME c2s'[c] \in {c2s[c], <<>>}
      PROVE  Len(c2s'[c]) <= Len(c2s[c])
  BY <1>t, <1>3
<1>4. CASE Crash
  BY <1>1, <1>3, <1>4 DEF Crash, Idle
<1>5. CASE Restart \/ (\E p \in Clients : Interrupt(p)) \/ (\E d \in Conns : ConnectionLost(d))
  BY <1>1, <1>3, <1>5 DEF Restart, Interrupt, ConnectionLost, Idle
<1>6. QED
  BY <1>1, <1>2, <1>4, <1>5 DEF Environment, Idle

(***************************************************************************)
(* An attempt that executeMTAWithRetry has given up, or that has ended,    *)
(* says nothing more, draws no U_i and does not complete, although its     *)
(* timer may still fire (mta-client.ts:277): whatever the clients, the     *)
(* faults and the crashes of the server.                                   *)
(***************************************************************************)
THEOREM StaysOver == Spec => AttemptsStayOver
<1>1. ASSUME IInv, EndsInv, [Next]_vars, NEW c \in Conns, Over(c)
      PROVE  Idle(c)
  <2>1. ASSUME NEW p \in Clients, ClientStep(p)
        PROVE  Idle(c)
    BY <1>1, <2>1, ClientLeavesOver
  <2>2. ASSUME NEW d \in Conns, SessionStep(d), UNCHANGED clientVars
        PROVE  Idle(c)
    BY <1>1, <2>2, SessionLeavesOver
  <2>3. CASE Environment
    BY <1>1, <2>3, EnvironmentLeavesOver
  <2>4. CASE UNCHANGED vars
    BY <1>1, <2>4, UnchangedIsIdle DEF vars, wireVars, clientVars
  <2>5. QED
    BY <1>1, <2>1, <2>2, <2>3, <2>4 DEF Next
<1>2. IInv /\ EndsInv /\ [Next]_vars => [\A c \in Conns : Over(c) => Idle(c)]_vars
  BY <1>1
<1>3. QED
  BY <1>2, Invariance, EndsInvariant, PTL DEF Spec, AttemptsStayOver

=============================================================================
