-------------------------- MODULE MtaSystemProofs --------------------------
(***************************************************************************)
(* Proofs about MtaSystem, for any clients, retries, faults and crashes.   *)
(***************************************************************************)
EXTENDS MtaSystem, TLAPS

\* A connection is the pair of its owner and the number of the attempt.
LEMMA ConnFacts ==
  /\ \A p \in Clients, k \in 0..MaxRetries : <<p, k>> \in Conns /\ Owner(<<p, k>>) = p
  /\ \A c \in Conns : Owner(c) \in Clients /\ c[2] \in 0..MaxRetries /\ c = <<Owner(c), c[2]>>
BY DEF Conns, Owner

\* The connection of the current attempt is one, and its owner the process.
LEMMA CurrentFacts ==
  ASSUME attempt \in [Clients -> 0..MaxRetries], NEW p \in Clients
  PROVE  /\ Current(p) \in Conns /\ Owner(Current(p)) = p
         /\ Current(p)[2] = attempt[p]
BY ConnFacts DEF Current, Owner

-----------------------------------------------------------------------------
(* What the wire operators do to the types. *)

\* Sending keeps the queues typed.
LEMMA ClientSendType ==
  ASSUME WireTypeOK, NEW c \in Conns, NEW m \in AliceKinds, ClientSend(c, m)
  PROVE  c2s' \in [Conns -> Seq(AliceKinds)] /\ s2cEnd' \in [Conns -> EndStates]
<1>1. CASE c2s' = [c2s EXCEPT ![c] = Append(@, m)] /\ UNCHANGED s2cEnd
  <2>1. Append(c2s[c], m) \in Seq(AliceKinds)
    BY DEF WireTypeOK
  <2>2. QED
    BY <1>1, <2>1 DEF WireTypeOK
<1>2. CASE s2cEnd' = [s2cEnd EXCEPT ![c] = "rst"] /\ UNCHANGED c2s
  BY <1>2 DEF WireTypeOK, EndStates
<1>3. CASE UNCHANGED <<c2s, s2cEnd>>
  BY <1>3 DEF WireTypeOK
<1>4. QED
  BY <1>1, <1>2, <1>3 DEF ClientSend

\* Closing an end keeps queues and ends typed.
LEMMA CloseType ==
  ASSUME WireTypeOK, NEW c \in Conns
  PROVE  /\ ClientClose(c) => /\ c2sEnd' \in [Conns -> EndStates]
                              /\ s2c' \in [Conns -> Seq(BobKinds)]
         /\ \A u : ServerClose(c, u) => /\ s2cEnd' \in [Conns -> EndStates]
                                        /\ c2s' \in [Conns -> Seq(AliceKinds)]
<1>1. \A u : \A e \in EndStates : EndAfterClose(e, u) \in EndStates
  BY DEF EndAfterClose, EndStates
<1>2. <<>> \in Seq(BobKinds) /\ <<>> \in Seq(AliceKinds)
  OBVIOUS
<1>3. c2sEnd[c] \in EndStates /\ s2cEnd[c] \in EndStates
  BY DEF WireTypeOK
<1>4. ASSUME ClientClose(c)
      PROVE  c2sEnd' \in [Conns -> EndStates] /\ s2c' \in [Conns -> Seq(BobKinds)]
  <2>1. EndAfterClose(c2sEnd[c], s2c[c]) \in EndStates
    BY <1>1, <1>3
  <2>2. QED
    BY <1>2, <1>4, <2>1 DEF WireTypeOK, ClientClose
<1>5. ASSUME NEW u, ServerClose(c, u)
      PROVE  s2cEnd' \in [Conns -> EndStates] /\ c2s' \in [Conns -> Seq(AliceKinds)]
  <2>1. EndAfterClose(s2cEnd[c], u) \in EndStates
    BY <1>1, <1>3
  <2>2. QED
    BY <1>2, <1>5, <2>1 DEF WireTypeOK, ServerClose
<1>6. QED
  BY <1>4, <1>5

-----------------------------------------------------------------------------
(* Type correctness. *)

\* The microtasks queued for a chunk are typed.
LEMMA HandlersType ==
  ASSUME NEW c \in Conns, NEW frames \in Seq(BobKinds)
  PROVE  Handlers(c, frames) \in Seq(Jobs)
<1>1. ASSUME NEW f \in {"processBobSetup", "processBobMessages"}
      PROVE  [i \in 1..Len(frames) |-> [fn |-> f, msg |-> frames[i]]] \in Seq(Jobs)
  <2>1. \A i \in 1..Len(frames) : [fn |-> f, msg |-> frames[i]] \in Jobs
    BY DEF Jobs
  <2>2. Len(frames) \in Nat
    OBVIOUS
  <2>3. QED
    BY <2>1, <2>2
<1>2. <<>> \in Seq(Jobs)
  OBVIOUS
<1>3. QED
  BY <1>1, <1>2 DEF Handlers, Handler

\* Steps of a client keep the types.
LEMMA ClientStepType ==
  ASSUME TypeOK, NEW p \in Clients, AttemptMatchesPhase(p),
         ClientStep(p), UNCHANGED serverVars
  PROVE  TypeOK'
<1> USE WireAssumption
<1> USE DEF TypeOK
<1>0. ServerTypeOK'
  BY DEF ServerTypeOK, serverVars
<1>1. attempt[p] \in 0..MaxRetries /\ Current(p) \in Conns
  BY CurrentFacts DEF ClientTypeOK
<1>2. ASSUME FailAttempt(p)
      PROVE  phase' \in [Clients -> {"start", "probe", "create", "running", "backoff"} \cup Exits]
  BY <1>2 DEF FailAttempt, ClientTypeOK, Exits
<1>3. Fault => faults' \in 0..MaxFaults
  BY DEF Fault, WireTypeOK
<1>4. CASE StartProbe(p)
  BY <1>0, <1>1, <1>4 DEF StartProbe, WireTypeOK, ClientTypeOK, wireVars
<1>5. CASE ProbeConnected(p)
  <2>1. c2sEnd' \in [Conns -> EndStates] /\ s2c' \in [Conns -> Seq(BobKinds)]
    BY <1>1, <1>5, CloseType DEF ProbeConnected
  <2>2. WireTypeOK'
    BY <1>1, <1>5, <2>1 DEF ProbeConnected, WireTypeOK
  <2>3. QED
    BY <1>0, <1>1, <1>5, <2>2 DEF ProbeConnected, ClientTypeOK
<1>6. CASE ProbeFails(p)
  <2>1. phase' \in [Clients -> {"start", "probe", "create", "running", "backoff"} \cup Exits]
    BY <1>6 DEF ProbeFails, ClientTypeOK, Exits
  <2>2. QED
    BY <1>0, <1>1, <1>3, <1>6, <2>1 DEF ProbeFails, WireTypeOK, ClientTypeOK
<1>7. CASE CreateClient(p)
  BY <1>0, <1>1, <1>7 DEF CreateClient, WireTypeOK, ClientTypeOK, wireVars
<1>8. CASE CreateFails(p)
  BY <1>0, <1>2, <1>3, <1>8 DEF CreateFails, WireTypeOK, ClientTypeOK
<1>9. CASE BackoffOver(p)
  <2>1. attempt[p] + 1 \in 0..MaxRetries
    BY <1>1, <1>9 DEF BackoffOver, AttemptMatchesPhase
  <2>2. QED
    BY <1>0, <1>1, <1>9, <2>1 DEF BackoffOver, WireTypeOK, ClientTypeOK, wireVars
<1>10. CASE SetupPrepared(p)
  <2>1. jobs' \in [Clients -> Seq(Jobs)]
    <3>1. Tail(jobs[p]) \in Seq(Jobs)
      BY <1>10 DEF SetupPrepared, ClientTypeOK
    <3>2. QED
      BY <1>10, <3>1 DEF SetupPrepared, ClientTypeOK
  <2>2. CASE ClientSend(Current(p), "AliceMessages")
             /\ cst' = [cst EXCEPT ![Current(p)] = "WAITING_FOR_BOB_MESSAGES"]
    <3>1. c2s' \in [Conns -> Seq(AliceKinds)] /\ s2cEnd' \in [Conns -> EndStates]
      BY <1>1, <2>2, ClientSendType DEF AliceKinds
    <3>2. WireTypeOK'
      BY <1>10, <3>1 DEF SetupPrepared, WireTypeOK
    <3>3. cst' \in [Conns -> ClientState]
      BY <1>1, <2>2 DEF ClientTypeOK, ClientState
    <3>4. QED
      BY <1>0, <1>10, <2>1, <3>2, <3>3 DEF SetupPrepared, ClientTypeOK
  <2>3. CASE UNCHANGED <<c2s, s2cEnd, cst>>
    BY <1>0, <1>10, <2>1, <2>3 DEF SetupPrepared, WireTypeOK, ClientTypeOK
  <2>4. QED
    BY <1>10, <2>2, <2>3 DEF SetupPrepared
<1>11. CASE ShareComputed(p)
  <2>1. Tail(jobs[p]) \in Seq(Jobs)
    BY <1>11 DEF ShareComputed, ClientTypeOK
  <2>2. jobs' \in [Clients -> Seq(Jobs)]
    BY <1>11, <2>1 DEF ShareComputed, ClientTypeOK
  <2>3. cst' \in [Conns -> ClientState]
    BY <1>1, <1>11 DEF ShareComputed, ClientTypeOK, ClientState
  <2>4. QED
    BY <1>0, <1>11, <2>2, <2>3 DEF ShareComputed, WireTypeOK, ClientTypeOK, wireVars
<1>12. ASSUME NEW k \in 0..MaxRetries,
              LET c == <<p, k>> IN
              \/ Connected(c) \/ ConnectFails(c) \/ TimerFires(c)
              \/ DataEvent(c) \/ CloseEvent(c) \/ ErrorEvent(c)
       PROVE  TypeOK'
  <2> DEFINE c == <<p, k>>
  <2>0. c \in Conns /\ Owner(c) = p
    BY ConnFacts
  <2> HIDE DEF c
  <2>1. CASE Connected(c)
    BY <1>0, <2>0, <2>1 DEF Connected, WireTypeOK, ClientTypeOK, ClientState
  <2>2. CASE ConnectFails(c)
    BY <1>0, <1>2, <1>3, <2>0, <2>2 DEF ConnectFails, WireTypeOK, ClientTypeOK
  <2>3. CASE TimerFires(c)
    <3>1. c2s' \in [Conns -> Seq(AliceKinds)] /\ s2cEnd' \in [Conns -> EndStates]
      BY <2>0, <2>3, ClientSendType DEF TimerFires, AliceKinds
    <3>2. WireTypeOK'
      BY <2>3, <3>1 DEF TimerFires, WireTypeOK
    <3>3. QED
      BY <1>0, <2>0, <2>3, <3>2 DEF TimerFires, ClientTypeOK, ClientState
  <2>4. CASE DataEvent(c)
    <3>1. PICK n \in 1..Len(s2c[c]) :
            /\ jobs' = [jobs EXCEPT ![p] = Handlers(c, SubSeq(s2c[c], 1, n))]
            /\ s2c' = [s2c EXCEPT ![c] = SubSeq(@, n + 1, Len(@))]
            /\ draws' = [draws EXCEPT ![c] =
                            IF cst[c] = "WAITING_FOR_BOB_SETUP" THEN @ + n ELSE @]
      BY <2>0, <2>4 DEF DataEvent
    <3>2. s2c[c] \in Seq(BobKinds) /\ n \in Nat /\ Len(s2c[c]) \in Nat
      BY <2>0 DEF WireTypeOK
    <3>3. /\ SubSeq(s2c[c], 1, n) \in Seq(BobKinds)
          /\ SubSeq(s2c[c], n + 1, Len(s2c[c])) \in Seq(BobKinds)
      BY <3>2
    <3>4. Handlers(c, SubSeq(s2c[c], 1, n)) \in Seq(Jobs)
      BY <2>0, <3>3, HandlersType
    <3>5. s2c' \in [Conns -> Seq(BobKinds)]
      BY <3>1, <3>3 DEF WireTypeOK
    <3>6. jobs' \in [Clients -> Seq(Jobs)]
      BY <3>1, <3>4 DEF ClientTypeOK
    <3>7. draws' \in [Conns -> Nat]
      <4>1. draws[c] + n \in Nat
        BY <2>0, <3>2 DEF ClientTypeOK
      <4>2. QED
        BY <3>1, <4>1 DEF ClientTypeOK
    <3>8. QED
      BY <1>0, <2>4, <3>5, <3>6, <3>7 DEF DataEvent, WireTypeOK, ClientTypeOK
  <2>5. CASE CloseEvent(c)
    <3>1. c2sEnd' \in [Conns -> EndStates] /\ s2c' \in [Conns -> Seq(BobKinds)]
      BY <2>0, <2>5, CloseType DEF CloseEvent
    <3>2. phase' \in [Clients -> {"start", "probe", "create", "running", "backoff"} \cup Exits]
      BY <1>2, <2>0, <2>5 DEF CloseEvent, ClientTypeOK, Exits
    <3>3. QED
      BY <1>0, <2>0, <2>5, <3>1, <3>2 DEF CloseEvent, WireTypeOK, ClientTypeOK
  <2>6. CASE ErrorEvent(c)
    <3>1. c2sEnd' \in [Conns -> EndStates] /\ s2c' \in [Conns -> Seq(BobKinds)]
      BY <2>0, <2>6, CloseType DEF ErrorEvent
    <3>2. QED
      BY <1>0, <1>2, <2>0, <2>6, <3>1 DEF ErrorEvent, WireTypeOK, ClientTypeOK
  <2>7. QED
    BY <1>12, <2>1, <2>2, <2>3, <2>4, <2>5, <2>6 DEF c
<1>13. QED
  BY <1>4, <1>5, <1>6, <1>7, <1>8, <1>9, <1>10, <1>11, <1>12 DEF ClientStep

\* Steps of a session keep the types.
LEMMA SessionStepType ==
  ASSUME TypeOK, NEW c \in Conns, SessionStep(c), UNCHANGED clientVars
  PROVE  TypeOK'
<1> USE DEF TypeOK
<1>0. ClientTypeOK'
  BY DEF ClientTypeOK, clientVars
<1>1. \A u : ServerClose(c, u) => s2cEnd' \in [Conns -> EndStates] /\ c2s' \in [Conns -> Seq(AliceKinds)]
  BY CloseType
<1>2. CASE AcceptSession(c)
  BY <1>0, <1>2 DEF AcceptSession, WireTypeOK, ServerTypeOK, ProtocolState
<1>3. CASE AcceptFails(c)
  BY <1>0, <1>1, <1>3 DEF AcceptFails, WireTypeOK, ServerTypeOK
<1>4. CASE SizeRead(c)
  BY <1>0, <1>4 DEF SizeRead, WireTypeOK, ServerTypeOK, wireVars
<1>5. CASE ReadFails(c)
  BY <1>0, <1>1, <1>5 DEF ReadFails, WireTypeOK, ServerTypeOK
<1>6. CASE MessageRead(c)
  <2>1. CASE Decodes(c)
    <3>1. Tail(c2s[c]) \in Seq(AliceKinds)
      BY <1>6 DEF MessageRead, WireTypeOK
    <3>2. c2s' \in [Conns -> Seq(AliceKinds)]
      BY <1>6, <2>1, <3>1 DEF MessageRead, WireTypeOK
    <3>3. \A m \in BobKinds : ServerSend(c, m) => s2c' \in [Conns -> Seq(BobKinds)]
      <4>1. \A m \in BobKinds : Append(s2c[c], m) \in Seq(BobKinds)
        BY DEF WireTypeOK
      <4>2. QED
        BY <4>1 DEF ServerSend, WireTypeOK
    <3>4. s2c' \in [Conns -> Seq(BobKinds)]
      BY <1>6, <2>1, <3>3 DEF MessageRead, ProcessCorrelationDelta, ProcessAliceMessages, BobKinds
    <3>c. c2sEnd' \in [Conns -> EndStates]
      BY <1>6, <2>1 DEF MessageRead, ProcessCorrelationDelta, ProcessAliceMessages, ServerSend,
                        WireTypeOK, EndStates
    <3>5. WireTypeOK'
      BY <1>6, <2>1, <3>2, <3>4, <3>c DEF MessageRead, WireTypeOK
    <3>6. ServerTypeOK'
      BY <1>6, <2>1 DEF MessageRead, ProcessCorrelationDelta, ProcessAliceMessages,
                        ServerTypeOK, ProtocolState
    <3>7. QED
      BY <1>0, <3>5, <3>6
  <2>2. CASE ~Decodes(c)
    BY <1>0, <1>1, <1>6, <2>2 DEF MessageRead, WireTypeOK, ServerTypeOK
  <2>3. QED
    BY <2>1, <2>2
<1>7. CASE SetupSent(c)
  BY <1>0, <1>7 DEF SetupSent, WireTypeOK, ServerTypeOK, ProtocolState, wireVars
<1>8. CASE MessagesSent(c)
  BY <1>0, <1>1, <1>8 DEF MessagesSent, WireTypeOK, ServerTypeOK, ProtocolState
<1>9. CASE WriteFails(c)
  BY <1>0, <1>1, <1>9 DEF WriteFails, WireTypeOK, ServerTypeOK
<1>10. QED
  BY <1>2, <1>3, <1>4, <1>5, <1>6, <1>7, <1>8, <1>9 DEF SessionStep

\* A partition leaves prefixes of the queues, and ends of the known kinds.
LEMMA PartitionType ==
  ASSUME TypeOK, NEW c \in Conns, Partition(c), UNCHANGED <<clientVars, serverVars>>
  PROVE  TypeOK'
<1> USE DEF TypeOK
<1>1. \A e \in EndStates : \A h, a : AfterCut(e, h, a) \subseteq EndStates
  BY DEF AfterCut, EndStates
<1>2. c2sEnd[c] \in EndStates /\ s2cEnd[c] \in EndStates
  BY DEF WireTypeOK
<1>3. c2sEnd' \in [Conns -> EndStates] /\ s2cEnd' \in [Conns -> EndStates]
  BY <1>1, <1>2 DEF Partition, WireTypeOK
<1>4. /\ \A i \in 0..Len(c2s[c]) : SubSeq(c2s[c], 1, i) \in Seq(AliceKinds)
      /\ \A j \in 0..Len(s2c[c]) : SubSeq(s2c[c], 1, j) \in Seq(BobKinds)
  BY DEF WireTypeOK
<1>5. c2s' \in [Conns -> Seq(AliceKinds)] /\ s2c' \in [Conns -> Seq(BobKinds)]
  BY <1>4 DEF Partition, WireTypeOK
<1>6. WireTypeOK'
  BY <1>3, <1>5, WireAssumption DEF Partition, Fault, WireTypeOK
<1>7. QED
  BY <1>6 DEF ClientTypeOK, ServerTypeOK, clientVars, serverVars

\* Steps of the environment keep the types.
LEMMA EnvironmentType ==
  ASSUME TypeOK, Environment
  PROVE  TypeOK'
<1> USE DEF TypeOK
<1>1. ASSUME NEW c \in Conns, ConnectionLost(c), UNCHANGED <<clientVars, serverVars>>
      PROVE  TypeOK'
  BY <1>1, WireAssumption DEF ConnectionLost, Fault, WireTypeOK, ClientTypeOK, ServerTypeOK,
                              EndStates, clientVars, serverVars
<1>2. ASSUME NEW p \in Clients, Interrupt(p), UNCHANGED serverVars
      PROVE  TypeOK'
  <2>1. Current(p) \in Conns
    BY CurrentFacts DEF ClientTypeOK
  <2>2. c2sEnd' \in [Conns -> EndStates] /\ s2c' \in [Conns -> Seq(BobKinds)]
    BY <1>2, <2>1, CloseType DEF Interrupt, WireTypeOK
  <2>3. WireTypeOK'
    BY <1>2, <2>2, WireAssumption DEF Interrupt, Fault, WireTypeOK
  <2>4. QED
    BY <1>2, <2>1, <2>3 DEF Interrupt, ClientTypeOK, ServerTypeOK, Exits, serverVars
<1>3. ASSUME Crash, UNCHANGED clientVars
      PROVE  TypeOK'
  <2>1. \A c \in Conns : EndAfterCrash(c) \in EndStates
    BY DEF EndAfterCrash, EndAfterClose, WireTypeOK, EndStates
  <2>2. s2cEnd' \in [Conns -> EndStates]
    BY <1>3, <2>1 DEF Crash
  <2>3. c2s' \in [Conns -> Seq(AliceKinds)]
    BY <1>3 DEF Crash
  <2>4. WireTypeOK'
    BY <1>3, <2>2, <2>3 DEF Crash, WireTypeOK
  <2>5. QED
    BY <1>3, <2>4, ServerAssumption DEF Crash, ClientTypeOK, ServerTypeOK, clientVars
<1>4. ASSUME Restart, UNCHANGED clientVars
      PROVE  TypeOK'
  BY <1>4 DEF Restart, WireTypeOK, ClientTypeOK, ServerTypeOK, clientVars, serverVars
<1>5. QED
  BY <1>1, <1>2, <1>3, <1>4, PartitionType DEF Environment

\* The types hold at first.
LEMMA InitType == Init => TypeOK
<1> USE DEF TypeOK
<1>1. <<>> \in Seq(AliceKinds) /\ <<>> \in Seq(BobKinds) /\ <<>> \in Seq(Jobs)
  OBVIOUS
<1>2. WireInit => WireTypeOK
  BY <1>1, WireAssumption DEF WireInit, WireTypeOK, EndStates
<1>3. ClientInit => ClientTypeOK
  BY <1>1, WireAssumption DEF ClientInit, ClientTypeOK, ClientState, Exits
<1>4. ServerInit => ServerTypeOK
  BY ServerAssumption DEF ServerInit, ServerTypeOK, ProtocolState
<1>5. QED
  BY <1>2, <1>3, <1>4 DEF Init

\* A stuttering step keeps the types.
LEMMA StutterType == TypeOK /\ UNCHANGED vars => TypeOK'
BY DEF TypeOK, WireTypeOK, ClientTypeOK, ServerTypeOK, vars, wireVars, clientVars, serverVars

-----------------------------------------------------------------------------
(* The inductive invariant: steps of a session. *)

\* A session step moves one connection and, of the rest, only fills the store.
LEMMA SessionFrame ==
  ASSUME TypeOK, NEW c \in Conns, SessionStep(c), NEW d \in Conns, d # c
  PROVE  /\ link'[d] = link[d] /\ sst'[d] = sst[d] /\ op'[d] = op[d]
         /\ c2s'[d] = c2s[d] /\ s2c'[d] = s2c[d]
         /\ cotOwner # {} => cotOwner' # {}
BY ZenonT(60) DEF TypeOK, WireTypeOK, ServerTypeOK, SessionStep, AcceptSession, AcceptFails, SizeRead,
       ReadFails, MessageRead, ProcessCorrelationDelta, ProcessAliceMessages, SetupSent,
       MessagesSent, WriteFails, ServerSend, ServerClose, wireVars

\* A step of a session leaves the stages of all other connections alone.
LEMMA SessionStepOthers ==
  ASSUME IInv, NEW c \in Conns, SessionStep(c), UNCHANGED clientVars,
         NEW d \in Conns, d # c
  PROVE  Conversation(d)' /\ Unestablished(d)' /\ SocketInUse(d)' /\ OpMatchesState(d)'
<1>1. /\ link'[d] = link[d] /\ sst'[d] = sst[d] /\ op'[d] = op[d]
      /\ c2s'[d] = c2s[d] /\ s2c'[d] = s2c[d]
      /\ cotOwner # {} => cotOwner' # {}
  BY SessionFrame DEF IInv
<1>2. Conversation(d)'
  BY <1>1 DEF IInv, Conversation, Unsaid, DeltaSaid, SetupSaid, AliceSaid, BobSaid, AllSaid,
              NoJobs, OneJob, Current, clientVars
<1>3. Unestablished(d)' /\ SocketInUse(d)' /\ OpMatchesState(d)'
  BY <1>1 DEF IInv, Unestablished, SocketInUse, OpMatchesState, Current, clientVars
<1>4. QED
  BY <1>2, <1>3

\* It takes the conversation of its own connection to the same stage or the next.
LEMMA SessionStepConversation ==
  ASSUME IInv, NEW c \in Conns, SessionStep(c), UNCHANGED clientVars
  PROVE  Conversation(c)'
<1>0. /\ Conversation(c) /\ OpMatchesState(c) /\ Unestablished(c)
      /\ c2s \in [Conns -> Seq(AliceKinds)] /\ s2c \in [Conns -> Seq(BobKinds)]
      /\ sst \in [Conns -> ProtocolState \cup {"none"}]
  BY DEF IInv, TypeOK, WireTypeOK, ServerTypeOK
<1>1. \/ UNCHANGED <<c2s, s2c, sst>>
      \/ c2s' = [c2s EXCEPT ![c] = <<>>] /\ UNCHANGED <<s2c, sst>>
      \/ link[c] = "backlog" /\ sst' = [sst EXCEPT ![c] = "WAITING_FOR_CORRELATION_DELTA"]
         /\ UNCHANGED <<c2s, s2c>>
      \/ SetupSent(c) \/ MessagesSent(c) \/ (MessageRead(c) /\ Decodes(c))
  <2>1. CASE AcceptSession(c) \/ SizeRead(c)
    BY <2>1 DEF AcceptSession, SizeRead, wireVars
  <2>2. CASE AcceptFails(c) \/ ReadFails(c) \/ WriteFails(c)
    BY <2>2 DEF AcceptFails, ReadFails, WriteFails, ServerClose
  <2>3. CASE MessageRead(c) /\ ~Decodes(c)
    BY <2>3 DEF MessageRead, ServerClose
  <2>4. QED
    BY <2>1, <2>2, <2>3 DEF SessionStep
<1>2. CASE UNCHANGED <<c2s, s2c, sst>>
  BY <1>0, <1>2 DEF Conversation, Unsaid, DeltaSaid, SetupSaid, AliceSaid, BobSaid, AllSaid,
                    NoJobs, OneJob, Current, clientVars
<1>3. CASE c2s' = [c2s EXCEPT ![c] = <<>>] /\ UNCHANGED <<s2c, sst>>
  BY <1>0, <1>3 DEF Conversation, Unsaid, DeltaSaid, SetupSaid, AliceSaid, BobSaid, AllSaid,
                    NoJobs, OneJob, Current, clientVars
<1>4. CASE link[c] = "backlog" /\ sst' = [sst EXCEPT ![c] = "WAITING_FOR_CORRELATION_DELTA"]
           /\ UNCHANGED <<c2s, s2c>>
  BY <1>0, <1>4 DEF OpMatchesState, Conversation, Unsaid, DeltaSaid, SetupSaid, AliceSaid,
                    BobSaid, AllSaid, NoJobs, OneJob, Current, clientVars
<1>5. CASE SetupSent(c)
  BY <1>0, <1>5 DEF SetupSent, wireVars, Conversation, Unsaid, DeltaSaid, SetupSaid, AliceSaid,
                    BobSaid, AllSaid, NoJobs, OneJob, Current, clientVars
<1>6. CASE MessagesSent(c)
  BY <1>0, <1>6 DEF MessagesSent, ServerClose, Conversation, Unsaid, DeltaSaid, SetupSaid,
                    AliceSaid, BobSaid, AllSaid, NoJobs, OneJob, Current, clientVars
<1>7. CASE MessageRead(c) /\ Decodes(c)
  <2>1. /\ c2s' = [c2s EXCEPT ![c] = Tail(@)] /\ c2s[c] # <<>>
        /\ ProcessCorrelationDelta(c) \/ ProcessAliceMessages(c)
    BY <1>7 DEF MessageRead
  <2>2. CASE ProcessCorrelationDelta(c)
    <3>1. DeltaSaid(c) /\ c2s[c] = <<"CorrelationDelta">>
      BY <1>0, <2>1, <2>2 DEF ProcessCorrelationDelta, Conversation, Unsaid, DeltaSaid,
                              SetupSaid, AliceSaid, BobSaid, AllSaid
    <3>2. c2s'[c] = <<>> /\ s2c'[c] \in {<<>>, <<"BobSetup">>} /\ sst'[c] = "SENDING_BOB_SETUP"
      BY <1>0, <2>1, <2>2, <3>1 DEF ProcessCorrelationDelta, ServerSend, DeltaSaid
    <3>3. SetupSaid(c)'
      BY <3>1, <3>2 DEF DeltaSaid, SetupSaid, NoJobs, OneJob, Current, clientVars
    <3>4. QED
      BY <3>3 DEF Conversation
  <2>3. CASE ProcessAliceMessages(c)
    <3>1. AliceSaid(c) /\ c2s[c] = <<"AliceMessages">>
      BY <1>0, <2>1, <2>3 DEF ProcessAliceMessages, Conversation, Unsaid, DeltaSaid,
                              SetupSaid, AliceSaid, BobSaid, AllSaid
    <3>2. c2s'[c] = <<>> /\ s2c'[c] \in {<<>>, <<"BobMessages">>}
          /\ sst'[c] = "SENDING_BOB_MESSAGES"
      BY <1>0, <2>1, <2>3, <3>1 DEF ProcessAliceMessages, ServerSend, AliceSaid
    <3>3. BobSaid(c)'
      BY <3>1, <3>2 DEF AliceSaid, BobSaid, NoJobs, OneJob, Current, clientVars
    <3>4. QED
      BY <3>3 DEF Conversation
  <2>4. QED
    BY <2>1, <2>2, <2>3
<1>8. QED
  BY <1>1, <1>2, <1>3, <1>4, <1>5, <1>6, <1>7

\* Steps of a session keep the invariant.
LEMMA SessionStepInv ==
  ASSUME IInv, NEW c \in Conns, SessionStep(c), UNCHANGED clientVars
  PROVE  IInv'
<1>1. TypeOK'
  BY SessionStepType DEF IInv
<1>2. link'[c] = "none" <=> link[c] = "none"
  BY DEF IInv, TypeOK, WireTypeOK, OpMatchesState, Unestablished, SessionStep, AcceptSession,
         AcceptFails, SizeRead, ReadFails, MessageRead, SetupSent, MessagesSent, WriteFails,
         wireVars
<1>3. Unestablished(c)' /\ SocketInUse(c)'
  BY <1>2, SMTT(30) DEF IInv, TypeOK, ServerTypeOK, OpMatchesState, Unestablished, SocketInUse,
         SessionStep, AcceptSession, AcceptFails, SizeRead, ReadFails, MessageRead, Decodes,
         SetupSent, MessagesSent, WriteFails, Current, clientVars
<1>4. OpMatchesState(c)'
  BY ZenonT(60) DEF IInv, TypeOK, WireTypeOK, ServerTypeOK, OpMatchesState, SessionStep, AcceptSession,
         AcceptFails, SizeRead, ReadFails, MessageRead, Decodes, ProcessCorrelationDelta,
         ProcessAliceMessages, SetupSent, MessagesSent, WriteFails, wireVars
<1>5. \A d \in Conns : Conversation(d)' /\ Unestablished(d)' /\ SocketInUse(d)' /\ OpMatchesState(d)'
  BY <1>3, <1>4, SessionStepConversation, SessionStepOthers
<1>6. \A d \in Conns : link[d] = "none" => link'[d] = "none"
  BY <1>2, SessionFrame DEF IInv
<1>7. \A p \in Clients : AttemptsAhead(p)' /\ AttemptMatchesPhase(p)'
  BY <1>6, ConnFacts DEF IInv, AttemptsAhead, AttemptMatchesPhase, Current, clientVars
<1>8. QED
  BY <1>1, <1>5, <1>7 DEF IInv

-----------------------------------------------------------------------------
(* The inductive invariant: steps of a client. *)

(***************************************************************************)
(* A step of p that touches one connection of p, the current one unless    *)
(* the step leaves the process state alone, can only disturb the parts of  *)
(* the invariant about that connection and about p.                        *)
(***************************************************************************)
LEMMA ClientFrame ==
  ASSUME IInv, TypeOK', UNCHANGED serverVars,
         NEW p \in Clients, NEW c \in Conns, Owner(c) = p,
         \A d \in Conns : d # c =>
           /\ link'[d] = link[d] /\ csock'[d] = csock[d] /\ cst'[d] = cst[d]
           /\ timer'[d] = timer[d] /\ draws'[d] = draws[d]
           /\ c2s'[d] = c2s[d] /\ s2c'[d] = s2c[d],
         \A q \in Clients : q # p =>
           phase'[q] = phase[q] /\ attempt'[q] = attempt[q] /\ jobs'[q] = jobs[q],
         c = Current(p) \/ UNCHANGED <<phase, attempt, jobs>>,
         attempt'[p] = attempt[p] \/ jobs'[p] = <<>>,
         Conversation(c)', Unestablished(c)', SocketInUse(c)', OpMatchesState(c)',
         AttemptsAhead(p)', AttemptMatchesPhase(p)'
  PROVE  IInv'
<1>1. ASSUME NEW d \in Conns, d # c
      PROVE  Conversation(d)' /\ Unestablished(d)' /\ SocketInUse(d)' /\ OpMatchesState(d)'
  <2>0. /\ Conversation(d) /\ Unestablished(d) /\ SocketInUse(d) /\ OpMatchesState(d)
        /\ sst' = sst /\ op' = op /\ cotOwner' = cotOwner
        /\ Owner(d) \in Clients /\ d = <<Owner(d), d[2]>>
    BY <1>1, ConnFacts DEF IInv, serverVars
  <2>1. \/ d = Current(Owner(d)) /\ d = Current(Owner(d))' /\ jobs'[Owner(d)] = jobs[Owner(d)]
        \/ d # Current(Owner(d))' \/ jobs'[Owner(d)] = <<>>
    BY <1>1, <2>0 DEF Current
  <2>2. /\ NoJobs(d) => NoJobs(d)'
        /\ \A f, m : OneJob(d, f, m) => OneJob(d, f, m)'
    BY <2>1 DEF NoJobs, OneJob
  <2>3. Conversation(d)'
    BY <1>1, <2>0, <2>2 DEF Conversation, Unsaid, DeltaSaid, SetupSaid, AliceSaid, BobSaid, AllSaid
  <2>4. SocketInUse(d)'
    BY <1>1, <2>0 DEF SocketInUse, Current
  <2>5. Unestablished(d)' /\ OpMatchesState(d)'
    BY <1>1, <2>0 DEF Unestablished, OpMatchesState
  <2>6. QED
    BY <2>3, <2>4, <2>5
<1>2. ASSUME NEW q \in Clients, q # p
      PROVE  AttemptsAhead(q)' /\ AttemptMatchesPhase(q)'
  <2>1. \A k \in 0..MaxRetries : <<q, k>> \in Conns /\ <<q, k>> # c
    BY <1>2, ConnFacts
  <2>2. Current(q)' = Current(q) /\ Current(q) \in Conns /\ Current(q) # c
    BY <1>2, <2>1, CurrentFacts DEF IInv, TypeOK, ClientTypeOK, Current
  <2>3. AttemptsAhead(q)'
    BY <1>2, <2>1 DEF IInv, AttemptsAhead
  <2>4. AttemptMatchesPhase(q)'
    BY <1>2, <2>2 DEF IInv, AttemptMatchesPhase
  <2>5. QED
    BY <2>3, <2>4
<1>3. QED
  BY <1>1, <1>2 DEF IInv

\* What the invariant says of the current connection of p.
LEMMA AtCurrent ==
  ASSUME IInv, NEW p \in Clients
  PROVE  \E c \in Conns :
         /\ c = Current(p) /\ Owner(c) = p /\ c[2] = attempt[p] /\ c = <<p, attempt[p]>>
         /\ attempt[p] \in 0..MaxRetries /\ attempt[p] \in Nat
         /\ Conversation(c) /\ Unestablished(c) /\ SocketInUse(c) /\ OpMatchesState(c)
         /\ AttemptsAhead(p) /\ AttemptMatchesPhase(p)
<1>1. attempt[p] \in 0..MaxRetries /\ attempt[p] \in Nat
  BY WireAssumption DEF IInv, TypeOK, ClientTypeOK
<1>2. /\ Current(p) \in Conns /\ Owner(Current(p)) = p /\ Current(p)[2] = attempt[p]
      /\ Current(p) = <<p, attempt[p]>>
  BY CurrentFacts DEF IInv, TypeOK, ClientTypeOK, Current
<1>3. QED
  BY <1>1, <1>2 DEF IInv

\* A conversation is not disturbed by what leaves its parts alone.
LEMMA SameConversation ==
  ASSUME NEW c \in Conns, Conversation(c),
         cst'[c] = cst[c], sst'[c] = sst[c], draws'[c] = draws[c], timer'[c] = timer[c],
         c2s'[c] \in {c2s[c], <<>>}, s2c'[c] \in {s2c[c], <<>>},
         \/ jobs'[Owner(c)] = <<>>
         \/ jobs'[Owner(c)] = jobs[Owner(c)] /\ attempt'[Owner(c)] = attempt[Owner(c)]
  PROVE  Conversation(c)'
<1>1. /\ NoJobs(c) => NoJobs(c)'
      /\ \A f, m : OneJob(c, f, m) => OneJob(c, f, m)'
      /\ \A f, m : NoJobs(c)' => OneJob(c, f, m)'
  BY DEF NoJobs, OneJob, Current
<1>2. QED
  BY <1>1 DEF Conversation, Unsaid, DeltaSaid, SetupSaid, AliceSaid, BobSaid, AllSaid

\* Steps of main and executeMTAWithRetry keep the invariant.
LEMMA MainInv ==
  ASSUME IInv, NEW p \in Clients, UNCHANGED serverVars, TypeOK',
         \/ StartProbe(p) \/ ProbeConnected(p) \/ ProbeFails(p)
         \/ CreateClient(p) \/ CreateFails(p) \/ BackoffOver(p)
  PROVE  IInv'
<1>0. PICK c \in Conns :
         /\ c = Current(p) /\ Owner(c) = p /\ c[2] = attempt[p] /\ c = <<p, attempt[p]>>
         /\ attempt[p] \in 0..MaxRetries /\ attempt[p] \in Nat
         /\ Conversation(c) /\ Unestablished(c) /\ SocketInUse(c) /\ OpMatchesState(c)
         /\ AttemptsAhead(p) /\ AttemptMatchesPhase(p)
  BY AtCurrent
<1>t. /\ phase \in [Clients -> {"start", "probe", "create", "running", "backoff"} \cup Exits]
      /\ attempt \in [Clients -> 0..MaxRetries]
      /\ csock \in [Conns -> {"none", "connecting", "open", "closed"}]
      /\ link \in [Conns -> {"none", "backlog", "accepted", "dropped"}]
      /\ s2c \in [Conns -> Seq(BobKinds)]
      /\ UNCHANGED <<sst, op, cotOwner>>
      /\ MaxRetries \in Nat \ {0}
  BY WireAssumption DEF IInv, TypeOK, ClientTypeOK, WireTypeOK, serverVars
<1>j. phase[p] \in {"start", "probe", "create", "backoff"} /\ jobs[p] = <<>> /\ jobs' = jobs
  BY <1>0 DEF StartProbe, ProbeConnected, ProbeFails, CreateClient, CreateFails, BackoffOver,
              AttemptMatchesPhase
<1>f. /\ \A d \in Conns : d # c =>
           /\ link'[d] = link[d] /\ csock'[d] = csock[d] /\ cst'[d] = cst[d]
           /\ timer'[d] = timer[d] /\ draws'[d] = draws[d]
           /\ c2s'[d] = c2s[d] /\ s2c'[d] = s2c[d]
      /\ cst' = cst /\ timer' = timer /\ draws' = draws /\ c2s' = c2s
      /\ s2c'[c] \in {s2c[c], <<>>}
      /\ \A q \in Clients : q # p => phase'[q] = phase[q] /\ attempt'[q] = attempt[q]
  BY <1>0, <1>t DEF StartProbe, ProbeConnected, ProbeFails, CreateClient, CreateFails,
                    BackoffOver, FailAttempt, ClientClose, wireVars
<1>1. Conversation(c)'
  BY <1>0, <1>t, <1>j, <1>f, SameConversation
<1>q. ASSUME Unestablished(c)', SocketInUse(c)', OpMatchesState(c)',
             AttemptsAhead(p)', AttemptMatchesPhase(p)'
      PROVE  IInv'
  BY <1>0, <1>1, <1>f, <1>j, <1>q, ClientFrame
<1>2. CASE StartProbe(p)
  <2>1. csock'[c] = "connecting" /\ link'[c] = "none" /\ phase'[p] = "probe" /\ attempt' = attempt
        /\ link' = link
    BY <1>0, <1>t, <1>2 DEF StartProbe, AttemptsAhead, wireVars
  <2>2. Unestablished(c)' /\ SocketInUse(c)' /\ OpMatchesState(c)'
    BY <1>0, <1>t, <1>f, <1>2, <2>1 DEF Unestablished, SocketInUse, OpMatchesState,
       AttemptMatchesPhase, StartProbe, Current
  <2>3. AttemptsAhead(p)' /\ AttemptMatchesPhase(p)'
    BY <1>0, <1>t, <1>f, <1>j, <1>2, <2>1, ConnFacts DEF AttemptsAhead, AttemptMatchesPhase,
       StartProbe, Current
  <2>4. QED
    BY <1>q, <2>2, <2>3
<1>3. CASE ProbeConnected(p)
  <2>1. /\ csock'[c] = "closed" /\ link'[c] = "backlog" /\ phase'[p] = "create" /\ attempt'[p] = 1
        /\ \A d \in Conns : d # c => csock'[d] = csock[d] /\ link'[d] = link[d]
        /\ attempt[p] = 0 /\ link[c] = "none"
    <3>1. attempt[p] = 0 /\ link[c] = "none"
      BY <1>0, <1>3 DEF ProbeConnected, AttemptMatchesPhase, SocketInUse
    <3>2. QED
      BY <1>0, <1>t, <1>3, <3>1 DEF ProbeConnected, AttemptMatchesPhase, SocketInUse
  <2>2. Unestablished(c)' /\ SocketInUse(c)' /\ OpMatchesState(c)'
    BY <1>0, <1>t, <1>f, <2>1 DEF Unestablished, SocketInUse, OpMatchesState
  <2>3. AttemptsAhead(p)' /\ AttemptMatchesPhase(p)'
    BY <1>0, <1>t, <1>f, <1>j, <2>1, ConnFacts DEF AttemptsAhead, AttemptMatchesPhase
  <2>4. QED
    BY <1>q, <2>2, <2>3
<1>4. CASE ProbeFails(p)
  <2>1. /\ csock'[c] = "closed" /\ link' = link /\ phase'[p] = "exit1" /\ attempt' = attempt
        /\ \A d \in Conns : d # c => csock'[d] = csock[d]
        /\ attempt[p] = 0
    BY <1>0, <1>t, <1>4 DEF ProbeFails, AttemptMatchesPhase
  <2>2. Unestablished(c)' /\ SocketInUse(c)' /\ OpMatchesState(c)'
    BY <1>0, <1>t, <1>f, <2>1 DEF Unestablished, SocketInUse, OpMatchesState
  <2>3. AttemptMatchesPhase(p)'
    BY <1>j, <2>1 DEF AttemptMatchesPhase
  <2>4. AttemptsAhead(p)'
    BY <1>0, <2>1, ConnFacts DEF AttemptsAhead
  <2>5. QED
    BY <1>q, <2>2, <2>3, <2>4
<1>5. CASE CreateClient(p)
  <2>1. /\ csock'[c] = "connecting" /\ link' = link /\ phase'[p] = "running" /\ attempt' = attempt
        /\ \A d \in Conns : d # c => csock'[d] = csock[d]
        /\ link[c] = "none" /\ attempt[p] > 0
    BY <1>0, <1>t, <1>5 DEF CreateClient, AttemptMatchesPhase, AttemptsAhead, wireVars
  <2>2. Unestablished(c)' /\ SocketInUse(c)' /\ OpMatchesState(c)'
    BY <1>0, <1>t, <1>f, <2>1 DEF Unestablished, SocketInUse, OpMatchesState, Current
  <2>3. AttemptsAhead(p)' /\ AttemptMatchesPhase(p)'
    BY <1>0, <1>t, <1>f, <1>j, <2>1, ConnFacts DEF AttemptsAhead, AttemptMatchesPhase
  <2>4. QED
    BY <1>q, <2>2, <2>3
<1>6. CASE CreateFails(p)
  <2>1. /\ csock' = csock /\ link' = link /\ attempt' = attempt
        /\ phase'[p] = IF attempt[p] < MaxRetries THEN "backoff" ELSE "exit1"
        /\ csock[c] = "none" /\ attempt[p] > 0
    BY <1>0, <1>t, <1>6 DEF CreateFails, FailAttempt, AttemptMatchesPhase, AttemptsAhead
  <2>2. Unestablished(c)' /\ SocketInUse(c)' /\ OpMatchesState(c)'
    BY <1>0, <1>t, <1>f, <2>1 DEF Unestablished, SocketInUse, OpMatchesState
  <2>3. AttemptsAhead(p)' /\ AttemptMatchesPhase(p)'
    BY <1>0, <1>t, <1>f, <1>j, <2>1, ConnFacts DEF AttemptsAhead, AttemptMatchesPhase
  <2>4. QED
    BY <1>q, <2>2, <2>3
<1>7. CASE BackoffOver(p)
  <2>1. /\ csock' = csock /\ link' = link /\ attempt'[p] = attempt[p] + 1 /\ phase'[p] = "create"
        /\ csock[c] \notin {"connecting", "open"} /\ attempt[p] > 0
    BY <1>0, <1>t, <1>7 DEF BackoffOver, AttemptMatchesPhase, SocketInUse, wireVars
  <2>2. Unestablished(c)' /\ SocketInUse(c)' /\ OpMatchesState(c)'
    BY <1>0, <1>t, <1>f, <2>1 DEF Unestablished, SocketInUse, OpMatchesState
  <2>3. AttemptsAhead(p)' /\ AttemptMatchesPhase(p)'
    BY <1>0, <1>t, <1>f, <1>j, <2>1, ConnFacts DEF AttemptsAhead, AttemptMatchesPhase
  <2>4. QED
    BY <1>q, <2>2, <2>3
<1>8. QED
  BY <1>2, <1>3, <1>4, <1>5, <1>6, <1>7

(***************************************************************************)
(* Steps of a process that leave its attempt alone and move at most its    *)
(* sockets: what is left to show of each is that the conversation on c     *)
(* stays one and the process state stays right.                            *)
(***************************************************************************)
LEMMA JobInv ==
  ASSUME IInv, NEW p \in Clients, UNCHANGED serverVars, TypeOK',
         SetupPrepared(p) \/ ShareComputed(p)
  PROVE  IInv'
<1>0. PICK c \in Conns :
         /\ c = Current(p) /\ Owner(c) = p /\ c[2] = attempt[p] /\ c = <<p, attempt[p]>>
         /\ attempt[p] \in 0..MaxRetries /\ attempt[p] \in Nat
         /\ Conversation(c) /\ Unestablished(c) /\ SocketInUse(c) /\ OpMatchesState(c)
         /\ AttemptsAhead(p) /\ AttemptMatchesPhase(p)
  BY AtCurrent
<1>t. /\ jobs \in [Clients -> Seq(Jobs)] /\ cst \in [Conns -> ClientState]
      /\ c2s \in [Conns -> Seq(AliceKinds)]
      /\ UNCHANGED <<sst, op, cotOwner>>
  BY DEF IInv, TypeOK, ClientTypeOK, WireTypeOK, serverVars
<1>f. /\ \A d \in Conns : d # c => cst'[d] = cst[d] /\ c2s'[d] = c2s[d]
      /\ UNCHANGED <<link, csock, timer, draws, s2c, phase, attempt>>
      /\ \A q \in Clients : q # p => jobs'[q] = jobs[q]
      /\ jobs'[p] = Tail(jobs[p]) /\ jobs[p] # <<>>
  BY <1>0, <1>t DEF SetupPrepared, ShareComputed, ClientSend, wireVars
<1>s. Current(p)' = c
  BY <1>0, <1>f DEF Current
<1>1. ASSUME Conversation(c)', link[c] # "none"
      PROVE  IInv'
  <2>1. phase[p] = "running" /\ jobs'[p] = <<>>
    <3>1. \E j : jobs[p] = <<j>>
      BY <1>0, <1>f DEF Conversation, Unsaid, DeltaSaid, SetupSaid, AliceSaid, BobSaid, AllSaid,
                        NoJobs, OneJob
    <3>2. QED
      BY <1>0, <1>t, <1>f, <3>1 DEF AttemptMatchesPhase
  <2>2. Unestablished(c)' /\ SocketInUse(c)' /\ OpMatchesState(c)'
    BY <1>0, <1>t, <1>f, <1>1 DEF Unestablished, SocketInUse, OpMatchesState, Current
  <2>3. AttemptsAhead(p)' /\ AttemptMatchesPhase(p)'
    BY <1>0, <1>f, <1>s, <2>1 DEF AttemptsAhead, AttemptMatchesPhase
  <2>4. QED
    BY <1>0, <1>1, <1>f, <2>1, <2>2, <2>3, ClientFrame
<1>2. CASE ShareComputed(p)
  <2>1. BobSaid(c) /\ s2c[c] = <<>> /\ jobs[p] = <<[fn |-> "processBobMessages", msg |-> "BobMessages"]>>
    BY <1>0, <1>2 DEF ShareComputed, Conversation, Unsaid, DeltaSaid, SetupSaid, AliceSaid,
                      BobSaid, AllSaid, NoJobs, OneJob
  <2>2. jobs'[p] = <<>> /\ c2s' = c2s /\ cst'[c] = "PROTOCOL_COMPLETE"
    <3>1. jobs'[p] = <<>>
      BY <1>f, <2>1
    <3>2. c2s' = c2s /\ cst' = [cst EXCEPT ![c] = "PROTOCOL_COMPLETE"]
      BY <1>0, <1>2 DEF ShareComputed, wireVars
    <3>3. QED
      BY <1>t, <3>1, <3>2
  <2>3. AllSaid(c)'
    <3>1. /\ sst'[c] = sst[c] /\ s2c'[c] = <<>> /\ draws'[c] = draws[c]
          /\ timer'[c] = timer[c] /\ jobs'[Owner(c)] = <<>>
      BY <1>0, <1>t, <1>f, <2>1, <2>2
    <3>2. QED
      BY <2>1, <2>2, <3>1 DEF BobSaid, AllSaid, NoJobs
  <2>4. link[c] # "none"
    BY <1>0, <2>1 DEF Unestablished, BobSaid
  <2>5. QED
    BY <1>1, <2>3, <2>4 DEF Conversation
<1>3. CASE SetupPrepared(p)
  <2>1. SetupSaid(c) /\ s2c[c] = <<>> /\ jobs[p] = <<[fn |-> "processBobSetup", msg |-> "BobSetup"]>>
    BY <1>0, <1>3 DEF SetupPrepared, Conversation, Unsaid, DeltaSaid, SetupSaid, AliceSaid,
                      BobSaid, AllSaid, NoJobs, OneJob
  <2>2. jobs'[p] = <<>>
    BY <1>f, <2>1
  <2>3. link[c] # "none"
    BY <1>0, <2>1 DEF Unestablished, SetupSaid
  <2>4. CASE ClientSend(c, "AliceMessages") /\ cst' = [cst EXCEPT ![c] = "WAITING_FOR_BOB_MESSAGES"]
    <3>1. c2s'[c] \in {<<>>, <<"AliceMessages">>}
      BY <1>0, <1>t, <2>1, <2>4 DEF ClientSend, SetupSaid
    <3>2. AliceSaid(c)'
      BY <1>0, <1>t, <1>f, <2>1, <2>2, <2>4, <3>1 DEF SetupSaid, AliceSaid, NoJobs
    <3>3. QED
      BY <1>1, <2>3, <3>2 DEF Conversation
  <2>5. CASE UNCHANGED <<c2s, s2cEnd, cst>>
    <3>1. SetupSaid(c)'
      BY <1>0, <1>t, <1>f, <2>1, <2>2, <2>5 DEF SetupSaid, OneJob
    <3>2. QED
      BY <1>1, <2>3, <3>1 DEF Conversation
  <2>6. QED
    BY <1>0, <1>3, <2>4, <2>5 DEF SetupPrepared
<1>4. QED
  BY <1>2, <1>3

\* What holds of a connection and of its owner when a callback on its socket runs.
LEMMA AtSocket ==
  ASSUME IInv, NEW p \in Clients, NEW c \in Conns, Owner(c) = p
  PROVE  /\ Conversation(c) /\ Unestablished(c) /\ SocketInUse(c) /\ OpMatchesState(c)
         /\ AttemptsAhead(p) /\ AttemptMatchesPhase(p)
         /\ attempt[p] \in Nat /\ MaxRetries \in Nat \ {0} /\ attempt[p] <= MaxRetries
         /\ csock[c] \in {"connecting", "open"} => c = Current(p) /\ c[2] = attempt[p]
         /\ phase \in [Clients -> {"start", "probe", "create", "running", "backoff"} \cup Exits]
         /\ csock \in [Conns -> {"none", "connecting", "open", "closed"}]
         /\ link \in [Conns -> {"none", "backlog", "accepted", "dropped"}]
         /\ cst \in [Conns -> ClientState] /\ timer \in [Conns -> BOOLEAN]
         /\ jobs \in [Clients -> Seq(Jobs)] /\ draws \in [Conns -> Nat]
         /\ c2s \in [Conns -> Seq(AliceKinds)] /\ s2c \in [Conns -> Seq(BobKinds)]
<1>1. TypeOK /\ MaxRetries \in Nat \ {0}
  BY WireAssumption DEF IInv
<1>2. attempt[p] \in Nat /\ attempt[p] <= MaxRetries
  BY <1>1 DEF TypeOK, ClientTypeOK
<1>3. SocketInUse(c) /\ Current(p)[2] = attempt[p]
  BY <1>1, CurrentFacts DEF IInv, TypeOK, ClientTypeOK
<1>4. QED
  BY <1>1, <1>2, <1>3 DEF IInv, TypeOK, WireTypeOK, ClientTypeOK, SocketInUse

\* The timer that sends CorrelationDelta keeps the invariant.
LEMMA TimerInv ==
  ASSUME IInv, NEW p \in Clients, NEW c \in Conns, Owner(c) = p,
         UNCHANGED serverVars, TypeOK', TimerFires(c)
  PROVE  IInv'
<1>0. /\ Conversation(c) /\ Unestablished(c) /\ SocketInUse(c) /\ OpMatchesState(c)
      /\ AttemptsAhead(p) /\ AttemptMatchesPhase(p)
      /\ cst \in [Conns -> ClientState] /\ timer \in [Conns -> BOOLEAN]
      /\ c2s \in [Conns -> Seq(AliceKinds)]
  BY AtSocket
<1>1. /\ UNCHANGED <<sst, op, cotOwner, link, csock, draws, s2c, phase, attempt, jobs>>
      /\ \A d \in Conns : d # c =>
           cst'[d] = cst[d] /\ timer'[d] = timer[d] /\ c2s'[d] = c2s[d]
      /\ timer[c] /\ ~timer'[c] /\ cst'[c] = "WAITING_FOR_BOB_SETUP" /\ phase[p] \notin Exits
  BY <1>0 DEF TimerFires, ClientSend, Ready, serverVars
<1>2. Unsaid(c) /\ link[c] # "none"
  BY <1>0, <1>1 DEF Conversation, DeltaSaid, SetupSaid, AliceSaid, BobSaid, AllSaid, Unestablished
<1>3. DeltaSaid(c)'
  <2>1. c2s'[c] \in {<<>>, <<"CorrelationDelta">>}
    BY <1>0, <1>2 DEF TimerFires, ClientSend, Unsaid
  <2>2. NoJobs(c)'
    BY <1>1, <1>2 DEF Unsaid, NoJobs, Current
  <2>3. QED
    BY <1>1, <1>2, <2>1, <2>2 DEF Unsaid, DeltaSaid
<1>4. Unestablished(c)' /\ SocketInUse(c)' /\ OpMatchesState(c)'
  BY <1>0, <1>1, <1>2 DEF Unestablished, SocketInUse, OpMatchesState, Current
<1>5. AttemptsAhead(p)' /\ AttemptMatchesPhase(p)'
  BY <1>0, <1>1 DEF AttemptsAhead, AttemptMatchesPhase, Current, Exits
<1>6. QED
  BY <1>1, <1>3, <1>4, <1>5, ClientFrame DEF Conversation

\* One frame gives one job.
LEMMA OneHandler ==
  ASSUME NEW c \in Conns, NEW m, cst[c] \in DOMAIN Handler
  PROVE  Handlers(c, <<m>>) = <<[fn |-> Handler[cst[c]], msg |-> m]>>
<1>1. ASSUME NEW e PROVE [i \in 1..1 |-> e] = <<e>>
  OBVIOUS
<1>2. Len(<<m>>) = 1 /\ \A i \in 1..1 : <<m>>[i] = m
  OBVIOUS
<1>3. Handlers(c, <<m>>) = [i \in 1..1 |-> [fn |-> Handler[cst[c]], msg |-> m]]
  BY <1>2 DEF Handlers
<1>4. QED
  BY <1>1, <1>3

\* Reading the only frame there is leaves none.
LEMMA OneFrame ==
  ASSUME NEW m
  PROVE  /\ Len(<<m>>) = 1
         /\ SubSeq(<<m>>, 1, 1) = <<m>>
         /\ SubSeq(<<m>>, 2, 1) = <<>>
<1>1. Len(<<m>>) = 1 /\ <<m>> \in Seq({m})
  OBVIOUS
<1>2. SubSeq(<<m>>, 2, 1) = <<>>
  <2>1. SubSeq(<<m>>, 2, 1) \in Seq({m}) /\ Len(SubSeq(<<m>>, 2, 1)) = 0
    BY <1>1
  <2>2. QED
    BY <2>1
<1>3. SubSeq(<<m>>, 1, 1) = <<m>>
  <2>1. SubSeq(<<m>>, 1, 1) \in Seq({m}) /\ Len(SubSeq(<<m>>, 1, 1)) = 1
    BY <1>1
  <2>2. SubSeq(<<m>>, 1, 1)[1] = m
    BY <1>1
  <2>3. ASSUME NEW s \in Seq({m}), Len(s) = 1
        PROVE  s = <<m>>
    BY <2>3
  <2>4. QED
    BY <2>1, <2>3
<1>4. QED
  BY <1>1, <1>2, <1>3

\* The data handler keeps the invariant.
LEMMA DataInv ==
  ASSUME IInv, NEW p \in Clients, NEW c \in Conns, Owner(c) = p,
         UNCHANGED serverVars, TypeOK', DataEvent(c)
  PROVE  IInv'
<1>0. /\ Conversation(c) /\ Unestablished(c) /\ SocketInUse(c) /\ OpMatchesState(c)
      /\ AttemptsAhead(p) /\ AttemptMatchesPhase(p)
      /\ csock[c] \in {"connecting", "open"} => c = Current(p)
      /\ jobs \in [Clients -> Seq(Jobs)] /\ draws \in [Conns -> Nat]
      /\ s2c \in [Conns -> Seq(BobKinds)]
  BY AtSocket
<1>1. PICK n \in 1..Len(s2c[c]) :
        /\ jobs' = [jobs EXCEPT ![p] = Handlers(c, SubSeq(s2c[c], 1, n))]
        /\ s2c' = [s2c EXCEPT ![c] = SubSeq(@, n + 1, Len(@))]
        /\ draws' = [draws EXCEPT ![c] = IF cst[c] = "WAITING_FOR_BOB_SETUP" THEN @ + n ELSE @]
  BY DEF DataEvent
<1>2. /\ UNCHANGED <<sst, op, cotOwner, link, csock, cst, timer, c2s, phase, attempt>>
      /\ \A d \in Conns : d # c => draws'[d] = draws[d] /\ s2c'[d] = s2c[d]
      /\ \A q \in Clients : q # p => jobs'[q] = jobs[q]
      /\ c = Current(p) /\ csock[c] = "open" /\ jobs[p] = <<>>
  BY <1>0, <1>1 DEF DataEvent, Ready, serverVars
<1>3. phase[p] = "running" /\ Current(p)' = c /\ link[c] # "none"
  <2>1. phase[p] \in {"probe", "running"} /\ phase[p] # "probe"
    BY <1>0, <1>2 DEF SocketInUse, AttemptMatchesPhase
  <2>2. QED
    BY <1>0, <1>2, <2>1 DEF Unestablished, Current
<1>4. Conversation(c)'
  <2>1. s2c[c] # <<>>
    BY <1>0, <1>1
  <2>2. CASE SetupSaid(c) /\ s2c[c] = <<"BobSetup">>
    <3>1. n = 1 /\ n + 1 = 2 /\ Len(s2c[c]) = 1
      BY <1>1, <2>2, OneFrame
    <3>2. /\ SubSeq(s2c[c], 1, n) = <<"BobSetup">>
          /\ SubSeq(s2c[c], n + 1, Len(s2c[c])) = <<>>
      BY <2>2, <3>1, OneFrame
    <3>3. Handlers(c, SubSeq(s2c[c], 1, n)) = <<[fn |-> "processBobSetup", msg |-> "BobSetup"]>>
      BY <2>2, <3>2, OneHandler DEF Handler, SetupSaid
    <3>4. /\ jobs'[p] = <<[fn |-> "processBobSetup", msg |-> "BobSetup"]>> /\ s2c'[c] = <<>>
          /\ draws'[c] = draws[c] + 1 /\ draws[c] = 0
      <4>1. jobs'[p] = Handlers(c, SubSeq(s2c[c], 1, n))
        BY <1>0, <1>1
      <4>2. s2c'[c] = SubSeq(s2c[c], n + 1, Len(s2c[c]))
        BY <1>0, <1>1
      <4>3. draws'[c] = draws[c] + 1 /\ draws[c] = 0
        BY <1>0, <1>1, <2>2, <3>1 DEF SetupSaid, OneJob, NoJobs
      <4>4. QED
        BY <3>2, <3>3, <4>1, <4>2, <4>3
    <3>5. SetupSaid(c)'
      BY <1>2, <2>2, <3>4 DEF SetupSaid, OneJob
    <3>6. QED
      BY <3>5 DEF Conversation
  <2>3. CASE BobSaid(c) /\ s2c[c] = <<"BobMessages">>
    <3>1. n = 1 /\ n + 1 = 2 /\ Len(s2c[c]) = 1
      BY <1>1, <2>3, OneFrame
    <3>2. /\ SubSeq(s2c[c], 1, n) = <<"BobMessages">>
          /\ SubSeq(s2c[c], n + 1, Len(s2c[c])) = <<>>
      BY <2>3, <3>1, OneFrame
    <3>3. Handlers(c, SubSeq(s2c[c], 1, n)) =
            <<[fn |-> "processBobMessages", msg |-> "BobMessages"]>>
      BY <2>3, <3>2, OneHandler DEF Handler, BobSaid
    <3>4. /\ jobs'[p] = <<[fn |-> "processBobMessages", msg |-> "BobMessages"]>>
          /\ s2c'[c] = <<>> /\ draws'[c] = draws[c]
      <4>1. jobs'[p] = Handlers(c, SubSeq(s2c[c], 1, n))
        BY <1>0, <1>1
      <4>2. s2c'[c] = SubSeq(s2c[c], n + 1, Len(s2c[c]))
        BY <1>0, <1>1
      <4>3. draws'[c] = draws[c]
        BY <1>0, <1>1, <2>3 DEF BobSaid
      <4>4. QED
        BY <3>2, <3>3, <4>1, <4>2, <4>3
    <3>5. BobSaid(c)'
      BY <1>2, <2>3, <3>4 DEF BobSaid, OneJob
    <3>6. QED
      BY <3>5 DEF Conversation
  <2>4. QED
    BY <1>0, <2>1, <2>2, <2>3 DEF Conversation, Unsaid, DeltaSaid, SetupSaid, AliceSaid,
                                  BobSaid, AllSaid
<1>5. Unestablished(c)' /\ SocketInUse(c)' /\ OpMatchesState(c)'
  BY <1>0, <1>2 DEF Unestablished, SocketInUse, OpMatchesState, Current
<1>6. AttemptsAhead(p)' /\ AttemptMatchesPhase(p)'
  BY <1>0, <1>2, <1>3 DEF AttemptsAhead, AttemptMatchesPhase
<1>7. QED
  BY <1>2, <1>4, <1>5, <1>6, ClientFrame

\* The connect handler keeps the invariant.
LEMMA ConnectedInv ==
  ASSUME IInv, NEW p \in Clients, NEW c \in Conns, Owner(c) = p,
         UNCHANGED serverVars, TypeOK', Connected(c)
  PROVE  IInv'
<1>0. /\ Conversation(c) /\ Unestablished(c) /\ SocketInUse(c) /\ OpMatchesState(c)
      /\ AttemptsAhead(p) /\ AttemptMatchesPhase(p)
      /\ attempt[p] \in Nat
      /\ csock[c] \in {"connecting", "open"} => c = Current(p) /\ c[2] = attempt[p]
      /\ csock \in [Conns -> {"none", "connecting", "open", "closed"}]
      /\ link \in [Conns -> {"none", "backlog", "accepted", "dropped"}]
      /\ cst \in [Conns -> ClientState] /\ timer \in [Conns -> BOOLEAN]
  BY AtSocket
<1>1. /\ UNCHANGED <<sst, op, cotOwner, c2s, s2c, draws, phase, attempt, jobs>>
      /\ \A d \in Conns : d # c =>
           /\ link'[d] = link[d] /\ csock'[d] = csock[d]
           /\ cst'[d] = cst[d] /\ timer'[d] = timer[d]
      /\ link'[c] = "backlog" /\ csock'[c] = "open" /\ cst'[c] = "SENDING_CORRELATION_DELTA"
      /\ phase[p] = "running" /\ jobs[p] = <<>> /\ csock[c] = "connecting"
  BY <1>0 DEF Connected, Ready, serverVars
<1>2. link[c] = "none" /\ cst[c] = "CONNECTING" /\ sst[c] = "none" /\ op[c] = "none"
  BY <1>0, <1>1 DEF SocketInUse, Unestablished
<1>3. Unsaid(c)'
  <2>1. Unsaid(c)
    BY <1>0, <1>2 DEF Conversation, DeltaSaid, SetupSaid, AliceSaid, BobSaid, AllSaid
  <2>2. QED
    BY <1>1, <2>1 DEF Unsaid, NoJobs, Current
<1>4. SocketInUse(c)'
  <2>1. c = Current(p)' /\ phase'[p] = IF c[2] = 0 THEN "probe" ELSE "running"
    BY <1>0, <1>1 DEF SocketInUse, Current
  <2>2. QED
    BY <1>1, <2>1 DEF SocketInUse
<1>5. Unestablished(c)' /\ OpMatchesState(c)'
  BY <1>1, <1>2 DEF Unestablished, OpMatchesState
<1>6. AttemptMatchesPhase(p)'
  BY <1>0, <1>1 DEF AttemptMatchesPhase
<1>7. AttemptsAhead(p)'
  BY <1>0, <1>1, ConnFacts DEF AttemptsAhead
<1>8. QED
  BY <1>0, <1>1, <1>3, <1>4, <1>5, <1>6, <1>7, ClientFrame DEF Conversation

\* The three ways an attempt ends on its socket.
LEMMA EndInv ==
  ASSUME IInv, NEW p \in Clients, NEW c \in Conns, Owner(c) = p,
         UNCHANGED serverVars, TypeOK',
         ConnectFails(c) \/ CloseEvent(c) \/ ErrorEvent(c)
  PROVE  IInv'
<1>0. /\ Conversation(c) /\ Unestablished(c) /\ SocketInUse(c) /\ OpMatchesState(c)
      /\ AttemptsAhead(p) /\ AttemptMatchesPhase(p)
      /\ attempt[p] \in Nat /\ MaxRetries \in Nat /\ attempt[p] <= MaxRetries
      /\ csock[c] \in {"connecting", "open"} => c = Current(p) /\ c[2] = attempt[p]
      /\ phase \in [Clients -> {"start", "probe", "create", "running", "backoff"} \cup Exits]
      /\ csock \in [Conns -> {"none", "connecting", "open", "closed"}]
      /\ s2c \in [Conns -> Seq(BobKinds)]
  BY AtSocket
<1>1. /\ UNCHANGED <<sst, op, cotOwner, link, cst, timer, c2s, draws, attempt, jobs>>
      /\ \A d \in Conns : d # c => csock'[d] = csock[d] /\ s2c'[d] = s2c[d]
      /\ \A q \in Clients : q # p => phase'[q] = phase[q]
      /\ csock'[c] = "closed" /\ s2c'[c] \in {s2c[c], <<>>}
      /\ csock[c] \in {"connecting", "open"} /\ jobs[p] = <<>>
  BY <1>0 DEF ConnectFails, CloseEvent, ErrorEvent, Ready, ClientClose, FailAttempt, serverVars
<1>2. phase[p] = "running"
  <2>1. ConnectFails(c) => phase[p] = "running"
    BY DEF ConnectFails
  <2>2. csock[c] = "open" => phase[p] = "running"
    BY <1>0 DEF SocketInUse, AttemptMatchesPhase
  <2>3. QED
    BY <2>1, <2>2 DEF CloseEvent, ErrorEvent
<1>3. \/ attempt[p] < MaxRetries /\ phase'[p] = "backoff"
      \/ phase'[p] = "exit1"
      \/ phase'[p] = "exit0" /\ cst[c] = "PROTOCOL_COMPLETE"
  BY <1>0 DEF ConnectFails, CloseEvent, ErrorEvent, FailAttempt
<1>4. Conversation(c)'
  BY <1>0, <1>1, SameConversation
<1>5. Unestablished(c)' /\ SocketInUse(c)' /\ OpMatchesState(c)'
  BY <1>0, <1>1 DEF Unestablished, SocketInUse, OpMatchesState
<1>6. Current(p)' = c /\ cst' = cst /\ attempt[p] > 0
  BY <1>0, <1>1, <1>2 DEF Current, AttemptMatchesPhase
<1>7. AttemptMatchesPhase(p)'
  BY <1>0, <1>1, <1>3, <1>6 DEF AttemptMatchesPhase
<1>8. AttemptsAhead(p)'
  BY <1>0, <1>1, <1>3, ConnFacts DEF AttemptsAhead
<1>9. QED
  BY <1>0, <1>1, <1>4, <1>5, <1>7, <1>8, ClientFrame

\* Steps of a client keep the invariant.
LEMMA ClientStepInv ==
  ASSUME IInv, NEW p \in Clients, ClientStep(p), UNCHANGED serverVars
  PROVE  IInv'
<1>1. TypeOK'
  BY ClientStepType DEF IInv
<1>2. CASE \/ StartProbe(p) \/ ProbeConnected(p) \/ ProbeFails(p)
           \/ CreateClient(p) \/ CreateFails(p) \/ BackoffOver(p)
  BY <1>1, <1>2, MainInv
<1>3. CASE SetupPrepared(p) \/ ShareComputed(p)
  BY <1>1, <1>3, JobInv
<1>4. ASSUME NEW k \in 0..MaxRetries,
             LET c == <<p, k>> IN
             \/ Connected(c) \/ ConnectFails(c) \/ TimerFires(c)
             \/ DataEvent(c) \/ CloseEvent(c) \/ ErrorEvent(c)
      PROVE  IInv'
  <2> DEFINE c == <<p, k>>
  <2>1. c \in Conns /\ Owner(c) = p
    BY ConnFacts
  <2>2. \/ Connected(c) \/ ConnectFails(c) \/ TimerFires(c)
        \/ DataEvent(c) \/ CloseEvent(c) \/ ErrorEvent(c)
    BY <1>4
  <2> HIDE DEF c
  <2>3. QED
    BY <1>1, <2>1, <2>2, ConnectedInv, EndInv, TimerInv, DataInv
<1>5. QED
  BY <1>2, <1>3, <1>4 DEF ClientStep

-----------------------------------------------------------------------------
(* The inductive invariant: the environment. *)

\* Steps that the invariant does not see: a lost connection, a restart, stuttering.
LEMMA QuietInv ==
  ASSUME IInv, TypeOK',
         UNCHANGED <<link, c2s, s2c, phase, attempt, csock, cst, timer, jobs, draws,
                     sst, op, cotOwner>>
  PROVE  IInv'
<1>1. ASSUME NEW d \in Conns
      PROVE  Conversation(d)' /\ Unestablished(d)' /\ SocketInUse(d)' /\ OpMatchesState(d)'
  <2>1. Conversation(d)'
    BY SameConversation DEF IInv
  <2>2. Unestablished(d)' /\ SocketInUse(d)' /\ OpMatchesState(d)'
    BY DEF IInv, Unestablished, SocketInUse, OpMatchesState, Current
  <2>3. QED
    BY <2>1, <2>2
<1>2. ASSUME NEW p \in Clients
      PROVE  AttemptsAhead(p)' /\ AttemptMatchesPhase(p)'
  BY DEF IInv, AttemptsAhead, AttemptMatchesPhase, Current
<1>3. QED
  BY <1>1, <1>2 DEF IInv

\* What is left of a queue of at most one frame: the queue, or nothing.
LEMMA PrefixOfFrame ==
  ASSUME NEW q, q = <<>> \/ (\E m : q = <<m>>), NEW i \in 0..Len(q)
  PROVE  SubSeq(q, 1, i) \in {q, <<>>}
<1>1. ASSUME NEW S, NEW s \in Seq(S)
      PROVE  SubSeq(s, 1, 0) = <<>>
  <2>1. SubSeq(s, 1, 0) \in Seq(S) /\ Len(SubSeq(s, 1, 0)) = 0
    BY <1>1
  <2>2. QED
    BY <2>1
<1>2. CASE q = <<>>
  <2>1. q \in Seq({}) /\ i = 0
    BY <1>2
  <2>2. QED
    BY <1>1, <2>1
<1>3. ASSUME NEW m, q = <<m>>
      PROVE  SubSeq(q, 1, i) \in {q, <<>>}
  <2>1. q \in Seq({m}) /\ i \in {0, 1}
    BY <1>3
  <2>2. CASE i = 0
    BY <1>1, <2>1, <2>2
  <2>3. CASE i = 1
    BY <1>3, <2>3, OneFrame
  <2>4. QED
    BY <2>1, <2>2, <2>3
<1>4. QED
  BY <1>2, <1>3

\* A partition may lose the frame in flight, which every stage allows for.
LEMMA PartitionInv ==
  ASSUME IInv, NEW c \in Conns, Partition(c), UNCHANGED <<clientVars, serverVars>>
  PROVE  IInv'
<1>1. TypeOK'
  BY PartitionType DEF IInv
<1>2. /\ UNCHANGED <<link, phase, attempt, csock, cst, timer, jobs, draws, sst, op, cotOwner>>
      /\ \A d \in Conns : d # c => c2s'[d] = c2s[d] /\ s2c'[d] = s2c[d]
  BY DEF Partition, clientVars, serverVars
<1>3. c2s'[c] \in {c2s[c], <<>>} /\ s2c'[c] \in {s2c[c], <<>>}
  <2>1. /\ c2s[c] = <<>> \/ \E m : c2s[c] = <<m>>
        /\ s2c[c] = <<>> \/ \E m : s2c[c] = <<m>>
    BY DEF IInv, Conversation, Unsaid, DeltaSaid, SetupSaid, AliceSaid, BobSaid, AllSaid
  <2>2. /\ \E i \in 0..Len(c2s[c]) : c2s'[c] = SubSeq(c2s[c], 1, i)
        /\ \E j \in 0..Len(s2c[c]) : s2c'[c] = SubSeq(s2c[c], 1, j)
    BY DEF Partition, IInv, TypeOK, WireTypeOK
  <2>3. QED
    BY <2>1, <2>2, PrefixOfFrame
<1>4. ASSUME NEW d \in Conns
      PROVE  Conversation(d)' /\ Unestablished(d)' /\ SocketInUse(d)' /\ OpMatchesState(d)'
  <2>1. Conversation(d)'
    BY <1>2, <1>3, SameConversation DEF IInv
  <2>2. Unestablished(d)' /\ SocketInUse(d)' /\ OpMatchesState(d)'
    BY <1>2 DEF IInv, Unestablished, SocketInUse, OpMatchesState, Current
  <2>3. QED
    BY <2>1, <2>2
<1>5. ASSUME NEW p \in Clients
      PROVE  AttemptsAhead(p)' /\ AttemptMatchesPhase(p)'
  BY <1>2 DEF IInv, AttemptsAhead, AttemptMatchesPhase, Current
<1>6. QED
  BY <1>1, <1>4, <1>5 DEF IInv

\* A signal keeps the invariant.
LEMMA InterruptInv ==
  ASSUME IInv, NEW p \in Clients, Interrupt(p), UNCHANGED serverVars
  PROVE  IInv'
<1>1. TypeOK'
  BY EnvironmentType DEF IInv, Environment
<1>0. PICK c \in Conns :
         /\ c = Current(p) /\ Owner(c) = p /\ c[2] = attempt[p] /\ c = <<p, attempt[p]>>
         /\ attempt[p] \in 0..MaxRetries /\ attempt[p] \in Nat
         /\ Conversation(c) /\ Unestablished(c) /\ SocketInUse(c) /\ OpMatchesState(c)
         /\ AttemptsAhead(p) /\ AttemptMatchesPhase(p)
  BY AtCurrent
<1>t. /\ phase \in [Clients -> {"start", "probe", "create", "running", "backoff"} \cup Exits]
      /\ csock \in [Conns -> {"none", "connecting", "open", "closed"}]
      /\ s2c \in [Conns -> Seq(BobKinds)]
  BY DEF IInv, TypeOK, ClientTypeOK, WireTypeOK
<1>2. /\ UNCHANGED <<sst, op, cotOwner, link, cst, timer, c2s, draws, attempt, jobs>>
      /\ \A d \in Conns : d # c => csock'[d] = csock[d] /\ s2c'[d] = s2c[d]
      /\ \A q \in Clients : q # p => phase'[q] = phase[q]
      /\ csock'[c] = "closed" /\ s2c'[c] \in {s2c[c], <<>>}
      /\ jobs[p] = <<>> /\ phase'[p] = "signal" /\ phase[p] # "start"
  BY <1>0, <1>t DEF Interrupt, Ready, ClientClose, serverVars
<1>3. Conversation(c)'
  BY <1>0, <1>2, SameConversation
<1>4. Unestablished(c)' /\ SocketInUse(c)' /\ OpMatchesState(c)'
  BY <1>0, <1>2 DEF Unestablished, SocketInUse, OpMatchesState
<1>5. AttemptMatchesPhase(p)'
  BY <1>2 DEF AttemptMatchesPhase
<1>6. AttemptsAhead(p)'
  BY <1>0, <1>2, ConnFacts DEF AttemptsAhead
<1>7. QED
  BY <1>0, <1>1, <1>2, <1>3, <1>4, <1>5, <1>6, ClientFrame

\* A crash of the server keeps the invariant.
LEMMA CrashInv ==
  ASSUME IInv, Crash, UNCHANGED clientVars
  PROVE  IInv'
<1>1. TypeOK'
  BY EnvironmentType DEF IInv, Environment
<1>2. /\ UNCHANGED <<s2c, phase, attempt, csock, cst, timer, jobs, draws, sst>>
      /\ \A d \in Conns : /\ c2s'[d] = <<>> /\ op'[d] = "none"
                          /\ link'[d] = IF link[d] = "backlog" THEN "dropped" ELSE link[d]
  BY DEF Crash, clientVars
<1>3. ASSUME NEW d \in Conns
      PROVE  Conversation(d)' /\ Unestablished(d)' /\ SocketInUse(d)' /\ OpMatchesState(d)'
  <2>1. Conversation(d)'
    <3>1. NoJobs(d)' = NoJobs(d) /\ \A f, m : OneJob(d, f, m)' = OneJob(d, f, m)
      BY <1>2 DEF NoJobs, OneJob, Current
    <3>2. QED
      BY <1>2, <3>1 DEF IInv, Conversation, Unsaid, DeltaSaid, SetupSaid, AliceSaid, BobSaid, AllSaid
  <2>2. Unestablished(d)' /\ SocketInUse(d)' /\ OpMatchesState(d)'
    BY <1>2 DEF IInv, Unestablished, SocketInUse, OpMatchesState, Current
  <2>3. QED
    BY <2>1, <2>2
<1>4. ASSUME NEW p \in Clients
      PROVE  AttemptsAhead(p)' /\ AttemptMatchesPhase(p)'
  BY <1>2, ConnFacts DEF IInv, AttemptsAhead, AttemptMatchesPhase, Current
<1>5. QED
  BY <1>1, <1>3, <1>4 DEF IInv

\* The invariant holds at first.
LEMMA InitInv == Init => IInv
<1> SUFFICES ASSUME Init PROVE IInv
  OBVIOUS
<1>1. TypeOK
  BY InitType
<1>2. ASSUME NEW c \in Conns
      PROVE  Conversation(c) /\ Unestablished(c) /\ SocketInUse(c) /\ OpMatchesState(c)
  <2>1. Unsaid(c)
    BY ConnFacts DEF Init, WireInit, ClientInit, ServerInit, Unsaid, NoJobs
  <2>2. QED
    BY <2>1 DEF Init, WireInit, ClientInit, ServerInit, Conversation, Unestablished,
                SocketInUse, OpMatchesState
<1>3. ASSUME NEW p \in Clients
      PROVE  AttemptsAhead(p) /\ AttemptMatchesPhase(p)
  BY ConnFacts DEF Init, WireInit, ClientInit, AttemptsAhead, AttemptMatchesPhase
<1>4. QED
  BY <1>1, <1>2, <1>3 DEF IInv

\* Every step keeps the invariant.
LEMMA NextInv == IInv /\ [Next]_vars => IInv'
<1> SUFFICES ASSUME IInv, [Next]_vars PROVE IInv'
  OBVIOUS
<1>1. ASSUME NEW p \in Clients, ClientStep(p), UNCHANGED serverVars
      PROVE  IInv'
  BY <1>1, ClientStepInv
<1>2. ASSUME NEW c \in Conns, SessionStep(c), UNCHANGED clientVars
      PROVE  IInv'
  BY <1>2, SessionStepInv
<1>3. CASE Environment
  <2>1. TypeOK'
    BY <1>3, EnvironmentType DEF IInv
  <2>2. ASSUME NEW c \in Conns, ConnectionLost(c), UNCHANGED <<clientVars, serverVars>>
        PROVE  IInv'
    BY <2>1, <2>2, QuietInv DEF ConnectionLost, clientVars, serverVars
  <2>3. CASE Restart /\ UNCHANGED clientVars
    BY <2>1, <2>3, QuietInv DEF Restart, clientVars, serverVars
  <2>4. QED
    BY <1>3, <2>2, <2>3, PartitionInv, InterruptInv, CrashInv DEF Environment
<1>4. CASE UNCHANGED vars
  <2>1. TypeOK'
    BY <1>4, StutterType DEF IInv
  <2>2. QED
    BY <1>4, <2>1, QuietInv DEF vars, wireVars, clientVars, serverVars
<1>5. QED
  BY <1>1, <1>2, <1>3, <1>4 DEF Next

-----------------------------------------------------------------------------
(* The theorems. *)

(***************************************************************************)
(* On every connection the two ends stay in one of six stages of the       *)
(* conversation, whatever timers, retries, resets and crashes do; this is  *)
(* what mta-client.ts and mta_server.cpp rely on without ever checking it. *)
(***************************************************************************)
THEOREM Invariance == Spec => []IInv
<1>1. Init => IInv
  BY InitInv
<1>2. IInv /\ [Next]_vars => IInv'
  BY NextInv
<1>3. QED
  BY <1>1, <1>2, PTL DEF Spec

\* Every variable of the clients, the server and the wire keeps its type.
THEOREM TypeCorrect == Spec => []TypeOK
<1>1. IInv => TypeOK
  BY DEF IInv
<1>2. QED
  BY <1>1, Invariance, PTL

(***************************************************************************)
(* processMessage (mta-client.ts:87) never meets a frame in a state that   *)
(* has no handler for it.                                                  *)
(***************************************************************************)
THEOREM ClientSound == Spec => []ClientExpectsFrame
<1>1. ASSUME IInv, NEW c \in Conns, csock[c] = "open", s2c[c] # <<>>
      PROVE  \/ s2c[c] = <<"BobSetup">> /\ cst[c] = "WAITING_FOR_BOB_SETUP"
             \/ s2c[c] = <<"BobMessages">> /\ cst[c] = "WAITING_FOR_BOB_MESSAGES"
  BY <1>1 DEF IInv, Conversation, Unsaid, DeltaSaid, SetupSaid, AliceSaid, BobSaid, AllSaid
<1>2. IInv => ClientExpectsFrame
  BY <1>1 DEF ClientExpectsFrame
<1>3. QED
  BY <1>2, Invariance, PTL

(***************************************************************************)
(* process_received_message (mta_server.cpp:100) never takes one of its    *)
(* error returns with this client, and the scalars of some session are     *)
(* stored whenever process_alice_messages runs.                            *)
(***************************************************************************)
THEOREM ServerSound == Spec => []ServerExpectsFrame
<1>1. ASSUME IInv, NEW c \in Conns, op[c] = "read_body", c2s[c] # <<>>
      PROVE  \/ c2s[c] = <<"CorrelationDelta">> /\ sst[c] = "WAITING_FOR_CORRELATION_DELTA"
             \/ /\ c2s[c] = <<"AliceMessages">> /\ sst[c] = "WAITING_FOR_ALICE_MESSAGES"
                /\ cotOwner # {}
  <2>1. sst[c] \in {"WAITING_FOR_CORRELATION_DELTA", "WAITING_FOR_ALICE_MESSAGES"}
        /\ (sst[c] = "WAITING_FOR_ALICE_MESSAGES" => cotOwner # {})
    BY <1>1 DEF IInv, OpMatchesState
  <2>2. QED
    BY <1>1, <2>1 DEF IInv, Conversation, Unsaid, DeltaSaid, SetupSaid, AliceSaid, BobSaid, AllSaid
<1>2. IInv => ServerExpectsFrame
  BY <1>1 DEF ServerExpectsFrame
<1>3. QED
  BY <1>2, Invariance, PTL

\* Alice never draws her U_i twice on one connection (cot-protocol.ts:172).
THEOREM DrawnOnce == Spec => []RandomnessDrawnOnce
<1>1. ASSUME IInv, NEW c \in Conns
      PROVE  draws[c] <= 1
  BY <1>1 DEF IInv, Conversation, Unsaid, DeltaSaid, SetupSaid, AliceSaid, BobSaid, AllSaid
<1>2. IInv => RandomnessDrawnOnce
  BY <1>1 DEF RandomnessDrawnOnce
<1>3. QED
  BY <1>2, Invariance, PTL

(***************************************************************************)
(* Exit code 0 of index.ts means that Bob computed the matching share on   *)
(* the connection of the last attempt, however many attempts failed.       *)
(***************************************************************************)
THEOREM SuccessSound == Spec => []SuccessIsShared
<1>1. ASSUME IInv, NEW p \in Clients, phase[p] = "exit0"
      PROVE  /\ cst[Current(p)] = "PROTOCOL_COMPLETE"
             /\ sst[Current(p)] \in {"SENDING_BOB_MESSAGES", "PROTOCOL_COMPLETE"}
  <2>1. Conversation(Current(p)) /\ AttemptMatchesPhase(p)
    BY <1>1, AtCurrent
  <2>2. QED
    BY <1>1, <2>1 DEF AttemptMatchesPhase, Conversation, Unsaid, DeltaSaid, SetupSaid,
                      AliceSaid, BobSaid, AllSaid
<1>2. IInv => SuccessIsShared
  BY <1>1 DEF SuccessIsShared
<1>3. QED
  BY <1>2, Invariance, PTL

\* Where the state of a client may go in one step.
LEMMA ClientMoves ==
  ASSUME IInv, NEW p \in Clients, ClientStep(p), NEW c \in Conns
  PROVE  \/ cst'[c] = cst[c]
         \/ cst[c] = "CONNECTING" /\ cst'[c] = "SENDING_CORRELATION_DELTA"
         \/ /\ cst[c] \in {"CONNECTING", "SENDING_CORRELATION_DELTA"}
            /\ cst'[c] = "WAITING_FOR_BOB_SETUP"
         \/ cst[c] = "WAITING_FOR_BOB_SETUP" /\ cst'[c] = "WAITING_FOR_BOB_MESSAGES"
         \/ cst[c] = "WAITING_FOR_BOB_MESSAGES" /\ cst'[c] = "PROTOCOL_COMPLETE"
<1>0. cst \in [Conns -> ClientState] /\ Conversation(c) /\ Unestablished(c) /\ SocketInUse(c)
  BY DEF IInv, TypeOK, ClientTypeOK
<1>1. CASE \/ StartProbe(p) \/ ProbeConnected(p) \/ ProbeFails(p)
           \/ CreateClient(p) \/ CreateFails(p) \/ BackoffOver(p)
  BY <1>1 DEF StartProbe, ProbeConnected, ProbeFails, CreateClient, CreateFails, BackoffOver
<1>2. CASE SetupPrepared(p) /\ c = Current(p)
  <2>0. Owner(c) = p
    BY <1>2, CurrentFacts DEF IInv, TypeOK, ClientTypeOK
  <2>1. SetupSaid(c)
    BY <1>0, <1>2, <2>0 DEF SetupPrepared, Conversation, Unsaid, DeltaSaid, SetupSaid,
                            AliceSaid, BobSaid, AllSaid, NoJobs, OneJob
  <2>2. QED
    BY <1>0, <1>2, <2>1 DEF SetupPrepared, SetupSaid
<1>3. CASE ShareComputed(p) /\ c = Current(p)
  <2>1. BobSaid(c)
    BY <1>0, <1>3 DEF ShareComputed, Conversation, Unsaid, DeltaSaid, SetupSaid, AliceSaid,
                      BobSaid, AllSaid, NoJobs, OneJob, Current, Owner
  <2>2. QED
    BY <1>0, <1>3, <2>1 DEF ShareComputed, BobSaid
<1>4. CASE (SetupPrepared(p) \/ ShareComputed(p)) /\ c # Current(p)
  BY <1>0, <1>4 DEF SetupPrepared, ShareComputed
<1>5. ASSUME NEW d \in Conns,
             \/ Connected(d) \/ ConnectFails(d) \/ TimerFires(d)
             \/ DataEvent(d) \/ CloseEvent(d) \/ ErrorEvent(d)
      PROVE  \/ cst'[c] = cst[c]
             \/ cst[c] = "CONNECTING" /\ cst'[c] = "SENDING_CORRELATION_DELTA"
             \/ /\ cst[c] \in {"CONNECTING", "SENDING_CORRELATION_DELTA"}
                /\ cst'[c] = "WAITING_FOR_BOB_SETUP"
  <2>1. CASE ConnectFails(d) \/ DataEvent(d) \/ CloseEvent(d) \/ ErrorEvent(d) \/ d # c
    BY <1>0, <1>5, <2>1 DEF Connected, TimerFires, ConnectFails, DataEvent, CloseEvent, ErrorEvent
  <2>2. CASE Connected(c)
    BY <1>0, <2>2 DEF Connected, SocketInUse, Unestablished
  <2>3. CASE TimerFires(c)
    BY <1>0, <2>3 DEF TimerFires, Conversation, Unsaid, DeltaSaid, SetupSaid, AliceSaid,
                      BobSaid, AllSaid
  <2>4. QED
    BY <1>5, <2>1, <2>2, <2>3
<1>6. QED
  BY <1>1, <1>2, <1>3, <1>4, <1>5, ConnFacts DEF ClientStep

(***************************************************************************)
(* AliceMTAClient.state only moves forward: the 100 ms timer, which sets   *)
(* WAITING_FOR_BOB_SETUP whatever the state is, never does it too late.    *)
(***************************************************************************)
THEOREM NeverRewinds == Spec => StateNeverRewinds
<1>1. ASSUME IInv, [Next]_vars, NEW c \in Conns
      PROVE  StateRank[cst[c]] <= StateRank[cst'[c]]
  <2>0. cst[c] \in ClientState
    BY <1>1 DEF IInv, TypeOK, ClientTypeOK
  <2>1. \A s \in ClientState : StateRank[s] \in Nat
    BY DEF StateRank, ClientState
  <2>2. CASE cst'[c] = cst[c]
    BY <2>0, <2>1, <2>2
  <2>3. ASSUME NEW p \in Clients, ClientStep(p)
        PROVE  StateRank[cst[c]] <= StateRank[cst'[c]]
    BY <1>1, <2>2, <2>3, ClientMoves DEF StateRank, ClientState
  <2>4. QED
    BY <1>1, <2>2, <2>3 DEF Next, Environment, ConnectionLost, Partition, Interrupt, vars, clientVars
<1>2. IInv /\ [Next]_vars => [\A c \in Conns : StateRank[cst[c]] <= StateRank[cst'[c]]]_vars
  BY <1>1
<1>3. QED
  BY <1>2, Invariance, PTL DEF Spec, StateNeverRewinds

=============================================================================
