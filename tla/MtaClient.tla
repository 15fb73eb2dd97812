----------------------------- MODULE MtaClient -----------------------------
(***************************************************************************)
(* Alice's process: client/src/index.ts (probe, attempts with back-off,    *)
(* exit code) and client/src/tcp/mta-client.ts (one socket, one protocol   *)
(* state and one promise per attempt).                                     *)
(*                                                                         *)
(* Node runs one callback at a time and drains the microtask queue before  *)
(* the next one.  An action is one callback; the continuations of the two  *)
(* async handlers, processBobSetup and processBobMessages, are microtasks  *)
(* and wait in jobs, so that the frames of one 'data' event are all        *)
(* dispatched before any of them is answered.                              *)
(***************************************************************************)
EXTENDS MtaWire

CONSTANT PrepareCanFail  \* whether prepareAliceMessages may return no success

ASSUME ClientAssumption == PrepareCanFail \in BOOLEAN

VARIABLES
  phase,    \* where main() and executeMTAWithRetry stand
  attempt,  \* attempt counter of executeMTAWithRetry; 0 before the loop
  csock,    \* the net.Socket of a connection
  cst,      \* AliceMTAClient.state
  timer,    \* the 100 ms timer armed by 'connect' is pending
  jobs,     \* microtasks of the process
  draws     \* times Alice drew her random U_i on the connection

clientVars == <<phase, attempt, csock, cst, timer, jobs, draws>>

ClientState == {"CONNECTING", "SENDING_CORRELATION_DELTA", "WAITING_FOR_BOB_SETUP",
                "WAITING_FOR_BOB_MESSAGES", "PROTOCOL_COMPLETE"}

Exits == {"exit0", "exit1", "signal"}

Jobs == [fn : {"processBobSetup", "processBobMessages"}, msg : BobKinds]

ClientTypeOK ==
  /\ phase \in [Clients -> {"start", "probe", "create", "running", "backoff"} \cup Exits]
  /\ attempt \in [Clients -> 0..MaxRetries]
  /\ csock \in [Conns -> {"none", "connecting", "open", "closed"}]
  /\ cst \in [Conns -> ClientState]
  /\ timer \in [Conns -> BOOLEAN]
  /\ jobs \in [Clients -> Seq(Jobs)]
  /\ draws \in [Conns -> Nat]

ClientInit ==
  /\ phase = [p \in Clients |-> "start"]
  /\ attempt = [p \in Clients |-> 0]
  /\ csock = [c \in Conns |-> "none"]
  /\ cst = [c \in Conns |-> "CONNECTING"]
  /\ timer = [c \in Conns |-> FALSE]
  /\ jobs = [p \in Clients |-> <<>>]
  /\ draws = [c \in Conns |-> 0]

\* The event loop of p may run its next callback.
Ready(p) == phase[p] \notin Exits /\ jobs[p] = <<>>

Current(p) == <<p, attempt[p]>>

\* Mutant of FailAttempt: <= for <, one retry too many.
FailAttemptOffByOne(p) ==
  phase' = [phase EXCEPT ![p] = IF attempt[p] <= MaxRetries THEN "backoff" ELSE "exit1"]

\* executeMTAWithRetry after a failed attempt: wait and retry, or give up.
FailAttempt(p) ==
  phase' = [phase EXCEPT ![p] = IF attempt[p] < MaxRetries THEN "backoff" ELSE "exit1"]

-----------------------------------------------------------------------------
(* index.ts *)

\* main() starts validateServerConnection.
StartProbe(p) ==
  /\ phase[p] = "start"
  /\ phase' = [phase EXCEPT ![p] = "probe"]
  /\ csock' = [csock EXCEPT ![Current(p)] = "connecting"]
  /\ UNCHANGED <<wireVars, attempt, cst, timer, jobs, draws>>

\* The probe connects: the socket is destroyed at once and the attempts begin.
ProbeConnected(p) ==
  LET c == Current(p) IN
  /\ phase[p] = "probe"
  /\ listening
  /\ link' = [link EXCEPT ![c] = "backlog"]
  /\ csock' = [csock EXCEPT ![c] = "closed"]
  /\ ClientClose(c)
  /\ phase' = [phase EXCEPT ![p] = "create"]
  /\ attempt' = [attempt EXCEPT ![p] = 1]
  /\ UNCHANGED <<listening, c2s, s2cEnd, faults, cst, timer, jobs, draws>>

\* The probe is refused, or its 5 s timer fires on a faulty network.
ProbeFails(p) ==
  /\ phase[p] = "probe"
  /\ \/ ~listening /\ UNCHANGED faults
     \/ Fault
  /\ csock' = [csock EXCEPT ![Current(p)] = "closed"]
  /\ phase' = [phase EXCEPT ![p] = "exit1"]
  /\ UNCHANGED <<listening, link, c2s, s2c, c2sEnd, s2cEnd, attempt, cst, timer, jobs, draws>>

\* AliceMTAClient.create resolves and startMTA connects the new socket.
CreateClient(p) ==
  /\ phase[p] = "create"
  /\ phase' = [phase EXCEPT ![p] = "running"]
  /\ csock' = [csock EXCEPT ![Current(p)] = "connecting"]
  /\ UNCHANGED <<wireVars, attempt, cst, timer, jobs, draws>>

\* MTAProtobufHandler.create cannot load the schema: create rejects.
CreateFails(p) ==
  /\ phase[p] = "create"
  /\ Fault
  /\ FailAttempt(p)
  /\ UNCHANGED <<listening, link, c2s, s2c, c2sEnd, s2cEnd,
                 attempt, csock, cst, timer, jobs, draws>>

\* delay() after a failed attempt is over.
BackoffOver(p) ==
  /\ phase[p] = "backoff"
  /\ phase' = [phase EXCEPT ![p] = "create"]
  /\ attempt' = [attempt EXCEPT ![p] = @ + 1]
  /\ UNCHANGED <<wireVars, csock, cst, timer, jobs, draws>>

\* SIGINT or SIGTERM: cleanup() destroys the socket and the process exits.
Interrupt(p) ==
  LET c == Current(p) IN
  /\ Ready(p) /\ phase[p] # "start"
  /\ Fault
  /\ phase' = [phase EXCEPT ![p] = "signal"]
  /\ csock' = [csock EXCEPT ![c] = "closed"]
  /\ IF csock[c] = "open" THEN ClientClose(c) ELSE UNCHANGED <<c2sEnd, s2c>>
  /\ UNCHANGED <<listening, link, c2s, s2cEnd, attempt, cst, timer, jobs, draws>>

-----------------------------------------------------------------------------
(* mta-client.ts *)

\* Mutant of Connected: startMTA adds its handler too late, the timer is not armed.
ConnectedArmsNoTimer(c) ==
  /\ Ready(Owner(c)) /\ phase[Owner(c)] = "running" /\ csock[c] = "connecting"
  /\ listening
  /\ link' = [link EXCEPT ![c] = "backlog"]
  /\ csock' = [csock EXCEPT ![c] = "open"]
  /\ cst' = [cst EXCEPT ![c] = "SENDING_CORRELATION_DELTA"]
  /\ UNCHANGED <<listening, c2s, s2c, c2sEnd, s2cEnd, faults, phase, attempt, timer, jobs, draws>>

\* 'connect': both handlers run, one sets the state, the other arms the timer.
Connected(c) ==
  /\ Ready(Owner(c)) /\ phase[Owner(c)] = "running" /\ csock[c] = "connecting"
  /\ listening
  /\ link' = [link EXCEPT ![c] = "backlog"]
  /\ csock' = [csock EXCEPT ![c] = "open"]
  /\ cst' = [cst EXCEPT ![c] = "SENDING_CORRELATION_DELTA"]
  /\ timer' = [timer EXCEPT ![c] = TRUE]
  /\ UNCHANGED <<listening, c2s, s2c, c2sEnd, s2cEnd, faults, phase, attempt, jobs, draws>>

\* 'error' while connecting: nobody listens, or the network drops the SYN.
ConnectFails(c) ==
  /\ Ready(Owner(c)) /\ phase[Owner(c)] = "running" /\ csock[c] = "connecting"
  /\ \/ ~listening /\ UNCHANGED faults
     \/ Fault
  /\ csock' = [csock EXCEPT ![c] = "closed"]
  /\ FailAttempt(Owner(c))
  /\ UNCHANGED <<listening, link, c2s, s2c, c2sEnd, s2cEnd, attempt, cst, timer, jobs, draws>>

\* Mutant of TimerFires: setInterval for setTimeout.
TimerFiresAgain(c) ==
  /\ Ready(Owner(c)) /\ timer[c]
  /\ ClientSend(c, "CorrelationDelta")
  /\ cst' = [cst EXCEPT ![c] = "WAITING_FOR_BOB_SETUP"]
  /\ UNCHANGED <<listening, link, s2c, c2sEnd, faults, phase, attempt, csock, timer, jobs, draws>>

\* Mutant of TimerFires: the state is not set.
TimerKeepsState(c) ==
  /\ Ready(Owner(c)) /\ timer[c]
  /\ timer' = [timer EXCEPT ![c] = FALSE]
  /\ ClientSend(c, "CorrelationDelta")
  /\ UNCHANGED <<listening, link, s2c, c2sEnd, faults, phase, attempt, csock, cst, jobs, draws>>

\* The 100 ms timer: sendCorrelationDelta, whatever became of the socket.
TimerFires(c) ==
  /\ Ready(Owner(c)) /\ timer[c]
  /\ timer' = [timer EXCEPT ![c] = FALSE]
  /\ ClientSend(c, "CorrelationDelta")
  /\ cst' = [cst EXCEPT ![c] = "WAITING_FOR_BOB_SETUP"]
  /\ UNCHANGED <<listening, link, s2c, c2sEnd, faults, phase, attempt, csock, jobs, draws>>

\* processMessage: the handler that a state gives to a frame.
Handler ==
  [s \in {"WAITING_FOR_BOB_SETUP", "WAITING_FOR_BOB_MESSAGES"} |->
     IF s = "WAITING_FOR_BOB_SETUP" THEN "processBobSetup" ELSE "processBobMessages"]

\* In any other state the frame is dropped.
Handlers(c, frames) ==
  IF cst[c] \in DOMAIN Handler
    THEN [i \in 1..Len(frames) |-> [fn |-> Handler[cst[c]], msg |-> frames[i]]]
    ELSE <<>>

(***************************************************************************)
(* 'data' with the bytes of one or more frames: processReceivedData cuts   *)
(* them and calls each handler up to its first await.  For processBobSetup *)
(* that part reaches initializeCOT, which draws new random U_i.            *)
(***************************************************************************)
DataEvent(c) ==
  /\ Ready(Owner(c)) /\ csock[c] = "open"
  /\ \E n \in 1..Len(s2c[c]) :
       LET todo == Handlers(c, SubSeq(s2c[c], 1, n)) IN
       /\ jobs' = [jobs EXCEPT ![Owner(c)] = todo]
       /\ s2c' = [s2c EXCEPT ![c] = SubSeq(@, n + 1, Len(@))]
       /\ draws' = [draws EXCEPT ![c] = IF cst[c] = "WAITING_FOR_BOB_SETUP" THEN @ + n ELSE @]
  /\ UNCHANGED <<listening, link, c2s, c2sEnd, s2cEnd, faults,
                 phase, attempt, csock, cst, timer>>

\* Mutant of SetupPrepared: sendAliceMessages does not set the state.
SetupPreparedKeepsState(p) ==
  LET c == Current(p) IN
  /\ jobs[p] # <<>> /\ Head(jobs[p]).fn = "processBobSetup"
  /\ jobs' = [jobs EXCEPT ![p] = Tail(@)]
  /\ ClientSend(c, "AliceMessages")
  /\ UNCHANGED <<listening, link, s2c, c2sEnd, faults, phase, attempt, csock, cst, timer, draws>>

(***************************************************************************)
(* processBobSetup after its await: on success AliceMessages go out, on    *)
(* failure it only returns.  A frame without 32 points never succeeds.     *)
(***************************************************************************)
SetupPrepared(p) ==
  LET c == Current(p) IN
  /\ jobs[p] # <<>> /\ Head(jobs[p]).fn = "processBobSetup"
  /\ jobs' = [jobs EXCEPT ![p] = Tail(@)]
  /\ \/ /\ Head(jobs[p]).msg = "BobSetup"
        /\ ClientSend(c, "AliceMessages")
        /\ cst' = [cst EXCEPT ![c] = "WAITING_FOR_BOB_MESSAGES"]
     \/ /\ Head(jobs[p]).msg # "BobSetup" \/ PrepareCanFail
        /\ UNCHANGED <<c2s, s2cEnd, cst>>
  /\ UNCHANGED <<listening, link, s2c, c2sEnd, faults, phase, attempt, csock, timer, draws>>

\* The then() of executeAliceMTA: the share is stored, the state complete.
ShareComputed(p) ==
  LET c == Current(p) IN
  /\ jobs[p] # <<>> /\ Head(jobs[p]).fn = "processBobMessages"
  /\ jobs' = [jobs EXCEPT ![p] = Tail(@)]
  /\ cst' = [cst EXCEPT ![c] = "PROTOCOL_COMPLETE"]
  /\ UNCHANGED <<wireVars, phase, attempt, csock, timer, draws>>

\* Mutant of CloseEvent: the promise resolves as soon as Alice has spoken.
CloseResolvesEarly(c) ==
  /\ Ready(Owner(c)) /\ csock[c] = "open"
  /\ s2c[c] = <<>> /\ s2cEnd[c] = "fin"
  /\ csock' = [csock EXCEPT ![c] = "closed"]
  /\ ClientClose(c)
  /\ IF cst[c] \in {"WAITING_FOR_BOB_MESSAGES", "PROTOCOL_COMPLETE"}
       THEN phase' = [phase EXCEPT ![Owner(c)] = "exit0"]
       ELSE FailAttempt(Owner(c))
  /\ UNCHANGED <<listening, link, c2s, s2cEnd, faults, attempt, cst, timer, jobs, draws>>

\* Mutant of CloseEvent: the promise is rejected in any state.
CloseAlwaysRejects(c) ==
  /\ Ready(Owner(c)) /\ csock[c] = "open"
  /\ s2c[c] = <<>> /\ s2cEnd[c] = "fin"
  /\ csock' = [csock EXCEPT ![c] = "closed"]
  /\ ClientClose(c)
  /\ FailAttempt(Owner(c))
  /\ UNCHANGED <<listening, link, c2s, s2cEnd, faults, attempt, cst, timer, jobs, draws>>

\* Mutant of CloseEvent: the promise is never rejected.
CloseNeverRejects(c) ==
  /\ Ready(Owner(c)) /\ csock[c] = "open"
  /\ s2c[c] = <<>> /\ s2cEnd[c] = "fin"
  /\ csock' = [csock EXCEPT ![c] = "closed"]
  /\ ClientClose(c)
  /\ phase' = [phase EXCEPT ![Owner(c)] = IF cst[c] = "PROTOCOL_COMPLETE" THEN "exit0" ELSE @]
  /\ UNCHANGED <<listening, link, c2s, s2cEnd, faults, attempt, cst, timer, jobs, draws>>

\* 'close' after the server's FIN: the promise resolves or rejects by state.
CloseEvent(c) ==
  /\ Ready(Owner(c)) /\ csock[c] = "open"
  /\ s2c[c] = <<>> /\ s2cEnd[c] = "fin"
  /\ csock' = [csock EXCEPT ![c] = "closed"]
  /\ ClientClose(c)
  /\ IF cst[c] = "PROTOCOL_COMPLETE"
       THEN phase' = [phase EXCEPT ![Owner(c)] = "exit0"]
       ELSE FailAttempt(Owner(c))
  /\ UNCHANGED <<listening, link, c2s, s2cEnd, faults, attempt, cst, timer, jobs, draws>>

\* Mutant of ErrorEvent: the awaits of prepareAliceMessages and executeAliceMTA take
\* a turn of the event loop, so that 'error' may come before what follows them.
ErrorBeforeJobs(c) ==
  /\ phase[Owner(c)] \notin Exits /\ csock[c] = "open"
  /\ s2cEnd[c] = "rst"
  /\ csock' = [csock EXCEPT ![c] = "closed"]
  /\ ClientClose(c)
  /\ FailAttempt(Owner(c))
  /\ UNCHANGED <<listening, link, c2s, s2cEnd, faults, attempt, cst, timer, jobs, draws>>

\* 'error' then 'close' after a RST: the promise rejects in any state.
ErrorEvent(c) ==
  /\ Ready(Owner(c)) /\ csock[c] = "open"
  /\ s2cEnd[c] = "rst"
  /\ csock' = [csock EXCEPT ![c] = "closed"]
  /\ ClientClose(c)
  /\ FailAttempt(Owner(c))
  /\ UNCHANGED <<listening, link, c2s, s2cEnd, faults, attempt, cst, timer, jobs, draws>>

-----------------------------------------------------------------------------

\* What the event loop of p does by itself, and what its surroundings do to it.
ClientStep(p) ==
  \/ StartProbe(p) \/ ProbeConnected(p) \/ ProbeFails(p)
  \/ CreateClient(p) \/ CreateFails(p) \/ BackoffOver(p)
  \/ SetupPrepared(p) \/ ShareComputed(p)
  \/ \E k \in 0..MaxRetries :
       LET c == <<p, k>> IN
       \/ Connected(c) \/ ConnectFails(c) \/ TimerFires(c)
       \/ DataEvent(c) \/ CloseEvent(c) \/ ErrorEvent(c)

=============================================================================
