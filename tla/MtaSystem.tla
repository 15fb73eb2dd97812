----------------------------- MODULE MtaSystem -----------------------------
(***************************************************************************)
(* Alice's clients, Bob's server and the network between them.             *)
(***************************************************************************)
EXTENDS MtaClient, MtaServer

vars == <<wireVars, clientVars, serverVars>>

Init == WireInit /\ ClientInit /\ ServerInit

\* Steps of the environment, on which no fairness is assumed.
Environment ==
  \/ \E c \in Conns : (ConnectionLost(c) \/ Partition(c)) /\ UNCHANGED <<clientVars, serverVars>>
  \/ \E p \in Clients : Interrupt(p) /\ UNCHANGED serverVars
  \/ (Crash \/ Restart) /\ UNCHANGED clientVars

Next ==
  \/ \E p \in Clients : ClientStep(p) /\ UNCHANGED serverVars
  \/ \E c \in Conns : SessionStep(c) /\ UNCHANGED clientVars
  \/ Environment

Spec == Init /\ [][Next]_vars

(***************************************************************************)
(* Each process runs the callbacks that are due: Node's event loop that of *)
(* a client, the io_context those of each session.                         *)
(***************************************************************************)
Fairness ==
  /\ \A p \in Clients : WF_vars(ClientStep(p) /\ UNCHANGED serverVars)
  /\ \A c \in Conns : WF_vars(SessionStep(c) /\ UNCHANGED clientVars)

FairSpec == Spec /\ Fairness

-----------------------------------------------------------------------------

TypeOK == WireTypeOK /\ ClientTypeOK /\ ServerTypeOK

(***************************************************************************)
(* Whatever the clients and the server interleave, the only frame a client *)
(* can be about to receive is the one its state has a handler for, so the  *)
(* default case of processMessage (mta-client.ts:99) is never taken and no *)
(* handler is given the other handler's frame.                             *)
(***************************************************************************)
ClientExpectsFrame ==
  \A c \in Conns : csock[c] = "open" /\ s2c[c] # <<>> =>
    \/ s2c[c] = <<"BobSetup">> /\ cst[c] = "WAITING_FOR_BOB_SETUP"
    \/ s2c[c] = <<"BobMessages">> /\ cst[c] = "WAITING_FOR_BOB_MESSAGES"

(***************************************************************************)
(* When a session processes a frame, its state has a case for it and the   *)
(* frame decodes: the two error returns of process_received_message and    *)
(* process_alice_messages are not taken with this client.                  *)
(***************************************************************************)
ServerExpectsFrame ==
  \A c \in Conns : op[c] = "read_body" /\ c2s[c] # <<>> =>
    \/ c2s[c] = <<"CorrelationDelta">> /\ sst[c] = "WAITING_FOR_CORRELATION_DELTA"
    \/ c2s[c] = <<"AliceMessages">> /\ sst[c] = "WAITING_FOR_ALICE_MESSAGES" /\ cotOwner # {}

(***************************************************************************)
(* Alice's additive share is computed from the random U_i her OT messages  *)
(* were made with: no second BobSetup makes performCOTMultiplication draw  *)
(* them again between the two (cot-protocol.ts:172, mta-protocol.ts:151).  *)
(***************************************************************************)
RandomnessDrawnOnce == \A c \in Conns : draws[c] <= 1

(***************************************************************************)
(* A client that reports success holds a share whose other half a session  *)
(* of the same connection has computed.                                    *)
(***************************************************************************)
SuccessIsShared ==
  \A p \in Clients : phase[p] = "exit0" =>
    /\ cst[Current(p)] = "PROTOCOL_COMPLETE"
    /\ sst[Current(p)] \in {"SENDING_BOB_MESSAGES", "PROTOCOL_COMPLETE"}

(***************************************************************************)
(* A finished protocol is run once more only after the network has broken  *)
(* or cut its connection, when startMTA rejects in any state               *)
(* (mta-client.ts:290): no crash of the server, at whatever point, does it.*)
(***************************************************************************)
Superseded(c) ==
  cst[c] = "PROTOCOL_COMPLETE" /\ (c # Current(Owner(c)) \/ phase[Owner(c)] = "backoff")

CompletedIsFinal == \A c \in Conns : Superseded(c) => c2sEnd[c] \in {"rst", "silent"}

-----------------------------------------------------------------------------
(* The inductive invariant behind the properties above. *)

NoJobs(c) == c = Current(Owner(c)) => jobs[Owner(c)] = <<>>

OneJob(c, f, m) ==
  c = Current(Owner(c)) => jobs[Owner(c)] \in {<<>>, <<[fn |-> f, msg |-> m]>>}

(***************************************************************************)
(* How far the conversation on a connection is.  A frame in flight may be  *)
(* missing in any of the stages: lost, or already read.                    *)
(***************************************************************************)
Unsaid(c) ==
  /\ cst[c] \in {"CONNECTING", "SENDING_CORRELATION_DELTA"}
  /\ sst[c] \in {"none", "WAITING_FOR_CORRELATION_DELTA"}
  /\ c2s[c] = <<>> /\ s2c[c] = <<>> /\ NoJobs(c) /\ draws[c] = 0

DeltaSaid(c) ==
  /\ cst[c] = "WAITING_FOR_BOB_SETUP"
  /\ sst[c] \in {"none", "WAITING_FOR_CORRELATION_DELTA"}
  /\ c2s[c] \in {<<>>, <<"CorrelationDelta">>} /\ s2c[c] = <<>>
  /\ NoJobs(c) /\ draws[c] = 0 /\ ~timer[c]

SetupSaid(c) ==
  /\ cst[c] = "WAITING_FOR_BOB_SETUP"
  /\ sst[c] \in {"SENDING_BOB_SETUP", "WAITING_FOR_ALICE_MESSAGES"}
  /\ c2s[c] = <<>> /\ ~timer[c]
  /\ \/ s2c[c] = <<"BobSetup">> /\ NoJobs(c) /\ draws[c] = 0
     \/ s2c[c] = <<>> /\ OneJob(c, "processBobSetup", "BobSetup") /\ draws[c] \in {0, 1}

AliceSaid(c) ==
  /\ cst[c] = "WAITING_FOR_BOB_MESSAGES"
  /\ sst[c] \in {"SENDING_BOB_SETUP", "WAITING_FOR_ALICE_MESSAGES"}
  /\ c2s[c] \in {<<>>, <<"AliceMessages">>} /\ s2c[c] = <<>>
  /\ NoJobs(c) /\ draws[c] \in {0, 1} /\ ~timer[c]

BobSaid(c) ==
  /\ cst[c] = "WAITING_FOR_BOB_MESSAGES"
  /\ sst[c] \in {"SENDING_BOB_MESSAGES", "PROTOCOL_COMPLETE"}
  /\ c2s[c] = <<>> /\ draws[c] \in {0, 1} /\ ~timer[c]
  /\ \/ s2c[c] = <<"BobMessages">> /\ NoJobs(c)
     \/ s2c[c] = <<>> /\ OneJob(c, "processBobMessages", "BobMessages")

AllSaid(c) ==
  /\ cst[c] = "PROTOCOL_COMPLETE"
  /\ sst[c] \in {"SENDING_BOB_MESSAGES", "PROTOCOL_COMPLETE"}
  /\ c2s[c] = <<>> /\ s2c[c] = <<>>
  /\ NoJobs(c) /\ draws[c] \in {0, 1} /\ ~timer[c]

Conversation(c) ==
  \/ Unsaid(c) \/ DeltaSaid(c) \/ SetupSaid(c)
  \/ AliceSaid(c) \/ BobSaid(c) \/ AllSaid(c)

\* A connection nobody has established carries nothing.
Unestablished(c) ==
  link[c] = "none" => /\ csock[c] # "open" /\ cst[c] = "CONNECTING" /\ ~timer[c]
                      /\ sst[c] = "none" /\ op[c] = "none"

\* A socket in use belongs to the attempt the process is in.
SocketInUse(c) ==
  /\ csock[c] \in {"connecting", "open"} =>
       /\ c = Current(Owner(c))
       /\ phase[Owner(c)] = IF c[2] = 0 THEN "probe" ELSE "running"
  /\ csock[c] = "connecting" => link[c] = "none"

\* What a session awaits is what its state says.
OpMatchesState(c) ==
  /\ op[c] \in {"read_size", "read_body"} =>
       sst[c] \in {"WAITING_FOR_CORRELATION_DELTA", "WAITING_FOR_ALICE_MESSAGES"}
  /\ op[c] # "none" /\ sst[c] # "WAITING_FOR_CORRELATION_DELTA" => cotOwner # {}
  /\ link[c] = "backlog" => sst[c] = "none" /\ op[c] = "none"

\* The attempts of p that lie ahead have left no trace.
AttemptsAhead(p) ==
  \A k \in 0..MaxRetries :
    k > attempt[p] \/ (k = attempt[p] /\ phase[p] \in {"start", "create"})
      => csock[<<p, k>>] = "none" /\ link[<<p, k>>] = "none"

AttemptMatchesPhase(p) ==
  /\ phase[p] \in {"start", "probe"} => attempt[p] = 0
  /\ phase[p] = "probe" => csock[Current(p)] = "connecting"
  /\ phase[p] \in {"create", "running", "backoff"} => attempt[p] > 0
  /\ phase[p] = "backoff" => attempt[p] < MaxRetries
  /\ phase[p] = "exit0" => cst[Current(p)] = "PROTOCOL_COMPLETE"
  /\ jobs[p] # <<>> => phase[p] = "running"

IInv ==
  /\ TypeOK
  /\ \A c \in Conns : /\ Conversation(c) /\ Unestablished(c)
                      /\ SocketInUse(c) /\ OpMatchesState(c)
  /\ \A p \in Clients : AttemptsAhead(p) /\ AttemptMatchesPhase(p)

(***************************************************************************)
(* How a connection ends.  Nobody has closed one that is not there; the    *)
(* server closes first only after it has said all it has to say or was     *)
(* given up on; and a client that is done keeps its socket open until the  *)
(* server closes or a signal comes.                                        *)
(***************************************************************************)
Ends(c) ==
  /\ link[c] = "none" => BothOpen(c)
  /\ (link[c] = "backlog" \/ op[c] # "none") /\ c2sEnd[c] = "open" => s2cEnd[c] = "open"
  /\ sst[c] \in {"SENDING_BOB_MESSAGES", "PROTOCOL_COMPLETE"} /\ c2sEnd[c] = "open"
       => s2cEnd[c] \in {"open", "fin"}
  /\ csock[c] = "open" => c2sEnd[c] # "fin"
  /\ csock[c] # "open" /\ link[c] # "none" => c2sEnd[c] # "open"
  /\ cst[c] = "PROTOCOL_COMPLETE" /\ c2sEnd[c] \in {"open", "fin"} =>
       \/ csock[c] = "open"
       \/ c = Current(Owner(c)) /\ phase[Owner(c)] \in {"exit0", "signal"}

\* A continuation that is pending belongs to a socket that is still open.
JobsHaveSocket(p) == jobs[p] # <<>> => csock[Current(p)] = "open"

EndsInv == (\A c \in Conns : Ends(c)) /\ (\A p \in Clients : JobsHaveSocket(p))

-----------------------------------------------------------------------------

(***************************************************************************)
(* The timer sends CorrelationDelta and sets WAITING_FOR_BOB_SETUP without *)
(* looking at the state (mta-client.ts:277): no client state ever goes     *)
(* back because of it, or because of a frame that comes late.              *)
(***************************************************************************)
StateRank ==
  [s \in ClientState |->
     CASE s = "CONNECTING" -> 0
       [] s = "SENDING_CORRELATION_DELTA" -> 1
       [] s = "WAITING_FOR_BOB_SETUP" -> 2
       [] s = "WAITING_FOR_BOB_MESSAGES" -> 3
       [] s = "PROTOCOL_COMPLETE" -> 4]

StateNeverRewinds ==
  [][\A c \in Conns : StateRank[cst[c]] <= StateRank[cst'[c]]]_vars

\* The attempt of c has been given up, has succeeded, or was interrupted.
Over(c) ==
  \/ c[2] < attempt[Owner(c)]
  \/ c = Current(Owner(c)) /\ phase[Owner(c)] \in {"backoff"} \cup Exits

\* The step does nothing for the attempt of c.
Idle(c) ==
  /\ Len(c2s'[c]) <= Len(c2s[c])
  /\ draws'[c] = draws[c]
  /\ cst'[c] = "PROTOCOL_COMPLETE" => cst[c] = "PROTOCOL_COMPLETE"

(***************************************************************************)
(* Every attempt has a client object of its own, and nothing is cancelled  *)
(* when its promise settles (mta-client.ts:269): neither its timer nor the *)
(* handlers that are past an await.  All the same an attempt that is over  *)
(* says nothing more, draws no random U_i and does not complete, so that   *)
(* no share is computed for an attempt reported as failed (index.ts:81).   *)
(***************************************************************************)
AttemptsStayOver == [][\A c \in Conns : Over(c) => Idle(c)]_vars

(***************************************************************************)
(* Every client process ends, whatever the network and the server do, as   *)
(* long as both ends learn of it: success, retries used up, or a signal.   *)
(***************************************************************************)
EveryClientExits == \A p \in Clients : <>(phase[p] \in Exits)

(***************************************************************************)
(* processBobSetup only returns when the messages cannot be prepared       *)
(* (mta-client.ts:135), and both ends of one connection wait for the other.*)
(***************************************************************************)
WaitForEachOther(c) ==
  /\ csock[c] = "open" /\ cst[c] = "WAITING_FOR_BOB_SETUP" /\ draws[c] = 1
  /\ op[c] = "read_size" /\ sst[c] = "WAITING_FOR_ALICE_MESSAGES"

\* The connection is cut, and its end at the client has nothing to read or say.
ClientCutOff(c) == csock[c] = "open" /\ s2c[c] = <<>> /\ s2cEnd[c] = "silent" /\ ~timer[c]

\* And so at the server.
SessionCutOff(c) ==
  op[c] \in {"read_size", "read_body"} /\ c2s[c] = <<>> /\ c2sEnd[c] = "silent"

(***************************************************************************)
(* Neither end has a timeout once it is connected (mta-client.ts:276).     *)
(* There are two ways for a client never to end: the mutual wait, and a    *)
(* connection that was cut while it had nothing to say.                    *)
(***************************************************************************)
EveryHangExplained ==
  \A p \in Clients :
    \/ <>(phase[p] \in Exits)
    \/ <>[](phase[p] = "running" /\ (WaitForEachOther(Current(p)) \/ ClientCutOff(Current(p))))

(***************************************************************************)
(* A session lives as long as an operation of it is pending                *)
(* (mta_server.cpp:65): it ends, whatever became of its client, unless the *)
(* two wait for each other or the connection was cut.                      *)
(***************************************************************************)
EverySessionEnds ==
  \A c \in Conns : []<>(op[c] = "none") \/ <>[](WaitForEachOther(c) \/ SessionCutOff(c))

\* With no fault and no crash, every client ends with a share.
EveryClientSucceeds ==
  [](faults = 0 /\ crashes = 0) => \A p \in Clients : <>(phase[p] = "exit0")

=============================================================================
