----------------------------- MODULE MtaServer -----------------------------
(***************************************************************************)
(* Bob's server: server/src/tcp/mta_server.cpp.  One thread runs the       *)
(* io_context, so each completion handler is one action.  A Session lives  *)
(* as long as an operation of it is pending: a handler that starts no new  *)
(* operation destroys the session and closes its socket.                   *)
(*                                                                         *)
(* All sessions share one MTAProtocol.  Of its state, cotOwner keeps which *)
(* session drew the scalars now in CorrelatedOTProtocol.stored_scalars.    *)
(***************************************************************************)
EXTENDS MtaWire

CONSTANT MaxCrashes  \* bound: crashes of the server in a behaviour

ASSUME ServerAssumption == MaxCrashes \in Nat

VARIABLES
  sst,       \* Session.state_; "none" before the session, kept after it
  op,        \* the session's pending asynchronous operation
  cotOwner,  \* the session whose scalars are stored: {} or a singleton
  crashes    \* crashes so far

serverVars == <<sst, op, cotOwner, crashes>>

ProtocolState == {"WAITING_FOR_CORRELATION_DELTA", "SENDING_BOB_SETUP",
                  "WAITING_FOR_ALICE_MESSAGES", "SENDING_BOB_MESSAGES",
                  "PROTOCOL_COMPLETE"}

ServerTypeOK ==
  /\ sst \in [Conns -> ProtocolState \cup {"none"}]
  /\ op \in [Conns -> {"none", "read_size", "read_body", "write"}]
  /\ cotOwner \in SUBSET Conns
  /\ crashes \in 0..MaxCrashes

ServerInit ==
  /\ sst = [c \in Conns |-> "none"]
  /\ op = [c \in Conns |-> "none"]
  /\ cotOwner = {}
  /\ crashes = 0

-----------------------------------------------------------------------------

\* Mutant of AcceptSession: start_accept is not called again.
AcceptOneSession(c) ==
  /\ link[c] = "backlog" /\ \A d \in Conns : link[d] # "accepted"
  /\ link' = [link EXCEPT ![c] = "accepted"]
  /\ sst' = [sst EXCEPT ![c] = "WAITING_FOR_CORRELATION_DELTA"]
  /\ op' = [op EXCEPT ![c] = "read_size"]
  /\ UNCHANGED <<listening, c2s, s2c, c2sEnd, s2cEnd, faults, cotOwner, crashes>>

\* The handler of async_accept: start() of the session reads a size.
AcceptSession(c) ==
  /\ link[c] = "backlog"
  /\ link' = [link EXCEPT ![c] = "accepted"]
  /\ sst' = [sst EXCEPT ![c] = "WAITING_FOR_CORRELATION_DELTA"]
  /\ op' = [op EXCEPT ![c] = "read_size"]
  /\ UNCHANGED <<listening, c2s, s2c, c2sEnd, s2cEnd, faults, cotOwner, crashes>>

\* async_accept fails with an error: the session is dropped, the next awaited.
AcceptFails(c) ==
  /\ link[c] = "backlog" /\ c2sEnd[c] = "rst"
  /\ link' = [link EXCEPT ![c] = "dropped"]
  /\ ServerClose(c, c2s[c])
  /\ UNCHANGED <<listening, s2c, c2sEnd, faults, sst, op, cotOwner, crashes>>

\* The four size bytes have arrived: read that many bytes.
SizeRead(c) ==
  /\ op[c] = "read_size" /\ c2s[c] # <<>>
  /\ op' = [op EXCEPT ![c] = "read_body"]
  /\ UNCHANGED <<wireVars, sst, cotOwner, crashes>>

\* Mutant of ReadFails: the end of the stream is not taken for an error.
ReadFailsOnReset(c) ==
  /\ op[c] \in {"read_size", "read_body"}
  /\ c2sEnd[c] = "rst"
  /\ op' = [op EXCEPT ![c] = "none"]
  /\ ServerClose(c, c2s[c])
  /\ UNCHANGED <<listening, link, s2c, c2sEnd, faults, sst, cotOwner, crashes>>

\* EOF or a reset instead of the bytes: nothing more is started.
ReadFails(c) ==
  /\ op[c] \in {"read_size", "read_body"}
  /\ c2sEnd[c] = "rst" \/ (c2sEnd[c] = "fin" /\ c2s[c] = <<>>)
  /\ op' = [op EXCEPT ![c] = "none"]
  /\ ServerClose(c, c2s[c])
  /\ UNCHANGED <<listening, link, s2c, c2sEnd, faults, sst, cotOwner, crashes>>

(***************************************************************************)
(* process_received_message on a whole frame.  A CorrelationDelta decodes  *)
(* from any of Alice's frames.  deserializeAliceMessages rejects only what *)
(* has fewer than the 5 bytes of its header, as a CorrelationDelta has.    *)
(***************************************************************************)
Decodes(c) ==
  \/ sst[c] = "WAITING_FOR_CORRELATION_DELTA"
  \/ /\ sst[c] = "WAITING_FOR_ALICE_MESSAGES"
     /\ Head(c2s[c]) = "AliceMessages"
     /\ cotOwner # {}

\* process_correlation_delta: new scalars for all sessions, then BobSetup.
ProcessCorrelationDelta(c) ==
  /\ sst[c] = "WAITING_FOR_CORRELATION_DELTA"
  /\ cotOwner' = {c}
  /\ sst' = [sst EXCEPT ![c] = "SENDING_BOB_SETUP"]
  /\ ServerSend(c, "BobSetup")

\* process_alice_messages: Bob's share, then BobMessages.
ProcessAliceMessages(c) ==
  /\ sst[c] = "WAITING_FOR_ALICE_MESSAGES"
  /\ sst' = [sst EXCEPT ![c] = "SENDING_BOB_MESSAGES"]
  /\ ServerSend(c, "BobMessages")
  /\ UNCHANGED cotOwner

MessageRead(c) ==
  /\ op[c] = "read_body" /\ c2s[c] # <<>>
  /\ IF Decodes(c)
       THEN /\ ProcessCorrelationDelta(c) \/ ProcessAliceMessages(c)
            /\ op' = [op EXCEPT ![c] = "write"]
            /\ c2s' = [c2s EXCEPT ![c] = Tail(@)]
            /\ UNCHANGED s2cEnd
       ELSE /\ op' = [op EXCEPT ![c] = "none"]
            /\ ServerClose(c, Tail(c2s[c]))
            /\ UNCHANGED <<s2c, c2sEnd, sst, cotOwner>>
  /\ UNCHANGED <<listening, link, faults, crashes>>

\* The write of BobSetup is done: read Alice's answer.
SetupSent(c) ==
  /\ op[c] = "write" /\ sst[c] = "SENDING_BOB_SETUP"
  /\ sst' = [sst EXCEPT ![c] = "WAITING_FOR_ALICE_MESSAGES"]
  /\ op' = [op EXCEPT ![c] = "read_size"]
  /\ UNCHANGED <<wireVars, cotOwner, crashes>>

\* Mutant of MessagesSent: the session reads on after the last message.
MessagesSentReadsOn(c) ==
  /\ op[c] = "write" /\ sst[c] = "SENDING_BOB_MESSAGES"
  /\ sst' = [sst EXCEPT ![c] = "PROTOCOL_COMPLETE"]
  /\ op' = [op EXCEPT ![c] = "read_size"]
  /\ UNCHANGED <<wireVars, cotOwner, crashes>>

\* The write of BobMessages is done: no operation is left, the socket closes.
MessagesSent(c) ==
  /\ op[c] = "write" /\ sst[c] = "SENDING_BOB_MESSAGES"
  /\ sst' = [sst EXCEPT ![c] = "PROTOCOL_COMPLETE"]
  /\ op' = [op EXCEPT ![c] = "none"]
  /\ ServerClose(c, c2s[c])
  /\ UNCHANGED <<listening, link, s2c, c2sEnd, faults, cotOwner, crashes>>

\* The write fails because the client is gone; silence is not noticed.
WriteFails(c) ==
  /\ op[c] = "write" /\ c2sEnd[c] \in {"fin", "rst"}
  /\ op' = [op EXCEPT ![c] = "none"]
  /\ ServerClose(c, c2s[c])
  /\ UNCHANGED <<listening, link, s2c, c2sEnd, faults, sst, cotOwner, crashes>>

SessionStep(c) ==
  \/ AcceptSession(c) \/ AcceptFails(c) \/ SizeRead(c) \/ ReadFails(c)
  \/ MessageRead(c) \/ SetupSent(c) \/ MessagesSent(c) \/ WriteFails(c)

-----------------------------------------------------------------------------

\* What the kernel of a dead server sends on connection c.
EndAfterCrash(c) ==
  IF link[c] = "backlog" THEN EndAfterClose(s2cEnd[c], <<"CorrelationDelta">>)
  ELSE IF op[c] # "none" THEN EndAfterClose(s2cEnd[c], c2s[c])
  ELSE s2cEnd[c]

\* The process dies (main catches what a handler throws and returns 1).
Crash ==
  /\ listening /\ crashes < MaxCrashes
  /\ crashes' = crashes + 1
  /\ listening' = FALSE
  /\ link' = [c \in Conns |-> IF link[c] = "backlog" THEN "dropped" ELSE link[c]]
  /\ op' = [c \in Conns |-> "none"]
  /\ c2s' = [c \in Conns |-> <<>>]
  /\ s2cEnd' = [c \in Conns |-> EndAfterCrash(c)]
  /\ cotOwner' = {}
  /\ UNCHANGED <<s2c, c2sEnd, faults, sst>>

\* An operator starts a new server: nothing of the old one is kept.
Restart ==
  /\ ~listening
  /\ listening' = TRUE
  /\ UNCHANGED <<link, c2s, s2c, c2sEnd, s2cEnd, faults, serverVars>>

=============================================================================
