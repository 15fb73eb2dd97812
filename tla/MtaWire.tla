------------------------------ MODULE MtaWire ------------------------------
(***************************************************************************)
(* The TCP connections between Alice's client processes and Bob's server.  *)
(*                                                                         *)
(* The transport is outside src/: it is modelled from how net.Socket       *)
(* (mta-client.ts) and boost::asio (mta_server.cpp) are used.  Frames are  *)
(* whole messages here; the byte stream under them is a separate concern.  *)
(*                                                                         *)
(* A client process p opens connection <<p, 0>> to probe the server and    *)
(* <<p, k>> for its k-th protocol attempt.                                 *)
(***************************************************************************)
EXTENDS Naturals, Sequences

CONSTANTS Clients,      \* the client processes
          MaxRetries,   \* config.maxRetries of index.ts
          MaxFaults,    \* bound: environment faults in a behaviour
          CanPartition  \* whether the network may fail without telling

ASSUME WireAssumption ==
  MaxRetries \in Nat \ {0} /\ MaxFaults \in Nat /\ CanPartition \in BOOLEAN

Conns == Clients \X (0..MaxRetries)

Owner(c) == c[1]

\* The four protocol messages of proto/mta.proto, one name per type.
AliceKinds == {"CorrelationDelta", "AliceMessages"}
BobKinds   == {"BobSetup", "BobMessages"}

VARIABLES
  listening,  \* the server process is up and its acceptor bound
  link,       \* server side of a connection: none, backlog, accepted, dropped
  c2s, s2c,   \* frames sent and not yet read by the other application
  c2sEnd,     \* what the server reads after c2s: nothing yet (open), FIN, RST
              \* or an error (rst), nothing for ever (silent)
  s2cEnd,     \* what the client reads after s2c
  faults      \* environment faults so far

wireVars == <<listening, link, c2s, s2c, c2sEnd, s2cEnd, faults>>

EndStates == {"open", "fin", "rst", "silent"}

WireTypeOK ==
  /\ listening \in BOOLEAN
  /\ link \in [Conns -> {"none", "backlog", "accepted", "dropped"}]
  /\ c2s \in [Conns -> Seq(AliceKinds)]
  /\ s2c \in [Conns -> Seq(BobKinds)]
  /\ c2sEnd \in [Conns -> EndStates]
  /\ s2cEnd \in [Conns -> EndStates]
  /\ faults \in 0..MaxFaults

WireInit ==
  /\ listening = TRUE
  /\ link = [c \in Conns |-> "none"]
  /\ c2s = [c \in Conns |-> <<>>]
  /\ s2c = [c \in Conns |-> <<>>]
  /\ c2sEnd = [c \in Conns |-> "open"]
  /\ s2cEnd = [c \in Conns |-> "open"]
  /\ faults = 0

BothOpen(c) == c2sEnd[c] = "open" /\ s2cEnd[c] = "open"

(***************************************************************************)
(* The client writes a frame.  On a socket that either end has closed the  *)
(* bytes go nowhere; if it was the server that closed, its kernel may      *)
(* answer with a RST that overtakes the FIN.  On a silent connection they  *)
(* are sent again until the kernel gives up with an error.                 *)
(***************************************************************************)
ClientSend(c, m) ==
  \/ /\ BothOpen(c)
     /\ c2s' = [c2s EXCEPT ![c] = Append(@, m)]
     /\ UNCHANGED s2cEnd
  \/ /\ ~BothOpen(c) /\ s2cEnd[c] # "silent"
     /\ UNCHANGED <<c2s, s2cEnd>>
  \/ /\ s2cEnd[c] = "silent" \/ (c2sEnd[c] = "open" /\ s2cEnd[c] = "fin")
     /\ s2cEnd' = [s2cEnd EXCEPT ![c] = "rst"]
     /\ UNCHANGED c2s

\* The server writes a frame; to a client that is gone it is lost.
ServerSend(c, m) ==
  /\ s2c' = [s2c EXCEPT ![c] = IF BothOpen(c) THEN Append(@, m) ELSE @]
  /\ c2sEnd' = [c2sEnd EXCEPT ![c] = IF @ = "silent" THEN "rst" ELSE @]

\* Closing a socket sends a FIN, or a RST when received data is left unread.
EndAfterClose(current, unread) ==
  IF current # "open" THEN current
  ELSE IF unread = <<>> THEN "fin" ELSE "rst"

ClientClose(c) ==
  /\ c2sEnd' = [c2sEnd EXCEPT ![c] = EndAfterClose(@, s2c[c])]
  /\ s2c' = [s2c EXCEPT ![c] = <<>>]

ServerClose(c, unread) ==
  /\ s2cEnd' = [s2cEnd EXCEPT ![c] = EndAfterClose(@, unread)]
  /\ c2s' = [c2s EXCEPT ![c] = <<>>]

Fault == faults < MaxFaults /\ faults' = faults + 1

(***************************************************************************)
(* The network breaks an established connection: each end finds a RST      *)
(* after some prefix of what was sent to it.                               *)
(***************************************************************************)
ConnectionLost(c) ==
  /\ Fault
  /\ link[c] \in {"backlog", "accepted"}
  /\ c2sEnd[c] = "open"
  /\ c2sEnd' = [c2sEnd EXCEPT ![c] = "rst"]
  /\ s2cEnd' = [s2cEnd EXCEPT ![c] = "rst"]
  /\ UNCHANGED <<listening, link, c2s, s2c>>

(***************************************************************************)
(* What an end learns of a connection that is cut, after what has reached  *)
(* it.  Its kernel gives up on bytes of its own that are not acknowledged, *)
(* but an end that has only to wait may never learn of anything.           *)
(***************************************************************************)
AfterCut(end, heard, answered) ==
  {"rst"} \cup {e \in {"silent"} : answered} \cup {e \in {end} \ {"open"} : heard}

(***************************************************************************)
(* The network cuts a connection for longer than any retransmission takes: *)
(* what is on its way in either direction is lost, and so is what is sent  *)
(* from now on.                                                            *)
(***************************************************************************)
Partition(c) ==
  /\ CanPartition /\ Fault
  /\ link[c] \in {"backlog", "accepted"}
  /\ "open" \in {c2sEnd[c], s2cEnd[c]}
  /\ \E i \in 0..Len(c2s[c]), j \in 0..Len(s2c[c]) :
       LET toServer == i = Len(c2s[c])
           toClient == j = Len(s2c[c])
       IN /\ c2s' = [c2s EXCEPT ![c] = SubSeq(@, 1, i)]
          /\ s2c' = [s2c EXCEPT ![c] = SubSeq(@, 1, j)]
          /\ \E end \in AfterCut(c2sEnd[c], toServer, toClient) :
               c2sEnd' = [c2sEnd EXCEPT ![c] = end]
          /\ \E end \in AfterCut(s2cEnd[c], toClient, toServer) :
               s2cEnd' = [s2cEnd EXCEPT ![c] = end]
  /\ UNCHANGED <<listening, link>>

=============================================================================
