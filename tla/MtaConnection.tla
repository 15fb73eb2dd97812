--------------------------- MODULE MtaConnection ---------------------------
(***************************************************************************)
(* Both directions of one connection, as bytes: Alice writes her frames,   *)
(* Bob reads one, writes one and reads on, Alice reads what comes.         *)
(***************************************************************************)
EXTENDS ClientReader, ServerReader

vars == <<clientReaderVars, serverReaderVars>>

Init == ClientReaderInit /\ ServerReaderInit

BobAnswers == (\E f \in Frames : BobSends(f)) /\ ReadNext

BobStep == ((ReadSize \/ ReadBody) /\ UNCHANGED clientReaderVars) \/ BobAnswers

AliceReads == DataEvent /\ UNCHANGED serverReaderVars

Next == (AliceSends /\ UNCHANGED clientReaderVars) \/ AliceReads \/ BobStep

(***************************************************************************)
(* Bytes on their way arrive, in chunks the network chooses, and the       *)
(* io_context runs the handlers of reads and writes that are complete.     *)
(* Alice need not send.                                                    *)
(***************************************************************************)
Spec == Init /\ [][Next]_vars /\ WF_vars(AliceReads) /\ WF_vars(BobStep)

TypeOK == ClientReaderTypeOK /\ ServerReaderTypeOK

-----------------------------------------------------------------------------

ToAlice == INSTANCE FrameQueue WITH sent <- sentToAlice, received <- readByAlice
ToBob == INSTANCE FrameQueue WITH sent <- sentToBob, received <- readByBob

(***************************************************************************)
(* However TCP cuts the stream, processMessage is called with the messages *)
(* the server sent, in order, and with each of them in the end; an empty   *)
(* message, whose size is the value that stands for "no header yet"        *)
(* (mta-client.ts:63), included.                                           *)
(***************************************************************************)
FramesReachAlice == ToAlice!Spec

(***************************************************************************)
(* process_received_message is given the messages Alice sent, in order,    *)
(* with nothing of an earlier and longer one behind a short one            *)
(* (mta_server.cpp:105-113), and is given each of them in the end.         *)
(***************************************************************************)
FramesReachBob == ToBob!Spec

(***************************************************************************)
(* Alice holds no frame back: once every byte has arrived, every message   *)
(* has been processed and nothing is left over for the next header         *)
(* (mta-client.ts:62).  Bob may never send again to wake her loop.         *)
(***************************************************************************)
NothingHeldBack ==
  s2cBytes = <<>> =>
    readByAlice = sentToAlice /\ readBuffer = <<>> /\ expectedMessageSize = 0

-----------------------------------------------------------------------------
(* The inductive invariant behind the properties above. *)

AliceInStep ==
  /\ InStep(sentToAlice, readByAlice, readBuffer \o s2cBytes,
            expectedMessageSize # 0, expectedMessageSize)
  /\ Len(readBuffer) < IF expectedMessageSize = 0 THEN HeaderLen ELSE expectedMessageSize

BobInStep ==
  /\ InStep(sentToBob, readByBob, c2sBytes, pending = "read_body", last_message_size_)
  /\ pending = "read_body" => last_message_size_ <= Len(read_buffer_)

\* Bob answers each message once, so that he never writes more than Alice does.
OneAnswerEach ==
  /\ Len(sentToBob) <= MaxFrames
  /\ Len(readByBob) = Len(sentToAlice) + IF pending = "write" THEN 1 ELSE 0

IInv == TypeOK /\ AliceInStep /\ BobInStep /\ OneAnswerEach

=============================================================================
