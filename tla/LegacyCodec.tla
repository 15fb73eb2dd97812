----------------------------- MODULE LegacyCodec -----------------------------
(***************************************************************************)
(* The layouts by hand that both programs had before protobuf and still    *)
(* carry: serialize... and deserialize... of mta-protocol.ts,              *)
(* cot-protocol.ts, mta_protocol.cpp and cot_protocol.cpp.  A byte is the  *)
(* field it was written for and its place in it.                           *)
(***************************************************************************)
EXTENDS Naturals, Sequences, SequencesExt

CONSTANTS PointsLen, SharesLen  \* 32 points of 65 bytes, 32 messages of 32

ASSUME LegacyAssumption == PointsLen \in Nat \ {0} /\ SharesLen \in Nat \ {0}

WordLen == 4

VARIABLES
  written,  \* the layout of the bytes, none before
  bytes,    \* what arrives of them
  reader,   \* the function that has read them, none before
  decoded   \* what it returned, <<>> before

legacyVars == <<written, bytes, reader, decoded>>

\* 1 for a success.
Flag == << <<"success", 1>> >>
Word(field) == [k \in 1..WordLen |-> <<field, k>>]
Points == [k \in 1..PointsLen |-> <<"points", k>>]
Shares(field) == [k \in 1..SharesLen |-> <<field, k>>]

-----------------------------------------------------------------------------
(* Writers: serialize... of the two programs. *)

WriteBobSetup == Flag \o Word("correlation") \o Points

\* Of both programs; serializeCOTSetup of Alice has her points in the place of Bob's.
WriteCOTSetup == Flag \o Word("correlation") \o Points

WriteAliceMessages == Flag \o Word("masked_share") \o Points \o Shares("m0") \o Shares("m1")

\* Of AliceCOTProtocol: no masked share.
WriteCOTMessages == Flag \o Points \o Shares("m0") \o Shares("m1")

WriteBobMessages == Flag \o Word("masked_share")

WriteMTAResult == Flag \o Word("additive_share")

Writers ==
  [BobSetup      |-> WriteBobSetup,
   COTSetup      |-> WriteCOTSetup,
   AliceMessages |-> WriteAliceMessages,
   COTMessages   |-> WriteCOTMessages,
   BobMessages   |-> WriteBobMessages,
   MTAResult     |-> WriteMTAResult]

-----------------------------------------------------------------------------
(* Readers: deserialize...  A refusal is a success of FALSE; what else it holds is not used. *)

Refused == [success |-> FALSE, parts |-> <<>>]

\* The bytes behind from, up to to.  A Buffer stops at its end: the slice is short.
Subarray(buffer, from, to) == SubSeq(buffer, from + 1, Min({to, Len(buffer)}))

\* std::copy goes on: behind the end is what happens to lie there.
Copy(buffer, from, to) ==
  [k \in 1..(to - from) |-> IF from + k <= Len(buffer) THEN buffer[from + k] ELSE <<"beyond", k>>]

\* The flag, and the fields between one cut and the next, as Alice's classes slice them.
Fields(buffer, cuts) ==
  [success |-> buffer[1] = Flag[1],
   parts   |-> [i \in 1..(Len(cuts) - 1) |-> Subarray(buffer, cuts[i], cuts[i + 1])]]

\* The same as Bob's classes copy them.
Copies(buffer, cuts) ==
  [success |-> buffer[1] = Flag[1],
   parts   |-> [i \in 1..(Len(cuts) - 1) |-> Copy(buffer, cuts[i], cuts[i + 1])]]

\* Where the fields lie: the flag, a word, points and shares, or no word.
WithWord == LET from == 1 + WordLen + PointsLen IN
  <<1, 1 + WordLen, from, from + SharesLen, from + 2 * SharesLen>>
NoWord == LET from == 1 + PointsLen IN <<1, from, from + SharesLen, from + 2 * SharesLen>>

\* All that follows is taken for points.
ReadBobSetup(buffer) ==
  IF Len(buffer) < 1 + WordLen THEN Refused
  ELSE Fields(buffer, <<1, 1 + WordLen, Len(buffer)>>)

ReadCOTSetup(buffer) ==
  IF Len(buffer) < 1 + WordLen + PointsLen THEN Refused
  ELSE Fields(buffer, <<1, 1 + WordLen, 1 + WordLen + PointsLen>>)

\* Mutant of ReadAliceMessages: the second size check is left out.
ReadAliceMessagesUnchecked(buffer) ==
  IF Len(buffer) < 1 + WordLen THEN Refused ELSE Fields(buffer, WithWord)

\* Of AliceMTAProtocol.
ReadAliceMessages(buffer) ==
  IF Len(buffer) < 1 + WordLen + PointsLen + 2 * SharesLen THEN Refused
  ELSE Fields(buffer, WithWord)

\* Of MTAProtocol: success is set to true at the end, whatever the flag says.
ReadAliceMessagesOfBob(buffer) ==
  IF Len(buffer) < 1 + WordLen THEN Refused
  ELSE [Copies(buffer, WithWord) EXCEPT !.success = TRUE]

\* Mutant of ReadCOTMessages: the fields are those of the other class.
ReadCOTMessagesWord(buffer) ==
  IF Len(buffer) < 1 + PointsLen + 2 * SharesLen THEN Refused ELSE Copies(buffer, WithWord)

\* Of CorrelatedOTProtocol.
ReadCOTMessages(buffer) ==
  IF Len(buffer) < 1 + PointsLen + 2 * SharesLen THEN Refused ELSE Copies(buffer, NoWord)

ReadBobMessages(buffer) ==
  IF Len(buffer) # 1 + WordLen THEN Refused ELSE Fields(buffer, <<1, 1 + WordLen>>)

ReadMTAResult(buffer) ==
  IF Len(buffer) # 1 + WordLen THEN Refused ELSE Fields(buffer, <<1, 1 + WordLen>>)

\* The layout a reader is meant for.
Layout ==
  [BobSetup |-> "BobSetup", COTSetup |-> "COTSetup", AliceMessages |-> "AliceMessages",
   AliceMessagesOfBob |-> "AliceMessages", COTMessages |-> "COTMessages",
   BobMessages |-> "BobMessages", MTAResult |-> "MTAResult"]

Read(name, buffer) ==
  CASE name = "BobSetup"           -> ReadBobSetup(buffer)
    [] name = "COTSetup"           -> ReadCOTSetup(buffer)
    [] name = "AliceMessages"      -> ReadAliceMessages(buffer)
    [] name = "AliceMessagesOfBob" -> ReadAliceMessagesOfBob(buffer)
    [] name = "COTMessages"        -> ReadCOTMessages(buffer)
    [] name = "BobMessages"        -> ReadBobMessages(buffer)
    [] name = "MTAResult"          -> ReadMTAResult(buffer)

-----------------------------------------------------------------------------

LegacyInit == written = "none" /\ bytes = <<>> /\ reader = "none" /\ decoded = Refused

\* A writer runs, and a first part of what it wrote arrives.
Write ==
  /\ written = "none"
  /\ written' \in DOMAIN Writers
  /\ \E n \in 0..Len(Writers[written']) : bytes' = SubSeq(Writers[written'], 1, n)
  /\ UNCHANGED <<reader, decoded>>

\* Any reader may be called with it: the types are all Buffer.
ReadBack ==
  /\ written # "none" /\ reader = "none"
  /\ reader' \in DOMAIN Layout
  /\ decoded' = Read(reader', bytes)
  /\ UNCHANGED <<written, bytes>>

LegacyNext == Write \/ ReadBack

-----------------------------------------------------------------------------
(* Properties. *)

\* The fields a layout was written from.
Meant ==
  [BobSetup      |-> <<Word("correlation"), Points>>,
   COTSetup      |-> <<Word("correlation"), Points>>,
   AliceMessages |-> <<Word("masked_share"), Points, Shares("m0"), Shares("m1")>>,
   COTMessages   |-> <<Points, Shares("m0"), Shares("m1")>>,
   BobMessages   |-> <<Word("masked_share")>>,
   MTAResult     |-> <<Word("additive_share")>>]

\* What was written and what was made of it.
LegacyFaithful ==
  /\ written = "none" => reader = "none"
  /\ written # "none" => \E n \in 0..Len(Writers[written]) : bytes = SubSeq(Writers[written], 1, n)
  /\ decoded = IF reader = "none" THEN Refused ELSE Read(reader, bytes)

(***************************************************************************)
(* What one program writes the other reads back, field by field, and only  *)
(* then: a frame that is cut short is refused by every reader meant for it *)
(* but two.  deserializeBobSetup hands on fewer points for processCOTSetup *)
(* to refuse, MTAProtocol::deserializeAliceMessages (mta_protocol.cpp:185) *)
(* says success.                                                           *)
(***************************************************************************)
ReadAsWritten ==
  reader # "none" /\ Layout[reader] = written =>
    LET whole == bytes = Writers[written] IN
    /\ whole => decoded.success /\ decoded.parts = Meant[written]
    /\ ~whole /\ decoded.success =>
         \/ reader = "AliceMessagesOfBob"
         \/ reader = "BobSetup" /\ Len(decoded.parts[2]) < PointsLen

(***************************************************************************)
(* Given any layout, cut anywhere, a reader refuses or hands on fields of  *)
(* their full length, taken from what it was given: no slice of Alice's is *)
(* short (mta-protocol.ts:287) and no copy of Bob's goes behind the end    *)
(* (cot_protocol.cpp:138).  MTAProtocol::deserializeAliceMessages is not   *)
(* held to it, nor the points of deserializeBobSetup, all that follows.    *)
(***************************************************************************)
FieldsAreWhole ==
  reader \notin {"none", "AliceMessagesOfBob"} =>
    \A i \in DOMAIN decoded.parts :
      /\ ToSet(decoded.parts[i]) \subseteq ToSet(bytes)
      /\ \/ Len(decoded.parts[i]) = Len(Meant[Layout[reader]][i])
         \/ reader = "BobSetup" /\ i = 2

(***************************************************************************)
(* The two classes of Alice write AliceMessages in layouts that differ by  *)
(* a masked share (cot-protocol.ts:211, mta-protocol.ts:242).  The longer  *)
(* one passes for the shorter, four bytes out of place; not the other way. *)
(***************************************************************************)
MessagesMixedUpOneWay ==
  /\ written = "AliceMessages" /\ reader = "COTMessages" /\ decoded.success
       => bytes[2] \in ToSet(decoded.parts[1])
  /\ written = "COTMessages" /\ reader = "AliceMessages" => ~decoded.success

=============================================================================
