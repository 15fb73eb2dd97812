----------------------------- MODULE AliceCodec -----------------------------
(***************************************************************************)
(* The first bytes of Alice's frames: protobufjs writes proto/mta.proto    *)
(* (serializeCorrelationDelta, serializeAliceMessages), and the server     *)
(* reads AliceMessages in a fixed layout of its own                        *)
(* (MTAProtocol::deserializeAliceMessages).  A word is the set of its bits *)
(* that are 1, out of 0..31, and a byte is, out of 0..7.                   *)
(***************************************************************************)
EXTENDS Integers, Sequences, SequencesExt, FiniteSetsExt

CONSTANTS Words,     \* the masked shares tried
          DeltaBits  \* bits of the largest delta: 20, as 1 000 000 < 2^20

ASSUME CodecAssumption ==
  /\ \A w \in Words : w \subseteq 0..31
  /\ DeltaBits \in 1..32

VARIABLES
  kind, value,  \* what Alice sends: a message type and its first field
  frame,        \* the bytes she sends, <<>> before
  verdict,      \* of deserializeAliceMessages
  masked_share  \* what it read

aliceVars == <<kind, value, frame, verdict, masked_share>>

Byte == SUBSET (0..7)

\* Bits first..last of a word, counted from 0.
Slice(word, first, last) == {i \in 0..(last - first) : first + i \in word}

\* Seven bits in a byte; the top bit says that more follow.
Group == 7

\* The last group with a 1 in it.
LastGroup(word) == IF word = {} THEN 0 ELSE Max(word) \div Group

\* writer.uint32 of protobufjs.
Varint(word) ==
  [k \in 1..(LastGroup(word) + 1) |->
     Slice(word, Group * (k - 1), Group * k - 1) \cup {b \in {Group} : k <= LastGroup(word)}]

\* Mutant of EncodeDelta: the field is written as a fixed32, behind byte 13.
EncodeDeltaFixed(word) ==
  << {0, 2, 3} >> \o [k \in 1..4 |-> Slice(word, 8 * (k - 1), 8 * k - 1)]

\* Field 1, a varint: byte 8, then the value.
EncodeDelta(word) == << {3} >> \o Varint(word)

\* The server's layout: a success byte and four bytes of masked share.
HeaderLen == 5

\* Mutant of EncodeAliceMessages: two bytes of the share are put in one.
EncodeAliceMessagesWide(word, choice) ==
  << {3}, Slice(word, 0, 15), {}, {1, 4}, {5}, choice >>

\* Field 1, then field 2, byte 18: 32 choices in 32 bytes.  What follows is cut off.
EncodeAliceMessages(word, choice) == << {3} >> \o Varint(word) \o << {1, 4}, {5}, choice >>

\* Mutant of DecodeMaskedShare: the success byte is not skipped.
DecodeFromFirst(bytes) == {i \in 0..31 : i % 8 \in bytes[1 + (i \div 8)]}

\* Bytes 1 to 4, little-endian.
DecodeMaskedShare(bytes) == {i \in 0..31 : i % 8 \in bytes[2 + (i \div 8)]}

\* The only check of a frame's size.
LongEnough(bytes) == Len(bytes) >= HeaderLen

AliceInit == kind = "none" /\ value = {} /\ frame = <<>> /\ verdict = "unread" /\ masked_share = {}

\* generateRandomCorrelationDelta draws 1..1 000 000.
SendCorrelationDelta ==
  /\ kind = "none" /\ kind' = "CorrelationDelta"
  /\ value' \in {w \in Words \ {{}} : Max(w) < DeltaBits}
  /\ frame' = EncodeDelta(value')
  /\ UNCHANGED <<verdict, masked_share>>

SendAliceMessages ==
  /\ kind = "none" /\ kind' = "AliceMessages"
  /\ value' \in Words
  /\ \E choice \in {{}, {0}} : frame' = EncodeAliceMessages(value', choice)
  /\ UNCHANGED <<verdict, masked_share>>

\* deserializeAliceMessages
DeserializeAliceMessages ==
  /\ frame # <<>> /\ verdict = "unread"
  /\ IF LongEnough(frame)
       THEN verdict' = "accepted" /\ masked_share' = DecodeMaskedShare(frame)
       ELSE verdict' = "refused" /\ UNCHANGED masked_share
  /\ UNCHANGED <<kind, value, frame>>

AliceNext == SendCorrelationDelta \/ SendAliceMessages \/ DeserializeAliceMessages

-----------------------------------------------------------------------------

AliceTypeOK ==
  /\ kind \in {"none", "CorrelationDelta", "AliceMessages"} /\ value \subseteq 0..31
  /\ frame \in Seq(Byte) /\ verdict \in {"unread", "refused", "accepted"}
  /\ masked_share \in SUBSET (0..31)

\* What Alice sent and what the server made of it.
AliceFaithful ==
  /\ kind = "none" => frame = <<>>
  /\ kind = "CorrelationDelta" =>
       value \in Words \ {{}} /\ Max(value) < DeltaBits /\ frame = EncodeDelta(value)
  /\ kind = "AliceMessages" =>
       value \in Words /\ \E choice \in {{}, {0}} : frame = EncodeAliceMessages(value, choice)
  /\ verdict # "unread" =>
       kind # "none" /\ (verdict = "accepted" <=> Len(frame) >= HeaderLen)
  /\ verdict = "accepted" => masked_share = DecodeMaskedShare(frame)

(***************************************************************************)
(* The size check of mta_protocol.cpp:185 tells Alice's two messages       *)
(* apart, for no other reason than that deltas stay below 2^20             *)
(* (mta-client.ts:232): one of 2^21 would be a byte longer, and taken for  *)
(* AliceMessages.                                                          *)
(***************************************************************************)
OnlyAliceMessagesAccepted ==
  verdict # "unread" => (verdict = "accepted" <=> kind = "AliceMessages")

(***************************************************************************)
(* The two layouts agree on a masked share only where its bits 7 to 31 are *)
(* all 1; for every other one Bob's additive share (mta_protocol.cpp:98)   *)
(* is computed from another number.                                        *)
(***************************************************************************)
LayoutsAgreeOnOnes ==
  verdict = "accepted" => (masked_share = value <=> 7..31 \subseteq value)

\* mta_protocol.h:53 of the field the server decodes: "x * alpha".
MaskedShareArrives ==
  verdict = "accepted" => masked_share = value

=============================================================================
