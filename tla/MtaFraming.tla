----------------------------- MODULE MtaFraming -----------------------------
(***************************************************************************)
(* Frames as bytes.  Both programs write a little-endian size and then the *)
(* message; a connection carries bytes and keeps no boundaries.            *)
(***************************************************************************)
EXTENDS Integers, Sequences

CONSTANTS Base,       \* values of a byte: 256
          HeaderLen,  \* bytes of the size header: 4
          Frames,     \* the messages sent, as sequences of bytes
          MaxFrames   \* bound: frames Alice sends

Byte == 0..(Base - 1)

\* What a byte counts at each place of a size: Base^i.
Weight[i \in 0..HeaderLen] == IF i = 0 THEN 1 ELSE Base * Weight[i - 1]

ASSUME FramingAssumption ==
  /\ Base \in Nat \ {0, 1} /\ HeaderLen \in Nat \ {0} /\ MaxFrames \in Nat
  /\ \A f \in Frames : f \in Seq(Byte) /\ Len(f) < Weight[HeaderLen]

Header(size) == [i \in 1..HeaderLen |-> (size \div Weight[i - 1]) % Base]

\* Mutant of SizeOf: the header is read big-endian.
SizeOfBigEndian(bytes) ==
  LET value[i \in 0..HeaderLen] == IF i = 0 THEN 0 ELSE value[i - 1] * Base + bytes[i]
  IN value[HeaderLen]

\* The size that the first bytes of a buffer announce.
SizeOf(bytes) ==
  LET value[i \in 0..HeaderLen] == IF i = 0 THEN 0 ELSE value[i - 1] + bytes[i] * Weight[i - 1]
  IN value[HeaderLen]

\* What sendMessageWithSize and send_message_with_size write.
Packed(frame) == Header(Len(frame)) \o frame

Drop(bytes, n) == SubSeq(bytes, n + 1, Len(bytes))

(***************************************************************************)
(* The bytes are those of the packed frames, one after the other, without  *)
(* the first skip bytes: at[k] of them belong to the first k frames.       *)
(***************************************************************************)
Split(bytes, frames, skip, at) ==
  /\ at[0] = 0 - skip /\ at[Len(frames)] = Len(bytes)
  /\ \A k \in 1..Len(frames) :
       /\ at[k] = at[k - 1] + HeaderLen + Len(frames[k])
       /\ \A j \in 1..(HeaderLen + Len(frames[k])) :
            at[k - 1] + j > 0 => bytes[at[k - 1] + j] = Packed(frames[k])[j]

Carries(bytes, frames, skip) ==
  \E at \in [0..Len(frames) -> (0 - HeaderLen)..Len(bytes)] : Split(bytes, frames, skip, at)

(***************************************************************************)
(* A reader has read the first of the frames that were sent, and what is   *)
(* unread are the bytes of the others; of the next one it may already have *)
(* taken the header.                                                       *)
(***************************************************************************)
InStep(sent, read, bytes, headerTaken, size) ==
  /\ Len(read) <= Len(sent) /\ read = SubSeq(sent, 1, Len(read))
  /\ Carries(bytes, Drop(sent, Len(read)), IF headerTaken THEN HeaderLen ELSE 0)
  /\ headerTaken => Len(read) < Len(sent) /\ size = Len(sent[Len(read) + 1])

=============================================================================
