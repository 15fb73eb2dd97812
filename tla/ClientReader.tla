---------------------------- MODULE ClientReader ----------------------------
(***************************************************************************)
(* Alice's side of the framing: the 'data' handler of mta-client.ts and    *)
(* its loop processReceivedData.  A chunk may be part of a header, of a    *)
(* message, or several frames at once.                                     *)
(***************************************************************************)
EXTENDS MtaFraming

VARIABLES
  sentToAlice,         \* the frames Bob has written
  s2cBytes,            \* their bytes on the way
  readByAlice,         \* the messages processMessage was called with
  readBuffer,          \* bytes received and not yet consumed
  expectedMessageSize  \* 0: the next bytes are a header

clientReaderVars == <<sentToAlice, s2cBytes, readByAlice, readBuffer, expectedMessageSize>>

ClientReaderTypeOK ==
  /\ sentToAlice \in Seq(Frames) /\ s2cBytes \in Seq(Byte) /\ readByAlice \in Seq(Seq(Byte))
  /\ readBuffer \in Seq(Byte) /\ expectedMessageSize \in 0..(Weight[HeaderLen] - 1)

ClientReaderInit ==
  /\ sentToAlice = <<>> /\ s2cBytes = <<>> /\ readByAlice = <<>>
  /\ readBuffer = <<>> /\ expectedMessageSize = 0

\* With no size known, the next HeaderLen bytes are one.
TakeHeader(r) ==
  IF r.expected = 0
    THEN [r EXCEPT !.expected = SizeOf(r.buffer), !.buffer = Drop(r.buffer, HeaderLen)]
    ELSE r

\* Mutant of TakeFrame: expectedMessageSize is not reset.
TakeFrameKeepsSize(r) ==
  [r EXCEPT !.buffer = Drop(r.buffer, r.expected),
            !.frames = Append(r.frames, SubSeq(r.buffer, 1, r.expected))]

\* A whole message is there: it goes to processMessage.
TakeFrame(r) ==
  [buffer |-> Drop(r.buffer, r.expected), expected |-> 0,
   frames |-> Append(r.frames, SubSeq(r.buffer, 1, r.expected))]

\* The loop ends: part of a header, or part of a message, is all there is.
Waits(r) == Len(r.buffer) < IF r.expected = 0 THEN HeaderLen ELSE r.expected

\* One turn of the loop of processReceivedData.
Turn(r) ==
  IF Waits(r) THEN r
  ELSE LET h == TakeHeader(r) IN IF Len(h.buffer) < h.expected THEN h ELSE TakeFrame(h)

\* A turn that is not the last takes bytes: there are no more turns than bytes.
ProcessReceivedData(r) ==
  LET after[i \in 0..Len(r.buffer)] == IF i = 0 THEN r ELSE Turn(after[i - 1])
  IN after[Len(r.buffer)]

DataEvent ==
  /\ \E n \in 1..Len(s2cBytes) :
       LET r == ProcessReceivedData([buffer |-> readBuffer \o SubSeq(s2cBytes, 1, n),
                                     expected |-> expectedMessageSize,
                                     frames |-> readByAlice]) IN
       /\ s2cBytes' = Drop(s2cBytes, n)
       /\ readBuffer' = r.buffer
       /\ expectedMessageSize' = r.expected
       /\ readByAlice' = r.frames
  /\ UNCHANGED sentToAlice

\* send_message_with_size of the server, as the other end of this stream.
BobSends(frame) ==
  /\ sentToAlice' = Append(sentToAlice, frame)
  /\ s2cBytes' = s2cBytes \o Packed(frame)
  /\ UNCHANGED <<readByAlice, readBuffer, expectedMessageSize>>

=============================================================================
