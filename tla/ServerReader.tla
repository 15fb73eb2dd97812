---------------------------- MODULE ServerReader ----------------------------
(***************************************************************************)
(* Bob's side of the framing: read_message_with_size of mta_server.cpp.    *)
(* One buffer serves headers and messages: it grows to the largest message *)
(* and is never cleared, so old bytes stay behind a shorter message.       *)
(***************************************************************************)
EXTENDS MtaFraming

CONSTANT BufferLen  \* size of a new read_buffer_: 8192

ASSUME ReaderAssumption == BufferLen \in Nat /\ BufferLen >= HeaderLen

VARIABLES
  sentToBob,           \* the frames Alice has written
  c2sBytes,            \* their bytes on the way
  readByBob,           \* the messages process_received_message was given
  read_buffer_,
  last_message_size_,
  pending              \* the operation the session has started

serverReaderVars ==
  <<sentToBob, c2sBytes, readByBob, read_buffer_, last_message_size_, pending>>

ServerReaderTypeOK ==
  /\ sentToBob \in Seq(Frames) /\ c2sBytes \in Seq(Byte) /\ readByBob \in Seq(Seq(Byte))
  /\ read_buffer_ \in Seq(Byte) /\ Len(read_buffer_) >= BufferLen
  /\ last_message_size_ \in 0..(Weight[HeaderLen] - 1)
  /\ pending \in {"read_size", "read_body", "write"}

ServerReaderInit ==
  /\ sentToBob = <<>> /\ c2sBytes = <<>> /\ readByBob = <<>>
  /\ read_buffer_ = [i \in 1..BufferLen |-> 0]
  /\ last_message_size_ = 0
  /\ pending = "read_size"

\* async_read of n bytes: they overwrite the front of the buffer.
Overwritten(n) ==
  [i \in DOMAIN read_buffer_ |-> IF i <= n THEN c2sBytes[i] ELSE read_buffer_[i]]

\* Mutant of Grown: resized to every message.
Resized(buffer, size) ==
  [i \in 1..size |-> IF i <= Len(buffer) THEN buffer[i] ELSE 0]

\* resize(message_size), when the message is larger than the buffer.
Grown(buffer, size) ==
  IF size <= Len(buffer) THEN buffer
  ELSE [i \in 1..size |-> IF i <= Len(buffer) THEN buffer[i] ELSE 0]

Consume(n) == c2sBytes' = Drop(c2sBytes, n)

\* The header has arrived: make room for the message and read it.
ReadSize ==
  /\ pending = "read_size" /\ Len(c2sBytes) >= HeaderLen
  /\ LET size == SizeOf(c2sBytes) IN
     /\ last_message_size_' = size
     /\ read_buffer_' = Grown(Overwritten(HeaderLen), size)
  /\ Consume(HeaderLen)
  /\ pending' = "read_body"
  /\ UNCHANGED <<sentToBob, readByBob>>

\* Mutant of ReadBody: the whole buffer is taken for the message.
ReadBodyWhole ==
  /\ pending = "read_body" /\ Len(c2sBytes) >= last_message_size_
  /\ read_buffer_' = Overwritten(last_message_size_)
  /\ readByBob' = Append(readByBob, read_buffer_')
  /\ Consume(last_message_size_)
  /\ pending' = "write"
  /\ UNCHANGED <<sentToBob, last_message_size_>>

\* process_received_message copies the first last_message_size_ bytes.
ReadBody ==
  /\ pending = "read_body" /\ Len(c2sBytes) >= last_message_size_
  /\ read_buffer_' = Overwritten(last_message_size_)
  /\ readByBob' = Append(readByBob, SubSeq(read_buffer_', 1, last_message_size_))
  /\ Consume(last_message_size_)
  /\ pending' = "write"
  /\ UNCHANGED <<sentToBob, last_message_size_>>

\* The answer is written: read_message_with_size starts again.
ReadNext ==
  /\ pending = "write"
  /\ pending' = "read_size"
  /\ UNCHANGED <<sentToBob, c2sBytes, readByBob, read_buffer_, last_message_size_>>

\* sendMessageWithSize of the client, as the other end of this stream.
AliceSends ==
  /\ Len(sentToBob) < MaxFrames
  /\ \E f \in Frames : /\ sentToBob' = Append(sentToBob, f)
                       /\ c2sBytes' = c2sBytes \o Packed(f)
  /\ UNCHANGED <<readByBob, read_buffer_, last_message_size_, pending>>

=============================================================================
