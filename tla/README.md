# Verification of the MTA-over-TCP protocol

Two programs convert multiplicative shares into additive ones over a TCP
connection: Alice, a TypeScript client (`client/src`), and Bob, a C++ server
(`server/src`). This directory holds TLA+ modules that model them, TLC
configurations that check the models on small instances, and TLAPS proofs.
Source paths below are relative to the repository's root.

## 1. Inventory

| component | state | operations | interacts with |
|---|---|---|---|
| Alice's process, `client/src/index.ts` | attempt counter, exit code | probe, create client, attempt, back-off, signal handler | opens a socket for the probe and one for each attempt; awaits the promise of `startMTA` |
| `AliceMTAClient`, `client/src/tcp/mta-client.ts` | socket, `ClientState`, `readBuffer`, `expectedMessageSize`, shares | `connect`, `data`, `close`, `error` handlers; 100 ms timer; `processBobSetup`, `processBobMessages` with their awaits | frames over TCP |
| `MTAServer`, `server/src/tcp/mta_server.cpp` | acceptor, one `MTAProtocol` for all sessions | `start_accept` | starts a `Session` for each connection |
| `Session`, same file | `ProtocolState`, `read_buffer_`, `last_message_size_`, pending operation | completion handlers of reads and writes | calls the shared `MTAProtocol` |
| framing, in both files | buffers | 4-byte little-endian size, then the message | the byte stream |
| `AliceMTAProtocol`, `MTAProtocol` | `alpha`, `beta` | `prepareAliceMessages`, `executeAliceMTA`, `initializeAsBob`, `prepareBobMessages`, `executeBobMTA` | the correlated OT |
| `CorrelatedOTProtocol`, one in each language | random `U_i`, OT instances, scalars | `initializeCOT`, `processCOTSetup`, `calculateAdditiveShare`, `processSingleCOT`, `executeCOTMultiplication` | 32 transfers |
| `OTProtocol`, `ObliviousTransferProtocol` | a scalar on each side | points A and B, two keys, decryption | secp256k1 |
| `ECCUtils`, `CryptoOperations`, and `subtractPoints` of `OTProtocol` | none | validate, add, multiply, negate; derive a key; draw a scalar | elliptic, OpenSSL, trezor-crypto |
| protobuf, `protobuf-handler.ts`, `protobuf_handler.cpp` | none | one writer and one reader for each message | everything sent |
| layouts by hand, in the four protocol classes | none | `serialize...`, `deserialize...` | the server reads `AliceMessages` with one of them |
| command line, `index.ts` | none | host, port and share given by the user | the share is any whole number above 0 |
| generated nanopb code, `mta.pb.h` | none | the list of fields by which a message is encoded | the lists of Bob's two messages are part of `BobCodec` |
| header files, build files | none | none of their own | not modelled |

A run has four frames: `CorrelationDelta` (Alice), `BobSetup` (Bob),
`AliceMessages` (Alice), `BobMessages` (Bob). The server then closes the
connection by letting its session go, and this close is what resolves or
rejects Alice's promise.

What is hard here:

* **Callbacks, timers, microtasks.** Alice's state is written by a timer
  that does not look at it, by handlers that dispatch on it, and by the
  continuations of two asynchronous handlers which run after *all* frames
  of a chunk are dispatched.
* **Retries.** An attempt may be rejected at any time, even after the
  protocol is complete; its successor must not meet what is left of it.
* **Sharing.** All sessions of the server use one protocol object.
* **Failure.** Either process may die, the network may break a connection,
  and closing a socket with unread data is a reset, not an end of file.
* **No timeouts.** Nothing in the code ends a wait once a socket is connected,
  so a network that fails without a word may leave either end waiting.
* **Streams.** TCP keeps no boundaries: headers split, frames join.
* **Numbers.** JavaScript doubles, signed shifts and C++ words must agree, and
  one of three negations of a point subtracts byte by byte.
* **Encodings.** Each message has two or three layouts, readers check sizes in
  six ways, and field names are spelt in two.
* **Undefined behaviour.** `processSingleCOT` uses an uninitialised key and
  `deserializeAliceMessages` reads past the frame. Both are modelled as an
  arbitrary choice of what is read; that the read kills the process instead
  is a `Crash`.

The hazards, at their lines and with the properties that cover them, are
listed in `PROJECT.json`.

## 2. Modules

### The system

* `MtaWire`: connections as two queues of frames with what follows them
  (nothing yet, FIN, RST, silence). A network that fails either tells both ends
  (`ConnectionLost`) or does not (`Partition`): then frames on their way are
  lost, an end that has sent something unacknowledged gets an error, sooner or
  later, and an end that only waits may hear nothing for ever. External: modelled from how `net.Socket` and
  `boost::asio` are used. A frame is a name; its bytes are under
  "Framing". A connection is `<<p, k>>`, with `k = 0` for the probe of client
  `p` and `k` for its attempt number `k`.
* `MtaClient`: `phase` and `attempt` are where `main` and
  `executeMTAWithRetry` stand, `csock` and `cst` the socket and the state of
  each `AliceMTAClient`, `timer` the pending `setTimeout`, `jobs` the
  microtasks, `draws` how often `initializeCOT` drew random numbers. One
  action is one callback of Node. `DataEvent` takes any number of frames at
  once and queues one job for each; no other callback of the process runs
  until `jobs` is empty (`Ready`), as Node drains its microtasks first.
  `SENDING_ALICE_MESSAGES` is set and replaced within one callback, so it is
  no state between actions.
* `MtaServer`: `sst` and `op` are `state_` and the pending operation of
  each session. One action is one completion handler. A handler that starts no
  operation drops the last reference to its session, which closes the socket.
  `cotOwner` is the one thing of the shared `MTAProtocol` that outlives a
  handler and can be seen by another session: who drew the scalars stored now.
* `MtaSystem`: the composition, its properties and the two inductive invariants
  `IInv` and `EndsInv`.
* `MtaPromise`: what the handshake promises, with no sockets, states or
  timers: Alice and Bob speak in turns, and success is reported only after
  everything was said.
* `MtaRefinement`: the mapping from `MtaSystem` to `MtaPromise`. How much
  was said on a connection follows from the two states.

### Framing

* `MtaFraming`: headers and frames as bytes.
* `ClientReader`: `processReceivedData` on chunks of any size.
* `ServerReader`: `read_message_with_size` with its reused, growing buffer.
* `MtaConnection`: both directions of one connection, with the inductive
  invariant of the framing. Each direction is shown to
  implement `FrameQueue`, a queue of whole frames: safety (in order, once,
  unchanged) and liveness (each arrives). This is what allows `MtaWire` to
  treat a frame as one item. The connection is between any frames, in any
  number on Alice's side: the turns of the protocol are the other half.

### Data

* `MtaCodec`: every conversion between a message and bytes, one message in a
  behaviour. It composes
  * `AliceCodec`: the first bytes of Alice's frames as protobufjs writes them,
    and what the fixed layout of `MTAProtocol::deserializeAliceMessages` makes
    of them. Words and bytes are sets of bit positions, so all 32 bits are there;
  * `BobCodec`: Bob's frames field by field. Bytes are right by the libraries;
    what the code can lose are fields and parts of a list. Bob writes the fields
    in the lists of `mta.pb.h` (`Descriptor`), Alice reads those of
    `proto/mta.proto` (`FieldsOf`), which are not the same; defaults of proto3 are
    left out, and some fields are asked for under a name that protobufjs does not
    use. `BobSetup` is the message with every point, `Prepare` how Alice takes it
    apart again;
  * `LegacyCodec`: the layouts by hand. A byte is the field and the place it was
    written for, a frame is whole or cut short, and any reader may get it. A
    reader is where it cuts; readers with a masked share (`WithWord`) differ from
    those without by one cut. Behind the end of a frame a slice of Alice's Buffer
    is short (`Subarray`), a `std::copy` of Bob's goes on (`Copy`).
* `MtaShares`: the arithmetic of one run. Doubles are modelled by a
  significand of `Mantissa` bits with ties to even. A share from the command
  line is any whole double above 0. `Spec` lets the words and
  the masked share Bob reads be anything, as they can be in this code;
  `IdealSpec` is the case in which every transfer works, to ask whether the
  arithmetic would be right then.
* `ObliviousTransfer`: one transfer over any group that satisfies
  `GroupAssumption`, `MultipleAssumption` and `XCoordAssumption`.
  `bob` says which class is on his side: `ObliviousTransferProtocol`, the
  counterpart of Alice's class, or `CorrelatedOTProtocol`, which the server
  actually calls. What is shown of the first one is about a path that the
  server does not take.
* `Curve`: the curve y^2 = x^3 + 7 of secp256k1 over a field of any prime, with
  `negatePoint` of `ot-protocol.ts` as the loop over bytes with a borrow that it
  is, in any base. A coordinate fits its digits (`CurveAssumption`), and no point
  is its own negative (`AxisAssumption`), as on any curve of odd order.
  `MCTransfer` takes it for the group, so TLC checks that it satisfies what the
  transfer assumes.

### Proofs

`MtaSystemProofs`, `MtaFinalProofs` and `MtaRefinementProofs` are about
`MtaSystem`; `ConnectionProofs` about `MtaConnection`, `CodecProofs` about
`MtaCodec`, `SharesProofs` about `MtaShares`, `TransferProofs` about
`ObliviousTransfer` and `Curve`. `NatLemmas` has what several of them need of
natural numbers.

`MC*` modules and configurations give the constants their values. Operators
named "Mutant of ..." are used by no specification: each is a plausible bug in
the definition it follows, and replacing that definition by it makes TLC find
the property it is listed with violated.

## 3. Runs

| run | what it shows | bounds |
|---|---|---|
| `one_client` | both inductive invariants, frames meet their handler, random numbers drawn once, an attempt that is over does nothing more, a finished run is repeated only after the network broke or cut its connection, states never go back | 1 client, 3 attempts as in `DEFAULT_CONFIG`, 1 fault of either kind, 1 crash |
| `two_clients` | sessions of two clients on the shared protocol object; refinement of `MtaPromise` | 2 clients (symmetric), 1 attempt each, 1 fault of either kind, 1 crash |
| `exits` | every client exits, and without faults succeeds | 1 client, 3 attempts; messages can be prepared, and a network that fails tells both ends |
| `hangs` | without these two conditions, the only ways for a client not to exit, and for a session not to end | 1 client, 2 attempts, 1 fault of either kind, 1 crash |
| `connection` | both byte streams implement a queue of frames; inductive invariant | bytes of 1 bit, headers of 2, frames of length 0 to 3, two sent by Alice and two answered |
| `codec` | which of Alice's frames are accepted and what is read from them; all points of `BobSetup` arrive in their places; Bob's masked share is not sent; hand-written layouts are read as written, refused when cut short but by two readers, and never in short fields but by one | all runs of ones and of zeros in 32 bits; 3 transfers with points of 2 bytes; layouts of 3 and 2 bytes |
| `shares` | V - U = x*y for every draw and any share up to 2^53 - 2^32 + 1; `x * alpha` is exact for shares up to 2^21 | 3-bit words, 5-bit significand, every draw, shares 1, 3, 4, 7, 25, 26, 34 |
| `transfer` | Bob reads the message of his choice and not the other, failures only for degenerate points; what the correlated path could open | the curve over the field of 43 elements, a group of order 31, every scalar; 4 digits in base 3 |
| `codec_arrives`, `shares_received`, `shares_sum`, `transfer_point` | a statement of the repository that the code does not keep (section 6) | as above, 2-bit words |

Why the bounds are enough. The behaviour of clients interacts only through
`listening`, `cotOwner` and crashes; two clients show each kind of
interference, and the theorems of section 5 hold for any number. One fault and
one crash, at any point, reach every branch of the error handling, and retries
make two attempts meet. In `connection`, a header of two bytes can be split,
a buffer of the size of a header has to grow, an empty message has the size
that stands for "no header", and a short message follows a long one. In
`shares` the ratio of significand to word keeps the hazards of the code:
products and sums that do not fit, and a negative top bit; 25 is the largest
share whose sum with a word always fits 5 bits (2^5 - 2^3 + 1), and at 26 the
property without its bound is violated; likewise 4 is the largest share whose
product with a word always fits (4 * 2^3 = 2^5), and its multiples and those of 3
exceed a word. 43 is 1121 in base 3, so a borrow may arise in
every digit but the first, and go over one and over several digits. In `codec`, three points of two
bytes can be lost, cut and shifted, and no two layouts have the same length.
Small groups and words say nothing
about the strength of the cryptography, which is not a subject here.

Deadlock is not checked: all processes may end, and a server without clients
waits.

**Fairness.** `MtaSystem` assumes weak fairness of each client's own steps and
of each session's: Node's event loop and `io_context.run` run what is due,
timers included. None is assumed for faults, signals, crashes or a restart.
`MtaConnection` assumes that bytes on their way arrive and that the handlers of
complete operations run; Alice need not send. A network that has
failed without a word does not recover, as long as the sockets are there, and a
kernel that gives up on its unacknowledged bytes says so by an error that the
end is bound to read; `EverySessionEnds` and `EveryHangExplained` claim no more of it.

## 4. Properties worth a second look

* `CompletedIsFinal`: `startMTA` rejects on `error` in any state, so a run
  that is complete can be repeated. The run shows that this takes a network
  that breaks or cuts the connection: no crash of the server, wherever it happens, causes it, because
  after `BobMessages` nothing of Alice's is left unread.
* `EveryHangExplained`: a client that does not exit is in one of two situations
  for ever. A preparation failed (`mta-client.ts:135`) and both ends wait for
  each other; or the network cut the connection while the client had nothing to
  say. `EveryClientExits` says the same where neither can happen.
* `EverySessionEnds`: a session whose client was cut off may stay for as long as
  the server runs. It reads nothing after `AliceMessages`, so only its two reads
  can be stuck.
* `RandomnessDrawnOnce`: two `BobSetup` frames in a chunk would draw `U_i` again
  under messages already made. It holds because of the server, not the client.
* `OnlyAliceMessagesAccepted`: holds only since a delta is at most 1 000 000,
  which is 20 bits; with 22 a `CorrelationDelta` passes the size check of
  `AliceMessages`, so two theorems assume `DeltaBits <= 3 * Group`.
* `SetupArrives`: a list of points is glued and cut by position twice; the
  property is about the agreement of three functions in two languages.
* `AttemptsStayOver`: when a promise settles, nothing of its attempt is cancelled;
  the timer, the handlers and what is past an await stay. It relates a step to
  the past of another attempt: without the rule that microtasks come before the
  next callback, an error between a chunk and its continuation would let a share
  be computed while the retry waits.
* `MaskedShareUnsent`: `prepareBobMessages` fills in a masked share, the struct of
  `mta.pb.h` and the schema have a field for it, and the list that nanopb encodes
  by has none. With the list generated anew the frame would depend on the share,
  though Alice would still hear nothing, since `deserializeBobMessages`
  (`protobuf-handler.ts:148`) does not ask for it. It is a statement of what is:
  nothing in the repository says that Alice uses the value.
* `ReadAsWritten` names its two exceptions: `deserializeBobSetup` leaves the
  number of points to its caller, and the server's `deserializeAliceMessages`
  accepts whatever has a header. `FieldsAreWhole` says what the size checks of
  all others are for: a missing one would give Alice short slices and Bob bytes
  from behind the end, and nothing else in the code looks at a length again.
* `FailsOnlyDegenerate`: `B = A` has probability 1/order, and is the one scalar.
* `NegationsAgree`: the bytewise negation of `ot-protocol.ts` is that of the
  library. TLC evaluates it on the small curve (`NegationAssumption` of
  `MCTransfer`), and it is proved for every prime, base and number of bytes. A
  lost borrow also breaks `ChosenArrives`.

## 5. Proofs

Every safety and action property that a passing run checks is also a theorem,
for every value of the constants that their assumptions allow.

**`MtaSystemProofs`, `MtaFinalProofs`, `MtaRefinementProofs`**: for any set of
clients and any number of retries, faults and crashes (`WireAssumption`,
`ClientAssumption`, `ServerAssumption`):

| theorem | property |
|---|---|
| `Invariance` | `IInv` |
| `TypeCorrect` | `TypeOK` |
| `ClientSound`, `ServerSound` | `ClientExpectsFrame`, `ServerExpectsFrame` |
| `DrawnOnce` | `RandomnessDrawnOnce` |
| `SuccessSound` | `SuccessIsShared` |
| `NeverRewinds` | `StateNeverRewinds` |
| `EndsInvariant` | `EndsInv` |
| `CompletedFinal` | `CompletedIsFinal` |
| `StaysOver` | `AttemptsStayOver` |
| `Refinement` | `KeepsPromise` |

None of the safety properties is inductive. That a client meets the right frame
depends on what the server may have sent, which depends on what it may have
read, and so on. `IInv` therefore says of each connection in which of six
stages its conversation is (`Unsaid`, `DeltaSaid`, `SetupSaid`, `AliceSaid`,
`BobSaid`, `AllSaid`), each relating both states, both queues, the timer, the
microtasks and the draws. Frames may be missing in a stage, which covers loss,
resets, crashes and cut connections at once. It also says that sockets in use
belong to the current attempt, that attempts ahead have left no trace, and that
pending operations match session states. The argument has a typing lemma for
each process, a lemma for each action or group of like actions on the stages of
the connection it is about, and a frame lemma for all others
(`SameConversation`, `SessionStepOthers`, `QuietInv`). The properties follow
from `IInv` by cases on the stage. The refinement uses `IInv` too: it is the
stage that says that a step of a state is the next thing to be said.

`CompletedIsFinal` needs more: not what was said, but who has hung up. `EndsInv`
says by whom a connection may have been closed in which stage, as long as the
network has not failed: a session that has sent `BobMessages` has left nothing
of Alice's unread, so what follows them is FIN and never RST, not even if the
server dies then. It is inductive only relative to `IInv`.

`AttemptsStayOver` needs a little of both. What is over stays over
(`OverIsClosed`: its socket is not in use, no continuation is pending, and a
timer that is would write to a socket that is closed), and each action leaves such a connection alone
(`ClientLeavesOver`, `SessionLeavesOver`, `EnvironmentLeavesOver`).

**`ConnectionProofs`**: for any size of the header, of a byte and of the buffer,
any frames, and any way the network cuts the streams (`FramingAssumption`,
`ReaderAssumption`):

| theorem | property |
|---|---|
| `ConnectionInvariance` | `IInv` |
| `ConnectionTypes` | `TypeOK` |
| `NothingIsHeldBack` | `NothingHeldBack` |
| `AliceReadsInOrder`, `BobReadsInOrder` | the safety half of `FramesReachAlice`, `FramesReachBob` |

What has been read is a prefix of what has been sent. The invariant says what
makes this so (`InStep`): the bytes a reader has not consumed, in its buffer or
on their way, are those of the frames it has not read, with or without the
header of the first (`Carries`). Consuming a header and consuming a message keep
it (`HeaderKeepsStep`, `FrameKeepsStep`), and therefore each turn of the loop of
`processReceivedData` and the whole of it (`TurnFacts`, `LoopFacts`). That a
size read is the size written is `SizeOfHeader`. On the server's side, the lemma
about the buffer is that what a short message leaves of a longer one is never
read again.

**`SharesProofs`**: for words and significands of any length and every share
(`SharesAssumption`, `XSharesAssumption`):

| theorem | property |
|---|---|
| `SharesTypes` | `TypeOK`, of `Spec` |
| `IdealProduct` | `ProductIsShared` |
| `IdealMask` | `MaskExactForSmallShares` |
| `IdealIsPossible` | `IdealSpec => Spec` |

A double whose value is a whole multiple of a power of two and has at most
`Mantissa` bits is not rounded (`RoundExact`), which covers the words, shifted
by up to 31 places and negative where the shift is; everything after that is
congruence modulo 2^BitLength. The two loops are sums of one term for each bit,
and the terms differ by `x`, shifted, times the bit of `y` (`TermsDiffer`,
`Multiplies`).

**`CodecProofs`**: for any number and size of points, shares and words:

| theorem | property |
|---|---|
| `CodecTypes` | `TypeOK` |
| `SizeTellsMessages`, `LayoutsDisagree` | `OnlyAliceMessagesAccepted`, `LayoutsAgreeOnOnes` |
| `EveryPointArrives`, `ShareNeverSent` | `SetupArrives`, `MaskedShareUnsent` |
| `LayoutsReadBack`, `NoFieldIsShort`, `MixedUpOneWay` | `ReadAsWritten`, `FieldsAreWhole`, `MessagesMixedUpOneWay` |

All of them start from `IInv`, that each side holds what it made of the bytes of
the other; it follows from the actions one by one, and what they compute is the
subject of the lemmas.
The two theorems in the second line assume `DeltaBits <= 3 * Group`, a delta of
at most 21 bits; the code draws up to 1 000 000, which has 20
(`mta-client.ts:232`). They go bit by bit over the last group of a varint
(`LayoutsAgree`). For `SetupArrives` the point is that a list glued and
then cut at multiples of a size is the list again (`SplitBack`). A hand-written
layout is a run of fields, and reading takes the first and leaves the rest
(`OneField` to `FourFields`). Cuts that lie in
the bytes, one behind the other, make whole fields, the same by a slice and by a
copy (`FieldsInside`).

**`TransferProofs`**: for any group that satisfies the three assumptions of
`ObliviousTransfer`, and about `Curve` for any field:

| theorem | property |
|---|---|
| `TransferTyped` | `TypeOK` |
| `ChosenAlwaysArrives` | `ChosenArrives` |
| `OtherKeyDiffers` | `OtherStaysClosed` |
| `FailureIsDegenerate` | `FailsOnlyDegenerate` |
| `StoredScalarOpensZero` | `OnlyZeroOpens` |
| `NegationRight` | `NegationsAgree`, an assumption of the run |
| `NegationInverts` | what `ObliviousTransfer` assumes of negation and of keys, for `Curve` |

`Inv` says by which stage a scalar is drawn, what `pointB` is made of, and that
the keys are those of `pointB` and of its difference to A. The rest is algebra:
sums and differences undo each other, a scalar takes different points to
different points, and two keys of one scalar meet only for equal or opposite
points (`KeysMeet`). The negation is right by the invariant of its loop: after k
bytes, what has been written plus the last k bytes of the value is the last k
bytes of p, plus the borrow times Base^k (`Negated`).

**Induction.** Loops and recursive functions are handled with two lemmas of
`NatLemmas`: `Inductive`, which has a set of numbers in place of a predicate,
and `Iterates` with `IteratesForever`, which say that a function defined from
its value one step before exists and is what its definition says.

**Only model-checked:**

* all liveness (`EveryClientExits`, `EveryHangExplained`, `EverySessionEnds`,
  `KeepsFairPromise`, `EveryClientSucceeds`, and in `FramesReachAlice` and
  `FramesReachBob` that each frame arrives), which is beyond the prover, as
  `ENABLED` is;
* that a curve is a group: that sums are on the curve and associative, that its
  order is prime and multiples are what they should be. TLC evaluates this on the curve of
  `transfer`. What this code writes itself, the negation, is proved;
* the runs of section 6, whose properties are violated.


## 6. Where code and documentation disagree

* `MaskedShareArrives`: `mta_protocol.h:53` calls the field `x * alpha`, but
  Bob cuts it out of a protobuf frame at fixed offsets.
* `ReceivedIsCorrelated`: `cot_protocol.cpp:102` says `Ui + yi * x`, but the
  word is decrypted with a key that nothing computes.
* `SharesAddUp`: `README.md:3` says the shares are converted to additive ones.
  Even with ideal transfers their sum is `2U + x*y + beta * masked_share`.
* `PointFollowsChoice`: `ot-protocol.ts:29` says what Bob sends; the
  correlated protocol sends `bG` for either choice.

## 7. Not modelled

* `performMTA`, `validateMessage`, `getStoredScalar` and the `OTMessage` wrappers,
  which nothing calls; the protobuf form of `MTAResult`, which is never sent;
  `BackwardCompatibilityAdapter`, which renames fields for nobody; the readers of
  `protobuf_handler.cpp` for the messages the server itself sends.
* The rest of `AliceMessages`, behind its first bytes, as protobuf: the server
  reads it by position in the other layout, so what it takes for the encrypted
  words is arbitrary (`BobReads`). `encryptedShares` and `otChoices`
  are only as long as they are: no code reads their contents.
* The `catch` paths of `sendCorrelationDelta` and `sendAliceMessages`
  (`mta-client.ts:243`, `mta-client.ts:261`): they are entered only if protobufjs
  refuses one of the client's own values, and all of them are words and buffers.
* XOR encryption as bytes, with keys cut to 4: a message opens with the right
  key and is garbage with another.
* Failures of allocation and of the random generators; `Infinity` as a share,
  which the check of `index.ts:42` lets pass and which counts as 0 in every word;
  the parsing of host and port (shares and retry counts are constants); logging.

## 8. Plan

1. *Done:* the system with faults, crashes and partitions, its refinement;
   framing; all encodings; arithmetic; transfer, over any group and over a
   curve. A theorem for every safety property that a run checks.
2. *Worth proving next:* that the safety half of `MtaPromise` implies the
   properties a caller relies on, so that they follow from the refinement
   too; that `CurveAdd` stays on the curve, which is the first of the group
   laws.
3. *Left to TLC:* liveness, for the reasons given in section 5.
4. *Not reachable by refining further what is here:* sessions that use each
   other's scalars, which have no effect until `processSingleCOT` computes a key.
