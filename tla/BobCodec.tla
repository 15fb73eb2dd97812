------------------------------ MODULE BobCodec ------------------------------
(***************************************************************************)
(* Bob's two frames, field by field: nanopb writes them by the lists in    *)
(* mta.pb.h, protobufjs reads them by proto/mta.proto.  What can be lost   *)
(* between them are fields: the lists have no masked_share, which the      *)
(* struct and the schema have, proto3 leaves out defaults, protobufjs      *)
(* spells names in camel case, and protobuf-handler.ts asks for some of    *)
(* them in the other spelling.                                             *)
(***************************************************************************)
EXTENDS Naturals, Sequences, SequencesExt

CONSTANTS Instances, PointLen,  \* 32 transfers, points of 65 bytes
          MaskedShares          \* the values of y * beta tried

ASSUME BobCodecAssumption ==
  /\ Instances \in Nat \ {0} /\ PointLen \in Nat \ {0}
  /\ MaskedShares \subseteq Nat

VARIABLES
  bobSent,   \* the message Bob sends: nothing, BobSetup, BobMessages
  fields,    \* those that are in the frame
  heard      \* what Alice's protocol object is handed, <<>> before

bobVars == <<bobSent, fields, heard>>

\* The messages as proto/mta.proto has them, for the client.
FieldsOf ==
  [BobSetup    |-> {"success", "ot_messages", "public_key", "num_ot_instances"},
   BobMessages |-> {"success", "ot_responses", "encrypted_result", "correlation_check",
                    "masked_share"}]

Default ==
  [success |-> FALSE, ot_messages |-> <<>>, public_key |-> <<>>, num_ot_instances |-> 0,
   ot_responses |-> <<>>, encrypted_result |-> <<>>, correlation_check |-> 0, masked_share |-> 0]

Camel ==
  [success |-> "success", ot_messages |-> "otMessages", public_key |-> "publicKey",
   num_ot_instances |-> "numOtInstances", ot_responses |-> "otResponses",
   encrypted_result |-> "encryptedResult", correlation_check |-> "correlationCheck",
   masked_share |-> "maskedShare"]

\* Mutant of Descriptor: generated anew from proto/mta.proto.
DescriptorOfSchema == FieldsOf

\* And as the field lists of mta.pb.h have them, for the server.
Descriptor ==
  [BobSetup    |-> {"success", "ot_messages", "public_key", "num_ot_instances"},
   BobMessages |-> {"success", "ot_responses", "encrypted_result", "correlation_check"}]

\* pb_encode: the fields that are listed and not the default.
Encode(type, message) ==
  [f \in {g \in Descriptor[type] : message[g] # Default[g]} |-> message[f]]

\* decode, then toObject with defaults.
ToObject(type, frame) ==
  LET names == FieldsOf[type]
      Field(camel) == CHOOSE f \in names : Camel[f] = camel
      Value(f) == IF f \in DOMAIN frame THEN frame[f] ELSE Default[f]
  IN [camel \in {Camel[f] : f \in names} |-> Value(Field(camel))]

\* object.name || otherwise.
Get(object, name, otherwise) == IF name \in DOMAIN object THEN object[name] ELSE otherwise

-----------------------------------------------------------------------------
(* Bob *)

\* Byte k of the point of transfer i.
PointOf(i) == [k \in 1..PointLen |-> <<i, k>>]

\* initializeCOT: one point after the other in one vector.
points_B == FlattenSeq([i \in 1..Instances |-> PointOf(i)])

\* Mutant of SplitIntoByteVectors: what is left at the end is dropped.
SplitWholeOnly(flat, size) ==
  [k \in 1..((Len(flat) - 1) \div size) |-> SubSeq(flat, (k - 1) * size + 1, k * size)]

SplitIntoByteVectors(flat, size) ==
  [k \in 1..((Len(flat) + size - 1) \div size) |->
     SubSeq(flat, (k - 1) * size + 1, Min({k * size, Len(flat)}))]

\* Every point, and the public_key process_correlation_delta makes up.
BobSetup ==
  [success |-> TRUE, public_key |-> <<"dummy">>, num_ot_instances |-> Instances,
   ot_messages |-> SplitIntoByteVectors(points_B, PointLen)]

\* send_bob_setup
SendBobSetup ==
  /\ bobSent = "nothing" /\ bobSent' = "BobSetup"
  /\ fields' = Encode("BobSetup", BobSetup)
  /\ UNCHANGED heard

BobMessages(masked) ==
  [success |-> TRUE, masked_share |-> masked,
   ot_responses |-> <<>>, encrypted_result |-> <<>>, correlation_check |-> 0]

\* prepareBobMessages fills in two fields, serializeBobMessages hands all five to nanopb.
SendBobMessages ==
  /\ bobSent = "nothing" /\ bobSent' = "BobMessages"
  /\ \E masked \in MaskedShares : fields' = Encode("BobMessages", BobMessages(masked))
  /\ UNCHANGED heard

-----------------------------------------------------------------------------
(* Alice *)

DeserializeBobSetup(frame) ==
  LET object == ToObject("BobSetup", frame) IN
  [success        |-> Get(object, "success", FALSE),
   otMessages     |-> Get(object, "otMessages", <<>>),
   publicKey      |-> Get(object, "publicKey", <<>>),
   numOtInstances |-> Get(object, "numOtInstances", 0)]

\* The points glued together, the length check of processCOTSetup, and its cuts.
Prepare(setup) ==
  LET all == FlattenSeq(setup.otMessages) IN
  [prepared |-> setup.success /\ Len(all) = Instances * PointLen,
   points   |-> SplitIntoByteVectors(all, PointLen),
   choices  |-> setup.numOtInstances]

ProcessBobSetup ==
  /\ bobSent = "BobSetup" /\ heard = <<>>
  /\ heard' = Prepare(DeserializeBobSetup(fields))
  /\ UNCHANGED <<bobSent, fields>>

DeserializeBobMessages(frame) ==
  LET object == ToObject("BobMessages", frame) IN
  [success          |-> Get(object, "success", FALSE),
   otResponses      |-> Get(object, "ot_responses", <<>>),
   encryptedResult  |-> Get(object, "encrypted_result", <<>>),
   correlationCheck |-> Get(object, "correlation_check", 0)]

\* processBobMessages.
Internal(messages) ==
  [success |-> messages.success, masked_share |-> Get(messages, "masked_share", "undefined")]

ProcessBobMessages ==
  /\ bobSent = "BobMessages" /\ heard = <<>>
  /\ heard' = Internal(DeserializeBobMessages(fields))
  /\ UNCHANGED <<bobSent, fields>>

BobInit == bobSent = "nothing" /\ fields = <<>> /\ heard = <<>>

BobNext == SendBobSetup \/ SendBobMessages \/ ProcessBobSetup \/ ProcessBobMessages

-----------------------------------------------------------------------------

\* What Bob sent and what Alice made of it.
BobFaithful ==
  /\ bobSent = "nothing" => fields = <<>> /\ heard = <<>>
  /\ bobSent = "BobSetup" =>
       fields = Encode("BobSetup", BobSetup) /\ heard \in {<<>>, Prepare(DeserializeBobSetup(fields))}
  /\ bobSent = "BobMessages" =>
       /\ \E masked \in MaskedShares : fields = Encode("BobMessages", BobMessages(masked))
       /\ heard \in {<<>>, Internal(DeserializeBobMessages(fields))}

(***************************************************************************)
(* Every point Bob drew arrives in its place: he splits one vector, Alice  *)
(* glues the parts and cuts them again (mta-client.ts:123,                 *)
(* cot-protocol.ts:87), and only all 32 of them pass for a setup.          *)
(***************************************************************************)
SetupArrives ==
  bobSent = "BobSetup" /\ heard # <<>> =>
    /\ heard.prepared /\ heard.choices = Instances
    /\ \A i \in 1..Instances : heard.points[i] = PointOf(i)

(***************************************************************************)
(* prepareBobMessages fills in the masked share (mta_protocol.cpp:43), but *)
(* nothing of it leaves the server (mta.pb.h:101): the frame is the same   *)
(* for every share, and Alice, who asks for no such field                  *)
(* (protobuf-handler.ts:148), has a success and an undefined share.        *)
(***************************************************************************)
MaskedShareUnsent ==
  bobSent = "BobMessages" =>
    /\ \A masked \in MaskedShares : fields = Encode("BobMessages", BobMessages(masked))
    /\ heard # <<>> => heard = [success |-> TRUE, masked_share |-> "undefined"]

=============================================================================
