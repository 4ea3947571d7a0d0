------------------------------- MODULE Envelope -------------------------------
(***************************************************************************)
(* A published message on its way through parse_push_envelope              *)
(* (src/processor/envelope.py): Pub/Sub wraps it anew for every delivery   *)
(* attempt, and the body that is posted may be garbled on the way.         *)
(*                                                                         *)
(* A text field is known by what isinstance and truth tell of it, the      *)
(* payload by what has become of the base64 text it was published as.      *)
(* EnvelopeError is the empty set, an event a set with it.                 *)
(***************************************************************************)
EXTENDS Integers, FiniteSets

CONSTANTS
    SourceName,   \* source_name of the ingest service
    MaxAttempts   \* bound of the model: deliveries of a message

VARIABLES
    message,  \* as it was published
    own,      \* by the ingest service, or by another publisher?
    policy,   \* does the subscription have a dead-letter policy?
    attempt,  \* deliveries so far
    body,     \* the envelope of the latest one
    garbled   \* was it garbled on the way?

vars == <<message, own, policy, attempt, body, garbled>>

Attributes == {"event_id", "source", "received_at"}
Kind       == {"string", "empty", "absent", "other"}
Text(name) == IF name = "" THEN "empty" ELSE "string"

(* The payload: as it was published, absent (omitted, null or lost), not a *)
(* string, with characters outside the alphabet, cut within a group of     *)
(* four characters, cut between two groups, or overwritten by other        *)
(* characters of the alphabet.                                             *)
Data == {"whole", "absent", "other", "junk", "odd", "short", "altered"}

OwnMessage == [event_id |-> "string", source |-> Text(SourceName),
               received_at |-> "string", data |-> "whole"]

(* An attribute is a string, and may be missing. *)
ForeignMessage == [event_id : Kind \ {"other"}, source : Kind \ {"other"},
                   received_at : Kind \ {"other"},
                   data : {"whole", "absent"}]

(* The envelope Pub/Sub builds for an attempt. *)
Wrap(m) == [json |-> TRUE, message |-> TRUE, attributes |-> TRUE,
            event_id |-> m.event_id, source |-> m.source,
            received_at |-> m.received_at, data |-> m.data,
            messageId |-> "string", publishTime |-> "string",
            deliveryAttempt |-> IF policy THEN "integer" ELSE "absent"]
-----------------------------------------------------------------------------
RequireString(b, key) == b[key] = "string"

(* The bytes: the alphabet and the padding are checked, so a text that is  *)
(* base64 again after it was cut or overwritten is decoded.                *)
Decode(d) == CASE d = "whole"   -> {"as published"}
               [] d = "absent"  -> {"none"}
               [] d = "short"   -> {"a prefix"}
               [] d = "altered" -> {"others"}
               [] OTHER         -> {}

(* Fault: every subscription is taken to count its attempts. *)
AttemptRequired(b) == {b.deliveryAttempt} \cap {"integer"}

DeliveryAttempt(b) == {b.deliveryAttempt} \cap {"absent", "integer"}

WellFormed(b) ==
    /\ b.json /\ b.message /\ b.attributes
    /\ \A key \in Attributes \cup {"messageId", "publishTime"} : RequireString(b, key)

ParsePushEnvelope(b) ==
    IF WellFormed(b)
    THEN [event_id : {b.event_id}, data : Decode(b.data), delivery_attempt : DeliveryAttempt(b)]
    ELSE {}
-----------------------------------------------------------------------------
Init == /\ own \in BOOLEAN
        /\ message \in IF own THEN {OwnMessage} ELSE ForeignMessage
        /\ policy \in BOOLEAN
        /\ attempt = 1
        /\ body = Wrap(message)
        /\ garbled = FALSE

Redeliver == /\ attempt < MaxAttempts
             /\ attempt' = attempt + 1
             /\ body' = Wrap(message)
             /\ garbled' = FALSE
             /\ UNCHANGED <<message, own, policy>>

(* A policy added or dropped shows from the next delivery on. *)
SetPolicy == /\ policy' = ~policy
             /\ UNCHANGED <<message, own, attempt, body, garbled>>

(* One part of the posted body is lost, cut or overwritten. *)
Garble ==
    /\ ~garbled
    /\ \/ \E part \in {"json", "message", "attributes"} :
              body' = [body EXCEPT ![part] = FALSE]
       \/ \E key \in Attributes \cup {"messageId", "publishTime"}, k \in Kind :
              body' = [body EXCEPT ![key] = k]
       \/ \E k \in {"absent", "boolean", "other"} :
              body' = [body EXCEPT !.deliveryAttempt = k]
       \/ \E d \in Data \ {"whole"} : body' = [body EXCEPT !.data = d]
    /\ garbled' = TRUE
    /\ UNCHANGED <<message, own, policy, attempt>>

Next == Redeliver \/ SetPolicy \/ Garble

Spec == Init /\ [][Next]_vars
-----------------------------------------------------------------------------
(* "A body that fails once fails forever", which is what makes acking it   *)
(* correct: Pub/Sub's own envelope of a message gets the same verdict at   *)
(* every attempt, also when a policy comes or goes in between.             *)
VerdictIsPermanent ==
    [][ ~garbled /\ ~garbled' =>
            ((ParsePushEnvelope(body) = {}) <=> (ParsePushEnvelope(body)' = {})) ]_vars

(* What ingest publishes is never dropped as unparseable, so a 202 does    *)
(* not end in the log line of a dropped message.                           *)
OwnMessagesParse == own /\ ~garbled => ParsePushEnvelope(body) # {}
=============================================================================
