----------------------------- MODULE Provisioning -----------------------------
(***************************************************************************)
(* Terraform building the deployment (src/infra) while it is already in    *)
(* use: which resource waits for which, what the two services need to      *)
(* start, and what becomes of the events that are sent meanwhile.          *)
(*                                                                         *)
(* An apply may stop anywhere and be run again.  The service accounts come *)
(* before everything that names them and are left out.                     *)
(***************************************************************************)
EXTENDS Integers, FiniteSets

CONSTANTS
    Message, Poison,     \* events sent, and those no handler can process
    ProcessorCommand,    \* what the image of the processor runs by itself
    MaxDeliveryAttempts

ASSUME PoisonAssumption == Poison \subseteq Message
ASSUME AttemptsAssumption == MaxDeliveryAttempts \in Nat \ {0}

VARIABLES
    created,   \* resources that exist
    version,   \* has the signing secret a version?
    place,     \* where each event is
    attempts   \* delivery attempts of each event

vars == <<created, version, place, attempts>>

Place == {"unsent", "refused", "unsubscribed", "queued", "handled",
          "dead-lettered", "void"}

(* Fault: the grant that lives beside the subscription is forgotten. *)
TwoSilentGrants == {"pubsub_mints_push_tokens", "pubsub_publishes_dead_letters"}

(* The three grants that fail silently. *)
SilentGrants == {"pubsub_mints_push_tokens", "pubsub_publishes_dead_letters",
                 "pubsub_acks_for_dead_lettering"}

(* Fault: only what an attribute refers to is waited for. *)
ReferencesOnly(r) ==
    CASE r = "dead_letter_sub" -> {"dead_letter"}
      [] r = "ingest_reads_signing" -> {"signing"}
      [] r = "ingest" -> {"events", "signing"}
      [] r = "ingest_public" -> {"ingest"}
      [] r = "ingest_publishes_events" -> {"events"}
      [] r = "processor_push_only" -> {"processor"}
      [] r = "pubsub_publishes_dead_letters" -> {"dead_letter"}
      [] r = "processor_push" -> {"events", "dead_letter", "processor"}
      [] r = "pubsub_acks_for_dead_lettering" -> {"processor_push"}
      [] OTHER -> {}

(* What a resource refers to, and what its depends_on names. *)
DependsOn(r) ==
    CASE r = "dead_letter_sub" -> {"dead_letter"}
      [] r = "ingest_reads_signing" -> {"signing"}
      [] r = "ingest" -> {"events", "signing", "ingest_reads_signing"}
      [] r = "ingest_public" -> {"ingest"}
      [] r = "ingest_publishes_events" -> {"events"}
      [] r = "processor_push_only" -> {"processor"}
      [] r = "pubsub_publishes_dead_letters" -> {"dead_letter"}
      [] r = "processor_push" -> {"events", "dead_letter", "processor",
                                  "processor_push_only", "pubsub_mints_push_tokens"}
      [] r = "pubsub_acks_for_dead_lettering" -> {"processor_push"}
      [] OTHER -> {}

Resource == SilentGrants \cup
    {"events", "dead_letter", "dead_letter_sub", "signing", "ingest_reads_signing",
     "ingest", "ingest_public", "ingest_publishes_events",
     "processor", "processor_push_only", "processor_push"}

Service == {"ingest", "processor"}

(* Neither service has a command of its own: the image's CMD runs. *)
Command(s) == IF s = "ingest" THEN "main:app" ELSE ProcessorCommand

(* What from_env raises without, and what the service is given. *)
Needs(command) == IF command = "main:app"
                  THEN {"GCP_PROJECT", "PUBSUB_TOPIC", "WEBHOOK_SIGNING_SECRET"}
                  ELSE {"PUSH_AUTH_MODE"}

(* Fault: the processor is left without its mode. *)
MountedButMode(s) ==
    IF s = "ingest" THEN {"GCP_PROJECT", "PUBSUB_TOPIC"}
                         \cup (IF version THEN {"WEBHOOK_SIGNING_SECRET"} ELSE {})
                    ELSE {}

Mounted(s) ==
    IF s = "ingest" THEN {"GCP_PROJECT", "PUBSUB_TOPIC"}
                         \cup (IF version THEN {"WEBHOOK_SIGNING_SECRET"} ELSE {})
                    ELSE {"PUSH_AUTH_MODE"}
-----------------------------------------------------------------------------
Init == /\ created = {}
        /\ version = FALSE
        /\ place = [m \in Message |-> "unsent"]
        /\ attempts = [m \in Message |-> 0]

(* A service that does not start fails the apply. *)
Create(r) == /\ r \notin created
             /\ DependsOn(r) \subseteq created
             /\ r \in Service => Needs(Command(r)) \subseteq Mounted(r)
             /\ created' = created \cup {r}
             /\ UNCHANGED <<version, place, attempts>>

(* The one manual step. *)
AddVersion == /\ "signing" \in created /\ ~version
              /\ version' = TRUE
              /\ UNCHANGED <<created, place, attempts>>

(* A webhook with the right key.  Only a subscription that exists keeps    *)
(* the event; without its grant the receiver answers 503.                  *)
Send(m) ==
    /\ place[m] = "unsent"
    /\ {"ingest", "ingest_public"} \subseteq created
    /\ place' = [place EXCEPT ![m] =
                    IF "ingest_publishes_events" \notin created THEN "refused"
                    ELSE IF "processor_push" \in created THEN "queued"
                    ELSE "unsubscribed"]
    /\ UNCHANGED <<created, version, attempts>>

Reaches == {"processor_push_only", "pubsub_mints_push_tokens"} \subseteq created

(* A delivery that does not reach the processor costs an attempt, too. *)
Deliver(m) ==
    /\ place[m] = "queued"
    /\ attempts[m] < MaxDeliveryAttempts
    /\ attempts' = [attempts EXCEPT ![m] = @ + 1]
    /\ place' = [place EXCEPT ![m] = IF Reaches /\ m \notin Poison THEN "handled" ELSE @]
    /\ UNCHANGED <<created, version>>

(* Without both grants the message stays, and is delivered forever. *)
DeadLetter(m) ==
    /\ place[m] = "queued"
    /\ attempts[m] = MaxDeliveryAttempts
    /\ {"pubsub_publishes_dead_letters", "pubsub_acks_for_dead_lettering"} \subseteq created
    /\ place' = [place EXCEPT ![m] =
                    IF "dead_letter_sub" \in created THEN "dead-lettered" ELSE "void"]
    /\ UNCHANGED <<created, version, attempts>>

PubSub == \E m \in Message : Deliver(m) \/ DeadLetter(m)

Next == \/ \E r \in Resource : Create(r)
        \/ AddVersion
        \/ \E m \in Message : Send(m)
        \/ PubSub

(* The apply is run until nothing is left to create and the manual step is *)
(* taken; Pub/Sub goes on delivering.                                      *)
Fairness == /\ WF_vars(\E r \in Resource : Create(r))
            /\ WF_vars(AddVersion)
            /\ WF_vars(PubSub)

Spec == Init /\ [][Next]_vars /\ Fairness
-----------------------------------------------------------------------------
(* The apply ends with everything that infra declares. *)
Provisioned == <>[](created = Resource)

(* No event is dead-lettered for want of a grant: the subscription waits   *)
(* for the grants a delivery needs, so only poison runs out of attempts.   *)
OnlyPoisonIsDeadLettered ==
    \A m \in Message : place[m] \in {"dead-lettered", "void"} => m \in Poison

(* A queued event does not churn forever: the three grants that fail       *)
(* silently are all there in the end.                                      *)
QueuedIsSettled ==
    \A m \in Message : place[m] = "queued" ~> place[m] # "queued"
=============================================================================
