--------------------------------- MODULE Parts ---------------------------------
(***************************************************************************)
(* The parts that share no state with any other: building the deployment,  *)
(* the two front doors, the envelope, the log, the drain script.  Their    *)
(* steps commute, so one part at a time moves, and the states and steps    *)
(* each of them has are those it has by itself.                            *)
(***************************************************************************)
EXTENDS Provisioning

CONSTANTS
    PushAccount, OtherAccount, ThisService, OtherService, MaxTime,  \* PushAuth
    Instance, Key, MaxVersions,                                     \* IngestAuth
    SourceName, MaxAttempts,                                        \* Envelope
    MaxCalls,                                                       \* JsonLog
    Printable, Run, MaxMessages                                     \* LocalDrain

ASSUME CallsAssumption == MaxCalls \in Nat

VARIABLES
    part,                                               \* the part that moves
    pushEnv, serving, now, keysUp,                      \* PushAuth
    versions, ingestEnv, settings, resolved,            \* IngestAuth
    message, own, policy, attempt, body, garbled,       \* Envelope
    handlers, propagate, calls, record, lines,          \* JsonLog
    emulator, subscribed, queue, leased, published, printed, run  \* LocalDrain

Door   == INSTANCE PushAuth WITH env <- pushEnv
Front  == INSTANCE IngestAuth WITH env <- ingestEnv
Letter == INSTANCE Envelope
Log    == INSTANCE JsonLog
Drain  == INSTANCE LocalDrain WITH Message <- Printable

doorVars   == <<pushEnv, serving, now, keysUp>>
frontVars  == <<versions, ingestEnv, settings, resolved>>
letterVars == <<message, own, policy, attempt, body, garbled>>
logVars    == <<handlers, propagate, calls, record, lines>>
drainVars  == <<emulator, subscribed, queue, leased, published, printed, run>>
buildVars  == vars
partsVars  == <<part, doorVars, frontVars, letterVars, logVars, drainVars, buildVars>>

Part == {"provisioning", "push auth", "ingest auth", "envelope", "log", "drain"}

PartsInit == /\ part \in Part
             /\ Init /\ Door!Init /\ Front!Init /\ Letter!Init /\ Log!Init /\ Drain!Init

PartsNext ==
    /\ UNCHANGED part
    /\ \/ part = "provisioning" /\ Next
          /\ UNCHANGED <<doorVars, frontVars, letterVars, logVars, drainVars>>
       \/ part = "push auth" /\ Door!Next
          /\ UNCHANGED <<frontVars, letterVars, logVars, drainVars, buildVars>>
       \/ part = "ingest auth" /\ Front!Next
          /\ UNCHANGED <<doorVars, letterVars, logVars, drainVars, buildVars>>
       \/ part = "envelope" /\ Letter!Next
          /\ UNCHANGED <<doorVars, frontVars, logVars, drainVars, buildVars>>
       \/ part = "log" /\ Log!Next
          /\ UNCHANGED <<doorVars, frontVars, letterVars, drainVars, buildVars>>
       \/ part = "drain" /\ Drain!Next
          /\ UNCHANGED <<doorVars, frontVars, letterVars, logVars, buildVars>>

(* The fairness of Provisioning, owed where it is the part that moves. *)
Builds(action) ==
    /\ part = "provisioning" /\ action
    /\ UNCHANGED <<part, doorVars, frontVars, letterVars, logVars, drainVars>>

PartsFairness == /\ WF_partsVars(Builds(\E r \in Resource : Create(r)))
                 /\ WF_partsVars(Builds(AddVersion))
                 /\ WF_partsVars(Builds(PubSub))

PartsSpec == PartsInit /\ [][PartsNext]_partsVars /\ PartsFairness
-----------------------------------------------------------------------------
(* An apply that is run again ends with everything. *)
ProvisionedInTheEnd == part = "provisioning" => Provisioned

(* The processor's front door (PushAuth): open only if its mode says so. *)
OpenOnlyByName        == Door!OpenOnlyByName
(* Only a live token of the configured principal is let in. *)
OnlyOurPushIsAdmitted == Door!OnlyOurPushIsAdmitted
(* Why the delivery Pub/Sub really makes may be refused. *)
OurPushIsAdmitted     == Door!OurPushIsAdmitted

(* The key of an instance is that of the version it started with. *)
KeyInForce == Front!KeyInForce

(* The verdict of the parser on a message is permanent. *)
VerdictIsPermanent == Letter!VerdictIsPermanent
(* What the ingest service publishes parses. *)
OwnMessagesParse   == Letter!OwnMessagesParse

(* One JSON line for a record. *)
OneJsonLineEach == Log!OneJsonLineEach
(* The formatter's own fields cannot be replaced. *)
OwnFieldsStand  == Log!OwnFieldsStand
(* The event_id is written. *)
EventIdSurvives == Log!EventIdSurvives

(* Only what was printed leaves the subscription. *)
NothingIsDroppedUnseen == Drain!NothingIsDroppedUnseen
=============================================================================
