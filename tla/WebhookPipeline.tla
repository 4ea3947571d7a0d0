--------------------------- MODULE WebhookPipeline ---------------------------
(***************************************************************************)
(* The two services joined by the topic: a message the ingest service has  *)
(* stored is a message of the push subscription.  Every publish attempt    *)
(* may store a copy of its own, and two deliveries may carry one body, and *)
(* so one event_id.  The processor is deployed as in src/infra: Cloud Run  *)
(* authenticates, and every instance has an in-memory claim store.         *)
(***************************************************************************)
EXTENDS Integers, Sequences, FiniteSets

CONSTANTS
    Delivery, Attempts, IngestInstance, MaxIngestCrashes,
    EventId,
    BodyOf,         \* the event_id of each delivery: the hash of its body
    Flaws,          \* bound of the model: the sets of faults considered
    Instance, MaxEntries, MaxDeliveryAttempts, MaxLapses, MaxCrashes

ASSUME BodyAssumption == BodyOf \in [Delivery -> EventId]
(* As for the two services by themselves. *)
ASSUME BoundAssumption == /\ Attempts \in Nat \ {0} /\ MaxIngestCrashes \in Nat
                          /\ MaxEntries \in Nat \ {0} /\ MaxDeliveryAttempts \in Nat \ {0}
                          /\ MaxLapses \in Nat /\ MaxCrashes \in Nat

VARIABLES
    phase, at, faults, attempt, rpc, answer, ingestCrashes,
    sub, attempts, lease, requests, claims, completed, abandoned,
    lapses, expirations, crashes

Ingest == INSTANCE WebhookIngest
          WITH Instance <- IngestInstance, MaxCrashes <- MaxIngestCrashes,
               crashes <- ingestCrashes

(* The messages of the topic: one for each attempt to publish a delivery.  *)
Copy == Delivery \X Ingest!Attempt

Push == INSTANCE PushDelivery
        WITH Message <- Copy,
             EventOf <- [c \in Copy |-> BodyOf[c[1]]],
             Malformed <- {},
             Store <- Instance,
             StoreOf <- [i \in Instance |-> i],
             Durable <- FALSE,
             Oidc <- FALSE

ingestVars == <<phase, at, faults, attempt, rpc, answer, ingestCrashes>>
pushVars   == <<sub, attempts, lease, requests, claims, completed, abandoned,
                lapses, expirations, crashes>>
vars       == <<ingestVars, pushVars>>

Init == /\ Ingest!Init /\ Push!Init
        /\ \A d \in Delivery : faults[d] \in Flaws

(* The fate of an attempt is decided: a stored copy is on the topic, for   *)
(* the subscription that existed before it.                                *)
Arrive(d, k) ==
    /\ Ingest!Settle(d, k)
    /\ IF rpc'[d][k] = "stored" THEN Push!Publish(<<d, k>>)
                                ELSE UNCHANGED pushVars

Next == \/ Ingest!Step /\ UNCHANGED pushVars
        \/ Push!Step /\ UNCHANGED ingestVars
        \/ \E d \in Delivery, k \in Ingest!Attempt : Arrive(d, k)

(* Nothing is assumed of the ingest instances nor of the handlers. *)
Spec == Init /\ [][Next]_vars /\ Push!Fairness
-----------------------------------------------------------------------------
(* The pipeline is done with a copy of d. *)
Accounted(d) ==
    \E c \in {d} \X Ingest!Attempt :
        sub[c] = "dead" \/ (sub[c] = "acked" /\ Push!Settled(c))

Contract == INSTANCE AtLeastOnce
            WITH stored <- {d \in Delivery : Ingest!Stored(d) # {}},
                 promised <- {d \in Delivery : answer[d] = 202},
                 accounted <- {d \in Delivery : Accounted(d)}

(* From the sender to the handler: a 202 is only sent for a stored event,  *)
(* and a stored event, acknowledged or not, ends handled, abandoned or in  *)
(* the dead-letter topic, through every crash and late answer on the way.  *)
ImplementsAtLeastOnce == Contract!Spec

(* Nothing runs that the front door refused: the handler completes an      *)
(* event only if some faultless delivery carried its body.                 *)
HandledWasAccepted ==
    \A e \in EventId :
        completed[e] > 0 =>
            \E d \in Delivery : BodyOf[d] = e /\ faults[d] = {}

(* A 202 is never forgotten: at every moment a delivery that was           *)
(* acknowledged has a copy still on the subscription, or is accounted for. *)
NothingPromisedIsLost ==
    \A d \in Delivery :
        answer[d] = 202 =>
            Accounted(d) \/ \E k \in Ingest!Attempt : sub[<<d, k>>] = "pending"
=============================================================================
