----------------------------- MODULE PushDelivery -----------------------------
(***************************************************************************)
(* The push subscription (src/infra/pubsub.tf) delivering to the processor *)
(* instances (src/processor/app.py), each with its claim store.            *)
(*                                                                         *)
(* The route is an `async def` that calls a synchronous handler, and only  *)
(* awaits the body before it: from the parse to the answer an instance     *)
(* runs one request at a time, and what other requests of that instance    *)
(* see is the state between two such stretches.  The handler may take any  *)
(* time, so a request that is being handled is a state of its own and the  *)
(* instance may crash there.  Other instances interleave freely.           *)
(***************************************************************************)
EXTENDS SeenStoreOps

CONSTANTS
    Message,              \* messages of the topic
    EventId,              \* values of the event_id attribute
    EventOf,              \* event of each message; ingest retries share one
    Malformed,            \* messages whose envelope does not parse
    Instance,             \* processor instances
    Store,                \* claim stores
    StoreOf,              \* the store each instance was given
    Durable,              \* do claims survive the crash of an instance?
    Oidc,                 \* PUSH_AUTH_MODE=oidc: the app verifies the token
    MaxDeliveryAttempts,  \* dead_letter_policy.max_delivery_attempts
    MaxLapses,            \* bound of the model: expirations of a claim
    MaxCrashes            \* bound of the model: crashes of an instance

ASSUME EventAssumption == EventOf \in [Message -> EventId] /\ Malformed \subseteq Message
ASSUME StoreAssumption == StoreOf \in [Instance -> Store]
ASSUME FlagAssumption == Durable \in BOOLEAN /\ Oidc \in BOOLEAN
ASSUME BoundAssumption == /\ MaxDeliveryAttempts \in Nat \ {0}
                          /\ MaxLapses \in Nat
                          /\ MaxCrashes \in Nat
(* Only a store that outlives its instances can be shared by them. *)
ASSUME SharingAssumption == Durable \/ IsInjective(StoreOf)

VARIABLES
    sub,         \* what the subscription knows of each message
    attempts,    \* delivery attempts made for each message
    lease,       \* the attempt whose answer is awaited, 0 if none
    requests,    \* push requests an instance has not answered
    claims,      \* the live claims of each store, oldest first
    completed,   \* how often the handler returned, for each event
    abandoned,   \* events given up with a PermanentError
    lapses,      \* live claims lost without a release, for each event
    expirations, \* claims expired so far
    crashes      \* crashes so far

delivery == <<sub, attempts, lease>>
outcome  == <<completed, abandoned>>
losses   == <<lapses, expirations, crashes>>
vars     == <<delivery, requests, claims, outcome, losses>>

SubState == {"unpublished", "pending", "acked", "dead"}
Phase    == {"waiting", "handling"}
Request  == [msg : Message, attempt : 1 .. MaxDeliveryAttempts,
             at : Instance, phase : Phase]

TypeOK == /\ sub \in [Message -> SubState]
          /\ attempts \in [Message -> 0 .. MaxDeliveryAttempts]
          /\ lease \in [Message -> 0 .. MaxDeliveryAttempts]
          /\ requests \subseteq Request
          /\ claims \in [Store -> Seq(EventId)]
          /\ completed \in [EventId -> Nat]
          /\ abandoned \subseteq EventId
          /\ lapses \in [EventId -> Nat]
          /\ expirations \in 0 .. MaxLapses
          /\ crashes \in 0 .. MaxCrashes

Init == /\ sub = [m \in Message |-> "unpublished"]
        /\ attempts = [m \in Message |-> 0]
        /\ lease = [m \in Message |-> 0]
        /\ requests = {}
        /\ claims = [s \in Store |-> <<>>]
        /\ completed = [e \in EventId |-> 0]
        /\ abandoned = {}
        /\ lapses = [e \in EventId |-> 0]
        /\ expirations = 0
        /\ crashes = 0
-----------------------------------------------------------------------------
(* Pub/Sub *)

Publish(m) ==
    /\ sub[m] = "unpublished"
    /\ sub' = [sub EXCEPT ![m] = "pending"]
    /\ UNCHANGED <<attempts, lease, requests, claims, outcome, losses>>

(* Fault: one attempt more than the policy allows. *)
ExhaustedLate(m) == attempts[m] > MaxDeliveryAttempts

Exhausted(m) == attempts[m] >= MaxDeliveryAttempts

(* One attempt is outstanding at a time; the load balancer picks the       *)
(* instance.                                                               *)
Deliver(m, i) ==
    /\ sub[m] = "pending" /\ lease[m] = 0
    /\ ~Exhausted(m)
    /\ attempts' = [attempts EXCEPT ![m] = @ + 1]
    /\ lease' = [lease EXCEPT ![m] = attempts[m] + 1]
    /\ requests' = requests \cup {[msg |-> m, attempt |-> attempts[m] + 1,
                                   at |-> i, phase |-> "waiting"]}
    /\ UNCHANGED <<sub, claims, outcome, losses>>

(* ack_deadline_seconds passed without an answer: the attempt counts as    *)
(* failed although it may still be running.  An answer that is sent but    *)
(* lost is this step, taken just before the answer.                        *)
MissDeadline(m) ==
    /\ lease[m] # 0
    /\ lease' = [lease EXCEPT ![m] = 0]
    /\ UNCHANGED <<sub, attempts, requests, claims, outcome, losses>>

DeadLetter(m) ==
    /\ sub[m] = "pending" /\ lease[m] = 0
    /\ Exhausted(m)
    /\ sub' = [sub EXCEPT ![m] = "dead"]
    /\ UNCHANGED <<attempts, lease, requests, claims, outcome, losses>>
-----------------------------------------------------------------------------
(* The push route of one instance *)

Event(r) == EventOf[r.msg]

(* Fault: the answer of seen.claim is not looked at. *)
HeldIgnored(r) == {}

Held(r) == ToSet(claims[StoreOf[r.at]])

Busy(i)  == \E r \in requests : r.at = i /\ r.phase = "handling"

(* r is answered; the answer counts if Pub/Sub still waits for it. *)
Answered(r, state) ==
    /\ requests' = requests \ {r}
    /\ IF lease[r.msg] = r.attempt
       THEN /\ lease' = [lease EXCEPT ![r.msg] = 0]
            /\ sub' = [sub EXCEPT ![r.msg] = state]
       ELSE UNCHANGED <<lease, sub>>
    /\ UNCHANGED attempts

(* Fault: a failure is answered with a success code. *)
NacksAsAck(r) == Answered(r, "acked")

Acks(r)  == Answered(r, "acked")      \* 204
Nacks(r) == Answered(r, "pending")    \* 503, 401: to be delivered again

(* What seen.claim does when it grants: an older claim may be crowded out. *)
Claim(r) ==
    LET s == StoreOf[r.at]
        surplus == Surplus(claims[s], Event(r))
    IN  /\ claims' = [claims EXCEPT ![s] = Granted(@, Event(r))]
        /\ lapses' = [e \in EventId |-> lapses[e] + IF e \in surplus THEN 1 ELSE 0]

(* Fault: the claim survives the failure. *)
KeepClaim(r) == UNCHANGED claims

ReleaseClaim(r) ==
    claims' = [claims EXCEPT ![StoreOf[r.at]] = Released(@, Event(r))]

(* The route has this request at the point where it runs on. *)
Resumes(r) == r.phase = "waiting" /\ ~Busy(r.at)

(* 401: verify may fail for a genuine delivery too (fetching keys). *)
RefuseUnauthenticated(r) ==
    /\ Oidc
    /\ Resumes(r)
    /\ Nacks(r)
    /\ UNCHANGED <<claims, outcome, losses>>

DropUnparseable(r) ==
    /\ Resumes(r)
    /\ r.msg \in Malformed
    /\ Acks(r)
    /\ UNCHANGED <<claims, outcome, losses>>

AckDuplicate(r) ==
    /\ Resumes(r)
    /\ r.msg \notin Malformed
    /\ Event(r) \in Held(r)
    /\ Acks(r)
    /\ UNCHANGED <<claims, outcome, losses>>

StartHandling(r) ==
    /\ Resumes(r)
    /\ r.msg \notin Malformed
    /\ Event(r) \notin Held(r)
    /\ Claim(r)
    /\ requests' = (requests \ {r}) \cup {[r EXCEPT !.phase = "handling"]}
    /\ UNCHANGED <<delivery, outcome, expirations, crashes>>

HandlerReturns(r) ==
    /\ r.phase = "handling"
    /\ completed' = [completed EXCEPT ![Event(r)] = @ + 1]
    /\ Acks(r)
    /\ UNCHANGED <<claims, abandoned, losses>>

(* Fault: an abandoned event keeps its claim. *)
GivesUpKeepingClaim(r) ==
    /\ r.phase = "handling"
    /\ abandoned' = abandoned \cup {Event(r)}
    /\ Acks(r)
    /\ UNCHANGED <<claims, completed, losses>>

(* PermanentError *)
HandlerGivesUp(r) ==
    /\ r.phase = "handling"
    /\ ReleaseClaim(r)
    /\ abandoned' = abandoned \cup {Event(r)}
    /\ Acks(r)
    /\ UNCHANGED <<completed, losses>>

(* RetryableError, or any other exception *)
HandlerFails(r) ==
    /\ r.phase = "handling"
    /\ ReleaseClaim(r)
    /\ Nacks(r)
    /\ UNCHANGED <<outcome, losses>>
-----------------------------------------------------------------------------
(* What happens to a store and to an instance from outside *)

(* The oldest claim of s reaches its TTL. *)
ClaimExpires(s) ==
    /\ expirations < MaxLapses
    /\ claims[s] # <<>>
    /\ claims' = [claims EXCEPT ![s] = Tail(@)]
    /\ lapses' = [lapses EXCEPT ![Head(claims[s])] = @ + 1]
    /\ expirations' = expirations + 1
    /\ UNCHANGED <<delivery, requests, outcome, crashes>>

(* The container stops, is scaled in or replaced; its next life starts     *)
(* with whatever its store kept.                                           *)
Crash(i) ==
    /\ crashes < MaxCrashes
    /\ crashes' = crashes + 1
    /\ requests' = {r \in requests : r.at # i}
    /\ IF Durable
       THEN UNCHANGED <<claims, lapses>>
       ELSE /\ claims' = [claims EXCEPT ![StoreOf[i]] = <<>>]
            /\ lapses' = [e \in EventId |->
                   lapses[e] + IF e \in ToSet(claims[StoreOf[i]]) THEN 1 ELSE 0]
    /\ UNCHANGED <<delivery, outcome, expirations>>
-----------------------------------------------------------------------------
Route(r) == \/ RefuseUnauthenticated(r) \/ DropUnparseable(r)
            \/ AckDuplicate(r) \/ StartHandling(r)
            \/ HandlerReturns(r) \/ HandlerGivesUp(r) \/ HandlerFails(r)

(* Everything but the arrival of new messages. *)
Step == \/ \E m \in Message : \/ MissDeadline(m) \/ DeadLetter(m)
                              \/ \E i \in Instance : Deliver(m, i)
        \/ \E r \in requests : Route(r)
        \/ \E s \in Store : ClaimExpires(s)
        \/ \E i \in Instance : Crash(i)

Next == Step \/ \E m \in Message : Publish(m)

(* Only the subscription is trusted to make progress: it delivers, gives   *)
(* up on an attempt at the ack deadline and dead-letters.  A handler may   *)
(* hang forever.                                                           *)
Fairness == \A m \in Message :
                /\ WF_vars(\E i \in Instance : Deliver(m, i))
                /\ WF_vars(MissDeadline(m))
                /\ WF_vars(DeadLetter(m))

Spec == Init /\ [][Next]_vars /\ Fairness
-----------------------------------------------------------------------------
(* The handler has dealt with m for good, or never could. *)
Settled(m) == \/ m \in Malformed
              \/ completed[EventOf[m]] > 0
              \/ EventOf[m] \in abandoned

(* No silent loss: once the subscription forgets a message because it was  *)
(* acked, its event has been handled to the end, was given up by the       *)
(* handler, or could not be parsed.  In particular a duplicate is acked    *)
(* only for an event that is done.                                         *)
AckedMeansSettled == \A m \in Message : sub[m] = "acked" => Settled(m)

(* An instance that is not handling anything holds claims on completed     *)
(* events only: every failure path gave its claim back.                    *)
ClaimsStandForSuccess ==
    \A i \in Instance :
        ~Busy(i) => \A e \in ToSet(claims[StoreOf[i]]) : completed[e] > 0

(* How far deduplication goes: the handler completes an event at most once *)
(* per store, and once more for every live claim on it that expired, was   *)
(* crowded out or died with its instance.                                  *)
CompletionsBounded ==
    \A e \in EventId : completed[e] <= Cardinality(Store) + lapses[e]

(* "Already handled": a delivery is acked as a duplicate only when the     *)
(* handler is done with its event.                                         *)
DuplicateMeansHandled ==
    [][ \A r \in requests : AckDuplicate(r) => Settled(r.msg) ]_vars

(* Whatever the handlers do, hanging included, every message leaves the    *)
(* subscription, and it leaves it settled or by the dead-letter topic.     *)
EveryMessageAccountedFor ==
    \A m \in Message :
        sub[m] = "pending" ~> sub[m] = "dead" \/ (sub[m] = "acked" /\ Settled(m))
=============================================================================
