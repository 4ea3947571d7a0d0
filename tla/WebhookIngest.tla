---------------------------- MODULE WebhookIngest ----------------------------
(***************************************************************************)
(* The ingest service: the webhook route (src/ingest/app.py) publishing    *)
(* through RetryingPublisher (src/ingest/retry.py) and PubSubPublisher     *)
(* (src/ingest/pubsub_publisher.py), on any number of instances.           *)
(*                                                                         *)
(* Publishing blocks: an instance that is publishing, or sleeping between  *)
(* attempts, runs no other request.  What a publish call reports and what  *)
(* becomes of its message are two things: a call may time out although the *)
(* message is stored, or is going to be.                                   *)
(***************************************************************************)
EXTENDS Integers, Sequences, FiniteSets, FiniteSetsExt

CONSTANTS
    Delivery,    \* webhook requests; the sender sends each of them once
    Instance,    \* ingest instances
    Attempts,    \* attempts of the RetryingPublisher
    MaxCrashes   \* bound of the model: crashes of an instance

(* RetryingPublisher.__init__ refuses fewer attempts than one. *)
ASSUME AttemptsAssumption == Attempts \in Nat \ {0}
ASSUME CrashAssumption == MaxCrashes \in Nat

VARIABLES
    phase,    \* where each delivery is
    at,       \* the instance it reached
    faults,   \* what is wrong with it
    attempt,  \* publish attempts made for it
    rpc,      \* what became of the message of each attempt
    answer,   \* HTTP status sent back, 0 if none
    crashes   \* crashes so far

vars == <<phase, at, faults, attempt, rpc, answer, crashes>>

Phase == {"unsent", "received", "publishing", "backoff", "answered", "gone"}

(* declared: Content-Length above the limit; size: the body itself is;     *)
(* key: no valid signing key; media: not application/json; json: malformed *)
Fault == {"declared", "size", "key", "media", "json"}

RpcState == {"unsent", "inflight", "stored", "dropped"}

Attempt == 1 .. Attempts

(* The checks of the route in the order they are made, with the status of  *)
(* a failure.  The first is made before the body is read.                  *)
Check(fault, status) == [fault |-> fault, status |-> status]

(* Fault: the media type is looked at before the key. *)
ChecksKeyLate == << Check("declared", 413), Check("size", 413), Check("media", 415),
                    Check("key", 401), Check("json", 400) >>

(* Fault: the key is not looked at. *)
ChecksNoKey == << Check("declared", 413), Check("size", 413), Check("media", 415),
                  Check("json", 400) >>

Checks == << Check("declared", 413), Check("size", 413), Check("key", 401),
             Check("media", 415), Check("json", 400) >>

Failed(d) == {k \in DOMAIN Checks : Checks[k].fault \in faults[d]}

Status == {202, 400, 401, 413, 415, 500, 503}

TypeOK == /\ phase \in [Delivery -> Phase]
          /\ at \in [Delivery -> Instance]
          /\ faults \in [Delivery -> SUBSET Fault]
          /\ attempt \in [Delivery -> 0 .. Attempts]
          /\ rpc \in [Delivery -> [Attempt -> RpcState]]
          /\ answer \in [Delivery -> Status \cup {0}]
          /\ crashes \in 0 .. MaxCrashes

Init == /\ phase = [d \in Delivery |-> "unsent"]
        /\ at \in [Delivery -> Instance]
        /\ faults \in [Delivery -> SUBSET Fault]
        /\ attempt = [d \in Delivery |-> 0]
        /\ rpc = [d \in Delivery |-> [k \in Attempt |-> "unsent"]]
        /\ answer = [d \in Delivery |-> 0]
        /\ crashes = 0
-----------------------------------------------------------------------------
(* The route *)

Idle(i) == \A d \in Delivery : at[d] = i => phase[d] \notin {"publishing", "backoff"}

Answers(d, status) ==
    /\ phase' = [phase EXCEPT ![d] = "answered"]
    /\ answer' = [answer EXCEPT ![d] = status]

Receive(d) ==
    /\ phase[d] = "unsent"
    /\ phase' = [phase EXCEPT ![d] = "received"]
    /\ UNCHANGED <<at, faults, attempt, rpc, answer, crashes>>

Refuse(d) ==
    /\ phase[d] = "received" /\ Idle(at[d])
    /\ Failed(d) # {}
    /\ Answers(d, Checks[Min(Failed(d))].status)
    /\ UNCHANGED <<at, faults, attempt, rpc, crashes>>

(* The sender closes the connection while its body is awaited. *)
Disconnect(d) ==
    /\ phase[d] = "received"
    /\ phase' = [phase EXCEPT ![d] = "gone"]
    /\ UNCHANGED <<at, faults, attempt, rpc, answer, crashes>>

(* client.publish hands the next message over; future.result awaits it. *)
Send(d) ==
    /\ attempt' = [attempt EXCEPT ![d] = @ + 1]
    /\ rpc' = [rpc EXCEPT ![d][attempt[d] + 1] = "inflight"]
    /\ phase' = [phase EXCEPT ![d] = "publishing"]

BeginPublish(d) ==
    /\ phase[d] = "received" /\ Idle(at[d])
    /\ Failed(d) = {}
    /\ Send(d)
    /\ UNCHANGED <<at, faults, answer, crashes>>

(* Fault: the future is not awaited. *)
Dispatched(d) == rpc[d][attempt[d]] \in {"inflight", "stored"}

(* future.result returns a message id only for a message that is stored. *)
Confirmed(d) == rpc[d][attempt[d]] = "stored"

Acknowledge(d) ==
    /\ phase[d] = "publishing"
    /\ Confirmed(d)
    /\ Answers(d, 202)
    /\ UNCHANGED <<at, faults, attempt, rpc, crashes>>

(* Fault: future.result is called without a timeout. *)
FailsOnceDropped(d) == phase[d] = "publishing" /\ rpc[d][attempt[d]] = "dropped"

(* PublishTimeout or PublishError: whatever became of the message. *)
AttemptFails(d) == phase[d] = "publishing"

(* Faults: an attempt too few, or too many. *)
AttemptsLeftShort(d) == attempt[d] + 1 < Attempts
AttemptsLeftLong(d) == attempt[d] <= Attempts

AttemptsLeft(d) == attempt[d] < Attempts

BackOff(d) ==
    /\ AttemptFails(d)
    /\ AttemptsLeft(d)
    /\ phase' = [phase EXCEPT ![d] = "backoff"]
    /\ UNCHANGED <<at, faults, attempt, rpc, answer, crashes>>

Retry(d) ==
    /\ phase[d] = "backoff"
    /\ Send(d)
    /\ UNCHANGED <<at, faults, answer, crashes>>

GiveUp(d) ==
    /\ AttemptFails(d)
    /\ ~AttemptsLeft(d)
    /\ Answers(d, 503)
    /\ UNCHANGED <<at, faults, attempt, rpc, crashes>>

(* Any other exception is not retried and becomes a 500. *)
UnexpectedError(d) ==
    /\ phase[d] = "publishing"
    /\ Answers(d, 500)
    /\ UNCHANGED <<at, faults, attempt, rpc, crashes>>
-----------------------------------------------------------------------------
(* Pub/Sub and the platform *)

(* A message handed over is stored or lost, before its call returns or     *)
(* long after: a call that timed out is not cancelled.                     *)
Settle(d, k) ==
    /\ rpc[d][k] = "inflight"
    /\ \E fate \in {"stored", "dropped"} : rpc' = [rpc EXCEPT ![d][k] = fate]
    /\ UNCHANGED <<phase, at, faults, attempt, answer, crashes>>

Crash(i) ==
    /\ crashes < MaxCrashes
    /\ crashes' = crashes + 1
    /\ phase' = [d \in Delivery |->
                    IF at[d] = i /\ phase[d] \in {"received", "publishing", "backoff"}
                    THEN "gone" ELSE phase[d]]
    /\ UNCHANGED <<at, faults, attempt, rpc, answer>>

Route(d) == \/ Refuse(d) \/ BeginPublish(d)
            \/ Acknowledge(d) \/ BackOff(d) \/ Retry(d) \/ GiveUp(d)

(* Everything but the fate of the messages handed over. *)
Step == \/ \E d \in Delivery : \/ Receive(d) \/ Disconnect(d) \/ Route(d)
                               \/ UnexpectedError(d)
        \/ \E i \in Instance : Crash(i)

Next == Step \/ \E d \in Delivery, k \in Attempt : Settle(d, k)

(* A publish call returns within its timeout and a backoff ends; a request *)
(* whose body has arrived is run when its instance is free.  Nothing is    *)
(* assumed of Pub/Sub.                                                     *)
Fairness == \A d \in Delivery : WF_vars(Route(d))

Spec == Init /\ [][Next]_vars /\ Fairness
-----------------------------------------------------------------------------
Stored(d) == {k \in Attempt : rpc[d][k] = "stored"}

(* A 2xx is a promise: the sender was told so only if a copy of its event  *)
(* is durably stored.                                                      *)
PromiseKept == \A d \in Delivery : answer[d] = 202 => Stored(d) # {}

(* Nothing is handed to Pub/Sub for a request that fails any check, now or *)
(* later, whichever other faults it has.                                   *)
OnlyAcceptedIsQueued ==
    \A d \in Delivery : faults[d] # {} => \A k \in Attempt : rpc[d][k] = "unsent"

(* An unauthenticated caller learns nothing but whether its body is too    *)
(* large: two of them that agree on that get the same answer.              *)
AnonymousLearnsNothing ==
    \A c, d \in Delivery :
        /\ "key" \in faults[c] \cap faults[d]
        /\ phase[c] = "answered" /\ phase[d] = "answered"
        /\ faults[c] \cap {"declared", "size"} = faults[d] \cap {"declared", "size"}
        => answer[c] = answer[d]

(* The sender never retries, so losing an accepted event takes more than   *)
(* one failure: a route that answered 503 while no copy is stored has made *)
(* every attempt, each of them lost or still on its way.                   *)
LossTakesEveryAttempt ==
    \A d \in Delivery :
        answer[d] = 503 /\ Stored(d) = {} =>
            \A k \in Attempt : rpc[d][k] \in {"inflight", "dropped"}

(* Every request is answered, however slow or silent Pub/Sub is, unless    *)
(* its sender leaves or its instance crashes.                              *)
EveryRequestAnswered ==
    \A d \in Delivery : phase[d] = "received" ~> phase[d] \in {"answered", "gone"}
=============================================================================
