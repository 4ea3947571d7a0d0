------------------------------ MODULE PushTiming ------------------------------
(***************************************************************************)
(* The push delivery with durations: the ack deadline, the handler's worst *)
(* case, and the requests Cloud Run hands to one instance at a time.       *)
(*                                                                         *)
(* Time passes in ticks.  Only the handler takes time; an instance whose   *)
(* event loop is free runs a waiting request at once, but a handler blocks *)
(* that loop, so a request may wait behind it with its deadline running.   *)
(* An attempt fails at its deadline, or earlier when its connection        *)
(* breaks, and the answer it may still be given is lost.                   *)
(***************************************************************************)
EXTENDS PushDelivery

CONSTANTS
    AckDeadline,  \* ack_deadline_seconds of the subscription, in ticks
    WorstCase,    \* the longest a handler runs, in ticks
    Concurrency,  \* requests Cloud Run sends to one instance at a time
    MaxBreaks     \* bound of the model: connections that break

(* What pubsub.tf asks of the deployment. *)
ASSUME DeadlineAssumption == /\ AckDeadline \in Nat /\ WorstCase \in Nat
                             /\ WorstCase < AckDeadline
ASSUME ConcurrencyAssumption == Concurrency \in Nat \ {0}
ASSUME BreakAssumption == MaxBreaks \in Nat

VARIABLES
    waited,  \* ticks since the outstanding attempt of each message was sent
    worked,  \* ticks the handler of each instance has been running
    queued,  \* ticks the request it handles had waited before
    broken   \* history: the attempts whose connection broke

clocks    == <<waited, worked, queued>>
timedVars == <<vars, clocks, broken>>

TimedInit == /\ Init
             /\ waited = [m \in Message |-> 0]
             /\ worked = [i \in Instance |-> 0]
             /\ queued = [i \in Instance |-> 0]
             /\ broken = {}

(* Fault: the deadline covers the usual handler, not the slowest. *)
DeadlineAtMedian(m) == lease[m] # 0 /\ waited[m] >= WorstCase - 1

DeadlinePassed(m) == lease[m] # 0 /\ waited[m] >= AckDeadline

(* A connection that breaks says so: Pub/Sub does not wait for the         *)
(* deadline.  The request may never have arrived, died with its instance,  *)
(* be under way, or be about to be answered.                               *)
BreakConnection(m) == /\ Cardinality(broken) < MaxBreaks
                      /\ MissDeadline(m)
                      /\ broken' = broken \cup {<<m, lease[m]>>}
                      /\ UNCHANGED clocks

TimedMiss(m) == /\ DeadlinePassed(m)
                /\ MissDeadline(m)
                /\ UNCHANGED <<clocks, broken>>

HasRoom(i) == Cardinality({r \in requests : r.at = i}) < Concurrency

TimedDeliver(m, i) == /\ Deliver(m, i)
                      /\ HasRoom(i)
                      /\ waited' = [waited EXCEPT ![m] = 0]
                      /\ UNCHANGED <<worked, queued, broken>>

(* How long r has waited; one that nobody waits for any more, the whole    *)
(* deadline, unless its connection broke.                                  *)
Age(r) == IF lease[r.msg] = r.attempt THEN waited[r.msg] ELSE AckDeadline

TimedRoute(r) == /\ Route(r)
                 /\ worked' = [worked EXCEPT ![r.at] = 0]
                 /\ queued' = [queued EXCEPT ![r.at] = IF Busy(r.at)' THEN Age(r) ELSE 0]
                 /\ UNCHANGED <<waited, broken>>

TimedCrash(i) == /\ Crash(i)
                 /\ worked' = [worked EXCEPT ![i] = 0]
                 /\ queued' = [queued EXCEPT ![i] = 0]
                 /\ UNCHANGED <<waited, broken>>

(* No more time passes while a deadline is due, a handler is at its worst  *)
(* case, or a free instance has a request to run.                          *)
Due == \/ \E m \in Message : DeadlinePassed(m)
       \/ \E i \in Instance : Busy(i) /\ worked[i] >= WorstCase
       \/ \E r \in requests : Resumes(r)

Tick == /\ ~Due
        /\ waited' = [m \in Message |-> waited[m] + IF lease[m] # 0 THEN 1 ELSE 0]
        /\ worked' = [i \in Instance |-> worked[i] + IF Busy(i) THEN 1 ELSE 0]
        /\ UNCHANGED <<vars, queued, broken>>

TimedNext ==
    \/ \E m \in Message :
           \/ (Publish(m) \/ DeadLetter(m)) /\ UNCHANGED <<clocks, broken>>
           \/ TimedMiss(m) \/ BreakConnection(m)
           \/ \E i \in Instance : TimedDeliver(m, i)
    \/ \E r \in requests : TimedRoute(r)
    \/ \E s \in Store : ClaimExpires(s) /\ UNCHANGED <<clocks, broken>>
    \/ \E i \in Instance : TimedCrash(i)
    \/ Tick

TimedSpec == TimedInit /\ [][TimedNext]_timedVars
-----------------------------------------------------------------------------
(* r waited behind other requests for more than the deadline leaves a      *)
(* handler.                                                                *)
HeldUp(r) == queued[r.at] >= AckDeadline - WorstCase

(* With the deadline "above the handler's WORST case", a handler alone     *)
(* never misses it: an attempt that is there and whose deadline passes is  *)
(* still in the queue, or spent in it what the handler leaves of the       *)
(* deadline.                                                               *)
MissedInTheQueue ==
    \A r \in requests :
        r.phase = "handling" /\ lease[r.msg] = r.attempt /\ DeadlinePassed(r.msg) => HeldUp(r)

(* "One event is processed twice concurrently" does not happen: no two     *)
(* requests for one message are being handled at the same time.            *)
NoOverlap ==
    \A q, r \in requests :
        q.msg = r.msg /\ q.phase = "handling" /\ r.phase = "handling" => q = r

(* What is true of it however many requests an instance is given: a        *)
(* message is handled twice at once only where the earlier attempt was     *)
(* held up in its instance's queue, or lost its connection.                *)
OverlapHasACause ==
    \A q, r \in requests :
        /\ q.msg = r.msg /\ q # r /\ q.attempt <= r.attempt
        /\ q.phase = "handling" /\ r.phase = "handling"
        => HeldUp(q) \/ <<q.msg, q.attempt>> \in broken
=============================================================================
