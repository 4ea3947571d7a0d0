--------------------------- MODULE PushTimingProofs ---------------------------
(***************************************************************************)
(* Why one message is handled twice at once: for any messages, instances,  *)
(* stores, limits and durations, and however many requests an instance is  *)
(* given, the earlier attempt was held up in the queue of its instance, or *)
(* lost its connection.                                                    *)
(*                                                                         *)
(* The argument is about one request that is being handled (InTime).       *)
(* While its answer is awaited, its deadline has been running no longer    *)
(* than it queued and its handler ran; it stops being awaited at the       *)
(* deadline, so after a long queue, or because its connection broke.  Two  *)
(* requests of one message cannot both be awaited (Numbered).              *)
(***************************************************************************)
EXTENDS PushTiming, TLAPS

Shape == /\ attempts \in [Message -> Nat]
         /\ lease \in [Message -> Nat]
         /\ requests \subseteq [msg : Message, attempt : Nat \ {0}, at : Instance, phase : Phase]

ClocksOK == /\ waited \in [Message -> Nat]
            /\ worked \in [Instance -> 0 .. WorstCase]
            /\ queued \in [Instance -> Nat]

(* Only the latest attempt of a message is awaited, and it is one request. *)
Numbered == /\ \A m \in Message : lease[m] \in {0, attempts[m]}
            /\ \A r \in requests : r.attempt <= attempts[r.msg]
            /\ \A q, r \in requests : q.msg = r.msg /\ q.attempt = r.attempt => q = r

OneHandler == \A q, r \in requests :
                  q.at = r.at /\ q.phase = "handling" /\ r.phase = "handling" => q = r

Awaited(r) == lease[r.msg] = r.attempt

Excused(r) == HeldUp(r) \/ <<r.msg, r.attempt>> \in broken

InTime == \A r \in requests :
              r.phase = "handling" =>
                  /\ Awaited(r) => waited[r.msg] <= queued[r.at] + worked[r.at]
                  /\ ~Awaited(r) => Excused(r)

TInv == Shape /\ ClocksOK /\ Numbered /\ OneHandler /\ InTime
-----------------------------------------------------------------------------
LEMMA InitTInv == TimedInit => TInv
<1> SUFFICES ASSUME TimedInit PROVE TInv
  OBVIOUS
<1>1. 0 \in 0 .. WorstCase
  BY DeadlineAssumption
<1>2. Shape
  BY DEF TimedInit, Init, Shape
<1>3. ClocksOK
  BY <1>1 DEF TimedInit, ClocksOK
<1>4. Numbered /\ OneHandler /\ InTime
  BY DEF TimedInit, Init, Numbered, OneHandler, InTime
<1>5. QED
  BY <1>2, <1>3, <1>4 DEF TInv

LEMMA RequestShape ==
    ASSUME Shape, NEW r \in requests
    PROVE  /\ r.msg \in Message /\ r.attempt \in Nat \ {0}
           /\ r.at \in Instance /\ r.phase \in {"waiting", "handling"}
  BY DEF Shape, Phase

(* A handled request whose deadline passes was held up. *)
LEMMA LateIsHeldUp ==
    ASSUME TInv, NEW r \in requests, r.phase = "handling", Awaited(r), DeadlinePassed(r.msg)
    PROVE  HeldUp(r)
<1>1. /\ waited[r.msg] \in Nat /\ queued[r.at] \in Nat /\ worked[r.at] \in 0 .. WorstCase
  BY RequestShape DEF TInv, ClocksOK
<1>2. waited[r.msg] <= queued[r.at] + worked[r.at] /\ waited[r.msg] >= AckDeadline
  BY DEF TInv, InTime, DeadlinePassed
<1>3. QED
  BY <1>1, <1>2, DeadlineAssumption DEF HeldUp

(* The lease of m ends without an answer: excusable, or nothing handled    *)
(* depended on it.                                                         *)
LEMMA LeaseEndKeeps ==
    ASSUME TInv, NEW m \in Message, MissDeadline(m), UNCHANGED clocks,
           broken \subseteq broken',
           \A r \in requests : r.phase = "handling" /\ r.msg = m /\ Awaited(r) =>
                                  HeldUp(r) \/ <<r.msg, r.attempt>> \in broken'
    PROVE  TInv'
<1> USE DEF TInv
<1>1. /\ lease' = [lease EXCEPT ![m] = 0]
      /\ requests' = requests /\ attempts' = attempts
      /\ waited' = waited /\ worked' = worked /\ queued' = queued
  BY DEF MissDeadline, clocks
<1>2. Shape' /\ ClocksOK' /\ OneHandler'
  BY <1>1 DEF Shape, ClocksOK, OneHandler
<1>3. \A o \in Message : lease'[o] = IF o = m THEN 0 ELSE lease[o]
  BY <1>1 DEF Shape
<1>4. Numbered'
  BY <1>1, <1>3 DEF Numbered
<1>5. ASSUME NEW r \in requests', r.phase = "handling"
      PROVE  /\ Awaited(r)' => waited'[r.msg] <= queued'[r.at] + worked'[r.at]
             /\ ~Awaited(r)' => Excused(r)'
  <2>1. r \in requests /\ r.msg \in Message /\ r.attempt # 0
    BY <1>1, RequestShape
  <2>2. CASE r.msg = m /\ Awaited(r)
    BY <1>1, <1>3, <1>5, <2>1, <2>2 DEF Awaited, Excused, HeldUp
  <2>3. CASE ~(r.msg = m /\ Awaited(r))
    <3>1. Awaited(r)' <=> Awaited(r)
      BY <1>3, <2>1, <2>3 DEF Awaited
    <3>2. Excused(r) => Excused(r)'
      BY <1>1 DEF Excused, HeldUp
    <3>3. QED
      BY <1>1, <1>5, <2>1, <3>1, <3>2 DEF InTime
  <2>4. QED
    BY <2>2, <2>3
<1>6. InTime'
  BY <1>5 DEF InTime
<1>7. QED
  BY <1>2, <1>4, <1>6

LEMMA MissKeeps ==
    ASSUME TInv, NEW m \in Message, TimedMiss(m)
    PROVE  TInv'
<1>1. \A r \in requests : r.phase = "handling" /\ r.msg = m /\ Awaited(r) => HeldUp(r)
  BY LateIsHeldUp DEF TimedMiss
<1>2. QED
  BY <1>1, LeaseEndKeeps DEF TimedMiss

LEMMA BreakKeeps ==
    ASSUME TInv, NEW m \in Message, BreakConnection(m)
    PROVE  TInv'
<1>1. broken' = broken \cup {<<m, lease[m]>>}
  BY DEF BreakConnection
<1>2. \A r \in requests : r.msg = m /\ Awaited(r) => <<r.msg, r.attempt>> \in broken'
  BY <1>1 DEF Awaited
<1>3. QED
  BY <1>1, <1>2, LeaseEndKeeps DEF BreakConnection

LEMMA DeliverKeeps ==
    ASSUME TInv, NEW m \in Message, NEW i \in Instance, TimedDeliver(m, i)
    PROVE  TInv'
<1> DEFINE n == attempts[m] + 1
           q == [msg |-> m, attempt |-> n, at |-> i, phase |-> "waiting"]
<1> USE DEF TInv
<1>1. /\ lease[m] = 0
      /\ attempts' = [attempts EXCEPT ![m] = n]
      /\ lease' = [lease EXCEPT ![m] = n]
      /\ requests' = requests \cup {q}
      /\ waited' = [waited EXCEPT ![m] = 0]
      /\ worked' = worked /\ queued' = queued /\ broken' = broken
  BY DEF TimedDeliver, Deliver, Shape
<1>2. n \in Nat \ {0} /\ n > attempts[m]
  BY DEF Shape
<1>3. q \in [msg : Message, attempt : Nat \ {0}, at : Instance, phase : Phase]
  BY <1>2 DEF Phase
<1>4. q.msg = m /\ q.attempt = n /\ q.at = i /\ q.phase = "waiting"
  OBVIOUS
<1> HIDE DEF n, q
<1>5. Shape'
  BY <1>1, <1>2, <1>3 DEF Shape
<1>6. ClocksOK'
  BY <1>1 DEF ClocksOK
<1>7. \A o \in Message : /\ attempts'[o] = IF o = m THEN n ELSE attempts[o]
                         /\ lease'[o] = IF o = m THEN n ELSE lease[o]
                         /\ waited'[o] = IF o = m THEN 0 ELSE waited[o]
  BY <1>1 DEF Shape, ClocksOK
<1>8. \A r \in requests : r.msg = m => r.attempt < n
  BY <1>2, RequestShape DEF Numbered, Shape
<1>9. Numbered'
  <2>1. \A o \in Message : lease'[o] \in {0, attempts'[o]}
    BY <1>7 DEF Numbered
  <2>2. \A r \in requests' : r.attempt <= attempts'[r.msg]
    BY <1>1, <1>2, <1>4, <1>7, <1>8, RequestShape DEF Numbered
  <2>3. \A p, r \in requests' : p.msg = r.msg /\ p.attempt = r.attempt => p = r
    BY <1>1, <1>2, <1>4, <1>8, RequestShape DEF Numbered
  <2>4. QED
    BY <2>1, <2>2, <2>3 DEF Numbered
<1>10. OneHandler'
  BY <1>1, <1>4 DEF OneHandler
<1>11. ASSUME NEW r \in requests', r.phase = "handling"
       PROVE  /\ Awaited(r)' => waited'[r.msg] <= queued'[r.at] + worked'[r.at]
              /\ ~Awaited(r)' => Excused(r)'
  <2>1. r \in requests /\ r.msg \in Message /\ r.attempt \in Nat \ {0}
    BY <1>1, <1>4, <1>11, RequestShape
  <2>2. Awaited(r)' <=> Awaited(r)
    BY <1>1, <1>2, <1>7, <1>8, <2>1 DEF Awaited
  <2>3. Awaited(r) => r.msg # m
    BY <1>1, <2>1 DEF Awaited
  <2>4. Excused(r)' <=> Excused(r)
    BY <1>1 DEF Excused, HeldUp
  <2>5. QED
    BY <1>1, <1>7, <1>11, <2>1, <2>2, <2>3, <2>4 DEF InTime
<1>12. InTime'
  BY <1>11 DEF InTime
<1>13. QED
  BY <1>5, <1>6, <1>9, <1>10, <1>12
-----------------------------------------------------------------------------
(* What a step of the route does to the clocks of its instance. *)
LEMMA RouteClocks ==
    ASSUME TInv, NEW r \in requests, TimedRoute(r)
    PROVE  /\ ClocksOK' /\ broken' = broken /\ waited' = waited
           /\ worked'[r.at] = 0
           /\ \A i \in Instance : i # r.at => worked'[i] = worked[i] /\ queued'[i] = queued[i]
<1> DEFINE age == IF Busy(r.at)' THEN Age(r) ELSE 0
<1> USE DEF TInv
<1>1. /\ worked' = [worked EXCEPT ![r.at] = 0] /\ waited' = waited /\ broken' = broken
      /\ queued' = [queued EXCEPT ![r.at] = age]
  BY DEF TimedRoute
<1>2. age \in Nat
  BY DeadlineAssumption, RequestShape DEF Age, ClocksOK
<1> HIDE DEF age
<1>3. 0 \in 0 .. WorstCase /\ r.at \in Instance
  BY DeadlineAssumption, RequestShape
<1>4. QED
  BY <1>1, <1>2, <1>3 DEF ClocksOK

(* A step of the route is on a free instance or of the handled request:    *)
(* handlers elsewhere go on.                                               *)
LEMMA OthersElsewhere ==
    ASSUME TInv, NEW r \in requests, Route(r), NEW p \in requests, p # r, p.phase = "handling"
    PROVE  p.at # r.at
<1>1. CASE Resumes(r)
  BY <1>1 DEF Resumes, Busy
<1>2. CASE ~Resumes(r)
  <2>1. r.phase = "handling"
    BY <1>2 DEF Route, RefuseUnauthenticated, DropUnparseable, AckDuplicate, StartHandling,
                HandlerReturns, HandlerGivesUp, HandlerFails
  <2>2. QED
    BY <2>1 DEF TInv, OneHandler
<1>3. QED
  BY <1>1, <1>2

LEMMA AnswerKeeps ==
    ASSUME TInv, NEW r \in requests, TimedRoute(r), NEW state, Answered(r, state)
    PROVE  TInv'
<1> USE DEF TInv
<1>1. /\ requests' = requests \ {r} /\ attempts' = attempts
      /\ lease' = IF Awaited(r) THEN [lease EXCEPT ![r.msg] = 0] ELSE lease
  BY DEF Answered, Awaited
<1>2. r.msg \in Message /\ r.attempt \in Nat \ {0} /\ r.at \in Instance
  BY RequestShape
<1>3. \A m \in Message : lease'[m] = IF Awaited(r) /\ m = r.msg THEN 0 ELSE lease[m]
  BY <1>1 DEF Shape
<1>4. Shape'
  BY <1>1 DEF Shape
<1>5. ClocksOK' /\ waited' = waited /\ broken' = broken
  BY RouteClocks
<1>6. Numbered'
  BY <1>1, <1>3 DEF Numbered
<1>7. OneHandler'
  BY <1>1 DEF OneHandler
<1>8. ASSUME NEW p \in requests', p.phase = "handling"
      PROVE  /\ Awaited(p)' => waited'[p.msg] <= queued'[p.at] + worked'[p.at]
             /\ ~Awaited(p)' => Excused(p)'
  <2>1. p \in requests /\ p # r /\ p.msg \in Message /\ p.at \in Instance /\ p.attempt # 0
    BY <1>1, RequestShape
  <2>2. p.at # r.at
    BY <1>8, <2>1, OthersElsewhere DEF TimedRoute
  <2>3. worked'[p.at] = worked[p.at] /\ queued'[p.at] = queued[p.at]
    BY <2>1, <2>2, RouteClocks
  <2>4. Awaited(p)' <=> Awaited(p)
    BY <1>3, <2>1 DEF Awaited, Numbered
  <2>5. Excused(p)' <=> Excused(p)
    BY <1>5, <2>3 DEF Excused, HeldUp
  <2>6. QED
    BY <1>5, <1>8, <2>1, <2>3, <2>4, <2>5 DEF InTime
<1>9. InTime'
  BY <1>8 DEF InTime
<1>10. QED
  BY <1>4, <1>5, <1>6, <1>7, <1>9

LEMMA StartKeeps ==
    ASSUME TInv, NEW r \in requests, TimedRoute(r), StartHandling(r)
    PROVE  TInv'
<1> DEFINE q == [r EXCEPT !.phase = "handling"]
<1> USE DEF TInv
<1>1. /\ requests' = (requests \ {r}) \cup {q}
      /\ r.phase = "waiting" /\ attempts' = attempts /\ lease' = lease
  BY DEF StartHandling, Resumes, delivery
<1>2. /\ q \in [msg : Message, attempt : Nat \ {0}, at : Instance, phase : Phase]
      /\ q.msg = r.msg /\ q.at = r.at /\ q.attempt = r.attempt /\ q.phase = "handling"
  BY DEF Shape, Phase
<1> HIDE DEF q
<1>3. Shape'
  BY <1>1, <1>2 DEF Shape
<1>4. ClocksOK' /\ waited' = waited /\ broken' = broken /\ worked'[r.at] = 0
  BY RouteClocks
<1>5. Numbered'
  BY <1>1, <1>2 DEF Numbered
<1>6. \A p \in requests : p # r /\ p.phase = "handling" => p.at # r.at
  BY OthersElsewhere DEF TimedRoute
<1>7. OneHandler'
  BY <1>1, <1>2, <1>6 DEF OneHandler
<1>8. queued'[r.at] = Age(r)
  <2>1. Busy(r.at)'
    BY <1>1, <1>2 DEF Busy
  <2>2. QED
    BY <2>1, RequestShape DEF TimedRoute, ClocksOK
<1>9. /\ Awaited(q)' => waited'[q.msg] <= queued'[q.at] + worked'[q.at]
      /\ ~Awaited(q)' => Excused(q)'
  <2>1. Awaited(q)' <=> Awaited(r)
    BY <1>1, <1>2 DEF Awaited
  <2>2. CASE Awaited(r)
    <3>1. queued'[q.at] = waited'[q.msg] /\ worked'[q.at] = 0 /\ waited'[q.msg] \in Nat
      BY <1>2, <1>4, <1>8, <2>2, RequestShape DEF Age, Awaited, ClocksOK
    <3>2. QED
      BY <2>1, <2>2, <3>1
  <2>3. CASE ~Awaited(r)
    <3>1. queued'[q.at] >= AckDeadline - WorstCase
      BY <1>2, <1>8, <2>3, DeadlineAssumption DEF Age, Awaited
    <3>2. QED
      BY <2>1, <2>3, <3>1 DEF Excused, HeldUp
  <2>4. QED
    BY <2>2, <2>3
<1>10. ASSUME NEW p \in requests, p # r, p.phase = "handling"
       PROVE  /\ Awaited(p)' => waited'[p.msg] <= queued'[p.at] + worked'[p.at]
              /\ ~Awaited(p)' => Excused(p)'
  <2>1. worked'[p.at] = worked[p.at] /\ queued'[p.at] = queued[p.at]
    BY <1>6, <1>10, RouteClocks, RequestShape
  <2>2. (Awaited(p)' <=> Awaited(p)) /\ (Excused(p)' <=> Excused(p))
    BY <1>1, <1>4, <2>1 DEF Awaited, Excused, HeldUp
  <2>3. QED
    BY <1>4, <1>10, <2>1, <2>2 DEF InTime
<1>11. InTime'
  BY <1>1, <1>9, <1>10 DEF InTime
<1>12. QED
  BY <1>3, <1>4, <1>5, <1>7, <1>11

LEMMA RouteKeeps ==
    ASSUME TInv, NEW r \in requests, TimedRoute(r)
    PROVE  TInv'
<1>1. Route(r)
  BY DEF TimedRoute
<1>2. CASE StartHandling(r)
  BY <1>2, StartKeeps
<1>3. CASE ~StartHandling(r)
  <2>1. Acks(r) \/ Nacks(r)
    BY <1>1, <1>3 DEF Route, RefuseUnauthenticated, DropUnparseable, AckDuplicate,
                      HandlerReturns, HandlerGivesUp, HandlerFails
  <2>2. QED
    BY <2>1, AnswerKeeps DEF Acks, Nacks
<1>4. QED
  BY <1>2, <1>3

LEMMA CrashKeeps ==
    ASSUME TInv, NEW i \in Instance, TimedCrash(i)
    PROVE  TInv'
<1> USE DEF TInv
<1>1. /\ requests' = {r \in requests : r.at # i}
      /\ attempts' = attempts /\ lease' = lease /\ broken' = broken
      /\ worked' = [worked EXCEPT ![i] = 0] /\ waited' = waited
      /\ queued' = [queued EXCEPT ![i] = 0]
  BY DEF TimedCrash, Crash, delivery
<1>2. Shape' /\ Numbered' /\ OneHandler'
  BY <1>1 DEF Shape, Numbered, OneHandler
<1>3. 0 \in 0 .. WorstCase
  BY DeadlineAssumption
<1>4. ClocksOK'
  BY <1>1, <1>3 DEF ClocksOK
<1>5. \A j \in Instance : j # i => worked'[j] = worked[j] /\ queued'[j] = queued[j]
  BY <1>1 DEF ClocksOK
<1>6. InTime'
  BY <1>1, <1>5, RequestShape DEF InTime, Awaited, Excused, HeldUp
<1>7. QED
  BY <1>2, <1>4, <1>6

(* While a request is handled its own clock runs with that of its          *)
(* deadline.                                                               *)
LEMMA TickKeeps ==
    ASSUME TInv, Tick
    PROVE  TInv'
<1> USE DEF TInv
<1>1. /\ ~Due
      /\ waited' = [m \in Message |-> waited[m] + IF lease[m] # 0 THEN 1 ELSE 0]
      /\ worked' = [i \in Instance |-> worked[i] + IF Busy(i) THEN 1 ELSE 0]
      /\ attempts' = attempts /\ lease' = lease /\ requests' = requests
      /\ queued' = queued /\ broken' = broken
  BY DEF Tick, vars, delivery
<1>2. Shape' /\ Numbered' /\ OneHandler'
  BY <1>1 DEF Shape, Numbered, OneHandler
<1>3. ASSUME NEW i \in Instance
      PROVE  worked'[i] \in 0 .. WorstCase
  BY <1>1, DeadlineAssumption DEF Due, ClocksOK
<1>4. ClocksOK'
  BY <1>1, <1>3 DEF ClocksOK
<1>5. ASSUME NEW r \in requests, r.phase = "handling"
      PROVE  /\ Awaited(r)' => waited'[r.msg] <= queued'[r.at] + worked'[r.at]
             /\ ~Awaited(r)' => Excused(r)'
  <2>1. Busy(r.at)
    BY <1>5 DEF Busy
  <2>2. /\ worked'[r.at] = worked[r.at] + 1 /\ waited'[r.msg] <= waited[r.msg] + 1
        /\ worked[r.at] \in Nat /\ waited[r.msg] \in Nat /\ waited'[r.msg] \in Nat
        /\ queued[r.at] \in Nat
    BY <1>1, <2>1, RequestShape DEF ClocksOK
  <2>3. (Awaited(r)' <=> Awaited(r)) /\ (Excused(r)' <=> Excused(r))
    BY <1>1 DEF Awaited, Excused, HeldUp
  <2>4. /\ Awaited(r) => waited[r.msg] <= queued[r.at] + worked[r.at]
        /\ ~Awaited(r) => Excused(r)
    BY <1>5 DEF InTime
  <2>5. QED
    BY <1>1, <2>2, <2>3, <2>4
<1>6. InTime'
  BY <1>1, <1>5 DEF InTime
<1>7. QED
  BY <1>2, <1>4, <1>6

LEMMA NextTInv == TInv /\ [TimedNext]_timedVars => TInv'
<1> SUFFICES ASSUME TInv, [TimedNext]_timedVars PROVE TInv'
  OBVIOUS
<1>1. ASSUME UNCHANGED <<attempts, lease, requests, clocks, broken>>
      PROVE  TInv'
  BY <1>1 DEF clocks, TInv, Shape, ClocksOK, Numbered, OneHandler, InTime, Awaited, Excused,
              HeldUp
<1>2. CASE UNCHANGED timedVars
  BY <1>1, <1>2 DEF timedVars, vars, delivery
<1>3. ASSUME NEW m \in Message, Publish(m) \/ DeadLetter(m), UNCHANGED <<clocks, broken>>
      PROVE  TInv'
  BY <1>1, <1>3 DEF Publish, DeadLetter
<1>4. ASSUME NEW s \in Store, ClaimExpires(s), UNCHANGED <<clocks, broken>>
      PROVE  TInv'
  BY <1>1, <1>4 DEF ClaimExpires, delivery
<1>5. QED
  BY <1>2, <1>3, <1>4, MissKeeps, BreakKeeps, DeliverKeeps, RouteKeeps, CrashKeeps, TickKeeps
     DEF TimedNext
-----------------------------------------------------------------------------
(* "Above the handler's WORST case": an attempt that misses its deadline   *)
(* while it is handled spent in its instance's queue what the handler      *)
(* leaves of the deadline, with any number of requests per instance.       *)
THEOREM MissedInQueue == TimedSpec => []MissedInTheQueue
<1>1. TInv => MissedInTheQueue
  BY LateIsHeldUp DEF MissedInTheQueue, Awaited
<1>2. QED
  BY InitTInv, NextTInv, <1>1, PTL DEF TimedSpec

(* Nobody awaits an attempt once a later one was made, so of two requests  *)
(* handled for one message the earlier is excused by its queue or its      *)
(* connection.                                                             *)
THEOREM OverlapsAreExplained == TimedSpec => []OverlapHasACause
<1>1. ASSUME TInv, NEW q \in requests, NEW r \in requests,
             q.msg = r.msg, q # r, q.attempt <= r.attempt, q.phase = "handling"
      PROVE  Excused(q)
  <2>1. q.attempt # r.attempt
    BY <1>1 DEF TInv, Numbered
  <2>2. /\ q.msg \in Message /\ q.attempt \in Nat \ {0} /\ r.attempt \in Nat
        /\ r.attempt <= attempts[q.msg] /\ attempts[q.msg] \in Nat
    BY <1>1, RequestShape DEF TInv, Numbered, Shape
  <2>3. ~Awaited(q)
    BY <1>1, <2>1, <2>2 DEF TInv, Numbered, Awaited
  <2>4. QED
    BY <1>1, <2>3 DEF TInv, InTime
<1>2. TInv => OverlapHasACause
  BY <1>1 DEF OverlapHasACause, Excused
<1>3. QED
  BY InitTInv, NextTInv, <1>2, PTL DEF TimedSpec
=============================================================================
