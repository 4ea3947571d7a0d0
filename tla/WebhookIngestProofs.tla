------------------------- MODULE WebhookIngestProofs -------------------------
(***************************************************************************)
(* The safety promises of the ingest route, for any number of requests,    *)
(* instances and attempts.                                                 *)
(*                                                                         *)
(* A confirmed message stays stored because an answered delivery makes no  *)
(* further attempt (AnsweredOnce), and a 503 has seen every attempt        *)
(* because attempts are made in order (AttemptsInOrder).                   *)
(***************************************************************************)
EXTENDS WebhookIngest, TLAPS

AnsweredOnce == \A d \in Delivery : answer[d] # 0 => phase[d] = "answered"

AcceptedOnly ==
    \A d \in Delivery : phase[d] \in {"publishing", "backoff"} => faults[d] = {}

AttemptsInOrder ==
    \A d \in Delivery :
        /\ phase[d] = "publishing" => attempt[d] \in Attempt
        /\ phase[d] \in {"unsent", "received", "backoff"} => attempt[d] < Attempts
        /\ answer[d] = 503 => attempt[d] = Attempts
        /\ \A k \in Attempt : k <= attempt[d] => rpc[d][k] # "unsent"

IInv == /\ TypeOK /\ AnsweredOnce /\ AcceptedOnly /\ AttemptsInOrder
        /\ PromiseKept /\ OnlyAcceptedIsQueued
-----------------------------------------------------------------------------
(* The checks cover every fault: a request that passes them has none. *)
LEMMA ChecksCoverFaults ==
    ASSUME TypeOK, NEW d \in Delivery, Failed(d) = {}
    PROVE  faults[d] = {}
<1>1. SUFFICES ASSUME NEW f \in faults[d] PROVE FALSE
  OBVIOUS
<1>2. f \in {"declared", "size", "key", "media", "json"}
  BY DEF TypeOK, Fault
<1>3. /\ DOMAIN Checks = 1 .. 5
      /\ Checks[1].fault = "declared" /\ Checks[2].fault = "size"
      /\ Checks[3].fault = "key" /\ Checks[4].fault = "media"
      /\ Checks[5].fault = "json"
  BY DEF Checks, Check
<1>4. \E k \in DOMAIN Checks : Checks[k].fault = f
  BY <1>2, <1>3
<1>5. QED
  BY <1>4 DEF Failed

(* A refusal has a refusal's status. *)
LEMMA RefusalStatus ==
    ASSUME NEW d \in Delivery, Failed(d) # {}
    PROVE  Checks[Min(Failed(d))].status \in {400, 401, 413, 415}
<1>1. /\ DOMAIN Checks = 1 .. 5
      /\ Checks[1].status = 413 /\ Checks[2].status = 413
      /\ Checks[3].status = 401 /\ Checks[4].status = 415
      /\ Checks[5].status = 400
  BY DEF Checks, Check
<1> DEFINE F == Failed(d)
<1>2. F \subseteq {1, 2, 3, 4, 5} /\ F # {}
  BY <1>1 DEF Failed
<1> HIDE DEF F
<1>3. \E x \in F : \A y \in F : x <= y
  <2>1. CASE 1 \in F
    BY <1>2, <2>1
  <2>2. CASE 1 \notin F /\ 2 \in F
    BY <1>2, <2>2
  <2>3. CASE 1 \notin F /\ 2 \notin F /\ 3 \in F
    BY <1>2, <2>3
  <2>4. CASE 1 \notin F /\ 2 \notin F /\ 3 \notin F /\ 4 \in F
    BY <1>2, <2>4
  <2>5. CASE F = {5}
    BY <2>5
  <2>6. QED
    BY <1>2, <2>1, <2>2, <2>3, <2>4, <2>5
<1>4. Min(F) \in F
  BY <1>3 DEF Min
<1>5. Min(F) \in {1, 2, 3, 4, 5}
  BY <1>2, <1>4
<1>6. QED
  BY <1>1, <1>5 DEF F

LEMMA InitEstablishesIInv == Init => IInv
<1> SUFFICES ASSUME Init PROVE IInv
  OBVIOUS
<1>1. TypeOK
  BY AttemptsAssumption, CrashAssumption
     DEF Init, TypeOK, Phase, RpcState, Status, Attempt
<1>2. AnsweredOnce /\ AcceptedOnly /\ PromiseKept /\ OnlyAcceptedIsQueued
  BY DEF Init, AnsweredOnce, AcceptedOnly, PromiseKept, OnlyAcceptedIsQueued
<1>3. AttemptsInOrder
  BY AttemptsAssumption DEF Init, AttemptsInOrder, Attempt
<1>4. QED
  BY <1>1, <1>2, <1>3 DEF IInv
-----------------------------------------------------------------------------
(* An answer ends the delivery and touches nothing else. *)
LEMMA AnswersKeepsIInv ==
    ASSUME IInv, NEW d \in Delivery, NEW status \in Status,
           Answers(d, status),
           UNCHANGED <<at, faults, attempt, rpc, crashes>>,
           status = 202 => Stored(d) # {},
           status = 503 => attempt[d] = Attempts
    PROVE  IInv'
<1> USE DEF IInv
<1>1. /\ phase' = [phase EXCEPT ![d] = "answered"]
      /\ answer' = [answer EXCEPT ![d] = status]
  BY DEF Answers
<1>2. TypeOK'
  BY <1>1 DEF TypeOK, Phase
<1>3. \A c \in Delivery : /\ answer'[c] = IF c = d THEN status ELSE answer[c]
                          /\ phase'[c] = IF c = d THEN "answered" ELSE phase[c]
  BY <1>1 DEF TypeOK
<1>4. AnsweredOnce'
  BY <1>3 DEF AnsweredOnce
<1>5. AcceptedOnly'
  BY <1>3 DEF AcceptedOnly
<1>6. AttemptsInOrder'
  BY <1>3 DEF AttemptsInOrder
<1>7. PromiseKept'
  BY <1>3 DEF PromiseKept, Stored
<1>8. OnlyAcceptedIsQueued'
  BY DEF OnlyAcceptedIsQueued
<1>9. QED
  BY <1>2, <1>4, <1>5, <1>6, <1>7, <1>8

(* The next attempt is made by an accepted delivery nobody has answered. *)
LEMMA SendKeepsIInv ==
    ASSUME IInv, NEW d \in Delivery, phase[d] \in {"received", "backoff"},
           faults[d] = {}, Send(d), UNCHANGED <<at, faults, answer, crashes>>
    PROVE  IInv'
<1> USE DEF IInv
<1> DEFINE n == attempt[d] + 1
<1>1. attempt[d] \in 0 .. Attempts /\ attempt[d] < Attempts
  BY DEF TypeOK, AttemptsInOrder
<1>2. n \in Attempt /\ n \in 0 .. Attempts
  BY <1>1, AttemptsAssumption DEF Attempt
<1>3. /\ attempt' = [attempt EXCEPT ![d] = n]
      /\ rpc' = [rpc EXCEPT ![d] = [rpc[d] EXCEPT ![n] = "inflight"]]
      /\ phase' = [phase EXCEPT ![d] = "publishing"]
  BY DEF Send, TypeOK
<1>4. answer[d] = 0
  BY DEF AnsweredOnce
<1>5. n = attempt[d] + 1
  OBVIOUS
<1> HIDE DEF n
<1>6. TypeOK'
  BY <1>2, <1>3 DEF TypeOK, Phase, RpcState
<1>7. \A c \in Delivery :
          /\ attempt'[c] = IF c = d THEN n ELSE attempt[c]
          /\ phase'[c] = IF c = d THEN "publishing" ELSE phase[c]
          /\ c # d => rpc'[c] = rpc[c]
          /\ \A k \in Attempt :
                 rpc'[c][k] = IF c = d /\ k = n THEN "inflight" ELSE rpc[c][k]
  BY <1>2, <1>3 DEF TypeOK
<1>8. AnsweredOnce'
  BY <1>4, <1>7 DEF AnsweredOnce
<1>9. AcceptedOnly'
  BY <1>7 DEF AcceptedOnly
<1>10. AttemptsInOrder'
  <2>1. ASSUME NEW c \in Delivery, c # d
        PROVE  /\ phase'[c] = "publishing" => attempt'[c] \in Attempt
               /\ phase'[c] \in {"unsent", "received", "backoff"} => attempt'[c] < Attempts
               /\ answer'[c] = 503 => attempt'[c] = Attempts
               /\ \A k \in Attempt : k <= attempt'[c] => rpc'[c][k] # "unsent"
    BY <1>7, <2>1 DEF AttemptsInOrder
  <2>2. /\ attempt'[d] = n /\ phase'[d] = "publishing" /\ answer'[d] = 0
        /\ \A k \in Attempt : rpc'[d][k] = IF k = n THEN "inflight" ELSE rpc[d][k]
    BY <1>4, <1>7
  <2>3. \A k \in Attempt : k <= n => k = n \/ k <= attempt[d]
    BY <1>1, <1>5 DEF Attempt
  <2>4. \A k \in Attempt : k <= n => rpc'[d][k] # "unsent"
    BY <2>2, <2>3 DEF AttemptsInOrder
  <2>5. QED
    BY <1>2, <2>1, <2>2, <2>4 DEF AttemptsInOrder
<1>11. PromiseKept'
  <2>1. \A c \in Delivery : answer'[c] = 202 => c # d /\ answer[c] = 202
    BY <1>4
  <2>2. QED
    BY <1>7, <2>1 DEF PromiseKept, Stored
<1>12. OnlyAcceptedIsQueued'
  BY <1>7 DEF OnlyAcceptedIsQueued
<1>13. QED
  BY <1>6, <1>8, <1>9, <1>10, <1>11, <1>12

(* A delivery moves to a phase that promises no more than it knows. *)
LEMMA PhaseKeepsIInv ==
    ASSUME IInv, phase' \in [Delivery -> Phase],
           UNCHANGED <<at, faults, attempt, rpc, answer>>, crashes' \in 0 .. MaxCrashes,
           \A d \in Delivery :
               \/ phase'[d] = phase[d]
               \/ /\ phase[d] # "answered"
                  /\ \/ phase'[d] = "gone"
                     \/ phase'[d] = "received" /\ attempt[d] < Attempts
                     \/ phase'[d] = "backoff" /\ attempt[d] < Attempts /\ faults[d] = {}
    PROVE  IInv'
<1> USE DEF IInv
<1>1. TypeOK'
  BY DEF TypeOK
<1>2. AnsweredOnce'
  BY DEF AnsweredOnce
<1>3. AcceptedOnly'
  BY DEF AcceptedOnly
<1>4. AttemptsInOrder'
  BY DEF AttemptsInOrder
<1>5. PromiseKept' /\ OnlyAcceptedIsQueued'
  BY DEF PromiseKept, Stored, OnlyAcceptedIsQueued
<1>6. QED
  BY <1>1, <1>2, <1>3, <1>4, <1>5

LEMMA SettleKeepsIInv ==
    ASSUME IInv, NEW d \in Delivery, NEW k \in Attempt, Settle(d, k)
    PROVE  IInv'
<1> USE DEF IInv
<1>1. PICK fate \in {"stored", "dropped"} : rpc' = [rpc EXCEPT ![d][k] = fate]
  BY DEF Settle
<1>2. /\ rpc[d][k] = "inflight" /\ UNCHANGED <<phase, at, faults, attempt, answer, crashes>>
      /\ rpc' = [rpc EXCEPT ![d] = [rpc[d] EXCEPT ![k] = fate]]
  BY <1>1 DEF Settle, TypeOK
<1>3. TypeOK'
  BY <1>2 DEF TypeOK, RpcState
<1>4. \A c \in Delivery, j \in Attempt :
          rpc'[c][j] = IF c = d /\ j = k THEN fate ELSE rpc[c][j]
  BY <1>2 DEF TypeOK
<1>5. AnsweredOnce' /\ AcceptedOnly'
  BY <1>2 DEF AnsweredOnce, AcceptedOnly
<1>6. AttemptsInOrder'
  BY <1>2, <1>4 DEF AttemptsInOrder
<1>7. \A c \in Delivery : Stored(c) # {} => Stored(c)' # {}
  BY <1>2, <1>4 DEF Stored
<1>8. PromiseKept'
  BY <1>2, <1>7 DEF PromiseKept
<1>9. OnlyAcceptedIsQueued'
  BY <1>2, <1>4 DEF OnlyAcceptedIsQueued
<1>10. QED
  BY <1>3, <1>5, <1>6, <1>8, <1>9

LEMMA RouteKeepsIInv ==
    ASSUME IInv, NEW d \in Delivery, Route(d) \/ UnexpectedError(d)
    PROVE  IInv'
<1> USE DEF IInv
<1>1. {400, 401, 413, 415, 202, 500, 503} \subseteq Status
  BY DEF Status
<1>2. phase \in [Delivery -> Phase] /\ crashes \in 0 .. MaxCrashes
      /\ attempt[d] \in 0 .. Attempts
  BY DEF TypeOK
<1>3. CASE Refuse(d)
  <2>1. Failed(d) # {} /\ Answers(d, Checks[Min(Failed(d))].status)
        /\ UNCHANGED <<at, faults, attempt, rpc, crashes>>
    BY <1>3 DEF Refuse
  <2>2. PICK s \in {400, 401, 413, 415} : Answers(d, s)
    BY <2>1, RefusalStatus
  <2>3. s \in Status /\ s # 202 /\ s # 503
    BY <1>1
  <2>4. QED
    BY <2>1, <2>2, <2>3, AnswersKeepsIInv
<1>4. CASE BeginPublish(d)
  <2>1. faults[d] = {}
    BY <1>4, ChecksCoverFaults DEF BeginPublish
  <2>2. QED
    BY <1>4, <2>1, SendKeepsIInv DEF BeginPublish
<1>5. CASE Acknowledge(d)
  <2>1. phase[d] = "publishing" /\ rpc[d][attempt[d]] = "stored"
        /\ Answers(d, 202) /\ UNCHANGED <<at, faults, attempt, rpc, crashes>>
    BY <1>5 DEF Acknowledge, Confirmed
  <2>2. attempt[d] \in Attempt
    BY <2>1 DEF AttemptsInOrder
  <2>3. Stored(d) # {}
    BY <2>1, <2>2 DEF Stored
  <2>4. QED
    BY <1>1, <2>1, <2>3, AnswersKeepsIInv
<1>6. CASE BackOff(d)
  <2>1. /\ phase[d] = "publishing" /\ attempt[d] < Attempts
        /\ phase' = [phase EXCEPT ![d] = "backoff"]
        /\ UNCHANGED <<at, faults, attempt, rpc, answer, crashes>>
    BY <1>6 DEF BackOff, AttemptFails, AttemptsLeft
  <2>2. faults[d] = {}
    BY <2>1 DEF AcceptedOnly
  <2>3. phase' \in [Delivery -> Phase]
    BY <1>2, <2>1 DEF Phase
  <2>4. \A c \in Delivery : phase'[c] = IF c = d THEN "backoff" ELSE phase[c]
    BY <1>2, <2>1
  <2>5. QED
    BY <1>2, <2>1, <2>2, <2>3, <2>4, PhaseKeepsIInv
<1>7. CASE Retry(d)
  <2>1. faults[d] = {}
    BY <1>7 DEF Retry, AcceptedOnly
  <2>2. QED
    BY <1>7, <2>1, SendKeepsIInv DEF Retry
<1>8. CASE GiveUp(d)
  <2>1. /\ ~(attempt[d] < Attempts)
        /\ Answers(d, 503) /\ UNCHANGED <<at, faults, attempt, rpc, crashes>>
    BY <1>8 DEF GiveUp, AttemptsLeft
  <2>2. attempt[d] = Attempts
    BY <1>2, <2>1, AttemptsAssumption
  <2>3. QED
    BY <1>1, <2>1, <2>2, AnswersKeepsIInv
<1>9. CASE UnexpectedError(d)
  BY <1>1, <1>9, AnswersKeepsIInv DEF UnexpectedError
<1>10. QED
  BY <1>3, <1>4, <1>5, <1>6, <1>7, <1>8, <1>9 DEF Route

LEMMA NextPreservesIInv == IInv /\ [Next]_vars => IInv'
<1> SUFFICES ASSUME IInv, [Next]_vars PROVE IInv'
  OBVIOUS
<1>1. /\ phase \in [Delivery -> Phase] /\ crashes \in 0 .. MaxCrashes
  BY DEF IInv, TypeOK
<1>2. ASSUME NEW d \in Delivery, Receive(d)
      PROVE  IInv'
  <2>1. /\ phase[d] = "unsent" /\ phase' = [phase EXCEPT ![d] = "received"]
        /\ UNCHANGED <<at, faults, attempt, rpc, answer, crashes>>
    BY <1>2 DEF Receive
  <2>2. attempt[d] < Attempts
    BY <2>1 DEF IInv, AttemptsInOrder
  <2>3. \A c \in Delivery : phase'[c] = IF c = d THEN "received" ELSE phase[c]
    BY <1>1, <2>1
  <2>4. phase' \in [Delivery -> Phase]
    BY <1>1, <2>1 DEF Phase
  <2>5. QED
    BY <1>1, <2>1, <2>2, <2>3, <2>4, PhaseKeepsIInv
<1>3. ASSUME NEW d \in Delivery, Disconnect(d)
      PROVE  IInv'
  <2>1. /\ phase[d] = "received" /\ phase' = [phase EXCEPT ![d] = "gone"]
        /\ UNCHANGED <<at, faults, attempt, rpc, answer, crashes>>
    BY <1>3 DEF Disconnect
  <2>2. \A c \in Delivery : phase'[c] = IF c = d THEN "gone" ELSE phase[c]
    BY <1>1, <2>1
  <2>3. phase' \in [Delivery -> Phase]
    BY <1>1, <2>1 DEF Phase
  <2>4. QED
    BY <1>1, <2>1, <2>2, <2>3, PhaseKeepsIInv
<1>4. ASSUME NEW i \in Instance, Crash(i)
      PROVE  IInv'
  <2>1. /\ UNCHANGED <<at, faults, attempt, rpc, answer>>
        /\ crashes < MaxCrashes /\ crashes' = crashes + 1
        /\ phase' = [d \in Delivery |->
                IF at[d] = i /\ phase[d] \in {"received", "publishing", "backoff"}
                THEN "gone" ELSE phase[d]]
    BY <1>4 DEF Crash
  <2>2. crashes' \in 0 .. MaxCrashes
    BY <1>1, <2>1, CrashAssumption
  <2>3. phase' \in [Delivery -> Phase]
    BY <1>1, <2>1 DEF Phase
  <2>4. \A d \in Delivery : \/ phase'[d] = phase[d]
                            \/ phase[d] # "answered" /\ phase'[d] = "gone"
    BY <2>1
  <2>5. QED
    BY <2>1, <2>2, <2>3, <2>4, PhaseKeepsIInv
<1>5. ASSUME UNCHANGED vars
      PROVE  IInv'
  BY <1>5 DEF vars, IInv, TypeOK, AnsweredOnce, AcceptedOnly, AttemptsInOrder,
              PromiseKept, OnlyAcceptedIsQueued, Stored
<1>6. QED
  BY <1>2, <1>3, <1>4, <1>5, RouteKeepsIInv, SettleKeepsIInv DEF Next, Step

(* Every variable keeps its type. *)
THEOREM TypeCorrect == Spec => []TypeOK
<1>1. IInv => TypeOK
  BY DEF IInv
<1>2. QED
  BY InitEstablishesIInv, NextPreservesIInv, <1>1, PTL DEF Spec

(* A 202 is sent only for an event of which a copy is stored, whatever the *)
(* calls reported and however many attempts are configured.                *)
THEOREM AcknowledgedIsStored == Spec => []PromiseKept
<1>1. IInv => PromiseKept
  BY DEF IInv
<1>2. QED
  BY InitEstablishesIInv, NextPreservesIInv, <1>1, PTL DEF Spec

(* No request that fails a check ever reaches the topic. *)
THEOREM RejectedIsNeverQueued == Spec => []OnlyAcceptedIsQueued
<1>1. IInv => OnlyAcceptedIsQueued
  BY DEF IInv
<1>2. QED
  BY InitEstablishesIInv, NextPreservesIInv, <1>1, PTL DEF Spec

(* A 503 without a stored copy has seen every attempt made. *)
THEOREM LossSawEveryAttempt == Spec => []LossTakesEveryAttempt
<1>1. ASSUME IInv, NEW d \in Delivery, answer[d] = 503, Stored(d) = {}, NEW k \in Attempt
      PROVE  rpc[d][k] \in {"inflight", "dropped"}
  <2>1. k <= attempt[d]
    BY <1>1, AttemptsAssumption DEF IInv, AttemptsInOrder, Attempt
  <2>2. rpc[d][k] # "unsent" /\ rpc[d][k] # "stored" /\ rpc[d][k] \in RpcState
    BY <1>1, <2>1 DEF IInv, AttemptsInOrder, Stored, TypeOK
  <2>3. QED
    BY <2>2 DEF RpcState
<1>2. IInv => LossTakesEveryAttempt
  BY <1>1 DEF LossTakesEveryAttempt
<1>3. QED
  BY InitEstablishesIInv, NextPreservesIInv, <1>2, PTL DEF Spec
-----------------------------------------------------------------------------
(* What a caller without the key is told is decided by the first checks:   *)
(* for AnonymousLearnsNothing one must know which answer it is.            *)
KeyRefusal(d) == IF faults[d] \cap {"declared", "size"} # {} THEN 413 ELSE 401

KeylessAreRefused ==
    \A d \in Delivery :
        phase[d] = "answered" /\ "key" \in faults[d] => answer[d] = KeyRefusal(d)

(* The key is looked at before the media type and the payload. *)
LEMMA KeylessStatus ==
    ASSUME NEW d \in Delivery, "key" \in faults[d]
    PROVE  /\ Failed(d) # {}
           /\ Checks[Min(Failed(d))].status = KeyRefusal(d)
<1> DEFINE F == Failed(d)
<1>1. /\ DOMAIN Checks = 1 .. 5
      /\ Checks[1] = Check("declared", 413) /\ Checks[2] = Check("size", 413)
      /\ Checks[3] = Check("key", 401)
  BY DEF Checks
<1>2. \A f, n : Check(f, n).fault = f /\ Check(f, n).status = n
  BY DEF Check
<1>3. /\ F \subseteq 1 .. 5
      /\ 1 \in F <=> "declared" \in faults[d]
      /\ 2 \in F <=> "size" \in faults[d]
      /\ 3 \in F
  BY <1>1, <1>2 DEF Failed
<1> HIDE DEF F
<1>4. ASSUME NEW k \in F, \A j \in F : k <= j
      PROVE  Min(F) = k
  <2>1. Min(F) \in F /\ \A j \in F : Min(F) <= j
    BY <1>4 DEF Min
  <2>2. Min(F) <= k /\ k <= Min(F) /\ Min(F) \in 1 .. 5 /\ k \in 1 .. 5
    BY <1>3, <1>4, <2>1
  <2>3. QED
    BY <2>2
<1>5. CASE 1 \in F
  <2>1. Min(F) = 1
    BY <1>3, <1>4, <1>5
  <2>2. QED
    BY <1>1, <1>2, <1>3, <1>5, <2>1 DEF F, KeyRefusal
<1>6. CASE 1 \notin F /\ 2 \in F
  <2>1. Min(F) = 2
    BY <1>3, <1>4, <1>6
  <2>2. QED
    BY <1>1, <1>2, <1>3, <1>6, <2>1 DEF F, KeyRefusal
<1>7. CASE 1 \notin F /\ 2 \notin F
  <2>1. Min(F) = 3
    BY <1>3, <1>4, <1>7
  <2>2. faults[d] \cap {"declared", "size"} = {}
    BY <1>3, <1>7
  <2>3. QED
    BY <1>1, <1>2, <1>3, <2>1, <2>2 DEF F, KeyRefusal
<1>8. QED
  BY <1>5, <1>6, <1>7

LEMMA KeylessStayRefused ==
    IInv /\ KeylessAreRefused /\ [Next]_vars => KeylessAreRefused'
<1> SUFFICES ASSUME IInv, KeylessAreRefused, [Next]_vars,
                    NEW d \in Delivery, phase'[d] = "answered", "key" \in faults'[d]
             PROVE  answer'[d] = KeyRefusal(d)'
  BY DEF KeylessAreRefused
<1>1. /\ phase \in [Delivery -> Phase] /\ answer \in [Delivery -> Status \cup {0}]
      /\ faults[d] # {} => phase[d] \notin {"publishing", "backoff"}
  BY DEF IInv, TypeOK, AcceptedOnly
<1>2. faults' = faults
  BY DEF Next, Step, Receive, Disconnect, Route, UnexpectedError, Crash, Settle, Refuse,
         BeginPublish, Acknowledge, BackOff, Retry, GiveUp, vars
<1>3. "key" \in faults[d] /\ KeyRefusal(d)' = KeyRefusal(d)
  BY <1>2 DEF KeyRefusal
<1>4. CASE phase[d] = "answered" /\ answer'[d] = answer[d]
  BY <1>3, <1>4 DEF KeylessAreRefused
<1>5. CASE Refuse(d)
  <2>1. answer'[d] = Checks[Min(Failed(d))].status
    BY <1>1, <1>5 DEF Refuse, Answers
  <2>2. QED
    BY <1>3, <2>1, KeylessStatus
<1>6. CASE \E c \in Delivery : /\ c # d
                               /\ \/ Refuse(c) \/ Acknowledge(c) \/ GiveUp(c)
                                  \/ UnexpectedError(c)
  <2>1. phase'[d] = phase[d] /\ answer'[d] = answer[d]
    BY <1>1, <1>6 DEF Refuse, Acknowledge, GiveUp, UnexpectedError, Answers
  <2>2. QED
    BY <1>4, <2>1
<1>7. CASE Acknowledge(d) \/ GiveUp(d) \/ UnexpectedError(d)
  <2>1. phase[d] = "publishing"
    BY <1>7 DEF Acknowledge, GiveUp, UnexpectedError, AttemptFails
  <2>2. QED
    BY <1>1, <1>3, <2>1
<1>8. CASE \E c \in Delivery : \/ Receive(c) \/ Disconnect(c) \/ BeginPublish(c)
                               \/ BackOff(c) \/ Retry(c)
  <2>1. PICK c \in Delivery : \/ Receive(c) \/ Disconnect(c) \/ BeginPublish(c)
                              \/ BackOff(c) \/ Retry(c)
    BY <1>8
  <2>2. PICK p \in Phase \ {"answered"} :
            phase' = [phase EXCEPT ![c] = p] /\ answer' = answer
    BY <2>1 DEF Receive, Disconnect, BeginPublish, BackOff, Retry, Send, Phase
  <2>3. phase'[d] = IF d = c THEN p ELSE phase[d]
    BY <1>1, <2>2
  <2>4. QED
    BY <1>4, <2>2, <2>3
<1>9. CASE \E i \in Instance : Crash(i)
  <2>1. phase[d] = "answered" /\ answer' = answer
    BY <1>9 DEF Crash
  <2>2. QED
    BY <1>4, <2>1
<1>10. CASE (\E c \in Delivery, k \in Attempt : Settle(c, k)) \/ UNCHANGED vars
  <2>1. phase' = phase /\ answer' = answer
    BY <1>10 DEF Settle, vars
  <2>2. QED
    BY <1>4, <2>1
<1>11. QED
  BY <1>5, <1>6, <1>7, <1>8, <1>9, <1>10 DEF Next, Step, Route

(* Two callers without the key whose bodies agree in being too large or    *)
(* not are told the same, whatever else is in their requests.              *)
THEOREM KeylessLearnNothing == Spec => []AnonymousLearnsNothing
<1>1. Init => KeylessAreRefused
  BY DEF Init, KeylessAreRefused
<1>2. KeylessAreRefused => AnonymousLearnsNothing
  BY DEF KeylessAreRefused, AnonymousLearnsNothing, KeyRefusal
<1>3. QED
  BY InitEstablishesIInv, NextPreservesIInv, KeylessStayRefused, <1>1, <1>2, PTL DEF Spec
-----------------------------------------------------------------------------
(***************************************************************************)
(* What a step of the service means to whoever watches the topic and the   *)
(* answers: the service itself stores nothing and loses nothing, and gives *)
(* at most one answer, to a request that had none.                         *)
(***************************************************************************)
LaterUnsent == \A d \in Delivery : \A k \in Attempt : k > attempt[d] => rpc[d][k] = "unsent"

OneAnswer ==
    \/ answer' = answer
    \/ \E d \in Delivery, status \in Status :
           /\ answer[d] = 0
           /\ status = 202 => Stored(d) # {}
           /\ answer' = [answer EXCEPT ![d] = status]

NothingStored == \A d \in Delivery : Stored(d)' = Stored(d)

LEMMA LaterUnsentInit == Init => LaterUnsent
  BY DEF Init, LaterUnsent

(* A message that is handed over was not there before. *)
LEMMA SendStoresNothing ==
    ASSUME IInv, LaterUnsent, NEW d \in Delivery, attempt[d] < Attempts, Send(d)
    PROVE  NothingStored /\ LaterUnsent'
<1> DEFINE n == attempt[d] + 1
<1>1. attempt[d] \in 0 .. Attempts /\ n \in Attempt /\ n > attempt[d]
  BY AttemptsAssumption DEF IInv, TypeOK, Attempt
<1>2. attempt' = [attempt EXCEPT ![d] = n]
      /\ rpc' = [rpc EXCEPT ![d] = [rpc[d] EXCEPT ![n] = "inflight"]]
  BY DEF Send, IInv, TypeOK
<1>3. rpc[d][n] = "unsent"
  BY <1>1 DEF LaterUnsent
<1> HIDE DEF n
<1>4. \A c \in Delivery, k \in Attempt :
          rpc'[c][k] = IF c = d /\ k = n THEN "inflight" ELSE rpc[c][k]
  BY <1>1, <1>2 DEF IInv, TypeOK
<1>5. NothingStored
  BY <1>3, <1>4 DEF NothingStored, Stored
<1>6. \A c \in Delivery : attempt'[c] = IF c = d THEN n ELSE attempt[c]
  BY <1>1, <1>2 DEF IInv, TypeOK
<1>7. \A k \in Attempt : k > n => k > attempt[d] /\ k # n
  BY <1>1 DEF n, Attempt
<1>8. QED
  BY <1>4, <1>5, <1>6, <1>7 DEF LaterUnsent

LEMMA SilentStepStoresNothing ==
    ASSUME LaterUnsent, rpc' = rpc, attempt' = attempt
    PROVE  NothingStored /\ LaterUnsent'
  BY DEF LaterUnsent, NothingStored, Stored

LEMMA StepStoresNothing == IInv /\ LaterUnsent /\ Step => NothingStored /\ LaterUnsent'
<1> SUFFICES ASSUME IInv, LaterUnsent, Step PROVE NothingStored /\ LaterUnsent'
  OBVIOUS
<1>1. ASSUME NEW d \in Delivery, BeginPublish(d) \/ Retry(d)
      PROVE  NothingStored /\ LaterUnsent'
  <2>1. Send(d) /\ phase[d] \in {"received", "backoff"}
    BY <1>1 DEF BeginPublish, Retry
  <2>2. attempt[d] < Attempts
    BY <2>1 DEF IInv, AttemptsInOrder
  <2>3. QED
    BY <2>1, <2>2, SendStoresNothing
<1>2. ASSUME \/ \E i \in Instance : Crash(i)
             \/ \E d \in Delivery : \/ Receive(d) \/ Disconnect(d) \/ Refuse(d) \/ Acknowledge(d)
                                    \/ BackOff(d) \/ GiveUp(d) \/ UnexpectedError(d)
      PROVE  rpc' = rpc /\ attempt' = attempt
  BY <1>2 DEF Crash, Receive, Disconnect, Refuse, Acknowledge, BackOff, GiveUp, UnexpectedError
<1>3. QED
  BY <1>1, <1>2, SilentStepStoresNothing DEF Step, Route

LEMMA StepAnswersOnce == IInv /\ Step => OneAnswer
<1> SUFFICES ASSUME IInv, Step PROVE OneAnswer
  OBVIOUS
<1>1. {400, 401, 413, 415, 202, 500, 503} \subseteq Status
  BY DEF Status
<1>2. ASSUME NEW d \in Delivery, NEW status \in Status, Answers(d, status),
             phase[d] # "answered", status = 202 => Stored(d) # {}
      PROVE  OneAnswer
  <2>1. answer[d] = 0
    BY <1>2 DEF IInv, AnsweredOnce
  <2>2. QED
    BY <1>2, <2>1 DEF Answers, OneAnswer
<1>3. ASSUME NEW d \in Delivery, Refuse(d)
      PROVE  OneAnswer
  <2>1. PICK status \in {400, 401, 413, 415} : Answers(d, status)
    BY <1>3, RefusalStatus DEF Refuse
  <2>2. status \in Status /\ status # 202 /\ phase[d] # "answered"
    BY <1>1, <1>3 DEF Refuse
  <2>3. QED
    BY <1>2, <2>1, <2>2
<1>4. ASSUME NEW d \in Delivery, Acknowledge(d)
      PROVE  OneAnswer
  <2>1. Answers(d, 202) /\ phase[d] = "publishing" /\ rpc[d][attempt[d]] = "stored"
    BY <1>4 DEF Acknowledge, Confirmed
  <2>2. attempt[d] \in Attempt
    BY <2>1 DEF IInv, AttemptsInOrder
  <2>3. Stored(d) # {}
    BY <2>1, <2>2 DEF Stored
  <2>4. QED
    BY <1>1, <1>2, <2>1, <2>3
<1>5. ASSUME NEW d \in Delivery, GiveUp(d) \/ UnexpectedError(d)
      PROVE  OneAnswer
  BY <1>1, <1>2, <1>5 DEF GiveUp, UnexpectedError, AttemptFails
<1>6. ASSUME \/ \E i \in Instance : Crash(i)
             \/ \E d \in Delivery : \/ Receive(d) \/ Disconnect(d) \/ BeginPublish(d)
                                    \/ BackOff(d) \/ Retry(d)
      PROVE  OneAnswer
  BY <1>6 DEF Crash, Receive, Disconnect, BeginPublish, BackOff, Retry, OneAnswer
<1>7. QED
  BY <1>3, <1>4, <1>5, <1>6 DEF Step, Route

(* Pub/Sub decides the fate of one message, for good. *)
LEMMA SettleStoresOne ==
    ASSUME IInv, LaterUnsent, NEW d \in Delivery, NEW k \in Attempt, Settle(d, k)
    PROVE  /\ answer' = answer /\ LaterUnsent'
           /\ \A c \in Delivery : c # d => Stored(c)' = Stored(c)
           /\ Stored(d)' = IF rpc'[d][k] = "stored" THEN Stored(d) \cup {k} ELSE Stored(d)
<1>1. PICK fate \in {"stored", "dropped"} : rpc' = [rpc EXCEPT ![d][k] = fate]
  BY DEF Settle
<1>2. /\ rpc[d][k] = "inflight" /\ UNCHANGED <<phase, at, faults, attempt, answer, crashes>>
      /\ rpc' = [rpc EXCEPT ![d] = [rpc[d] EXCEPT ![k] = fate]]
  BY <1>1 DEF Settle, IInv, TypeOK
<1>3. \A c \in Delivery, j \in Attempt :
          rpc'[c][j] = IF c = d /\ j = k THEN fate ELSE rpc[c][j]
  BY <1>2 DEF IInv, TypeOK
<1>4. LaterUnsent'
  BY <1>2, <1>3 DEF LaterUnsent
<1>5. \A c \in Delivery : c # d => Stored(c)' = Stored(c)
  BY <1>3 DEF Stored
<1>6. Stored(d)' = IF fate = "stored" THEN Stored(d) \cup {k} ELSE Stored(d)
  BY <1>2, <1>3 DEF Stored
<1>7. QED
  BY <1>2, <1>3, <1>4, <1>5, <1>6
=============================================================================
