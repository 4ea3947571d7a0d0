-------------------------- MODULE PushDeliveryProofs --------------------------
(***************************************************************************)
(* With the store the processor ships, one per instance and gone with it,  *)
(* no event is lost silently: for any number of messages, events and       *)
(* instances, any attempt limit and any size of store.                     *)
(*                                                                         *)
(* AckedMeansSettled is not inductive: a duplicate is acked because a      *)
(* claim is held, so one must know what a held claim means.  ClaimsMean    *)
(* says it: the event is completed, or is being handled by the very        *)
(* instance that holds the claim.  The second case is what a duplicate     *)
(* never meets, because a busy instance starts no other request; with a    *)
(* store shared by two instances, or surviving a crash, ClaimsMean fails.  *)
(***************************************************************************)
EXTENDS PushDelivery, SeenStoreOpsProofs, FiniteSetTheorems

(* The deployment the code has today: InMemorySeenStore. *)
LocalStores == ~Durable /\ IsInjective(StoreOf)

ClaimedOnce == \A s \in Store : IsInjective(claims[s])

HandledAt(i, e) ==
    \E r \in requests : r.at = i /\ r.phase = "handling" /\ Event(r) = e

ClaimsMean ==
    \A i \in Instance : \A e \in ToSet(claims[StoreOf[i]]) :
        completed[e] > 0 \/ HandledAt(i, e)

IInv == TypeOK /\ ClaimedOnce /\ AckedMeansSettled /\ ClaimsMean
-----------------------------------------------------------------------------
LEMMA InitTypeOK == Init => TypeOK
  BY BoundAssumption DEF Init, TypeOK, SubState, Request

(* Facts about one request that is in flight. *)
LEMMA RequestFacts ==
    ASSUME TypeOK, NEW r \in requests
    PROVE  /\ r.msg \in Message /\ r.at \in Instance /\ r.phase \in Phase
           /\ r.attempt \in 1 .. MaxDeliveryAttempts
           /\ Event(r) \in EventId
           /\ StoreOf[r.at] \in Store
           /\ claims[StoreOf[r.at]] \in Seq(EventId)
  BY EventAssumption, StoreAssumption DEF TypeOK, Request, Event

LEMMA AnsweredType ==
    ASSUME TypeOK, NEW r \in requests, NEW state \in SubState, Answered(r, state)
    PROVE  /\ sub' \in [Message -> SubState]
           /\ attempts' \in [Message -> 0 .. MaxDeliveryAttempts]
           /\ lease' \in [Message -> 0 .. MaxDeliveryAttempts]
           /\ requests' \subseteq Request
<1>1. 0 \in 0 .. MaxDeliveryAttempts
  BY BoundAssumption
<1>2. CASE lease[r.msg] = r.attempt
  <2>1. /\ requests' = requests \ {r} /\ attempts' = attempts
        /\ lease' = [lease EXCEPT ![r.msg] = 0]
        /\ sub' = [sub EXCEPT ![r.msg] = state]
    BY <1>2 DEF Answered
  <2>2. QED
    BY <1>1, <2>1 DEF TypeOK
<1>3. CASE lease[r.msg] # r.attempt
  <2>1. requests' = requests \ {r} /\ attempts' = attempts /\ lease' = lease /\ sub' = sub
    BY <1>3 DEF Answered
  <2>2. QED
    BY <2>1 DEF TypeOK
<1>4. QED
  BY <1>2, <1>3

LEMMA ReleaseClaimFacts ==
    ASSUME TypeOK, ClaimedOnce, NEW r \in requests, ReleaseClaim(r)
    PROVE  /\ claims' \in [Store -> Seq(EventId)]
           /\ ClaimedOnce'
           /\ \A s \in Store : ToSet(claims'[s]) \subseteq ToSet(claims[s])
           /\ Event(r) \notin ToSet(claims'[StoreOf[r.at]])
<1> DEFINE s0 == StoreOf[r.at]
<1>1. s0 \in Store /\ claims \in [Store -> Seq(EventId)]
  BY RequestFacts DEF TypeOK
<1>2. claims' = [claims EXCEPT ![s0] = Released(claims[s0], Event(r))]
  BY DEF ReleaseClaim
<1>3. claims[s0] \in Seq(EventId) /\ IsInjective(claims[s0])
  BY <1>1 DEF ClaimedOnce
<1> HIDE DEF s0
<1>4. /\ Released(claims[s0], Event(r)) \in Seq(EventId)
      /\ IsInjective(Released(claims[s0], Event(r)))
      /\ ToSet(Released(claims[s0], Event(r))) = ToSet(claims[s0]) \ {Event(r)}
  BY <1>3, ReleasedProperties
<1>5. /\ claims'[s0] = Released(claims[s0], Event(r))
      /\ \A s \in Store : s # s0 => claims'[s] = claims[s]
      /\ claims' \in [Store -> Seq(EventId)]
  BY <1>1, <1>2, <1>4
<1>6. ClaimedOnce'
  BY <1>4, <1>5 DEF ClaimedOnce
<1>7. QED
  BY <1>4, <1>5, <1>6 DEF s0

LEMMA ClaimFacts ==
    ASSUME TypeOK, ClaimedOnce, NEW r \in requests, Event(r) \notin Held(r), Claim(r)
    PROVE  /\ claims' \in [Store -> Seq(EventId)]
           /\ lapses' \in [EventId -> Nat]
           /\ ClaimedOnce'
           /\ \A s \in Store : s # StoreOf[r.at] => claims'[s] = claims[s]
           /\ ToSet(claims'[StoreOf[r.at]]) \subseteq Held(r) \cup {Event(r)}
<1> DEFINE s0 == StoreOf[r.at]
           g == Granted(claims[s0], Event(r))
<1>1. /\ s0 \in Store /\ claims \in [Store -> Seq(EventId)]
      /\ claims[s0] \in Seq(EventId) /\ Event(r) \in EventId
  BY RequestFacts DEF TypeOK
<1>2. IsInjective(claims[s0]) /\ Held(r) = ToSet(claims[s0])
  BY <1>1 DEF ClaimedOnce, Held
<1>3. claims' = [claims EXCEPT ![s0] = g]
  BY DEF Claim
<1>4. lapses' \in [EventId -> Nat]
  <2>1. lapses' = [e \in EventId |->
            lapses[e] + IF e \in Surplus(claims[s0], Event(r)) THEN 1 ELSE 0]
    BY DEF Claim
  <2>2. QED
    BY <2>1 DEF TypeOK
<1> HIDE DEF s0
<1>5. /\ g \in Seq(EventId)
      /\ ToSet(g) \subseteq ToSet(claims[s0]) \cup {Event(r)}
      /\ IsInjective(g)
  BY <1>1, <1>2, GrantedProperties
<1> HIDE DEF g
<1>6. /\ claims'[s0] = g
      /\ \A s \in Store : s # s0 => claims'[s] = claims[s]
      /\ claims' \in [Store -> Seq(EventId)]
  BY <1>1, <1>3, <1>5
<1>7. ClaimedOnce'
  BY <1>5, <1>6 DEF ClaimedOnce
<1>8. QED
  BY <1>2, <1>4, <1>5, <1>6, <1>7 DEF s0
-----------------------------------------------------------------------------
(* Steps of the subscription: nothing but delivery state and requests. *)
LEMMA PubSubTypeOK ==
    ASSUME TypeOK, NEW m \in Message,
           Publish(m) \/ MissDeadline(m) \/ DeadLetter(m) \/ \E i \in Instance : Deliver(m, i)
    PROVE  TypeOK'
<1>1. 0 \in 0 .. MaxDeliveryAttempts
  BY BoundAssumption
<1>2. CASE Publish(m)
  BY <1>2 DEF Publish, TypeOK, SubState, outcome, losses
<1>3. CASE MissDeadline(m)
  BY <1>1, <1>3 DEF MissDeadline, TypeOK, outcome, losses
<1>4. CASE DeadLetter(m)
  BY <1>4 DEF DeadLetter, TypeOK, SubState, outcome, losses
<1>5. ASSUME NEW i \in Instance, Deliver(m, i)
      PROVE  TypeOK'
  <2>1. attempts[m] + 1 \in 1 .. MaxDeliveryAttempts
    BY <1>5, BoundAssumption DEF TypeOK, Deliver, Exhausted
  <2> DEFINE n == attempts[m] + 1
             r == [msg |-> m, attempt |-> n, at |-> i, phase |-> "waiting"]
  <2>2. r \in Request
    BY <2>1 DEF Request, Phase
  <2>3. /\ attempts' = [attempts EXCEPT ![m] = n]
        /\ lease' = [lease EXCEPT ![m] = n]
        /\ requests' = requests \cup {r}
        /\ UNCHANGED <<sub, claims, outcome, losses>>
    BY <1>5 DEF Deliver, TypeOK
  <2>4. n \in 0 .. MaxDeliveryAttempts
    BY <2>1, BoundAssumption
  <2> HIDE DEF n, r
  <2>5. QED
    BY <2>2, <2>3, <2>4 DEF TypeOK, outcome, losses
<1>6. QED
  BY <1>2, <1>3, <1>4, <1>5

LEMMA RouteTypeOK ==
    ASSUME TypeOK, ClaimedOnce, NEW r \in requests, Route(r)
    PROVE  TypeOK' /\ ClaimedOnce'
<1> USE DEF outcome, losses
<1>1. "acked" \in SubState /\ "pending" \in SubState
  BY DEF SubState
<1>2. CASE RefuseUnauthenticated(r) \/ DropUnparseable(r) \/ AckDuplicate(r)
  <2>1. (Acks(r) \/ Nacks(r)) /\ UNCHANGED <<claims, outcome, losses>>
    BY <1>2 DEF RefuseUnauthenticated, DropUnparseable, AckDuplicate
  <2>2. PICK state \in SubState : Answered(r, state)
    BY <1>1, <2>1 DEF Acks, Nacks
  <2>3. QED
    BY <2>1, <2>2, AnsweredType DEF TypeOK, ClaimedOnce
<1>3. CASE StartHandling(r)
  <2>1. /\ Event(r) \notin Held(r) /\ Claim(r)
        /\ requests' = (requests \ {r}) \cup {[r EXCEPT !.phase = "handling"]}
        /\ UNCHANGED <<delivery, outcome, expirations, crashes>>
    BY <1>3 DEF StartHandling
  <2>2. [r EXCEPT !.phase = "handling"] \in Request
    BY DEF TypeOK, Request, Phase
  <2>3. requests' \subseteq Request
    BY <2>1, <2>2 DEF TypeOK
  <2>4. QED
    BY <2>1, <2>3, ClaimFacts DEF TypeOK, delivery
<1>4. CASE HandlerReturns(r)
  <2>1. /\ Answered(r, "acked") /\ UNCHANGED <<claims, abandoned, losses>>
        /\ completed' = [completed EXCEPT ![Event(r)] = @ + 1]
    BY <1>4 DEF HandlerReturns, Acks
  <2>2. completed' \in [EventId -> Nat]
    BY <2>1, RequestFacts DEF TypeOK
  <2>3. QED
    BY <1>1, <2>1, <2>2, AnsweredType DEF TypeOK, ClaimedOnce
<1>5. CASE HandlerGivesUp(r)
  <2>1. /\ Answered(r, "acked") /\ ReleaseClaim(r) /\ UNCHANGED <<completed, losses>>
        /\ abandoned' = abandoned \cup {Event(r)}
    BY <1>5 DEF HandlerGivesUp, Acks
  <2>2. abandoned' \subseteq EventId
    BY <2>1, RequestFacts DEF TypeOK
  <2>3. QED
    BY <1>1, <2>1, <2>2, AnsweredType, ReleaseClaimFacts DEF TypeOK
<1>6. CASE HandlerFails(r)
  <2>1. Answered(r, "pending") /\ ReleaseClaim(r) /\ UNCHANGED <<outcome, losses>>
    BY <1>6 DEF HandlerFails, Nacks
  <2>2. QED
    BY <1>1, <2>1, AnsweredType, ReleaseClaimFacts DEF TypeOK
<1>7. QED
  BY <1>2, <1>3, <1>4, <1>5, <1>6 DEF Route

(* A claim lost to its TTL is the first of its store. *)
LEMMA ExpiryFacts ==
    ASSUME TypeOK, ClaimedOnce, NEW s \in Store, ClaimExpires(s)
    PROVE  /\ TypeOK' /\ ClaimedOnce'
           /\ \A t \in Store : ToSet(claims'[t]) \subseteq ToSet(claims[t])
<1>1. /\ claims \in [Store -> Seq(EventId)] /\ claims[s] \in Seq(EventId)
      /\ claims[s] # <<>> /\ IsInjective(claims[s])
      /\ claims' = [claims EXCEPT ![s] = Tail(claims[s])]
  BY DEF TypeOK, ClaimedOnce, ClaimExpires
<1> DEFINE h == claims[s]
           t == Tail(h)
<1> HIDE DEF h
<1>2. /\ Head(h) \in EventId /\ t \in Seq(EventId)
      /\ Len(t) = Len(h) - 1
      /\ \A i \in 1 .. Len(t) : t[i] = h[i + 1]
  BY <1>1, HeadTailProperties DEF h
<1>3. Len(h) \in Nat /\ DOMAIN h = 1 .. Len(h) /\ DOMAIN t = 1 .. Len(t)
  BY <1>1, <1>2, LenProperties DEF h
<1> HIDE DEF t
<1>4. \A i \in DOMAIN t : i + 1 \in DOMAIN h /\ t[i] = h[i + 1]
  BY <1>2, <1>3
<1>5. ToSet(t) \subseteq ToSet(h)
  BY <1>4 DEF ToSet
<1>6. IsInjective(t)
  <2>1. \A i, j \in DOMAIN t : i + 1 = j + 1 => i = j
    BY <1>3
  <2>2. QED
    BY <1>1, <1>4, <2>1 DEF IsInjective, h
<1>7. /\ claims'[s] = t
      /\ \A u \in Store : u # s => claims'[u] = claims[u]
      /\ claims' \in [Store -> Seq(EventId)]
  BY <1>1, <1>2 DEF h, t
<1>8. ClaimedOnce' /\ \A u \in Store : ToSet(claims'[u]) \subseteq ToSet(claims[u])
  BY <1>5, <1>6, <1>7 DEF ClaimedOnce, h
<1>9. TypeOK'
  <2>1. lapses' = [lapses EXCEPT ![Head(h)] = @ + 1]
    BY DEF ClaimExpires, h
  <2>2. lapses' \in [EventId -> Nat]
    BY <1>2, <2>1 DEF TypeOK
  <2>3. expirations' \in 0 .. MaxLapses
    BY BoundAssumption DEF ClaimExpires, TypeOK
  <2>4. QED
    BY <1>7, <2>2, <2>3 DEF ClaimExpires, TypeOK, delivery, outcome
<1>10. QED
  BY <1>8, <1>9

LEMMA CrashFacts ==
    ASSUME LocalStores, TypeOK, ClaimedOnce, NEW i \in Instance, Crash(i)
    PROVE  /\ TypeOK' /\ ClaimedOnce'
           /\ claims'[StoreOf[i]] = <<>>
           /\ \A j \in Instance : j # i => claims'[StoreOf[j]] = claims[StoreOf[j]]
<1>1. /\ claims' = [claims EXCEPT ![StoreOf[i]] = <<>>]
      /\ lapses' = [e \in EventId |->
             lapses[e] + IF e \in ToSet(claims[StoreOf[i]]) THEN 1 ELSE 0]
      /\ requests' \subseteq requests
      /\ crashes' = crashes + 1 /\ crashes < MaxCrashes
      /\ UNCHANGED <<delivery, outcome, expirations>>
  BY DEF Crash, LocalStores
<1>2. StoreOf[i] \in Store /\ <<>> \in Seq(EventId)
  BY StoreAssumption
<1>3. /\ claims'[StoreOf[i]] = <<>>
      /\ \A s \in Store : s # StoreOf[i] => claims'[s] = claims[s]
      /\ claims' \in [Store -> Seq(EventId)]
  BY <1>1, <1>2 DEF TypeOK
<1>4. lapses' \in [EventId -> Nat]
  BY <1>1 DEF TypeOK
<1>5. TypeOK'
  BY <1>1, <1>3, <1>4, BoundAssumption DEF TypeOK, delivery, outcome
<1>6. IsInjective(<<>>)
  BY DEF IsInjective
<1>7. ClaimedOnce'
  BY <1>3, <1>6 DEF ClaimedOnce
<1>8. \A j \in Instance : j # i => StoreOf[j] # StoreOf[i]
  BY StoreAssumption DEF LocalStores, IsInjective
<1>9. QED
  BY <1>3, <1>5, <1>7, <1>8, StoreAssumption
-----------------------------------------------------------------------------
(* An answer settles nothing and unsettles nothing; an acknowledgement is  *)
(* safe when the message it is for is settled.                             *)
LEMMA AckedStaysSettled ==
    ASSUME TypeOK, AckedMeansSettled,
           \A e \in EventId : completed'[e] >= completed[e],
           completed' \in [EventId -> Nat],
           abandoned \subseteq abandoned',
           \A m \in Message : sub'[m] = "acked" => sub[m] = "acked" \/ Settled(m)'
    PROVE  AckedMeansSettled'
<1>1. \A m \in Message : Settled(m) => Settled(m)'
  BY EventAssumption DEF Settled, TypeOK
<1>2. QED
  BY <1>1 DEF AckedMeansSettled

(* Claims that shrink keep their meaning while requests being handled and  *)
(* completions are kept.                                                   *)
LEMMA ClaimsKeepMeaning ==
    ASSUME TypeOK, ClaimsMean,
           \A s \in Store : ToSet(claims'[s]) \subseteq ToSet(claims[s]),
           \A r \in requests : r.phase = "handling" => r \in requests',
           completed' = completed
    PROVE  ClaimsMean'
  BY StoreAssumption DEF ClaimsMean, HandledAt, Event

LEMMA PubSubKeeps ==
    ASSUME TypeOK, AckedMeansSettled, ClaimsMean, NEW m \in Message,
           Publish(m) \/ MissDeadline(m) \/ DeadLetter(m) \/ \E i \in Instance : Deliver(m, i)
    PROVE  AckedMeansSettled' /\ ClaimsMean'
<1>1. /\ requests \subseteq requests' /\ claims' = claims
      /\ completed' = completed /\ abandoned' = abandoned
  BY DEF Publish, MissDeadline, DeadLetter, Deliver, outcome
<1>2. \A n \in Message : sub'[n] = "acked" => sub[n] = "acked"
  BY DEF Publish, MissDeadline, DeadLetter, Deliver, TypeOK
<1>3. AckedMeansSettled'
  BY <1>1, <1>2, AckedStaysSettled DEF TypeOK
<1>4. QED
  BY <1>1, <1>3, ClaimsKeepMeaning

LEMMA RouteKeeps ==
    ASSUME LocalStores, TypeOK, ClaimedOnce, AckedMeansSettled, ClaimsMean,
           NEW r \in requests, Route(r)
    PROVE  AckedMeansSettled' /\ ClaimsMean'
<1> DEFINE i == r.at
           e == Event(r)
           s == StoreOf[i]
<1>1. /\ r.msg \in Message /\ i \in Instance /\ e \in EventId /\ s \in Store
      /\ EventOf[r.msg] = e
  BY RequestFacts DEF Event
<1>2. /\ completed \in [EventId -> Nat]
      /\ \A x \in EventId : completed[x] >= completed[x]
  BY DEF TypeOK
<1>3. \A j \in Instance : StoreOf[j] = s => j = i
  BY <1>1, StoreAssumption DEF LocalStores, IsInjective
<1>4. ASSUME NEW state, Answered(r, state)
      PROVE  /\ requests' = requests \ {r}
             /\ \A m \in Message : sub'[m] = sub[m] \/ (m = r.msg /\ sub'[m] = state)
  BY <1>4 DEF Answered, TypeOK
(* Steps that leave the claims and the outcome alone. *)
<1>5. CASE RefuseUnauthenticated(r)
  <2>1. /\ Answered(r, "pending") /\ r.phase = "waiting"
        /\ claims' = claims /\ completed' = completed /\ abandoned' = abandoned
    BY <1>5 DEF RefuseUnauthenticated, Nacks, Resumes, outcome
  <2>2. AckedMeansSettled'
    BY <1>2, <1>4, <2>1, AckedStaysSettled
  <2>3. ClaimsMean'
    BY <1>4, <2>1, ClaimsKeepMeaning
  <2>4. QED
    BY <2>2, <2>3
<1>6. CASE DropUnparseable(r) \/ AckDuplicate(r)
  <2>1. /\ Answered(r, "acked") /\ r.phase = "waiting"
        /\ claims' = claims /\ completed' = completed /\ abandoned' = abandoned
    BY <1>6 DEF DropUnparseable, AckDuplicate, Acks, Resumes, outcome
  <2>2. Settled(r.msg)
    <3>1. CASE DropUnparseable(r)
      BY <3>1 DEF DropUnparseable, Settled
    <3>2. CASE AckDuplicate(r)
      <4>1. e \in ToSet(claims[s]) /\ ~Busy(i)
        BY <3>2 DEF AckDuplicate, Held, Resumes
      <4>2. ~HandledAt(i, e)
        BY <4>1 DEF Busy, HandledAt
      <4>3. QED
        BY <1>1, <4>1, <4>2 DEF ClaimsMean, Settled
    <3>3. QED
      BY <1>6, <3>1, <3>2
  <2>3. Settled(r.msg)'
    BY <2>1, <2>2 DEF Settled
  <2>4. AckedMeansSettled'
    BY <1>2, <1>4, <2>1, <2>3, AckedStaysSettled
  <2>5. ClaimsMean'
    BY <1>4, <2>1, ClaimsKeepMeaning
  <2>6. QED
    BY <2>4, <2>5
(* The new claim is on an event this instance is now handling. *)
<1>7. CASE StartHandling(r)
  <2> DEFINE q == [r EXCEPT !.phase = "handling"]
  <2>1. /\ requests' = (requests \ {r}) \cup {q}
        /\ e \notin Held(r) /\ Claim(r) /\ r.phase = "waiting"
        /\ sub' = sub /\ completed' = completed /\ abandoned' = abandoned
    BY <1>7 DEF StartHandling, Resumes, delivery, outcome
  <2>2. q.at = i /\ q.phase = "handling" /\ Event(q) = e
    BY DEF TypeOK, Request, Event
  <2> HIDE DEF q
  <2>3. AckedMeansSettled'
    BY <1>2, <2>1, AckedStaysSettled
  <2>4. \A j \in Instance, x \in EventId : HandledAt(j, x) => HandledAt(j, x)'
    BY <2>1 DEF HandledAt, Event
  <2>5. HandledAt(i, e)'
    BY <2>1, <2>2 DEF HandledAt, Event
  <2>6. /\ \A t \in Store : t # s => claims'[t] = claims[t]
        /\ ToSet(claims'[s]) \subseteq ToSet(claims[s]) \cup {e}
    BY <2>1, ClaimFacts DEF Held
  <2>7. \A t \in Store : ToSet(claims[t]) \subseteq EventId
    BY LenProperties, ElementOfSeq DEF TypeOK, ToSet
  <2>8. ASSUME NEW j \in Instance, NEW x \in ToSet(claims'[StoreOf[j]])
        PROVE  completed'[x] > 0 \/ HandledAt(j, x)'
    <3>1. StoreOf[j] \in Store
      BY StoreAssumption
    <3>2. CASE x \in ToSet(claims[StoreOf[j]])
      BY <2>1, <2>4, <2>7, <3>1, <3>2 DEF ClaimsMean
    <3>3. CASE x \notin ToSet(claims[StoreOf[j]])
      <4>1. StoreOf[j] = s /\ x = e
        BY <2>6, <2>8, <3>1, <3>3
      <4>2. QED
        BY <1>3, <2>5, <4>1
    <3>4. QED
      BY <3>2, <3>3
  <2>9. ClaimsMean'
    BY <2>8 DEF ClaimsMean
  <2>10. QED
    BY <2>3, <2>9
(* The claim stands, on an event now completed. *)
<1>8. CASE HandlerReturns(r)
  <2>1. /\ Answered(r, "acked") /\ claims' = claims /\ abandoned' = abandoned
        /\ completed' = [completed EXCEPT ![e] = @ + 1]
    BY <1>8 DEF HandlerReturns, Acks
  <2>2. /\ completed' \in [EventId -> Nat] /\ completed'[e] > 0
        /\ \A x \in EventId : completed'[x] >= completed[x]
    BY <1>1, <1>2, <2>1
  <2>3. Settled(r.msg)'
    BY <1>1, <2>2 DEF Settled
  <2>4. AckedMeansSettled'
    BY <1>4, <2>1, <2>2, <2>3, AckedStaysSettled
  <2>5. \A t \in Store : ToSet(claims[t]) \subseteq EventId
    BY LenProperties, ElementOfSeq DEF TypeOK, ToSet
  <2>6. ASSUME NEW j \in Instance, NEW x \in ToSet(claims[StoreOf[j]])
        PROVE  completed'[x] > 0 \/ HandledAt(j, x)'
    <3>1. x \in EventId
      BY <2>5, StoreAssumption
    <3>2. CASE x = e
      BY <2>2, <3>2
    <3>3. CASE completed[x] > 0
      BY <1>2, <2>2, <3>1, <3>3
    <3>4. CASE x # e /\ HandledAt(j, x)
      BY <1>4, <2>1, <3>4 DEF HandledAt, Event
    <3>5. QED
      BY <3>2, <3>3, <3>4 DEF ClaimsMean
  <2>7. ClaimsMean'
    BY <2>1, <2>6 DEF ClaimsMean
  <2>8. QED
    BY <2>4, <2>7
(* The claim is given back with the request. *)
<1>9. CASE HandlerGivesUp(r) \/ HandlerFails(r)
  <2>1. /\ requests' = requests \ {r} /\ ReleaseClaim(r) /\ completed' = completed
        /\ abandoned \subseteq abandoned'
    BY <1>9 DEF HandlerGivesUp, HandlerFails, Acks, Nacks, Answered, outcome
  <2>2. AckedMeansSettled'
    <3>1. CASE HandlerGivesUp(r)
      <4>1. Answered(r, "acked") /\ e \in abandoned'
        BY <3>1 DEF HandlerGivesUp, Acks
      <4>2. Settled(r.msg)'
        BY <1>1, <4>1 DEF Settled
      <4>3. QED
        BY <1>2, <1>4, <2>1, <4>1, <4>2, AckedStaysSettled
    <3>2. CASE HandlerFails(r)
      BY <1>2, <1>4, <2>1, <3>2, AckedStaysSettled DEF HandlerFails, Nacks
    <3>3. QED
      BY <1>9, <3>1, <3>2
  <2>3. /\ \A t \in Store : ToSet(claims'[t]) \subseteq ToSet(claims[t])
        /\ e \notin ToSet(claims'[s])
    BY <2>1, ReleaseClaimFacts
  <2>4. ASSUME NEW j \in Instance, NEW x \in ToSet(claims'[StoreOf[j]])
        PROVE  completed'[x] > 0 \/ HandledAt(j, x)'
    <3>1. x \in ToSet(claims[StoreOf[j]])
      BY <2>3, <2>4, StoreAssumption
    <3>2. CASE completed[x] > 0
      BY <2>1, <3>2
    <3>3. CASE HandledAt(j, x)
      <4>1. PICK q \in requests : q.at = j /\ q.phase = "handling" /\ Event(q) = x
        BY <3>3 DEF HandledAt
      <4>2. q # r
        BY <2>3, <2>4, <4>1
      <4>3. QED
        BY <2>1, <4>1, <4>2 DEF HandledAt, Event
    <3>4. QED
      BY <3>1, <3>2, <3>3 DEF ClaimsMean
  <2>5. ClaimsMean'
    BY <2>4 DEF ClaimsMean
  <2>6. QED
    BY <2>2, <2>5
<1>10. QED
  BY <1>5, <1>6, <1>7, <1>8, <1>9 DEF Route
-----------------------------------------------------------------------------
LEMMA InitEstablishesIInv == Init => IInv
<1> SUFFICES ASSUME Init PROVE IInv
  OBVIOUS
<1>1. \A s \in Store : claims[s] = <<>>
  BY DEF Init
<1>2. IsInjective(<<>>) /\ ToSet(<<>>) = {}
  BY DEF IsInjective, ToSet
<1>3. ClaimedOnce
  BY <1>1, <1>2 DEF ClaimedOnce
<1>4. ClaimsMean
  BY <1>1, <1>2, StoreAssumption DEF ClaimsMean
<1>5. AckedMeansSettled
  BY DEF Init, AckedMeansSettled
<1>6. QED
  BY InitTypeOK, <1>3, <1>4, <1>5 DEF IInv

LEMMA NextPreservesIInv == ASSUME LocalStores PROVE IInv /\ [Next]_vars => IInv'
<1> SUFFICES ASSUME IInv, [Next]_vars PROVE IInv'
  OBVIOUS
<1> USE DEF IInv
<1>1. ASSUME NEW m \in Message,
             Publish(m) \/ MissDeadline(m) \/ DeadLetter(m)
                \/ \E i \in Instance : Deliver(m, i)
      PROVE  IInv'
  <2>1. claims' = claims
    BY <1>1 DEF Publish, MissDeadline, DeadLetter, Deliver
  <2>2. ClaimedOnce'
    BY <2>1 DEF ClaimedOnce
  <2>3. QED
    BY <1>1, <2>2, PubSubTypeOK, PubSubKeeps
<1>2. ASSUME NEW r \in requests, Route(r)
      PROVE  IInv'
  BY <1>2, RouteTypeOK, RouteKeeps
<1>3. ASSUME NEW s \in Store, ClaimExpires(s)
      PROVE  IInv'
  <2>1. /\ sub' = sub /\ completed' = completed /\ abandoned' = abandoned
        /\ requests' = requests
    BY <1>3 DEF ClaimExpires, delivery, outcome
  <2>2. TypeOK' /\ ClaimedOnce' /\ ClaimsMean'
    BY <1>3, <2>1, ExpiryFacts, ClaimsKeepMeaning
  <2>3. AckedMeansSettled'
    BY <2>1 DEF AckedMeansSettled, Settled
  <2>4. QED
    BY <2>2, <2>3
<1>4. ASSUME NEW i \in Instance, Crash(i)
      PROVE  IInv'
  <2>1. /\ sub' = sub /\ completed' = completed /\ abandoned' = abandoned
        /\ requests' = {r \in requests : r.at # i}
    BY <1>4 DEF Crash, delivery, outcome
  <2>2. AckedMeansSettled'
    BY <2>1 DEF AckedMeansSettled, Settled
  <2>3. /\ TypeOK' /\ ClaimedOnce' /\ claims'[StoreOf[i]] = <<>>
        /\ \A j \in Instance : j # i => claims'[StoreOf[j]] = claims[StoreOf[j]]
    BY <1>4, CrashFacts
  <2>4. \A j \in Instance : \A e : j # i /\ HandledAt(j, e) => HandledAt(j, e)'
    BY <2>1 DEF HandledAt, Event
  <2>5. ToSet(<<>>) = {}
    BY DEF ToSet
  <2>6. ClaimsMean'
    BY <2>1, <2>3, <2>4, <2>5 DEF ClaimsMean
  <2>7. QED
    BY <2>2, <2>3, <2>6
<1>5. ASSUME UNCHANGED vars
      PROVE  IInv'
  BY <1>5 DEF vars, delivery, outcome, losses, TypeOK, ClaimedOnce, AckedMeansSettled,
              Settled, ClaimsMean, HandledAt, Event
<1>6. QED
  BY <1>1, <1>2, <1>3, <1>4, <1>5 DEF Next, Step

(* With per-instance stores every variable keeps its type, under any       *)
(* interleaving, redelivery, expiry and crash.                             *)
THEOREM TypeCorrect == ASSUME LocalStores PROVE Spec => []TypeOK
<1>1. IInv => TypeOK
  BY DEF IInv
<1>2. QED
  BY InitEstablishesIInv, NextPreservesIInv, <1>1, PTL DEF Spec

(* With per-instance stores an acked message is a settled one: whichever   *)
(* instances its deliveries reach, in whatever order they answer, and      *)
(* wherever an instance crashes.                                           *)
THEOREM NoSilentLoss == ASSUME LocalStores PROVE Spec => []AckedMeansSettled
<1>1. IInv => AckedMeansSettled
  BY DEF IInv
<1>2. QED
  BY InitEstablishesIInv, NextPreservesIInv, <1>1, PTL DEF Spec

(* With per-instance stores an idle instance claims completed events only. *)
THEOREM IdleClaimsAreCompleted == ASSUME LocalStores PROVE Spec => []ClaimsStandForSuccess
<1>1. IInv => ClaimsStandForSuccess
  BY DEF IInv, ClaimsMean, HandledAt, ClaimsStandForSuccess, Busy
<1>2. QED
  BY InitEstablishesIInv, NextPreservesIInv, <1>1, PTL DEF Spec

(* With per-instance stores a delivery acked as a duplicate is one of an   *)
(* event the handler is done with: the claim it meets is never the mark of *)
(* a handler under way.                                                    *)
THEOREM DuplicatesAreHandled == ASSUME LocalStores PROVE Spec => DuplicateMeansHandled
<1>1. ASSUME IInv, NEW r \in requests, AckDuplicate(r)
      PROVE  Settled(r.msg)
  <2>1. /\ Event(r) \in ToSet(claims[StoreOf[r.at]]) /\ r.at \in Instance
        /\ ~HandledAt(r.at, Event(r))
    BY <1>1, RequestFacts DEF IInv, AckDuplicate, Held, Resumes, Busy, HandledAt
  <2>2. QED
    BY <1>1, <2>1 DEF IInv, ClaimsMean, Settled, Event
<1>2. IInv => [ \A r \in requests : AckDuplicate(r) => Settled(r.msg) ]_vars
  BY <1>1
<1>3. QED
  BY InitEstablishesIInv, NextPreservesIInv, <1>2, PTL DEF Spec, DuplicateMeansHandled
-----------------------------------------------------------------------------
(***************************************************************************)
(* How far deduplication goes, in every deployment: stores of one instance *)
(* or shared, volatile or durable, of any size.                            *)
(*                                                                         *)
(* CompletionsBounded counts completions, which a step adds to without     *)
(* looking at earlier ones.  What is inductive is a balance (Balanced):    *)
(* every completion, and every handler under way, is paid for by a store   *)
(* that still holds a claim on the event, or by a claim that was lost.     *)
(* Granting a claim pays for the handler it starts; the handler's end      *)
(* turns it into a completion or gives the claim back.                     *)
(***************************************************************************)
Handling(e) == {r \in requests : r.phase = "handling" /\ Event(r) = e}

Holders(e) == {s \in Store : e \in ToSet(claims[s])}

BalancedFor(e) == completed[e] + Cardinality(Handling(e)) <= Cardinality(Holders(e)) + lapses[e]

Balanced == \A e \in EventId : BalancedFor(e)

Sound == TypeOK /\ ClaimedOnce /\ IsFiniteSet(requests)
-----------------------------------------------------------------------------
LEMMA SoundInit == Init => Sound
<1>1. Init => IsFiniteSet(requests)
  BY FS_EmptySet DEF Init
<1>2. QED
  BY <1>1, InitEstablishesIInv DEF IInv, Sound

(* Losing requests, and the claims of the instance unless they survive. *)
LEMMA SoundCrash ==
    ASSUME Sound, NEW i \in Instance, Crash(i)
    PROVE  TypeOK' /\ ClaimedOnce'
<1>1. CASE ~Durable
  BY <1>1, SharingAssumption, CrashFacts DEF LocalStores, Sound
<1>2. CASE Durable
  <2>1. /\ claims' = claims /\ lapses' = lapses /\ requests' \subseteq requests
        /\ crashes' = crashes + 1 /\ crashes < MaxCrashes
        /\ UNCHANGED <<delivery, outcome, expirations>>
    BY <1>2 DEF Crash
  <2>2. ClaimedOnce'
    BY <2>1 DEF Sound, ClaimedOnce
  <2>3. TypeOK'
    BY <2>1, BoundAssumption DEF Sound, TypeOK, delivery, outcome
  <2>4. QED
    BY <2>2, <2>3
<1>3. QED
  BY <1>1, <1>2

LEMMA SoundNext == Sound /\ [Next]_vars => Sound'
<1> SUFFICES ASSUME Sound, [Next]_vars PROVE Sound'
  OBVIOUS
<1> USE DEF Sound
<1>1. ASSUME NEW m \in Message,
             Publish(m) \/ MissDeadline(m) \/ DeadLetter(m)
                \/ \E i \in Instance : Deliver(m, i)
      PROVE  Sound'
  <2>1. /\ claims' = claims
        /\ requests' = requests \/ \E q : requests' = requests \cup {q}
    BY <1>1 DEF Publish, MissDeadline, DeadLetter, Deliver
  <2>2. ClaimedOnce' /\ IsFiniteSet(requests')
    BY <2>1, FS_AddElement DEF ClaimedOnce
  <2>3. QED
    BY <1>1, <2>2, PubSubTypeOK
<1>2. ASSUME NEW r \in requests, Route(r)
      PROVE  Sound'
  <2>1. \/ requests' = requests \ {r}
        \/ \E q : requests' = (requests \ {r}) \cup {q}
    BY <1>2 DEF Route, RefuseUnauthenticated, DropUnparseable, AckDuplicate, StartHandling,
                HandlerReturns, HandlerGivesUp, HandlerFails, Acks, Nacks, Answered
  <2>2. IsFiniteSet(requests \ {r})
    BY FS_RemoveElement
  <2>3. IsFiniteSet(requests')
    BY <2>1, <2>2, FS_AddElement
  <2>4. QED
    BY <1>2, <2>3, RouteTypeOK
<1>3. ASSUME NEW s \in Store, ClaimExpires(s)
      PROVE  Sound'
  BY <1>3, ExpiryFacts DEF ClaimExpires
<1>4. ASSUME NEW i \in Instance, Crash(i)
      PROVE  Sound'
  <2>1. requests' \in SUBSET requests
    BY <1>4 DEF Crash
  <2>2. IsFiniteSet(requests')
    BY <2>1, FS_Subset
  <2>3. QED
    BY <1>4, <2>2, SoundCrash
<1>5. CASE UNCHANGED vars
  BY <1>5 DEF vars, delivery, outcome, losses, TypeOK, ClaimedOnce
<1>6. QED
  BY <1>1, <1>2, <1>3, <1>4, <1>5 DEF Next, Step
-----------------------------------------------------------------------------
(* The ways a step can keep the balance of an event. *)
LEMMA BalanceKept ==
    ASSUME IsFiniteSet(Store), Sound, Sound', NEW e \in EventId, BalancedFor(e), NEW s, NEW r,
           \* nothing is spent, or a claim is lost and counted
           \/ /\ completed'[e] = completed[e] /\ Handling(e)' \subseteq Handling(e)
              /\ \/ Holders(e) \subseteq Holders(e)' /\ lapses'[e] >= lapses[e]
                 \/ Holders(e) \subseteq Holders(e)' \cup {s} /\ lapses'[e] = lapses[e] + 1
           \* a handler ends with a completion, or gives its claim back
           \/ /\ r \in Handling(e) /\ Handling(e)' = Handling(e) \ {r}
              /\ lapses'[e] = lapses[e]
              /\ \/ completed'[e] = completed[e] + 1 /\ Holders(e)' = Holders(e)
                 \/ completed'[e] = completed[e] /\ Holders(e) \subseteq Holders(e)' \cup {s}
           \* a handler starts with a new claim
           \/ /\ completed'[e] = completed[e] /\ lapses'[e] = lapses[e]
              /\ Handling(e)' \subseteq Handling(e) \cup {r}
              /\ s \notin Holders(e) /\ Holders(e)' = Holders(e) \cup {s}
    PROVE  BalancedFor(e)'
<1> DEFINE H == Handling(e)
           h == Handling(e)'
           K == Holders(e)
           k == Holders(e)'
<1>1. H \subseteq requests /\ h \subseteq requests' /\ K \subseteq Store /\ k \subseteq Store
  BY DEF Handling, Holders
<1>2. IsFiniteSet(H) /\ IsFiniteSet(h) /\ IsFiniteSet(K) /\ IsFiniteSet(k)
  BY <1>1, FS_Subset DEF Sound
<1>3. /\ Cardinality(H) \in Nat /\ Cardinality(h) \in Nat
      /\ Cardinality(K) \in Nat /\ Cardinality(k) \in Nat
  BY <1>2, FS_CardinalityType
<1>4. /\ completed[e] \in Nat /\ completed'[e] \in Nat
      /\ lapses[e] \in Nat /\ lapses'[e] \in Nat
  BY DEF Sound, TypeOK
<1>5. /\ completed[e] + Cardinality(H) <= Cardinality(K) + lapses[e]
      /\ BalancedFor(e)' <=> completed'[e] + Cardinality(h) <= Cardinality(k) + lapses'[e]
  BY DEF BalancedFor
<1>6. h \subseteq H => Cardinality(h) <= Cardinality(H)
  BY <1>2, FS_Subset
<1>7. K \subseteq k => Cardinality(K) <= Cardinality(k)
  BY <1>2, FS_Subset
<1>8. K \subseteq k \cup {s} => Cardinality(K) <= Cardinality(k) + 1
  <2>1. /\ IsFiniteSet(k \cup {s})
        /\ Cardinality(k \cup {s}) = IF s \in k THEN Cardinality(k) ELSE Cardinality(k) + 1
    BY <1>2, FS_AddElement
  <2>2. K \subseteq k \cup {s} => Cardinality(K) <= Cardinality(k \cup {s})
    BY <2>1, FS_Subset
  <2>3. QED
    BY <1>3, <2>1, <2>2
<1>9. r \in H /\ h = H \ {r} => Cardinality(h) = Cardinality(H) - 1
  BY <1>2, FS_RemoveElement
<1>10. h \subseteq H \cup {r} => Cardinality(h) <= Cardinality(H) + 1
  <2>1. /\ IsFiniteSet(H \cup {r})
        /\ Cardinality(H \cup {r}) = IF r \in H THEN Cardinality(H) ELSE Cardinality(H) + 1
    BY <1>2, FS_AddElement
  <2>2. h \subseteq H \cup {r} => Cardinality(h) <= Cardinality(H \cup {r})
    BY <2>1, FS_Subset
  <2>3. QED
    BY <1>3, <2>1, <2>2
<1>11. s \notin K /\ k = K \cup {s} => Cardinality(k) = Cardinality(K) + 1
  BY <1>2, FS_AddElement
<1> HIDE DEF H, h, K, k
<1>12. completed'[e] + Cardinality(h) <= Cardinality(k) + lapses'[e]
  <2>1. \/ /\ completed'[e] = completed[e] /\ h \subseteq H
           /\ \/ K \subseteq k /\ lapses'[e] >= lapses[e]
              \/ K \subseteq k \cup {s} /\ lapses'[e] = lapses[e] + 1
        \/ /\ r \in H /\ h = H \ {r} /\ lapses'[e] = lapses[e]
           /\ \/ completed'[e] = completed[e] + 1 /\ k = K
              \/ completed'[e] = completed[e] /\ K \subseteq k \cup {s}
        \/ /\ completed'[e] = completed[e] /\ lapses'[e] = lapses[e]
           /\ h \subseteq H \cup {r} /\ s \notin K /\ k = K \cup {s}
    BY DEF H, h, K, k
  <2>2. QED
    BY <1>3, <1>4, <1>5, <1>6, <1>7, <1>8, <1>9, <1>10, <1>11, <2>1
<1>13. QED
  BY <1>5, <1>12
-----------------------------------------------------------------------------
LEMMA RouteBalanced ==
    ASSUME IsFiniteSet(Store), Sound, Sound', Balanced, NEW r \in requests, Route(r)
    PROVE  Balanced'
<1> DEFINE s == StoreOf[r.at]
           id == Event(r)
<1> USE DEF Sound
<1>1. /\ s \in Store /\ id \in EventId /\ claims[s] \in Seq(EventId)
      /\ claims \in [Store -> Seq(EventId)] /\ r.phase \in {"waiting", "handling"}
  BY RequestFacts DEF TypeOK, Phase
<1> SUFFICES ASSUME NEW e \in EventId PROVE BalancedFor(e)'
  BY DEF Balanced
<1>2. BalancedFor(e)
  BY DEF Balanced
<1>3. CASE RefuseUnauthenticated(r) \/ DropUnparseable(r) \/ AckDuplicate(r)
  <2>1. /\ requests' = requests \ {r} /\ claims' = claims
        /\ completed' = completed /\ lapses' = lapses
    BY <1>3 DEF RefuseUnauthenticated, DropUnparseable, AckDuplicate, Acks, Nacks,
                Answered, outcome, losses
  <2>2. Handling(e)' \subseteq Handling(e) /\ Holders(e)' = Holders(e)
    BY <2>1 DEF Handling, Holders, Event
  <2>3. lapses'[e] >= lapses[e]
    BY <2>1 DEF TypeOK
  <2>4. QED
    BY <1>2, <2>1, <2>2, <2>3, BalanceKept
<1>4. CASE StartHandling(r)
  <2> DEFINE q == [r EXCEPT !.phase = "handling"]
             lost == Surplus(claims[s], id)
  <2>1. /\ requests' = (requests \ {r}) \cup {q} /\ completed' = completed
        /\ id \notin ToSet(claims[s])
        /\ claims' = [claims EXCEPT ![s] = Granted(claims[s], id)]
        /\ lapses' = [x \in EventId |-> lapses[x] + IF x \in lost THEN 1 ELSE 0]
    BY <1>4 DEF StartHandling, Claim, Held, outcome
  <2>2. q.phase = "handling" /\ Event(q) = id
    BY DEF TypeOK, Request, Event
  <2>3. /\ id \in ToSet(Granted(claims[s], id))
        /\ ToSet(Granted(claims[s], id)) \subseteq ToSet(claims[s]) \cup {id}
        /\ Granted(claims[s], id) \in Seq(EventId)
    <3> HIDE DEF s, id
    <3>1. QED
      BY <1>1, GrantedProperties
  <2>4. lost = ToSet(claims[s]) \ ToSet(Granted(claims[s], id))
    BY DEF Surplus
  <2>5. /\ claims'[s] = Granted(claims[s], id)
        /\ \A t \in Store : t # s => claims'[t] = claims[t]
    BY <1>1, <2>1, <2>3
  <2>6. Handling(e)' \subseteq Handling(e) \cup (IF e = id THEN {q} ELSE {})
    BY <2>1, <2>2 DEF Handling, Event
  <2>7. lapses'[e] = lapses[e] + IF e \in lost THEN 1 ELSE 0
    BY <2>1
  <2>8. lapses[e] \in Nat
    BY DEF TypeOK
  <2> HIDE DEF q, lost, s, id
  <2>9. CASE e = id
    <3>1. s \notin Holders(e) /\ Holders(e)' = Holders(e) \cup {s}
      BY <1>1, <2>1, <2>3, <2>5, <2>9 DEF Holders
    <3>2. e \notin lost
      BY <2>1, <2>4, <2>9
    <3>3. lapses'[e] = lapses[e]
      BY <2>7, <2>8, <3>2
    <3>4. QED
      BY <1>2, <2>1, <2>6, <2>9, <3>1, <3>3, BalanceKept
  <2>10. CASE e # id /\ e \in lost
    <3>1. Holders(e) \subseteq Holders(e)' \cup {s}
      BY <2>5 DEF Holders
    <3>2. Handling(e)' \subseteq Handling(e) /\ lapses'[e] = lapses[e] + 1
      BY <2>6, <2>7, <2>10
    <3>3. QED
      BY <1>2, <2>1, <3>1, <3>2, BalanceKept
  <2>11. CASE e # id /\ e \notin lost
    <3>1. Holders(e) \subseteq Holders(e)'
      BY <2>4, <2>5, <2>11 DEF Holders
    <3>2. Handling(e)' \subseteq Handling(e) /\ lapses'[e] >= lapses[e]
      BY <2>6, <2>7, <2>8, <2>11
    <3>3. QED
      BY <1>2, <2>1, <3>1, <3>2, BalanceKept
  <2>12. QED
    BY <2>9, <2>10, <2>11
<1>5. CASE HandlerReturns(r)
  <2>1. /\ requests' = requests \ {r} /\ claims' = claims /\ lapses' = lapses
        /\ completed' = [completed EXCEPT ![id] = @ + 1] /\ r.phase = "handling"
    BY <1>5 DEF HandlerReturns, Acks, Answered, losses
  <2>2. /\ Holders(e)' = Holders(e)
        /\ Handling(e)' = Handling(e) \ {r}
        /\ completed'[e] = IF e = id THEN completed[e] + 1 ELSE completed[e]
    BY <2>1 DEF Handling, Holders, Event, TypeOK
  <2>3. lapses'[e] >= lapses[e]
    BY <2>1 DEF TypeOK
  <2>4. CASE e = id
    <3>1. r \in Handling(e)
      BY <2>1, <2>4 DEF Handling
    <3>2. QED
      BY <1>2, <2>1, <2>2, <2>4, <3>1, BalanceKept
  <2>5. CASE e # id
    BY <1>2, <2>2, <2>3, <2>5, BalanceKept
  <2>6. QED
    BY <2>4, <2>5
<1>6. CASE HandlerGivesUp(r) \/ HandlerFails(r)
  <2>1. /\ requests' = requests \ {r} /\ completed' = completed /\ lapses' = lapses
        /\ claims' = [claims EXCEPT ![s] = Released(claims[s], id)] /\ r.phase = "handling"
    BY <1>6 DEF HandlerGivesUp, HandlerFails, ReleaseClaim, Acks, Nacks, Answered,
                outcome, losses
  <2>2. ToSet(Released(claims[s], id)) = ToSet(claims[s]) \ {id}
    BY <1>1, ReleasedProperties DEF ClaimedOnce
  <2>3. /\ claims'[s] = Released(claims[s], id)
        /\ \A t \in Store : t # s => claims'[t] = claims[t]
    BY <1>1, <2>1
  <2>4. Handling(e)' = Handling(e) \ {r}
    BY <2>1 DEF Handling, Event
  <2>5. lapses'[e] >= lapses[e]
    BY <2>1 DEF TypeOK
  <2>6. CASE e = id
    <3>1. r \in Handling(e)
      BY <2>1, <2>6 DEF Handling
    <3>2. Holders(e) \subseteq Holders(e)' \cup {s}
      BY <2>3 DEF Holders
    <3>3. QED
      BY <1>2, <2>1, <2>4, <3>1, <3>2, BalanceKept
  <2>7. CASE e # id
    <3>1. Holders(e) \subseteq Holders(e)'
      BY <2>2, <2>3, <2>7 DEF Holders
    <3>2. QED
      BY <1>2, <2>1, <2>4, <2>5, <3>1, BalanceKept
  <2>8. QED
    BY <2>6, <2>7
<1>7. QED
  BY <1>3, <1>4, <1>5, <1>6 DEF Route

LEMMA ExpiryBalanced ==
    ASSUME IsFiniteSet(Store), Sound, Sound', Balanced, NEW s \in Store, ClaimExpires(s)
    PROVE  Balanced'
<1> SUFFICES ASSUME NEW e \in EventId PROVE BalancedFor(e)'
  BY DEF Balanced
<1>1. /\ claims \in [Store -> Seq(EventId)] /\ claims[s] \in Seq(EventId) /\ claims[s] # <<>>
      /\ claims' = [claims EXCEPT ![s] = Tail(claims[s])]
      /\ lapses' = [lapses EXCEPT ![Head(claims[s])] = @ + 1]
      /\ lapses \in [EventId -> Nat]
      /\ requests' = requests /\ completed' = completed
  BY DEF ClaimExpires, Sound, TypeOK, outcome
<1> DEFINE c == claims[s]
           t == Tail(c)
<1>2. /\ Head(c) \in EventId /\ Head(c) = c[1] /\ t \in Seq(EventId)
      /\ Len(t) = Len(c) - 1
      /\ \A i \in 1 .. Len(t) : t[i] = c[i + 1]
  BY <1>1, HeadTailProperties
<1> HIDE DEF c
<1>3. Len(c) \in Nat /\ DOMAIN c = 1 .. Len(c) /\ DOMAIN t = 1 .. Len(t)
  BY <1>1, <1>2, LenProperties DEF c
<1> HIDE DEF t
<1>4. \A i \in DOMAIN c : i = 1 \/ (i - 1 \in DOMAIN t /\ t[i - 1] = c[i])
  BY <1>2, <1>3
<1>5. ToSet(c) \subseteq ToSet(t) \cup {Head(c)}
  BY <1>2, <1>4 DEF ToSet
<1>6. claims'[s] = t /\ \A u \in Store : u # s => claims'[u] = claims[u]
  BY <1>1 DEF c, t
<1>7. Handling(e)' = Handling(e) /\ completed'[e] = completed[e] /\ BalancedFor(e)
  BY <1>1 DEF Handling, Event, Balanced
<1>8. CASE e = Head(c)
  <2>1. lapses'[e] = lapses[e] + 1
    BY <1>1, <1>8 DEF c
  <2>2. Holders(e) \subseteq Holders(e)' \cup {s}
    BY <1>6 DEF Holders
  <2>3. QED
    BY <1>7, <2>1, <2>2, BalanceKept
<1>9. CASE e # Head(c)
  <2>1. lapses'[e] = lapses[e] /\ lapses[e] \in Nat
    BY <1>1, <1>9 DEF c
  <2>2. Holders(e) \subseteq Holders(e)'
    BY <1>5, <1>6, <1>9 DEF Holders, c
  <2>3. lapses'[e] >= lapses[e]
    BY <2>1
  <2>4. QED
    BY <1>7, <2>2, <2>3, BalanceKept
<1>10. QED
  BY <1>8, <1>9

LEMMA CrashBalanced ==
    ASSUME IsFiniteSet(Store), Sound, Sound', Balanced, NEW i \in Instance, Crash(i)
    PROVE  Balanced'
<1> SUFFICES ASSUME NEW e \in EventId PROVE BalancedFor(e)'
  BY DEF Balanced
<1> DEFINE s == StoreOf[i]
<1>1. requests' \subseteq requests /\ completed' = completed /\ lapses[e] \in Nat
  BY DEF Crash, outcome, Sound, TypeOK
<1>2. Handling(e)' \subseteq Handling(e) /\ completed'[e] = completed[e] /\ BalancedFor(e)
  BY <1>1 DEF Handling, Event, Balanced
<1>3. CASE Durable
  <2>1. claims' = claims /\ lapses' = lapses
    BY <1>3 DEF Crash
  <2>2. Holders(e) \subseteq Holders(e)' /\ lapses'[e] >= lapses[e]
    BY <1>1, <2>1 DEF Holders
  <2>3. QED
    BY <1>2, <2>2, BalanceKept
<1>4. CASE ~Durable
  <2>1. /\ claims' = [claims EXCEPT ![s] = <<>>]
        /\ lapses' = [x \in EventId |-> lapses[x] + IF x \in ToSet(claims[s]) THEN 1 ELSE 0]
    BY <1>4 DEF Crash
  <2>2. \A t \in Store : t # s => claims'[t] = claims[t]
    BY <2>1 DEF Sound, TypeOK
  <2>3. CASE e \in ToSet(claims[s])
    <3>1. lapses'[e] = lapses[e] + 1
      BY <2>1, <2>3
    <3>2. Holders(e) \subseteq Holders(e)' \cup {s}
      BY <2>2 DEF Holders
    <3>3. QED
      BY <1>2, <3>1, <3>2, BalanceKept
  <2>4. CASE e \notin ToSet(claims[s])
    <3>1. lapses'[e] >= lapses[e]
      BY <1>1, <2>1, <2>4
    <3>2. Holders(e) \subseteq Holders(e)'
      BY <2>2, <2>4 DEF Holders
    <3>3. QED
      BY <1>2, <3>1, <3>2, BalanceKept
  <2>5. QED
    BY <2>3, <2>4
<1>5. QED
  BY <1>3, <1>4

LEMMA NextBalanced ==
    ASSUME IsFiniteSet(Store), Sound, Sound', Balanced, [Next]_vars
    PROVE  Balanced'
<1>1. ASSUME NEW m \in Message,
             Publish(m) \/ MissDeadline(m) \/ DeadLetter(m)
                \/ \E i \in Instance : Deliver(m, i)
      PROVE  Balanced'
  <2>1. /\ claims' = claims /\ completed' = completed /\ lapses' = lapses
        /\ \A r \in requests' : r.phase = "handling" => r \in requests
    BY <1>1 DEF Publish, MissDeadline, DeadLetter, Deliver, outcome, losses
  <2>2. ASSUME NEW e \in EventId PROVE BalancedFor(e)'
    <3>1. Handling(e)' \subseteq Handling(e) /\ Holders(e)' = Holders(e)
      BY <2>1 DEF Handling, Holders, Event
    <3>2. completed'[e] = completed[e] /\ lapses'[e] >= lapses[e] /\ BalancedFor(e)
      BY <2>1 DEF Balanced, Sound, TypeOK
    <3>3. QED
      BY <3>1, <3>2, BalanceKept
  <2>3. QED
    BY <2>2 DEF Balanced
<1>2. CASE UNCHANGED vars
  BY <1>2 DEF vars, outcome, losses, Balanced, BalancedFor, Handling, Holders, Event
<1>3. QED
  BY <1>1, <1>2, RouteBalanced, ExpiryBalanced, CrashBalanced DEF Next, Step

(* In every deployment an event completes at most once per store, and once *)
(* more for every live claim on it that was lost.                          *)
THEOREM EveryCompletionIsPaidFor ==
    ASSUME IsFiniteSet(Store) PROVE Spec => []CompletionsBounded
<1>1. Init => Balanced
  <2>1. ASSUME Init, NEW e \in EventId PROVE BalancedFor(e)
    <3>1. Handling(e) = {} /\ Holders(e) = {}
      BY <2>1 DEF Init, Handling, Holders, ToSet
    <3>2. Cardinality(Handling(e)) = 0 /\ Cardinality(Holders(e)) = 0
      BY <3>1, FS_EmptySet
    <3>3. completed[e] = 0 /\ lapses[e] = 0
      BY <2>1 DEF Init
    <3>4. QED
      BY <3>2, <3>3 DEF BalancedFor
  <2>2. QED
    BY <2>1 DEF Balanced
<1>2. Sound /\ Balanced => CompletionsBounded
  <2>1. ASSUME Sound, Balanced, NEW e \in EventId
        PROVE  completed[e] <= Cardinality(Store) + lapses[e]
    <3>1. Handling(e) \in SUBSET requests /\ Holders(e) \in SUBSET Store
      BY DEF Handling, Holders
    <3>2. /\ Cardinality(Handling(e)) \in Nat /\ Cardinality(Holders(e)) \in Nat
          /\ Cardinality(Store) \in Nat /\ Cardinality(Holders(e)) <= Cardinality(Store)
      BY <2>1, <3>1, FS_Subset, FS_CardinalityType DEF Sound
    <3>3. completed[e] \in Nat /\ lapses[e] \in Nat
      BY <2>1 DEF Sound, TypeOK
    <3>4. completed[e] + Cardinality(Handling(e)) <= Cardinality(Holders(e)) + lapses[e]
      BY <2>1 DEF Balanced, BalancedFor
    <3>5. QED
      BY <3>2, <3>3, <3>4
  <2>2. QED
    BY <2>1 DEF CompletionsBounded
<1>3. QED
  BY SoundInit, SoundNext, NextBalanced, <1>1, <1>2, PTL DEF Spec
-----------------------------------------------------------------------------
(***************************************************************************)
(* Where things come from: a request and a completion go back to a message *)
(* that was published, and an answer that still counts is for a message    *)
(* that is still pending, so that none is forgotten or brought back twice. *)
(***************************************************************************)
AnswersPending == \A m \in Message : lease[m] # 0 => sub[m] = "pending"

RequestsWerePublished == \A r \in requests : sub[r.msg] # "unpublished"

CompletedWerePublished ==
    \A e \in EventId :
        completed[e] > 0 => \E m \in Message : EventOf[m] = e /\ sub[m] # "unpublished"

Traced == AnswersPending /\ RequestsWerePublished /\ CompletedWerePublished

LEMMA TracedInit == Init => Traced
  BY DEF Init, Traced, AnswersPending, RequestsWerePublished, CompletedWerePublished

(* A step of the subscription or of an instance moves one pending message, *)
(* if any.                                                                 *)
OneMoves == \/ sub' = sub
            \/ \E m \in Message, s \in SubState \ {"unpublished"} :
                   sub[m] = "pending" /\ sub' = [sub EXCEPT ![m] = s]

LEMMA AnsweredMoves ==
    ASSUME TypeOK, AnswersPending, NEW r \in requests,
           NEW state \in SubState \ {"unpublished"}, Answered(r, state)
    PROVE  OneMoves /\ AnswersPending'
<1>1. r.msg \in Message /\ r.attempt # 0 /\ lease \in [Message -> Nat]
      /\ sub \in [Message -> SubState]
  BY RequestFacts, BoundAssumption DEF TypeOK
<1>2. CASE lease[r.msg] = r.attempt
  <2>1. sub[r.msg] = "pending" /\ lease' = [lease EXCEPT ![r.msg] = 0]
        /\ sub' = [sub EXCEPT ![r.msg] = state]
    BY <1>1, <1>2 DEF Answered, AnswersPending
  <2>2. QED
    BY <1>1, <2>1 DEF OneMoves, AnswersPending
<1>3. CASE lease[r.msg] # r.attempt
  BY <1>3 DEF Answered, OneMoves, AnswersPending
<1>4. QED
  BY <1>2, <1>3

LEMMA RouteMoves ==
    ASSUME TypeOK, AnswersPending, NEW r \in requests, Route(r)
    PROVE  OneMoves /\ AnswersPending'
<1>1. CASE StartHandling(r)
  BY <1>1 DEF StartHandling, delivery, OneMoves, AnswersPending
<1>2. CASE ~StartHandling(r)
  <2>1. Answered(r, "acked") \/ Answered(r, "pending")
    BY <1>2 DEF Route, RefuseUnauthenticated, DropUnparseable, AckDuplicate,
                HandlerReturns, HandlerGivesUp, HandlerFails, Acks, Nacks
  <2>2. {"acked", "pending"} \subseteq SubState \ {"unpublished"}
    BY DEF SubState
  <2>3. QED
    BY <2>1, <2>2, AnsweredMoves
<1>3. QED
  BY <1>1, <1>2

LEMMA StepMoves == TypeOK /\ AnswersPending /\ Step => OneMoves /\ AnswersPending'
<1> SUFFICES ASSUME TypeOK, AnswersPending, Step PROVE OneMoves /\ AnswersPending'
  OBVIOUS
<1>1. "dead" \in SubState \ {"unpublished"}
  BY DEF SubState
<1>2. ASSUME NEW m \in Message, DeadLetter(m)
      PROVE  OneMoves /\ AnswersPending'
  <2>1. sub[m] = "pending" /\ lease[m] = 0 /\ lease' = lease
        /\ sub' = [sub EXCEPT ![m] = "dead"]
    BY <1>2 DEF DeadLetter
  <2>2. AnswersPending'
    BY <2>1 DEF AnswersPending, TypeOK
  <2>3. QED
    BY <1>1, <2>1, <2>2 DEF OneMoves
<1>3. ASSUME NEW m \in Message, MissDeadline(m) \/ \E i \in Instance : Deliver(m, i)
      PROVE  OneMoves /\ AnswersPending'
  BY <1>3 DEF MissDeadline, Deliver, OneMoves, AnswersPending, TypeOK
<1>4. ASSUME (\E s \in Store : ClaimExpires(s)) \/ \E i \in Instance : Crash(i)
      PROVE  OneMoves /\ AnswersPending'
  BY <1>4 DEF ClaimExpires, Crash, delivery, OneMoves, AnswersPending
<1>5. QED
  BY <1>2, <1>3, <1>4, RouteMoves DEF Step

(* Only the handler completes an event, and it runs for a request.         *)
LEMMA StepTraces ==
    ASSUME TypeOK, Step
    PROVE  /\ \A r \in requests' : \/ r.msg \in Message /\ sub[r.msg] = "pending"
                                   \/ \E q \in requests : q.msg = r.msg
           /\ \A e \in EventId : completed'[e] > 0 =>
                  completed[e] > 0 \/ \E r \in requests : Event(r) = e
<1>1. ASSUME NEW m \in Message, MissDeadline(m) \/ DeadLetter(m)
                                   \/ \E i \in Instance : Deliver(m, i)
      PROVE  /\ \A r \in requests' : r \in requests \/ (r.msg = m /\ sub[m] = "pending")
             /\ completed' = completed
  BY <1>1 DEF MissDeadline, DeadLetter, Deliver, outcome
<1>2. ASSUME NEW r \in requests, Route(r)
      PROVE  /\ \A q \in requests' : q.msg = r.msg \/ q \in requests
             /\ completed' = completed \/ completed' = [completed EXCEPT ![Event(r)] = @ + 1]
  <2>1. CASE StartHandling(r)
    <3>1. [r EXCEPT !.phase = "handling"].msg = r.msg
      BY DEF TypeOK, Request
    <3>2. QED
      BY <2>1, <3>1 DEF StartHandling, outcome
  <2>2. CASE ~StartHandling(r)
    BY <1>2, <2>2 DEF Route, RefuseUnauthenticated, DropUnparseable, AckDuplicate,
                HandlerReturns, HandlerGivesUp, HandlerFails, Acks, Nacks, Answered, outcome
  <2>3. QED
    BY <2>1, <2>2
<1>3. ASSUME (\E s \in Store : ClaimExpires(s)) \/ \E i \in Instance : Crash(i)
      PROVE  requests' \subseteq requests /\ completed' = completed
  BY <1>3 DEF ClaimExpires, Crash, outcome
<1>4. completed \in [EventId -> Nat]
  BY DEF TypeOK
<1>5. QED
  BY <1>1, <1>2, <1>3, <1>4 DEF Step

LEMMA TracedNext == TypeOK /\ Traced /\ [Next]_vars => Traced'
<1> SUFFICES ASSUME TypeOK, Traced, [Next]_vars PROVE Traced'
  OBVIOUS
<1>1. sub \in [Message -> SubState] /\ completed \in [EventId -> Nat]
      /\ \A r \in requests : r.msg \in Message /\ Event(r) = EventOf[r.msg]
  BY RequestFacts DEF TypeOK, Event
<1>2. CASE Step
  <2>1. OneMoves /\ AnswersPending'
    BY <1>2, StepMoves DEF Traced
  <2>2. \A m \in Message : sub[m] # "unpublished" => sub'[m] # "unpublished"
    BY <1>1, <2>1 DEF OneMoves
  <2>3. /\ \A r \in requests' : \/ r.msg \in Message /\ sub[r.msg] = "pending"
                               \/ \E q \in requests : q.msg = r.msg
        /\ \A e \in EventId : completed'[e] > 0 =>
               completed[e] > 0 \/ \E r \in requests : Event(r) = e
    BY <1>2, StepTraces
  <2>4. RequestsWerePublished'
    <3>1. ASSUME NEW r \in requests' PROVE sub'[r.msg] # "unpublished"
      <4>1. CASE \E q \in requests : q.msg = r.msg
        BY <1>1, <2>2, <4>1 DEF Traced, RequestsWerePublished
      <4>2. CASE r.msg \in Message /\ sub[r.msg] = "pending"
        BY <2>2, <4>2
      <4>3. QED
        BY <2>3, <4>1, <4>2
    <3>2. QED
      BY <3>1 DEF RequestsWerePublished
  <2>5. CompletedWerePublished'
    <3>1. ASSUME NEW e \in EventId, completed'[e] > 0
          PROVE  \E m \in Message : EventOf[m] = e /\ sub[m] # "unpublished"
      <4>1. CASE completed[e] > 0
        BY <4>1 DEF Traced, CompletedWerePublished
      <4>2. CASE \E r \in requests : Event(r) = e
        BY <1>1, <4>2 DEF Traced, RequestsWerePublished
      <4>3. QED
        BY <2>3, <3>1, <4>1, <4>2
    <3>2. QED
      BY <2>2, <3>1 DEF CompletedWerePublished
  <2>6. QED
    BY <2>1, <2>4, <2>5 DEF Traced
<1>3. ASSUME NEW m \in Message, Publish(m)
      PROVE  Traced'
  <2>1. /\ sub[m] = "unpublished" /\ sub' = [sub EXCEPT ![m] = "pending"]
        /\ lease' = lease /\ requests' = requests /\ completed' = completed
    BY <1>3 DEF Publish, outcome
  <2>2. \A n \in Message : /\ sub[n] # "unpublished" => sub'[n] = sub[n]
                           /\ sub[n] = "unpublished" => sub'[n] \in {"unpublished", "pending"}
    BY <1>1, <2>1
  <2>3. AnswersPending'
    BY <2>1, <2>2 DEF Traced, AnswersPending
  <2>4. RequestsWerePublished'
    BY <1>1, <2>1, <2>2 DEF Traced, RequestsWerePublished
  <2>5. CompletedWerePublished'
    BY <2>1, <2>2 DEF Traced, CompletedWerePublished
  <2>6. QED
    BY <2>3, <2>4, <2>5 DEF Traced
<1>4. CASE UNCHANGED vars
  BY <1>4 DEF vars, delivery, outcome, Traced, AnswersPending, RequestsWerePublished,
              CompletedWerePublished
<1>5. QED
  BY <1>2, <1>3, <1>4 DEF Next
=============================================================================
