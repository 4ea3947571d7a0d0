------------------------ MODULE WebhookPipelineProofs ------------------------
(***************************************************************************)
(* The two services together, for any number of deliveries, events, copies *)
(* and instances: the pipeline takes only steps of the contract            *)
(* (AtLeastOnce), and runs a handler only for what the front door let in.  *)
(*                                                                         *)
(* Each service keeps its own invariant, because a step of the pipeline is *)
(* a step of each of them or leaves it alone; those proofs are cited, not  *)
(* repeated.  What joins the services is OnTopic: the subscription knows   *)
(* of exactly the copies the ingest service has stored.                    *)
(***************************************************************************)
EXTENDS WebhookPipeline, TLAPS

(* The proofs of the two services, for the pipeline's variables. *)
IngestP == INSTANCE WebhookIngestProofs
           WITH Instance <- IngestInstance, MaxCrashes <- MaxIngestCrashes,
                crashes <- ingestCrashes

PushP == INSTANCE PushDeliveryProofs
         WITH Message <- Copy,
              EventOf <- [c \in Copy |-> BodyOf[c[1]]],
              Malformed <- {},
              Store <- Instance,
              StoreOf <- [i \in Instance |-> i],
              Durable <- FALSE,
              Oidc <- FALSE

OnTopic ==
    \A d \in Delivery, k \in Ingest!Attempt :
        sub[<<d, k>>] # "unpublished" <=> k \in Ingest!Stored(d)

IInv == /\ IngestP!IInv /\ IngestP!LaterUnsent
        /\ PushP!IInv /\ PushP!Traced
        /\ OnTopic
-----------------------------------------------------------------------------
(* What is proved of a service is proved of the service in the pipeline.   *)
LEMMA SameIngest ==
    /\ Ingest!Init <=> IngestP!Init
    /\ Ingest!Step <=> IngestP!Step
    /\ \A d, k : Ingest!Settle(d, k) <=> IngestP!Settle(d, k)
    /\ Ingest!Attempt = IngestP!Attempt
    /\ \A d : Ingest!Stored(d) = IngestP!Stored(d)
    /\ \A d : Ingest!Stored(d)' = IngestP!Stored(d)'
<1>1. Ingest!Init <=> IngestP!Init
  BY DEF Ingest!Init, IngestP!Init, Ingest!Attempt, IngestP!Attempt, Ingest!Fault, IngestP!Fault
<1>2. Ingest!Step <=> IngestP!Step
  BY Zenon
     DEF Ingest!Step, IngestP!Step, Ingest!Receive, IngestP!Receive,
         Ingest!Disconnect, IngestP!Disconnect, Ingest!Route, IngestP!Route,
         Ingest!UnexpectedError, IngestP!UnexpectedError, Ingest!Crash, IngestP!Crash,
         Ingest!Refuse, IngestP!Refuse, Ingest!BeginPublish, IngestP!BeginPublish,
         Ingest!Acknowledge, IngestP!Acknowledge, Ingest!BackOff, IngestP!BackOff,
         Ingest!Retry, IngestP!Retry, Ingest!GiveUp, IngestP!GiveUp, Ingest!Idle,
         IngestP!Idle, Ingest!Failed, IngestP!Failed, Ingest!Checks, IngestP!Checks,
         Ingest!Check, IngestP!Check, Ingest!Answers, IngestP!Answers, Ingest!Send,
         IngestP!Send, Ingest!Confirmed, IngestP!Confirmed, Ingest!AttemptFails,
         IngestP!AttemptFails, Ingest!AttemptsLeft, IngestP!AttemptsLeft, Ingest!Min,
         IngestP!Min
<1>3. \A d, k : Ingest!Settle(d, k) <=> IngestP!Settle(d, k)
  BY DEF Ingest!Settle, IngestP!Settle
<1>4. Ingest!Attempt = IngestP!Attempt
  BY DEF Ingest!Attempt, IngestP!Attempt
<1>5. \A d : Ingest!Stored(d) = IngestP!Stored(d) /\ Ingest!Stored(d)' = IngestP!Stored(d)'
  BY DEF Ingest!Stored, IngestP!Stored, Ingest!Attempt, IngestP!Attempt
<1>6. QED
  BY <1>1, <1>2, <1>3, <1>4, <1>5

LEMMA SamePush ==
    /\ Push!Init <=> PushP!Init
    /\ Push!Step <=> PushP!Step
    /\ \A c : Push!Publish(c) <=> PushP!Publish(c)
<1>1. Push!Init <=> PushP!Init
  BY Zenon DEF Push!Init, PushP!Init
<1>2. Push!Step <=> PushP!Step
  BY Zenon
     DEF Push!Step, PushP!Step, Push!MissDeadline, PushP!MissDeadline,
         Push!DeadLetter, PushP!DeadLetter, Push!Deliver, PushP!Deliver, Push!Route,
         PushP!Route, Push!ClaimExpires, PushP!ClaimExpires, Push!Crash, PushP!Crash,
         Push!RefuseUnauthenticated, PushP!RefuseUnauthenticated,
         Push!DropUnparseable, PushP!DropUnparseable, Push!AckDuplicate,
         PushP!AckDuplicate, Push!StartHandling, PushP!StartHandling,
         Push!HandlerReturns, PushP!HandlerReturns, Push!HandlerGivesUp,
         PushP!HandlerGivesUp, Push!HandlerFails, PushP!HandlerFails, Push!Exhausted,
         PushP!Exhausted, Push!Event, PushP!Event, Push!Held, PushP!Held, Push!Busy,
         PushP!Busy, Push!Answered, PushP!Answered, Push!Acks, PushP!Acks, Push!Nacks,
         PushP!Nacks, Push!Claim, PushP!Claim, Push!ReleaseClaim, PushP!ReleaseClaim,
         Push!Resumes, PushP!Resumes, Push!Granted, PushP!Granted, Push!Released,
         PushP!Released, Push!Surplus, PushP!Surplus, Push!Youngest, PushP!Youngest,
         Push!ToSet, PushP!ToSet, Push!RemoveAt, PushP!RemoveAt, Push!delivery,
         PushP!delivery, Push!outcome, PushP!outcome, Push!losses, PushP!losses
<1>3. \A c : Push!Publish(c) <=> PushP!Publish(c)
  BY Zenon DEF Push!Publish, PushP!Publish, Push!outcome, PushP!outcome, Push!losses, PushP!losses
<1>4. QED
  BY <1>1, <1>2, <1>3

(* Every copy carries an event, and every instance has a store of its own. *)
LEMMA PushAssumed ==
    /\ [c \in Copy |-> BodyOf[c[1]]] \in [Copy -> EventId] /\ {} \subseteq Copy
    /\ [i \in Instance |-> i] \in [Instance -> Instance]
    /\ PushP!IsInjective([i \in Instance |-> i])
    /\ PushP!LocalStores
<1>1. [c \in Copy |-> BodyOf[c[1]]] \in [Copy -> EventId]
  BY BodyAssumption DEF Copy
<1>2. PushP!IsInjective([i \in Instance |-> i])
  BY DEF PushP!IsInjective
<1>3. QED
  BY <1>1, <1>2 DEF PushP!LocalStores

LEMMA IngestKeeps ==
    /\ IngestP!Init => IngestP!IInv /\ IngestP!LaterUnsent
    /\ IngestP!IInv /\ IngestP!LaterUnsent /\ IngestP!Step
         => IngestP!IInv' /\ IngestP!LaterUnsent' /\ IngestP!NothingStored /\ IngestP!OneAnswer
<1>1. IngestP!Init => IngestP!IInv /\ IngestP!LaterUnsent
  BY IngestP!InitEstablishesIInv, IngestP!LaterUnsentInit, BoundAssumption
<1>2. IngestP!IInv /\ IngestP!Step => IngestP!IInv' /\ IngestP!OneAnswer
  BY IngestP!NextPreservesIInv, IngestP!StepAnswersOnce, BoundAssumption DEF IngestP!Next
<1>3. IngestP!IInv /\ IngestP!LaterUnsent /\ IngestP!Step
         => IngestP!LaterUnsent' /\ IngestP!NothingStored
  BY IngestP!StepStoresNothing, BoundAssumption
<1>4. QED
  BY <1>1, <1>2, <1>3

LEMMA SettleKeeps ==
    ASSUME IngestP!IInv, IngestP!LaterUnsent, NEW d \in Delivery, NEW k \in IngestP!Attempt,
           IngestP!Settle(d, k)
    PROVE  /\ IngestP!IInv' /\ IngestP!LaterUnsent' /\ answer' = answer
           /\ \A c \in Delivery : c # d => IngestP!Stored(c)' = IngestP!Stored(c)
           /\ IngestP!Stored(d)' = IF rpc'[d][k] = "stored" THEN IngestP!Stored(d) \cup {k}
                                                            ELSE IngestP!Stored(d)
<1>1. IngestP!IInv'
  BY IngestP!NextPreservesIInv, BoundAssumption DEF IngestP!Next
<1>2. QED
  BY <1>1, IngestP!SettleStoresOne, BoundAssumption

LEMMA PushKeeps ==
    /\ PushP!Init => PushP!IInv /\ PushP!Traced
    /\ PushP!IInv /\ PushP!Traced /\ PushP!Step
         => PushP!IInv' /\ PushP!Traced' /\ PushP!OneMoves
    /\ \A c \in Copy : PushP!IInv /\ PushP!Traced /\ PushP!Publish(c)
         => PushP!IInv' /\ PushP!Traced'
<1>1. PushP!Init => PushP!IInv /\ PushP!Traced
  BY PushP!InitEstablishesIInv, PushP!TracedInit, BoundAssumption, PushAssumed
<1>2. PushP!IInv /\ PushP!Traced /\ PushP!Next => PushP!IInv' /\ PushP!Traced'
  BY PushP!NextPreservesIInv, PushP!TracedNext, BoundAssumption, PushAssumed DEF PushP!IInv
<1>3. PushP!IInv /\ PushP!Traced /\ PushP!Step => PushP!OneMoves
  BY PushP!StepMoves, BoundAssumption, PushAssumed DEF PushP!IInv, PushP!Traced
<1>4. QED
  BY <1>1, <1>2, <1>3 DEF PushP!Next

LEMMA PushUnchanged ==
    ASSUME PushP!IInv, PushP!Traced, UNCHANGED pushVars
    PROVE  PushP!IInv' /\ PushP!Traced'
<1>1. UNCHANGED PushP!vars
  BY DEF pushVars, PushP!vars, PushP!delivery, PushP!outcome, PushP!losses
<1>2. QED
  BY <1>1, PushP!NextPreservesIInv, PushP!TracedNext, BoundAssumption, PushAssumed
     DEF PushP!IInv

LEMMA IngestUnchanged ==
    ASSUME IngestP!IInv, IngestP!LaterUnsent, UNCHANGED ingestVars
    PROVE  /\ IngestP!IInv' /\ IngestP!LaterUnsent' /\ answer' = answer
           /\ \A d : Ingest!Stored(d)' = Ingest!Stored(d)
<1>1. UNCHANGED IngestP!vars /\ rpc' = rpc /\ attempt' = attempt /\ answer' = answer
  BY DEF ingestVars, IngestP!vars
<1>2. IngestP!IInv'
  BY <1>1, IngestP!NextPreservesIInv, BoundAssumption
<1>3. IngestP!LaterUnsent'
  BY <1>1 DEF IngestP!LaterUnsent, IngestP!Attempt
<1>4. QED
  BY <1>1, <1>2, <1>3 DEF Ingest!Stored, Ingest!Attempt
-----------------------------------------------------------------------------
(* The shape of the variables, as far as the two services share it. *)
LEMMA Shape ==
    ASSUME IInv
    PROVE  /\ rpc \in [Delivery -> [Ingest!Attempt -> {"unsent", "inflight", "stored", "dropped"}]]
           /\ answer \in [Delivery -> Nat]
           /\ sub \in [Copy -> {"unpublished", "pending", "acked", "dead"}]
           /\ completed \in [EventId -> Nat]
<1>1. rpc \in [Delivery -> [Ingest!Attempt -> {"unsent", "inflight", "stored", "dropped"}]]
  BY SameIngest DEF IInv, IngestP!IInv, IngestP!TypeOK, IngestP!RpcState
<1>2. answer \in [Delivery -> Nat]
  <2>1. IngestP!Status \cup {0} \subseteq Nat
    BY DEF IngestP!Status
  <2>2. answer \in [Delivery -> IngestP!Status \cup {0}]
    BY DEF IInv, IngestP!IInv, IngestP!TypeOK
  <2>3. QED
    BY <2>1, <2>2
<1>3. sub \in [Copy -> {"unpublished", "pending", "acked", "dead"}]
      /\ completed \in [EventId -> Nat]
  BY DEF IInv, PushP!IInv, PushP!TypeOK, PushP!SubState
<1>4. QED
  BY <1>1, <1>2, <1>3

LEMMA InitEstablishesIInv == Init => IInv
<1> SUFFICES ASSUME Init PROVE IInv
  OBVIOUS
<1>1. Ingest!Init /\ Push!Init
  BY DEF Init
<1>2. OnTopic
  BY <1>1 DEF Ingest!Init, Ingest!Stored, Push!Init, Copy, OnTopic
<1>3. QED
  BY <1>1, <1>2, SameIngest, SamePush, IngestKeeps, PushKeeps DEF IInv

(* The steps of the ingest service: the topic stays as it is. *)
LEMMA IngestStep ==
    ASSUME IInv, Ingest!Step, UNCHANGED pushVars
    PROVE  /\ IInv' /\ sub' = sub /\ completed' = completed /\ abandoned' = abandoned
           /\ \A d \in Delivery : Ingest!Stored(d)' = Ingest!Stored(d)
           /\ \/ answer' = answer
              \/ \E d \in Delivery, status \in Nat :
                     /\ answer[d] = 0
                     /\ status = 202 => Ingest!Stored(d) # {}
                     /\ answer' = [answer EXCEPT ![d] = status]
<1>1. /\ IngestP!IInv' /\ IngestP!LaterUnsent' /\ IngestP!NothingStored /\ IngestP!OneAnswer
  BY SameIngest, IngestKeeps DEF IInv
<1>2. \A d \in Delivery : Ingest!Stored(d)' = Ingest!Stored(d)
  BY <1>1, SameIngest DEF IngestP!NothingStored
<1>3. PushP!IInv' /\ PushP!Traced'
  BY PushUnchanged DEF IInv
<1>4. sub' = sub /\ completed' = completed /\ abandoned' = abandoned
  BY DEF pushVars
<1>5. OnTopic'
  BY <1>2, <1>4 DEF IInv, OnTopic, Ingest!Attempt
<1>6. IngestP!Status \subseteq Nat
  BY DEF IngestP!Status
<1>7. QED
  BY <1>1, <1>2, <1>3, <1>4, <1>5, <1>6, SameIngest DEF IInv, IngestP!OneAnswer

(* The steps of the subscription and of the processors: the ingest service *)
(* is not concerned.                                                       *)
LEMMA PushStep ==
    ASSUME IInv, Push!Step, UNCHANGED ingestVars
    PROVE  /\ IInv' /\ answer' = answer
           /\ \A d \in Delivery : Ingest!Stored(d)' = Ingest!Stored(d)
           /\ \/ sub' = sub
              \/ \E c \in Copy : \E state \in {"pending", "acked", "dead"} :
                     sub[c] = "pending" /\ sub' = [sub EXCEPT ![c] = state]
<1>1. PushP!IInv' /\ PushP!Traced' /\ PushP!OneMoves
  BY SamePush, PushKeeps DEF IInv
<1>2. /\ IngestP!IInv' /\ IngestP!LaterUnsent' /\ answer' = answer
      /\ \A d : Ingest!Stored(d)' = Ingest!Stored(d)
  BY IngestUnchanged DEF IInv
<1>3. \/ sub' = sub
      \/ \E c \in Copy : \E state \in {"pending", "acked", "dead"} :
             sub[c] = "pending" /\ sub' = [sub EXCEPT ![c] = state]
  BY <1>1 DEF PushP!OneMoves, PushP!SubState
<1>4. \A c \in Copy : sub'[c] # "unpublished" <=> sub[c] # "unpublished"
  BY <1>3, Shape
<1>5. Ingest!Attempt' = Ingest!Attempt
  BY DEF Ingest!Attempt
<1>6. OnTopic'
  BY <1>2, <1>4, <1>5 DEF IInv, OnTopic, Copy
<1>7. QED
  BY <1>1, <1>2, <1>3, <1>6 DEF IInv

(* The fate of an attempt: what the subscription gets to know is stored.   *)
LEMMA ArriveStep ==
    ASSUME IInv, NEW d \in Delivery, NEW k \in Ingest!Attempt, Arrive(d, k)
    PROVE  /\ IInv' /\ answer' = answer /\ completed' = completed /\ abandoned' = abandoned
           /\ \/ sub' = sub
              \/ sub[<<d, k>>] = "unpublished" /\ sub' = [sub EXCEPT ![<<d, k>>] = "pending"]
           /\ \A c \in Delivery : c # d => Ingest!Stored(c)' = Ingest!Stored(c)
           /\ \/ Ingest!Stored(d)' = Ingest!Stored(d)
              \/ Ingest!Stored(d)' = Ingest!Stored(d) \cup {k}
<1>1. /\ IngestP!IInv' /\ IngestP!LaterUnsent' /\ answer' = answer
      /\ \A c \in Delivery : c # d => Ingest!Stored(c)' = Ingest!Stored(c)
      /\ Ingest!Stored(d)' = IF rpc'[d][k] = "stored" THEN Ingest!Stored(d) \cup {k}
                                                      ELSE Ingest!Stored(d)
  BY SettleKeeps, SameIngest DEF IInv, Arrive
<1>2. <<d, k>> \in Copy /\ Ingest!Attempt' = Ingest!Attempt
  BY DEF Copy, Ingest!Attempt
<1>3. CASE rpc'[d][k] = "stored"
  <2>1. Push!Publish(<<d, k>>)
    BY <1>3 DEF Arrive
  <2>2. /\ sub[<<d, k>>] = "unpublished" /\ sub' = [sub EXCEPT ![<<d, k>>] = "pending"]
        /\ completed' = completed /\ abandoned' = abandoned
    BY <2>1 DEF Push!Publish, Push!outcome
  <2>3. PushP!IInv' /\ PushP!Traced'
    BY <1>2, <2>1, SamePush, PushKeeps DEF IInv
  <2>4. \A c \in Copy : c # <<d, k>> => sub'[c] = sub[c]
    BY <2>2, Shape
  <2>5. ASSUME NEW c \in Delivery, NEW j \in Ingest!Attempt
        PROVE  sub'[<<c, j>>] # "unpublished" <=> j \in Ingest!Stored(c)'
    <3>1. CASE c = d /\ j = k
      BY <1>1, <1>2, <1>3, <2>2, <3>1, Shape
    <3>2. CASE <<c, j>> # <<d, k>>
      <4>1. sub[<<c, j>>] # "unpublished" <=> j \in Ingest!Stored(c)
        BY DEF IInv, OnTopic
      <4>2. sub'[<<c, j>>] = sub[<<c, j>>]
        BY <2>4, <3>2 DEF Copy
      <4>3. j \in Ingest!Stored(c)' <=> j \in Ingest!Stored(c)
        BY <1>1, <1>3, <3>2
      <4>4. QED
        BY <4>1, <4>2, <4>3
    <3>3. QED
      BY <3>1, <3>2
  <2>6. OnTopic'
    BY <1>2, <2>5 DEF OnTopic
  <2>7. QED
    BY <1>1, <1>3, <2>2, <2>3, <2>6 DEF IInv
<1>4. CASE rpc'[d][k] # "stored"
  <2>1. UNCHANGED pushVars
    BY <1>4 DEF Arrive
  <2>2. PushP!IInv' /\ PushP!Traced'
    BY <2>1, PushUnchanged DEF IInv
  <2>3. sub' = sub /\ completed' = completed /\ abandoned' = abandoned
    BY <2>1 DEF pushVars
  <2>4. OnTopic'
    BY <1>1, <1>2, <1>4, <2>3 DEF IInv, OnTopic
  <2>5. QED
    BY <1>1, <1>4, <2>2, <2>3, <2>4 DEF IInv
<1>5. QED
  BY <1>3, <1>4

LEMMA StutterStep ==
    ASSUME IInv, UNCHANGED vars
    PROVE  /\ IInv' /\ answer' = answer /\ sub' = sub
           /\ \A d \in Delivery : Ingest!Stored(d)' = Ingest!Stored(d)
<1>1. UNCHANGED ingestVars /\ UNCHANGED pushVars /\ sub' = sub
      /\ Ingest!Attempt' = Ingest!Attempt
  BY DEF vars, pushVars, Ingest!Attempt
<1>2. /\ IngestP!IInv' /\ IngestP!LaterUnsent' /\ answer' = answer
      /\ \A d : Ingest!Stored(d)' = Ingest!Stored(d)
  BY <1>1, IngestUnchanged DEF IInv
<1>3. PushP!IInv' /\ PushP!Traced'
  BY <1>1, PushUnchanged DEF IInv
<1>4. OnTopic'
  BY <1>1, <1>2 DEF IInv, OnTopic
<1>5. QED
  BY <1>1, <1>2, <1>3, <1>4 DEF IInv

LEMMA NextPreservesIInv == IInv /\ [Next]_vars => IInv'
  BY IngestStep, PushStep, ArriveStep, StutterStep DEF Next
-----------------------------------------------------------------------------
(* Nothing runs that the front door refused: whatever the handler          *)
(* completes was carried by a delivery without a fault.                    *)
THEOREM OnlyAcceptedIsHandled == Spec => []HandledWasAccepted
<1>1. ASSUME IInv, NEW e \in EventId, completed[e] > 0
      PROVE  \E d \in Delivery : BodyOf[d] = e /\ faults[d] = {}
  <2>1. PICK c \in Copy : BodyOf[c[1]] = e /\ sub[c] # "unpublished"
    BY <1>1 DEF IInv, PushP!Traced, PushP!CompletedWerePublished
  <2>2. PICK d \in Delivery, k \in Ingest!Attempt : c = <<d, k>>
    BY DEF Copy
  <2>3. rpc[d][k] = "stored"
    BY <1>1, <2>1, <2>2 DEF IInv, OnTopic, Ingest!Stored
  <2>4. faults[d] = {}
    BY <1>1, <2>3, SameIngest DEF IInv, IngestP!IInv, IngestP!OnlyAcceptedIsQueued
  <2>5. QED
    BY <2>1, <2>2, <2>4
<1>2. IInv => HandledWasAccepted
  BY <1>1 DEF HandledWasAccepted
<1>3. QED
  BY InitEstablishesIInv, NextPreservesIInv, <1>2, PTL DEF Spec

-----------------------------------------------------------------------------
(***************************************************************************)
(* The refinement of AtLeastOnce.  A delivery is accounted for as soon as  *)
(* one of its copies has left the subscription, because an acked copy is   *)
(* settled (AckedMeansSettled, of the processor); so what a step adds to   *)
(* stored, promised and accounted can be read off rpc, answer and sub.     *)
(***************************************************************************)
StoredOnes   == {d \in Delivery : Ingest!Stored(d) # {}}
PromisedOnes == {d \in Delivery : answer[d] = 202}
AccountedOnes == {d \in Delivery : Accounted(d)}

Left(d) == \E k \in Ingest!Attempt : sub[<<d, k>>] \in {"acked", "dead"}

LEMMA AccountedMeansLeft == IInv => AccountedOnes = {d \in Delivery : Left(d)}
<1> SUFFICES ASSUME IInv, NEW d \in Delivery
             PROVE  Accounted(d) <=> Left(d)
  BY DEF AccountedOnes
<1>1. ASSUME NEW k \in Ingest!Attempt, sub[<<d, k>>] = "acked"
      PROVE  Push!Settled(<<d, k>>)
  <2>1. <<d, k>> \in Copy
    BY DEF Copy
  <2>2. PushP!Settled(<<d, k>>)
    BY <1>1, <2>1 DEF IInv, PushP!IInv, PushP!AckedMeansSettled
  <2>3. QED
    BY <2>2 DEF Push!Settled, PushP!Settled
<1>2. \A c \in {d} \X Ingest!Attempt : \E k \in Ingest!Attempt : c = <<d, k>>
  OBVIOUS
<1>3. \A k \in Ingest!Attempt : <<d, k>> \in {d} \X Ingest!Attempt
  OBVIOUS
<1>4. QED
  BY <1>1, <1>2, <1>3 DEF Accounted, Left

LEMMA InitIsOfTheContract == Init => Contract!Init
<1> SUFFICES ASSUME Init PROVE Contract!Init
  OBVIOUS
<1>1. Ingest!Init /\ Push!Init
  BY DEF Init
<1>2. IInv
  BY InitEstablishesIInv
<1>3. StoredOnes = {} /\ PromisedOnes = {}
  BY <1>1 DEF Ingest!Init, Ingest!Stored, StoredOnes, PromisedOnes
<1>4. AccountedOnes = {}
  <2>1. \A d \in Delivery : ~Left(d)
    BY <1>1 DEF Push!Init, Left, Copy
  <2>2. QED
    BY <1>2, <2>1, AccountedMeansLeft
<1>5. QED
  BY <1>3, <1>4 DEF Contract!Init, StoredOnes, PromisedOnes, AccountedOnes

(* A step of the contract, told by the three sets. *)
LEMMA ContractStep ==
    ASSUME \/ /\ StoredOnes' = StoredOnes /\ PromisedOnes' = PromisedOnes
              /\ AccountedOnes' = AccountedOnes
           \/ \E d \in Delivery :
                 \/ /\ d \notin StoredOnes /\ StoredOnes' = StoredOnes \cup {d}
                    /\ PromisedOnes' = PromisedOnes /\ AccountedOnes' = AccountedOnes
                 \/ /\ d \in StoredOnes \ PromisedOnes
                    /\ PromisedOnes' = PromisedOnes \cup {d}
                    /\ StoredOnes' = StoredOnes /\ AccountedOnes' = AccountedOnes
                 \/ /\ d \in StoredOnes \ AccountedOnes
                    /\ AccountedOnes' = AccountedOnes \cup {d}
                    /\ StoredOnes' = StoredOnes /\ PromisedOnes' = PromisedOnes
    PROVE  [Contract!Next]_(Contract!vars)
  BY Zenon DEF Contract!Next, Contract!vars, Contract!Store, Contract!Promise, Contract!Account,
               StoredOnes, PromisedOnes, AccountedOnes

LEMMA NextIsOfTheContract == IInv /\ IInv' /\ [Next]_vars => [Contract!Next]_(Contract!vars)
<1> SUFFICES ASSUME IInv, IInv', [Next]_vars PROVE [Contract!Next]_(Contract!vars)
  OBVIOUS
<1>1. (IInv => AccountedOnes = {d \in Delivery : Left(d)})'
  BY AccountedMeansLeft, PTL
<1>2. /\ AccountedOnes = {d \in Delivery : Left(d)}
      /\ AccountedOnes' = {d \in Delivery : Left(d)'}
  BY <1>1, AccountedMeansLeft
<1>3. /\ StoredOnes' = {d \in Delivery : Ingest!Stored(d)' # {}}
      /\ PromisedOnes' = {d \in Delivery : answer'[d] = 202}
      /\ Ingest!Attempt' = Ingest!Attempt
  BY DEF StoredOnes, PromisedOnes, Ingest!Attempt
<1>4. CASE Ingest!Step /\ UNCHANGED pushVars
  <2>1. /\ sub' = sub
        /\ \A d \in Delivery : Ingest!Stored(d)' = Ingest!Stored(d)
        /\ \/ answer' = answer
           \/ \E d \in Delivery, status \in Nat :
                  /\ answer[d] = 0
                  /\ status = 202 => Ingest!Stored(d) # {}
                  /\ answer' = [answer EXCEPT ![d] = status]
    BY <1>4, IngestStep
  <2>2. StoredOnes' = StoredOnes /\ AccountedOnes' = AccountedOnes
    BY <1>2, <1>3, <2>1 DEF StoredOnes, Left
  <2>3. CASE answer' = answer
    <3>1. PromisedOnes' = PromisedOnes
      BY <1>3, <2>3 DEF PromisedOnes
    <3>2. QED
      BY <2>2, <3>1, ContractStep
  <2>4. ASSUME NEW d \in Delivery, NEW status \in Nat,
               answer[d] = 0, status = 202 => Ingest!Stored(d) # {},
               answer' = [answer EXCEPT ![d] = status]
        PROVE  [Contract!Next]_(Contract!vars)
    <3>1. \A c \in Delivery : answer'[c] = IF c = d THEN status ELSE answer[c]
      BY <2>4, Shape
    <3>2. CASE status = 202
      <4>1. PromisedOnes' = PromisedOnes \cup {d} /\ d \in StoredOnes \ PromisedOnes
        BY <1>3, <2>4, <3>1, <3>2 DEF PromisedOnes, StoredOnes
      <4>2. QED
        BY <2>2, <4>1, ContractStep
    <3>3. CASE status # 202
      <4>1. PromisedOnes' = PromisedOnes
        BY <1>3, <2>4, <3>1, <3>3 DEF PromisedOnes
      <4>2. QED
        BY <2>2, <4>1, ContractStep
    <3>4. QED
      BY <3>2, <3>3
  <2>5. QED
    BY <2>1, <2>3, <2>4
<1>5. CASE Push!Step /\ UNCHANGED ingestVars
  <2>1. /\ answer' = answer
        /\ \A d \in Delivery : Ingest!Stored(d)' = Ingest!Stored(d)
        /\ \/ sub' = sub
           \/ \E c \in Copy : \E state \in {"pending", "acked", "dead"} :
                  sub[c] = "pending" /\ sub' = [sub EXCEPT ![c] = state]
    BY <1>5, PushStep
  <2>2. StoredOnes' = StoredOnes /\ PromisedOnes' = PromisedOnes
    BY <1>3, <2>1 DEF StoredOnes, PromisedOnes
  <2>3. CASE sub' = sub
    <3>1. AccountedOnes' = AccountedOnes
      BY <1>2, <1>3, <2>3 DEF Left
    <3>2. QED
      BY <2>2, <3>1, ContractStep
  <2>4. ASSUME NEW c \in Copy, NEW state \in {"pending", "acked", "dead"},
               sub[c] = "pending", sub' = [sub EXCEPT ![c] = state]
        PROVE  [Contract!Next]_(Contract!vars)
    <3>1. PICK d \in Delivery, k \in Ingest!Attempt : c = <<d, k>>
      BY DEF Copy
    <3>2. \A b \in Delivery, j \in Ingest!Attempt :
              sub'[<<b, j>>] = IF b = d /\ j = k THEN state ELSE sub[<<b, j>>]
      BY <2>4, <3>1, Shape DEF Copy
    <3>3. \A b \in Delivery : b # d => (Left(b)' <=> Left(b))
      BY <1>3, <3>2 DEF Left
    <3>4. CASE state = "pending" \/ Left(d)
      <4>1. Left(d)' <=> Left(d)
        BY <1>3, <2>4, <3>1, <3>2, <3>4 DEF Left
      <4>2. AccountedOnes' = AccountedOnes
        BY <1>2, <3>3, <4>1
      <4>3. QED
        BY <2>2, <4>2, ContractStep
    <3>5. CASE state # "pending" /\ ~Left(d)
      <4>1. Left(d)'
        BY <1>3, <3>2, <3>5 DEF Left
      <4>2. AccountedOnes' = AccountedOnes \cup {d} /\ d \notin AccountedOnes
        BY <1>2, <3>3, <3>5, <4>1
      <4>3. d \in StoredOnes
        BY <2>4, <3>1 DEF IInv, OnTopic, StoredOnes
      <4>4. QED
        BY <2>2, <4>2, <4>3, ContractStep
    <3>6. QED
      BY <3>4, <3>5
  <2>5. QED
    BY <2>1, <2>3, <2>4
<1>6. ASSUME NEW d \in Delivery, NEW k \in Ingest!Attempt, Arrive(d, k)
      PROVE  [Contract!Next]_(Contract!vars)
  <2>1. /\ answer' = answer
        /\ \/ sub' = sub
           \/ sub[<<d, k>>] = "unpublished" /\ sub' = [sub EXCEPT ![<<d, k>>] = "pending"]
        /\ \A c \in Delivery : c # d => Ingest!Stored(c)' = Ingest!Stored(c)
        /\ \/ Ingest!Stored(d)' = Ingest!Stored(d)
           \/ Ingest!Stored(d)' = Ingest!Stored(d) \cup {k}
    BY <1>6, ArriveStep
  <2>2. PromisedOnes' = PromisedOnes
    BY <1>3, <2>1 DEF PromisedOnes
  <2>3. \A b \in Delivery, j \in Ingest!Attempt :
            sub'[<<b, j>>] \in {"acked", "dead"} <=> sub[<<b, j>>] \in {"acked", "dead"}
    BY <2>1, Shape DEF Copy
  <2>4. AccountedOnes' = AccountedOnes
    BY <1>2, <1>3, <2>3 DEF Left
  <2>5. \/ StoredOnes' = StoredOnes
        \/ d \notin StoredOnes /\ StoredOnes' = StoredOnes \cup {d}
    BY <1>3, <2>1 DEF StoredOnes
  <2>6. QED
    BY <2>2, <2>4, <2>5, ContractStep
<1>7. CASE UNCHANGED vars
  <2>1. /\ answer' = answer /\ sub' = sub
        /\ \A d \in Delivery : Ingest!Stored(d)' = Ingest!Stored(d)
    BY <1>7, StutterStep
  <2>2. StoredOnes' = StoredOnes /\ PromisedOnes' = PromisedOnes /\ AccountedOnes' = AccountedOnes
    BY <1>2, <1>3, <2>1 DEF StoredOnes, PromisedOnes, Left
  <2>3. QED
    BY <2>2, ContractStep
<1>8. QED
  BY <1>4, <1>5, <1>6, <1>7 DEF Next

(* The pipeline takes only steps of the contract: one delivery at a time   *)
(* is stored, a stored one is promised once, and a stored one is accounted *)
(* for once and stays so, whatever crashes, is late or is sent twice.      *)
THEOREM KeepsTheContract ==
    Spec => Contract!Init /\ [][Contract!Next]_(Contract!vars)
  BY InitEstablishesIInv, NextPreservesIInv, InitIsOfTheContract, NextIsOfTheContract, PTL
     DEF Spec

(* An acknowledged delivery is on the subscription until it is accounted   *)
(* for: the promise of the ingest service is kept by the processor, with   *)
(* no moment in between at which the event exists nowhere.                 *)
THEOREM PromisesAreTracked == Spec => []NothingPromisedIsLost
<1>1. ASSUME IInv, NEW d \in Delivery, answer[d] = 202
      PROVE  Accounted(d) \/ \E k \in Ingest!Attempt : sub[<<d, k>>] = "pending"
  <2>1. Ingest!Stored(d) # {}
    BY <1>1, SameIngest DEF IInv, IngestP!IInv, IngestP!PromiseKept
  <2>2. PICK k \in Ingest!Attempt : sub[<<d, k>>] # "unpublished"
    BY <1>1, <2>1 DEF IInv, OnTopic, Ingest!Stored
  <2>3. sub[<<d, k>>] \in {"pending", "acked", "dead"}
    BY <1>1, <2>2, Shape DEF Copy
  <2>4. sub[<<d, k>>] \in {"acked", "dead"} => d \in AccountedOnes
    BY <1>1, AccountedMeansLeft DEF Left
  <2>5. QED
    BY <2>3, <2>4 DEF AccountedOnes
<1>2. IInv => NothingPromisedIsLost
  BY <1>1 DEF NothingPromisedIsLost
<1>3. QED
  BY InitEstablishesIInv, NextPreservesIInv, <1>2, PTL DEF Spec

(* What is proved of each service by itself holds of it in the pipeline.   *)
THEOREM ServicesKeepTheirWord ==
    Spec => [](/\ Ingest!PromiseKept /\ Ingest!OnlyAcceptedIsQueued
               /\ Push!AckedMeansSettled)
<1>1. IInv => Ingest!PromiseKept /\ Ingest!OnlyAcceptedIsQueued
  BY SameIngest DEF IInv, IngestP!IInv, IngestP!PromiseKept, Ingest!PromiseKept,
                    IngestP!OnlyAcceptedIsQueued, Ingest!OnlyAcceptedIsQueued
<1>2. IInv => Push!AckedMeansSettled
  BY DEF IInv, PushP!IInv, PushP!AckedMeansSettled, Push!AckedMeansSettled,
         PushP!Settled, Push!Settled
<1>3. QED
  BY InitEstablishesIInv, NextPreservesIInv, <1>1, <1>2, PTL DEF Spec
=============================================================================
