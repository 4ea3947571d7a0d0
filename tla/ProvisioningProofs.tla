-------------------------- MODULE ProvisioningProofs --------------------------
(***************************************************************************)
(* No good event is dead-lettered, in whatever order an apply creates the  *)
(* resources and wherever it stops: for any events and any attempt limit.  *)
(*                                                                         *)
(* The property is not inductive: it needs that a queued event implies a   *)
(* subscription, and a subscription the grants a delivery needs, so that   *)
(* the first delivery of a good event reaches the processor (FirstCounts). *)
(***************************************************************************)
EXTENDS Provisioning, TLAPS

TypeInv == attempts \in [Message -> Nat] /\ place \in [Message -> Place]

GrantsFirst == "processor_push" \in created => Reaches

QueuedIsSubscribed ==
    \A m \in Message : place[m] = "queued" => "processor_push" \in created

FirstCounts ==
    \A m \in Message \ Poison :
        place[m] \in {"unsent", "queued"} => attempts[m] = 0

UnsentIsUntried == \A m \in Message : place[m] = "unsent" => attempts[m] = 0

IInv == /\ TypeInv /\ GrantsFirst /\ QueuedIsSubscribed /\ FirstCounts
        /\ UnsentIsUntried /\ OnlyPoisonIsDeadLettered
-----------------------------------------------------------------------------
LEMMA InitEstablishesIInv == Init => IInv
  BY DEF Init, IInv, TypeInv, Place, GrantsFirst, QueuedIsSubscribed, FirstCounts,
         UnsentIsUntried, OnlyPoisonIsDeadLettered

(* A resource that is created takes nothing away. *)
LEMMA CreateKeepsIInv ==
    ASSUME IInv, NEW r \in Resource, Create(r)
    PROVE  IInv'
<1>1. /\ created' = created \cup {r} /\ place' = place /\ attempts' = attempts
      /\ DependsOn(r) \subseteq created
  BY DEF Create
<1>2. GrantsFirst'
  <2>1. CASE r = "processor_push"
    <3>1. {"processor_push_only", "pubsub_mints_push_tokens"} \subseteq DependsOn(r)
      BY <2>1 DEF DependsOn
    <3>2. QED
      BY <1>1, <3>1 DEF GrantsFirst, Reaches
  <2>2. CASE r # "processor_push"
    BY <1>1, <2>2 DEF IInv, GrantsFirst, Reaches
  <2>3. QED
    BY <2>1, <2>2
<1>3. /\ TypeInv' /\ QueuedIsSubscribed' /\ FirstCounts' /\ UnsentIsUntried'
      /\ OnlyPoisonIsDeadLettered'
  BY <1>1 DEF IInv, TypeInv, QueuedIsSubscribed, FirstCounts, UnsentIsUntried,
              OnlyPoisonIsDeadLettered
<1>4. QED
  BY <1>2, <1>3 DEF IInv

LEMMA SendKeepsIInv ==
    ASSUME IInv, NEW m \in Message, Send(m)
    PROVE  IInv'
<1>1. /\ created' = created /\ attempts' = attempts /\ place[m] = "unsent"
      /\ \E p \in {"refused", "unsubscribed", "queued"} :
            /\ place' = [place EXCEPT ![m] = p]
            /\ p = "queued" => "processor_push" \in created
  BY DEF Send
<1>2. TypeInv' /\ GrantsFirst'
  BY <1>1 DEF IInv, TypeInv, Place, GrantsFirst, Reaches
<1>3. QueuedIsSubscribed' /\ UnsentIsUntried' /\ OnlyPoisonIsDeadLettered'
  BY <1>1 DEF IInv, TypeInv, QueuedIsSubscribed, UnsentIsUntried, OnlyPoisonIsDeadLettered
<1>4. FirstCounts'
  BY <1>1 DEF IInv, TypeInv, FirstCounts
<1>5. QED
  BY <1>2, <1>3, <1>4 DEF IInv

(* The first delivery of a good event is its last: it reaches the processor. *)
LEMMA DeliverKeepsIInv ==
    ASSUME IInv, NEW m \in Message, Deliver(m)
    PROVE  IInv'
<1>1. /\ created' = created /\ place[m] = "queued"
      /\ attempts' = [attempts EXCEPT ![m] = @ + 1]
      /\ place' = [place EXCEPT ![m] = IF Reaches /\ m \notin Poison THEN "handled" ELSE @]
  BY DEF Deliver
<1>2. Reaches
  BY <1>1 DEF IInv, QueuedIsSubscribed, GrantsFirst
<1>3. TypeInv' /\ GrantsFirst' /\ QueuedIsSubscribed' /\ OnlyPoisonIsDeadLettered'
  BY <1>1, <1>2 DEF IInv, TypeInv, Place, GrantsFirst, Reaches, QueuedIsSubscribed,
                    OnlyPoisonIsDeadLettered
<1>4. UnsentIsUntried' /\ FirstCounts'
  BY <1>1, <1>2 DEF IInv, TypeInv, UnsentIsUntried, FirstCounts
<1>5. QED
  BY <1>3, <1>4 DEF IInv

(* An event that is out of attempts has been tried, so it is poison. *)
LEMMA DeadLetterKeepsIInv ==
    ASSUME IInv, NEW m \in Message, DeadLetter(m)
    PROVE  IInv'
<1>1. /\ created' = created /\ attempts' = attempts
      /\ place[m] = "queued" /\ attempts[m] = MaxDeliveryAttempts
      /\ \E p \in {"dead-lettered", "void"} : place' = [place EXCEPT ![m] = p]
  BY DEF DeadLetter
<1>2. m \in Poison
  BY <1>1, AttemptsAssumption DEF IInv, FirstCounts
<1>3. TypeInv' /\ GrantsFirst' /\ QueuedIsSubscribed'
  BY <1>1 DEF IInv, TypeInv, Place, GrantsFirst, Reaches, QueuedIsSubscribed
<1>4. OnlyPoisonIsDeadLettered' /\ UnsentIsUntried' /\ FirstCounts'
  BY <1>1, <1>2 DEF IInv, TypeInv, OnlyPoisonIsDeadLettered, UnsentIsUntried, FirstCounts
<1>5. QED
  BY <1>3, <1>4 DEF IInv

LEMMA NextPreservesIInv == IInv /\ [Next]_vars => IInv'
<1> SUFFICES ASSUME IInv, [Next]_vars PROVE IInv'
  OBVIOUS
<1>1. CASE AddVersion \/ UNCHANGED vars
  BY <1>1 DEF AddVersion, vars, IInv, TypeInv, GrantsFirst, Reaches, QueuedIsSubscribed,
              FirstCounts, UnsentIsUntried, OnlyPoisonIsDeadLettered
<1>2. QED
  BY <1>1, CreateKeepsIInv, SendKeepsIInv, DeliverKeepsIInv, DeadLetterKeepsIInv
     DEF Next, PubSub

(* A good event is never dead-lettered for want of a grant, whatever the   *)
(* apply has created so far: the subscription waits for its depends_on.    *)
THEOREM GoodEventsSurviveTheApply == Spec => []OnlyPoisonIsDeadLettered
<1>1. IInv => OnlyPoisonIsDeadLettered
  BY DEF IInv
<1>2. QED
  BY InitEstablishesIInv, NextPreservesIInv, <1>1, PTL DEF Spec
=============================================================================
