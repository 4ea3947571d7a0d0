-------------------------- MODULE InMemorySeenStore --------------------------
(***************************************************************************)
(* src/processor/dedup.py, class InMemorySeenStore: an OrderedDict from    *)
(* event id to expiry time, bounded and expiring, local to one process.    *)
(* The dictionary is the sequence of its items in iteration order.         *)
(*                                                                         *)
(* Operators marked Fault are an operator of the class with one plausible  *)
(* mistake in it; no action uses them.  They show which property notices.  *)
(*                                                                         *)
(* Time is an integer that only moves forward (time.monotonic); each call  *)
(* reads it once, so a call is one step.                                   *)
(***************************************************************************)
EXTENDS SeenStoreOps

CONSTANTS EventId,   \* ids the endpoint may claim
          Ttl,       \* DEDUP_TTL_SECONDS, in ticks of the clock
          MaxTime,   \* bound of the model: the clock stops here
          NoReply    \* claim() has not been called yet

(* positive_int in src/processor/config.py refuses a TTL below 1. *)
ASSUME TtlAssumption == Ttl \in Nat \ {0}
ASSUME MaxTimeAssumption == MaxTime \in Nat

VARIABLES claims,    \* _claims: items [id, expires] in iteration order
          now,       \* what _now() would return
          reply      \* what the last claim() returned

vars == <<claims, now, reply>>

Item == [id : EventId, expires : Nat]
Reply == [id : EventId, granted : BOOLEAN]
-----------------------------------------------------------------------------
(* The dictionary operations the class is made of. *)

IndicesOf(c, e) == {i \in DOMAIN c : c[i].id = e}

(* pop(e, None) *)
Pop(c, e) == IF IndicesOf(c, e) = {} THEN c
             ELSE RemoveAt(c, CHOOSE i \in IndicesOf(c, e) : TRUE)

Live(item, t) == item.expires > t

(* Fault: an entry counts even after its expiry. *)
HoldsForever(c, e, t) == IndicesOf(c, e) # {}

Holds(c, e, t) == \E i \in IndicesOf(c, e) : Live(c[i], t)

(* Fault: no move_to_end, a re-claimed id keeps its old place. *)
TouchInPlace(c, e, t) ==
    IF IndicesOf(c, e) = {} THEN Append(c, [id |-> e, expires |-> t + Ttl])
    ELSE [i \in DOMAIN c |->
            IF c[i].id = e THEN [c[i] EXCEPT !.expires = t + Ttl] ELSE c[i]]

(* Assign a fresh expiry, then move_to_end: whether or not the id was in   *)
(* the dictionary, its item ends up last.                                  *)
Touch(c, e, t) == Append(Pop(c, e), [id |-> e, expires |-> t + Ttl])

(* Where the first loop of _evict stops: the first item that is alive, or  *)
(* past the end.                                                           *)
FirstLive(c, t) == Min({i \in DOMAIN c : Live(c[i], t)} \cup {Len(c) + 1})

DropExpired(c, t) == SubSeq(c, FirstLive(c, t), Len(c))

(* Faults: only one of the two loops of _evict. *)
EvictExpiredOnly(c, t) == DropExpired(c, t)
EvictSurplusOnly(c, t) == Youngest(c)

(* The second loop trims from the front until the store is within bound. *)
Evict(c, t) == Youngest(DropExpired(c, t))
-----------------------------------------------------------------------------
TypeOK == /\ claims \in Seq(Item)
          /\ now \in Nat
          /\ reply \in Reply \cup {NoReply}

Init == /\ claims = <<>>
        /\ now = 0
        /\ reply = NoReply

ClaimRefused(e) == /\ Holds(claims, e, now)
                   /\ reply' = [id |-> e, granted |-> FALSE]
                   /\ UNCHANGED <<claims, now>>

ClaimGranted(e) == /\ ~Holds(claims, e, now)
                   /\ claims' = Evict(Touch(claims, e, now), now)
                   /\ reply' = [id |-> e, granted |-> TRUE]
                   /\ UNCHANGED now

Release(e) == /\ claims' = Pop(claims, e)
              /\ UNCHANGED <<now, reply>>

(* Fault: a wall clock, which may be set back. *)
TickWallClock == /\ now < MaxTime
                 /\ now' \in {now - 1, now + 1}
                 /\ UNCHANGED <<claims, reply>>

Tick == /\ now < MaxTime
        /\ now' = now + 1
        /\ UNCHANGED <<claims, reply>>

Next == \/ \E e \in EventId : ClaimRefused(e) \/ ClaimGranted(e) \/ Release(e)
        \/ Tick

Spec == Init /\ [][Next]_vars
-----------------------------------------------------------------------------
(* Every id has one item, and items expire in the order they are stored.   *)
(* _evict relies on it twice: its first loop stops at the first live item  *)
(* and its second takes the front for the oldest.  Re-claiming an expired  *)
(* id is the step that could break it.                                     *)
OldestFirst ==
    \A i, j \in DOMAIN claims :
        i < j => /\ claims[i].id # claims[j].id
                 /\ claims[i].expires <= claims[j].expires

(* The store never outgrows DEDUP_MAX_ENTRIES between calls, and no claim  *)
(* outlives one TTL from now, whatever was released or re-claimed.         *)
WithinBounds ==
    /\ Len(claims) <= MaxEntries
    /\ \A i \in DOMAIN claims : claims[i].expires <= now + Ttl

(* A claim that is granted leaves no expired item behind, not only no more *)
(* items than the bound: the memory of a quiet store is given back.        *)
GrantLeavesOnlyLive ==
    [][ \A e \in EventId : ClaimGranted(e) =>
          \A i \in DOMAIN claims' : Live(claims'[i], now) ]_vars

(* The ids whose claim is alive, oldest first. *)
LiveIds == [i \in 1 .. Len(claims) + 1 - FirstLive(claims, now) |->
              claims[i + FirstLive(claims, now) - 1].id]

(* Seen through its live claims the class is a SeenStore: an id is granted *)
(* exactly when no live claim on it stands, a live claim is crowded out    *)
(* only by younger live ones when the store is full of them, and claims    *)
(* lapse oldest first.                                                     *)
Abstract == INSTANCE SeenStore WITH held <- LiveIds
ImplementsSeenStore == Abstract!Spec
=============================================================================
