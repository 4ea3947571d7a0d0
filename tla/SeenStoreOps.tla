---------------------------- MODULE SeenStoreOps ----------------------------
(***************************************************************************)
(* What the two calls of the SeenStore protocol (src/processor/dedup.py)   *)
(* do to the claims a store holds.  A store is seen here as the sequence   *)
(* of the ids it holds a live claim on, oldest claim first; an id occurs   *)
(* in it once.                                                             *)
(***************************************************************************)
EXTENDS Integers, Sequences, SequencesExt

CONSTANT MaxEntries   \* DEDUP_MAX_ENTRIES: the most claims a store keeps

(* src/processor/config.py refuses a value below 1. *)
ASSUME MaxEntriesAssumption == MaxEntries \in Nat \ {0}

(* The youngest MaxEntries elements of s: what is left once the oldest have *)
(* been dropped until the store is within its bound.                        *)
Youngest(s) == IF Len(s) > MaxEntries
               THEN SubSeq(s, Len(s) - MaxEntries + 1, Len(s))
               ELSE s

Granted(held, e) == Youngest(Append(held, e))

(* An id that is not held is left alone: the endpoint releases on its      *)
(* failure paths without checking first.                                   *)
Released(held, e) ==
    IF e \in ToSet(held)
    THEN RemoveAt(held, CHOOSE i \in DOMAIN held : held[i] = e)
    ELSE held

(* The claims that granting e pushes out of a full store. *)
Surplus(held, e) == ToSet(held) \ ToSet(Granted(held, e))
=============================================================================
