------------------------------ MODULE SeenStore ------------------------------
(***************************************************************************)
(* What a SeenStore promises the push endpoint (the protocol class of      *)
(* src/processor/dedup.py): at most MaxEntries claims, granted one at a    *)
(* time per id, given up oldest first.  Time does not appear: a claim may  *)
(* be forgotten at any moment, but never before an older one.              *)
(***************************************************************************)
EXTENDS SeenStoreOps

CONSTANTS EventId,   \* ids the callers may claim
          NoReply    \* claim() has not been called yet

VARIABLES held,      \* the claims that stand, oldest first
          reply      \* what the last claim() answered

vars == <<held, reply>>

TypeOK == /\ held \in Seq(EventId)
          /\ reply \in [id : EventId, granted : BOOLEAN] \cup {NoReply}

Init == /\ held = <<>>
        /\ reply = NoReply

(* claim(e) answers False: the caller must not process the event again. *)
Refuse(e) == /\ e \in ToSet(held)
             /\ reply' = [id |-> e, granted |-> FALSE]
             /\ UNCHANGED held

(* claim(e) answers True; a full store gives up its oldest claims for it. *)
Grant(e) == /\ e \notin ToSet(held)
            /\ held' = Granted(held, e)
            /\ reply' = [id |-> e, granted |-> TRUE]

Release(e) == /\ held' = Released(held, e)
              /\ UNCHANGED reply

(* The n oldest claims lapse. *)
Lapse(n) == /\ n <= Len(held)
            /\ held' = SubSeq(held, n + 1, Len(held))
            /\ UNCHANGED reply

Next == \/ \E e \in EventId : Refuse(e) \/ Grant(e) \/ Release(e)
        \/ \E n \in 1..MaxEntries : Lapse(n)

Spec == Init /\ [][Next]_vars
=============================================================================
