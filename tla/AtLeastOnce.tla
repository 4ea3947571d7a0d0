----------------------------- MODULE AtLeastOnce -----------------------------
(***************************************************************************)
(* What the two services promise together to a sender that never retries.  *)
(* A delivery may be stored on the topic, at any time; only a stored one   *)
(* is acknowledged (promised), and every stored one is accounted for in    *)
(* the end: handled, abandoned by the handler, or dead-lettered.           *)
(***************************************************************************)
CONSTANT Delivery

VARIABLES stored, promised, accounted

vars == <<stored, promised, accounted>>

Init == stored = {} /\ promised = {} /\ accounted = {}

Store(d) == /\ d \notin stored
            /\ stored' = stored \cup {d}
            /\ UNCHANGED <<promised, accounted>>

Promise(d) == /\ d \in stored \ promised
              /\ promised' = promised \cup {d}
              /\ UNCHANGED <<stored, accounted>>

Account(d) == /\ d \in stored \ accounted
              /\ accounted' = accounted \cup {d}
              /\ UNCHANGED <<stored, promised>>

Next == \E d \in Delivery : Store(d) \/ Promise(d) \/ Account(d)

Spec == Init /\ [][Next]_vars /\ \A d \in Delivery : WF_vars(Account(d))
=============================================================================
