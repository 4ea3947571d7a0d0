---------------------------- MODULE MCPushDelivery ----------------------------
EXTENDS PushDelivery

CONSTANTS m1, m2, m3, e1, e2

(* m1 and m2 carry the same event, as after an ingest retry of a publish   *)
(* that had been stored; m3 carries another.                               *)
TwoCopies == [m \in Message |-> IF m = m3 THEN e2 ELSE e1]

(* In-memory: every instance has a store of its own. *)
OwnStore == [i \in Instance |-> i]

(* What the module docstring recommends: one store for all. *)
OneStore == [i \in Instance |-> "shared"]
=============================================================================
