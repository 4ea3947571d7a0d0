---------------------------- MODULE MCPushTiming ----------------------------
EXTENDS PushTiming

CONSTANTS m1, m2, m3, e1, e2, i1, i2

(* m1 and m2 carry the same event, m3 another. *)
TwoCopies == [m \in Message |-> IF m = m3 THEN e2 ELSE e1]

OwnStore == [i \in Instance |-> i]

(* Instances differ by nothing but their names. *)
InstanceSymmetry == Permutations(Instance)
=============================================================================
