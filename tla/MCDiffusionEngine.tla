-------------------------- MODULE MCDiffusionEngine --------------------------
(* Small instances of DiffusionEngine for TLC.                              *)
EXTENDS DiffusionEngine

CONSTANTS t1, t2, t3, r1, r2, r3, k1, k2

(* Three tasks with request ids of their own.                               *)
OwnIds == [t \in Tasks |-> CASE t = t1 -> r1 [] t = t2 -> r2 [] OTHER -> r3]

(* The third task uses the id of the first again.                           *)
ReusedIds == [t \in Tasks |-> CASE t = t2 -> r2 [] OTHER -> r1]

OneKey == [t \in Tasks |-> k1]
TwoKeys == [t \in Tasks |-> IF t = t3 THEN k2 ELSE k1]
=============================================================================
