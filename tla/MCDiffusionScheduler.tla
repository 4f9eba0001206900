------------------------- MODULE MCDiffusionScheduler -------------------------
(* Small instances of DiffusionScheduler for TLC.                           *)
EXTENDS DiffusionScheduler, TLC

Symmetry == Permutations(Requests) \cup Permutations(Keys)
=============================================================================
