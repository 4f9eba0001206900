---------------------- MODULE MCDiffusionStateManager ----------------------
EXTENDS DiffusionStateManager, TLC

CONSTANTS r1, r2, u1, u2, u3, u4

Symmetry == Permutations(Requests) \cup Permutations(Names)
=============================================================================
