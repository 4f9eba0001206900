-------------------------- MODULE MCDistributedPool --------------------------
EXTENDS DistributedPool

CONSTANTS r1, r2, a1, a2
=============================================================================
