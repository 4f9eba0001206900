------------------------- MODULE MCMultiprocExecutor -------------------------
(* Small instances of MultiprocExecutor for TLC: two ranks, and the three   *)
(* kinds of call.                                                           *)
EXTENDS MultiprocExecutor

CONSTANTS w1, w2, gather, forward, solo
=============================================================================
