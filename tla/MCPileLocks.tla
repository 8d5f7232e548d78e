----------------------------- MODULE MCPileLocks -----------------------------
(* Instances of PileLocks for TLC.                                          *)
EXTENDS PileLocks, TLC

Symmetry == Permutations(Threads)
=============================================================================
