----------------------------- MODULE MCPoolSweeps -----------------------------
(* Instances of PoolSweeps for TLC.                                         *)
EXTENDS PoolSweeps

Symmetry == Permutations(Threads) \cup Permutations(Buffers)
=============================================================================
