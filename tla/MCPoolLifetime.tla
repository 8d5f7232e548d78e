---------------------------- MODULE MCPoolLifetime ----------------------------
(* Instances of PoolLifetime for TLC.                                       *)
EXTENDS PoolLifetime, TLC

Symmetry == Permutations(Threads) \cup Permutations(Buffers) \cup Permutations(Handles)
=============================================================================
