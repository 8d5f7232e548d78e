--------------------------- MODULE MCPoolStatistics ---------------------------
(* Instances of PoolStatistics for TLC.                                     *)
EXTENDS PoolStatistics

Symmetry == Permutations(Threads) \cup Permutations(Buffers)
=============================================================================
