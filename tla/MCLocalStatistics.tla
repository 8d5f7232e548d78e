--------------------------- MODULE MCLocalStatistics ---------------------------
(* Instances of LocalStatistics for TLC.                                    *)
EXTENDS LocalStatistics

Symmetry == Permutations(Threads) \cup Permutations(Buffers)
=============================================================================
