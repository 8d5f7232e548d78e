----------------------------- MODULE MCLocalPool -----------------------------
(* Instances of LocalPool for TLC.                                          *)
EXTENDS LocalPool

Symmetry == Permutations(Threads) \cup Permutations(Buffers)
=============================================================================
