----------------------------- MODULE MCBufferPool -----------------------------
(* Instances of BufferPool for TLC: threads and buffers are interchangeable. *)
EXTENDS BufferPool

Symmetry == Permutations(Threads) \cup Permutations(Buffers)
=============================================================================
