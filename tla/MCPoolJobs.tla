------------------------------ MODULE MCPoolJobs ------------------------------
(* Instances of PoolJobs for TLC.                                           *)
EXTENDS PoolJobs

\* A loop under a cap that all the workers fit under.
CapAtWorkers == [Loop("cap_at_workers") EXCEPT !.cap = Cardinality(Workers)]

\* A loop under a cap that neither the workers nor what was prefilled fit under.
CapBelowWorkers ==
  [Loop("cap_below_workers") EXCEPT !.cap = 1, !.prefill = 2]

AllJobs ==
  {DrainReduce, RayonScratch, PairScores, NonStaticInit, ScopedThreads,
   DetachCollect, DetachCollectScratch, SizeBuckets, SizeClasses, AllocBench,
   PrefillServesColdLeases, MaxIdleIsGlobal, CapAtWorkers,
   CapBelowWorkers}

Symmetry ==
  Permutations(Workers) \cup Permutations(Buffers) \cup Permutations(Items)
=============================================================================
