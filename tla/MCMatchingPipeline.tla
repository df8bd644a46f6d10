------------------------- MODULE MCMatchingPipeline --------------------------
(* Instances of MatchingPipeline for TLC. *)
EXTENDS MatchingPipeline, TLC

CONSTANTS v1, w1, w2, a1, e1, e2, api1, api2, id1

OneAlgorithm == v1 :> a1

\* Threads of one API process publish under one dispatcher id.
OneId == [d \in Dispatchers |-> id1]

\* Workers, stream entries, and threads with one id, play the same part each
\* (safety runs only).
PartSymmetry ==
  Permutations(Workers) \cup Permutations(Entries) \cup Permutations(Dispatchers)
=============================================================================
