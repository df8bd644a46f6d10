-------------------------- MODULE MCEvaluationTasks --------------------------
(* Instances of EvaluationTasks for TLC. *)
EXTENDS EvaluationTasks, TLC

CONSTANTS v1, v2, w1, w2, a1, a2

\* Two versions of one request: v1 computed by algorithm a1, v2 by a2.
OneAlgorithmEach == (v1 :> a1) @@ (v2 :> a2)

\* Two versions that differ in the profiles only.
SameAlgorithm == (v1 :> a1) @@ (v2 :> a1)
=============================================================================
