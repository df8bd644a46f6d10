-------------------------- MODULE MCExtractionTasks --------------------------
(* Instances of ExtractionTasks for TLC. *)
EXTENDS ExtractionTasks, TLC

CONSTANTS w1, w2, r1, r2, r3, q1

\* A pool of two threads, a pool of one, and a request.
TwoWorkersAndARequest == (r1 :> w1) @@ (r2 :> w1) @@ (r3 :> w2) @@ (q1 :> NoOne)
=============================================================================
