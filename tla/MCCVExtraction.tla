--------------------------- MODULE MCCVExtraction ---------------------------
(* Instances of CVExtraction for TLC. *)
EXTENDS CVExtraction, TLC

CONSTANTS w1, w2, r1, r2, r3, p1, p2

\* The pool of w1 has two threads (CV_EXTRACTION_WORKER_CONCURRENCY).
TwoThreadsAndOne == (r1 :> w1) @@ (r2 :> w1) @@ (r3 :> w2)

OnePolicyEach == (w1 :> p1) @@ (w2 :> p2)
=============================================================================
