---------------------------- MODULE TaskLifecycle ----------------------------
(***************************************************************************)
(* What a client of the matching service may rely on about an evaluation   *)
(* task, whoever executes it and however often it is delivered: the states *)
(* of TaskStatus (domain/tasks.py:16), an attempt counter, and a result    *)
(* that appears in the same instant as the status "succeeded".             *)
(***************************************************************************)
EXTENDS Naturals

CONSTANTS Tasks, MaxAttempts

VARIABLES
  status,  \* of each task
  attempt, \* attempts begun
  result   \* whether a result is stored

lifecycleVars == <<status, attempt, result>>

LifecycleInit ==
  /\ status = [t \in Tasks |-> "absent"]
  /\ attempt = [t \in Tasks |-> 0]
  /\ result = [t \in Tasks |-> FALSE]

Move(t, from, to) ==
  /\ status[t] \in from
  /\ status' = [status EXCEPT ![t] = to]

Create(t) == Move(t, {"absent"}, "pending") /\ UNCHANGED <<attempt, result>>

\* A failed task is retried and a running one taken over, as long as attempts
\* are left.
Start(t) ==
  /\ attempt[t] < MaxAttempts
  /\ Move(t, {"pending", "running", "failed"}, "running")
  /\ attempt' = [attempt EXCEPT ![t] = @ + 1]
  /\ UNCHANGED result

Succeed(t) ==
  /\ Move(t, {"running"}, "succeeded")
  /\ result' = [result EXCEPT ![t] = TRUE]
  /\ UNCHANGED attempt

Fail(t) == Move(t, {"pending", "running"}, "failed") /\ UNCHANGED <<attempt, result>>

LifecycleNext == \E t \in Tasks : Create(t) \/ Start(t) \/ Succeed(t) \/ Fail(t)

LifecycleSpec == LifecycleInit /\ [][LifecycleNext]_lifecycleVars
=============================================================================
