--------------------------- MODULE EvaluationTasks ---------------------------
(***************************************************************************)
(* The evaluation-task store of the matching service and the executions    *)
(* that run against it (services/matching-service, evaluation_tasks.py).   *)
(*                                                                         *)
(* Tasks are the versions of the request submitted under ONE idempotency   *)
(* key: the table holds one row per (scope, key, version signature).       *)
(* Every action is one unit of work, that is one database transaction; the *)
(* rows it reads are locked (SELECT ... FOR UPDATE), so a transaction is   *)
(* atomic.  What is NOT atomic is an execution: claim, the reading of the  *)
(* `running' snapshot and the commit of the outcome are three              *)
(* transactions, with the evaluation itself computed in between.           *)
(*                                                                         *)
(* Time is abstracted to the one comparison the code makes: a lease is     *)
(* "live" until lease_expires_at <= now, and may pass that point whenever. *)
(***************************************************************************)
EXTENDS Naturals, Sequences

CONSTANTS
  Tasks,        \* the versions submitted under the key, each one task row
  Workers,      \* worker ids; a restarted worker keeps its id (compose.yaml)
  Algorithms,   \* algorithm versions that may be deployed
  AlgorithmOf,  \* the algorithm version in each task's version signature
  MaxAttempts,  \* max_attempts of every task
  NoOne,        \* lease_owner = None
  NoTask        \* a worker that runs nothing

ASSUME AttemptsAssumption  == MaxAttempts \in Nat \ {0}
ASSUME NoOneAssumption     == NoOne \notin Workers
ASSUME NoTaskAssumption    == NoTask \notin Tasks
ASSUME AlgorithmAssumption == AlgorithmOf \in [Tasks -> Algorithms]

VARIABLES
  task,       \* the evaluation_tasks rows
  evaluation, \* the persisted_evaluations rows: missing, current or stale
  created,    \* the tasks in the order of created_at
  deployed,   \* the algorithm version the service runs with
  exec        \* per worker process, the execution it holds in memory

vars == <<task, evaluation, created, deployed, exec>>

Status == {"absent", "pending", "running", "succeeded", "failed"}
ErrorCode == {"none", "execution_failed", "exhausted", "abandoned"}

TaskRow ==
  [status  : Status,
   attempt : 0 .. MaxAttempts,
   owner   : Workers \cup {NoOne},
   lease   : {"none", "live", "expired"},
   code    : ErrorCode]

\* "claimed": claim() returned; "evaluating": the snapshot was read and the
\* evaluation is being computed.  `attempt' is the snapshot's attempt, the
\* value the final save writes back.
Execution ==
  [pc : {"idle", "claimed", "evaluating"},
   task : Tasks \cup {NoTask},
   attempt : 0 .. MaxAttempts]

Idle == [pc |-> "idle", task |-> NoTask, attempt |-> 0]

TypeOK ==
  /\ task \in [Tasks -> TaskRow]
  /\ evaluation \in [Tasks -> {"none", "current", "stale"}]
  /\ created \in Seq(Tasks)
  /\ deployed \in Algorithms
  /\ exec \in [Workers -> Execution]

Absent == [status |-> "absent", attempt |-> 0, owner |-> NoOne,
           lease |-> "none", code |-> "none"]

Init ==
  /\ task = [t \in Tasks |-> Absent]
  /\ evaluation = [t \in Tasks |-> "none"]
  /\ created = <<>>
  /\ deployed \in Algorithms
  /\ exec = [w \in Workers |-> Idle]

------------------------------------------------------------------------------
Exists(t) == task[t].status # "absent"

Exhausted(t) == task[t].status = "failed" /\ task[t].attempt = MaxAttempts

Terminal(t) == task[t].status = "succeeded" \/ Exhausted(t)

\* Mutant of Released: the lease columns are left as they are.
ReleasedKeepingOwner(row, status, code) == [row EXCEPT !.status = status, !.code = code]

\* The row with its lease given up, in a new status.
Released(row, status, code) ==
  [row EXCEPT !.status = status, !.owner = NoOne, !.lease = "none", !.code = code]

Superseded(t) == \E u \in Tasks \ {t} : Exists(u)

\* _mark_result_stale of every earlier task of the key: a task with no
\* result yet is passed over.
MarkStale(t) ==
  [u \in Tasks |-> IF u # t /\ task[u].status = "succeeded" /\ evaluation[u] # "none"
                   THEN "stale" ELSE evaluation[u]]

\* submit(): an exact version match is reused, anything else is a new task
\* that supersedes the earlier versions.
Submit(t) ==
  /\ AlgorithmOf[t] = deployed
  /\ \/ /\ Exists(t)
        /\ UNCHANGED <<task, evaluation, created>>
     \/ /\ ~Exists(t)
        /\ evaluation' = MarkStale(t)
        /\ task' = [task EXCEPT ![t] = [Absent EXCEPT !.status = "pending"]]
        /\ created' = Append(created, t)
  /\ UNCHANGED <<deployed, exec>>

------------------------------------------------------------------------------
LeaseOver(t) == task[t].status = "running" /\ task[t].lease # "live"

\* Mutant of Claimable: the attempt bound of the UPDATE is forgotten for
\* tasks that failed.
ClaimableWithoutBound(t) ==
  /\ Exists(t)
  /\ \/ task[t].status = "failed"
     \/ task[t].attempt < MaxAttempts /\ (task[t].status = "pending" \/ LeaseOver(t))

\* The WHERE clause of the claiming UPDATE.
Claimable(t) ==
  /\ task[t].attempt < MaxAttempts
  /\ task[t].status \in {"pending", "failed"} \/ LeaseOver(t)

\* claim(), first branch: the last attempt's lease ran out.
Exhaust(t) ==
  /\ LeaseOver(t)
  /\ task[t].attempt = MaxAttempts
  /\ task' = [task EXCEPT ![t] = Released(@, "failed", "exhausted")]

Take(w, t) ==
  /\ Claimable(t)
  /\ task' = [task EXCEPT ![t] = [status |-> "running", attempt |-> @.attempt + 1,
                                  owner |-> w, lease |-> "live", code |-> "none"]]

\* claim() followed by the caller's test of the returned row: the caller goes
\* on exactly when the row it gets back names it as the lease owner, which
\* is also so when its own earlier lease is still live.
Claim(w, t) ==
  /\ exec[w].pc = "idle"
  /\ Exists(t)
  /\ \/ /\ Exhaust(t)
        /\ UNCHANGED exec
     \/ /\ Take(w, t)
        /\ exec' = [exec EXCEPT ![w] = [pc |-> "claimed", task |-> t, attempt |-> 0]]
     \/ /\ ~Claimable(t) /\ ~LeaseOver(t)
        /\ UNCHANGED task
        /\ exec' = IF task[t].owner = w
                   THEN [exec EXCEPT ![w] = [pc |-> "claimed", task |-> t, attempt |-> 0]]
                   ELSE exec
  /\ UNCHANGED <<evaluation, created, deployed>>

\* Mutant of HoldsLease: the owner is not compared.
HoldsAnyLease(w, t) == task[t].status = "running"

\* Mutant of HoldsLease: the status is not compared with "running".
HoldsByOwnerOrFree(w, t) == task[t].owner \in {w, NoOne}

\* execute_claimed checks this when it reads the snapshot and again when it
\* persists the outcome.  The expiry of the lease is not looked at.
HoldsLease(w, t) == task[t].status = "running" /\ task[t].owner = w

\* The snapshot `running' is read.
BeginExecution(w) ==
  /\ exec[w].pc = "claimed"
  /\ LET t == exec[w].task IN
       exec' = [exec EXCEPT ![w] =
                  IF HoldsLease(w, t)
                  THEN [pc |-> "evaluating", task |-> t, attempt |-> task[t].attempt]
                  ELSE Idle]
  /\ UNCHANGED <<task, evaluation, created, deployed>>

\* The outcome is saved from the snapshot, or dropped (TASK_LEASE_NOT_OWNED).
FinishExecution(w, outcome) ==
  /\ exec[w].pc = "evaluating"
  /\ LET t   == exec[w].task
         row == [task[t] EXCEPT !.attempt = exec[w].attempt] IN
       IF HoldsLease(w, t)
       THEN /\ task' = [task EXCEPT ![t] =
                          IF outcome = "succeeded"
                          THEN Released(row, "succeeded", "none")
                          ELSE Released(row, "failed", "execution_failed")]
            /\ evaluation' = IF outcome = "succeeded"
                             THEN [evaluation EXCEPT ![t] = "current"]
                             ELSE evaluation
       ELSE UNCHANGED <<task, evaluation>>
  /\ exec' = [exec EXCEPT ![w] = Idle]
  /\ UNCHANGED <<created, deployed>>

\* The process dies, or an exception leaves run_once: memory is lost, the
\* row keeps its lease.
Interrupt(w) ==
  /\ exec[w].pc # "idle"
  /\ exec' = [exec EXCEPT ![w] = Idle]
  /\ UNCHANGED <<task, evaluation, created, deployed>>

ExpireLease(t) ==
  /\ task[t].lease = "live"
  /\ task' = [task EXCEPT ![t].lease = "expired"]
  /\ UNCHANGED <<evaluation, created, deployed, exec>>

\* Mutant of Abandonable: a finished task could be abandoned too.
AbandonableFinished(t) == Exists(t)

\* abandon() answers with an error on a succeeded task and returns a failed
\* one as it is.
Abandonable(t) == task[t].status \in {"pending", "running"}

Abandon(t) ==
  /\ Abandonable(t)
  /\ task' = [task EXCEPT ![t] = Released(@, "failed", "abandoned")]
  /\ UNCHANGED <<evaluation, created, deployed, exec>>

------------------------------------------------------------------------------
\* Mutant of StaleOnRead: reasons are recomputed from the deployed versions
\* only.
StaleOnReadByVersion(t) == AlgorithmOf[t] # deployed

\* get_evaluation drops the reasons a configuration drift produced and
\* computes them again; ALGORITHM_VERSION_CHANGED survives when another
\* version of the request exists under the key.
StaleOnRead(t) ==
  \/ AlgorithmOf[t] # deployed
  \/ evaluation[t] = "stale" /\ Superseded(t)

GetEvaluation(t) ==
  /\ evaluation[t] # "none"
  /\ evaluation' = [evaluation EXCEPT ![t] = IF StaleOnRead(t) THEN "stale" ELSE "current"]
  /\ UNCHANGED <<task, created, deployed, exec>>

\* The service is restarted with another algorithm version.
Deploy(a) ==
  /\ deployed # a
  /\ deployed' = a
  /\ UNCHANGED <<task, evaluation, created, exec>>

Next ==
  \/ \E t \in Tasks : Submit(t) \/ ExpireLease(t) \/ Abandon(t) \/ GetEvaluation(t)
  \/ \E w \in Workers, t \in Tasks : Claim(w, t)
  \/ \E w \in Workers : BeginExecution(w) \/ Interrupt(w)
  \/ \E w \in Workers, o \in {"succeeded", "failed"} : FinishExecution(w, o)
  \/ \E a \in Algorithms : Deploy(a)

Spec == Init /\ [][Next]_vars

------------------------------------------------------------------------------
(* Properties *)

\* The abstract task, read off the two tables.
Lifecycle == INSTANCE TaskLifecycle WITH
  status  <- [t \in Tasks |-> task[t].status],
  attempt <- [t \in Tasks |-> task[t].attempt],
  result  <- [t \in Tasks |-> evaluation[t] # "none"]

\* Leases, snapshots, takeovers, late saves and stale marks are invisible to
\* a client: every transaction is one step of the abstract task or none.
ImplementsLifecycle == Lifecycle!LifecycleSpec

\* Fencing without an attempt token: execute_claimed compares only status
\* and lease_owner, and writes the whole row back from its snapshot.  That is
\* enough because an execution that would still be let through always holds
\* a snapshot of the CURRENT attempt, whatever expired, was taken over,
\* abandoned or restarted while it ran.
SnapshotIsCurrent ==
  \A w \in Workers :
    LET t == exec[w].task IN
      exec[w].pc = "evaluating" /\ HoldsLease(w, t) => exec[w].attempt = task[t].attempt

\* The evaluation row and the task row agree: there is a result exactly when
\* the task succeeded (validate_succeeded_duplicate, evaluation_tasks.py:602).
ResultMatchesTask ==
  \A t \in Tasks : evaluation[t] # "none" <=> task[t].status = "succeeded"

\* A lease exists exactly while the task runs: no path out of "running"
\* leaves an owner behind that could commit later.
LeaseIffRunning ==
  \A t \in Tasks :
    /\ task[t].status = "running" <=> task[t].owner # NoOne
    /\ task[t].status = "running" <=> task[t].lease # "none"

\* A succeeded task and a failed one without attempts left are final: no late
\* worker, redelivery, resubmission or user changes the row again.
TerminalIsFinal == [][\A t \in Tasks : Terminal(t) => task'[t] = task[t]]_vars

\* A later version of the request was submitted.
SubmittedAgain(t) == \E i, j \in DOMAIN created : i < j /\ created[i] = t

\* A result marked stale because the request was submitted again with
\* another version is not made current again by reading it, whatever is
\* deployed.
SupersededStaysStale ==
  [][\A t \in Tasks : evaluation[t] = "stale" /\ SubmittedAgain(t) => evaluation'[t] = "stale"]_vars

\* test_changed_input_marks_previous_evaluation_stale: once a later version
\* was submitted, the result of an earlier version is never current.
EarlierVersionIsStale ==
  \A i, j \in DOMAIN created : i < j => evaluation[created[i]] # "current"

\* evaluation_tasks.py:48 "marks of a configuration drift are computed again
\* ... and cleared once the configuration agrees": read under its own
\* versions, the result of the latest version is current.
LatestIsHealed ==
  \A t \in Tasks :
    evaluation[t] # "none" /\ AlgorithmOf[t] = deployed /\ ~SubmittedAgain(t) => ~StaleOnRead(t)
=============================================================================
