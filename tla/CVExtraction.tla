---------------------------- MODULE CVExtraction ----------------------------
(***************************************************************************)
(* A CV extraction task of the main API (contexts/cv_ingestion,            *)
(* workers/cv_extraction.py, infrastructure/cv_ingestion.py) up to the     *)
(* review that a user confirms.                                            *)
(*                                                                         *)
(* A run is a thread of a worker's pool.  A claim and a heartbeat are one  *)
(* UPDATE each.  Every other transaction reads the row, decides, and       *)
(* writes the columns it changed, with no lock and no version in between:  *)
(* it is a read and a write here.  Transactions that only write            *)
(* execution_metadata (stages and progress) are left out, and so is the    *)
(* backoff before a retry.                                                 *)
(***************************************************************************)
EXTENDS Naturals, FiniteSets

CONSTANTS
  Workers,         \* worker processes
  Runs, WorkerOf,  \* threads of their pools
  Policies,        \* values of CV_EXTRACTION_VALIDATION_POLICY_VERSION
  PolicyOf,        \* per worker, the one it is configured with
  MaxAttempts,
  NoOne

ASSUME AttemptsAssumption == MaxAttempts \in Nat \ {0}
ASSUME WorkerOfAssumption == WorkerOf \in [Runs -> Workers] /\ NoOne \notin Workers
ASSUME PolicyAssumption   == PolicyOf \in [Workers -> Policies]

VARIABLES
  task,      \* the row of cv_extraction_tasks
  reports,   \* its cv_data_validation_tasks, each with its report
  run,       \* per run, what it is at
  request,   \* the cancel or retry request under way
  recovery,  \* per worker, the attempts its recovery read, NotRecovering if none
  calm       \* no crash and no missed heartbeat any more

vars == <<task, reports, run, request, recovery, calm>>

NotRecovering == MaxAttempts + 1

Status == {"absent", "pending", "running", "succeeded", "failed", "cancelled"}

\* `review' is the attempt whose result is up for review, 0 if there is none.
Task == [status : Status, attempts : 0 .. MaxAttempts, retryable : BOOLEAN,
         owner : Workers \cup {NoOne}, lease : {"none", "live", "expired"},
         review : 0 .. MaxAttempts]

Report == [policy : Policies, attempt : 1 .. MaxAttempts]

\* `handlers' are the except clauses an error still passes, `seen' the
\* attempts that the transaction under way read.
Run == [pc : {"idle", "queued", "extracting", "validate", "write_report", "complete",
              "write_review", "failing", "write_failure"},
        attempt : 0 .. MaxAttempts, handlers : 0 .. 2, seen : 0 .. MaxAttempts]

\* `owned' and `retryable' are what the request read.
Request == [pc : {"idle", "cancelling", "retrying"}, owned : BOOLEAN, retryable : BOOLEAN]

IdleRun     == [pc |-> "idle", attempt |-> 0, handlers |-> 0, seen |-> 0]
IdleRequest == [pc |-> "idle", owned |-> FALSE, retryable |-> FALSE]

TypeOK ==
  /\ task \in Task
  /\ reports \subseteq Report
  /\ run \in [Runs -> Run]
  /\ request \in Request
  /\ recovery \in [Workers -> 0 .. NotRecovering]
  /\ calm \in BOOLEAN

Init ==
  /\ task = [status |-> "absent", attempts |-> 0, retryable |-> FALSE,
             owner |-> NoOne, lease |-> "none", review |-> 0]
  /\ reports = {}
  /\ run = [r \in Runs |-> IdleRun]
  /\ request = IdleRequest
  /\ recovery = [w \in Workers |-> NotRecovering]
  /\ calm = FALSE

------------------------------------------------------------------------------
(* Claiming *)

\* upload_and_schedule(), import_and_schedule() and schedule_reextraction().
Schedule ==
  /\ task.status = "absent"
  /\ task' = [task EXCEPT !.status = "pending"]
  /\ UNCHANGED <<reports, run, request, recovery, calm>>

\* Mutant of Readable: any of the validations is taken.
ReadableAny == TRUE

\* _task() builds the record that most repository methods return, and raises
\* when the task has more than one validation: their transaction is rolled
\* back.
Readable == \A x, y \in reports : x = y

\* Mutant of Claimable: the attempts are not compared.
ClaimableUnbounded ==
  task.status = "pending" \/ (task.status = "failed" /\ task.retryable)

\* The WHERE clause of claim().
Claimable ==
  /\ task.status = "pending" \/ (task.status = "failed" /\ task.retryable)
  /\ task.attempts < MaxAttempts

Claimed(w) ==
  [task EXCEPT !.status = "running", !.attempts = @ + 1, !.owner = w, !.lease = "live",
               !.retryable = FALSE]

\* claim_next(), by the poller or a trigger, for a free thread of the pool.
ClaimNext(r) ==
  /\ run[r].pc = "idle" /\ Claimable /\ Readable
  /\ task' = Claimed(WorkerOf[r])
  /\ run' = [run EXCEPT ![r] = [IdleRun EXCEPT !.pc = "queued", !.attempt = task.attempts + 1]]
  /\ UNCHANGED <<reports, request, recovery, calm>>

------------------------------------------------------------------------------
(* Executing *)

\* _require_lease(): the worker is compared, not the claim.
Holds(r) == task.status = "running" /\ task.owner = WorkerOf[r]

Go(r, pc) == run' = [run EXCEPT ![r].pc = pc]
Stop(r)   == run' = [run EXCEPT ![r] = IdleRun]

\* An exception on its way through n except clauses.
RaiseTo(r, n) == run' = [run EXCEPT ![r].pc = "failing", ![r].handlers = n]

\* The first transaction of execute_claimed(), before its try block.
Begin(r) ==
  /\ run[r].pc = "queued"
  /\ IF Holds(r) /\ Readable THEN Go(r, "extracting") ELSE Stop(r)
  /\ UNCHANGED <<task, reports, request, recovery, calm>>

\* The provider answers or raises, in its own call or, for an answer that
\* breaks its contract, in the validation; the progress it reports raises as
\* well when the lease is lost.
Extract(r) ==
  /\ run[r].pc = "extracting"
  /\ Go(r, "validate") \/ RaiseTo(r, 1) \/ RaiseTo(r, 2)
  /\ UNCHANGED <<task, reports, request, recovery, calm>>

\* A transaction of _complete_claimed_payload() reads the row.
ReadHolding(r, pc, next) ==
  /\ run[r].pc = pc
  /\ IF Holds(r) THEN Go(r, next) ELSE RaiseTo(r, 2)
  /\ UNCHANGED <<task, reports, request, recovery, calm>>

ReadForReport(r) == ReadHolding(r, "validate", "write_report")

NewReport(r) == [policy |-> PolicyOf[WorkerOf[r]], attempt |-> run[r].attempt]

\* Mutant of Recorded: the report of an earlier attempt is kept.
RecordedOnce(r) == IF reports = {} THEN {NewReport(r)} ELSE reports

Recorded(r) ==
  reports \cup {NewReport(r)}

\* uq_cv_data_validation_tasks_natural_key.
Duplicate(r) == \E x \in reports : x.policy = PolicyOf[WorkerOf[r]]

\* record_validation() inserts, and returns no record of the task.
WriteReport(r) ==
  /\ run[r].pc = "write_report"
  /\ IF Duplicate(r)
     THEN RaiseTo(r, 2) /\ UNCHANGED reports
     ELSE Go(r, "complete") /\ reports' = Recorded(r)
  /\ UNCHANGED <<task, request, recovery, calm>>

ReadForReview(r) == ReadHolding(r, "complete", "write_review")

Released(row) == [row EXCEPT !.owner = NoOne, !.lease = "none"]

\* complete_with_review_pending().
WriteReview(r) ==
  /\ run[r].pc = "write_review"
  /\ IF Readable
     THEN /\ task' = Released([task EXCEPT !.status = "succeeded", !.review = run[r].attempt])
          /\ Stop(r)
     ELSE RaiseTo(r, 2) /\ UNCHANGED task
  /\ UNCHANGED <<reports, request, recovery, calm>>

\* An except clause raises what it caught to the one around it.
Passed(r) == IF run[r].handlers = 1 THEN Stop(r) ELSE RaiseTo(r, 1)

\* It reads the task again: it returns one that succeeded meanwhile, and marks
\* one that its worker holds as failed.
ReadForFailure(r) ==
  /\ run[r].pc = "failing"
  /\ IF ~Readable THEN Passed(r)
     ELSE IF task.status = "succeeded" THEN Stop(r)
     ELSE IF Holds(r)
     THEN run' = [run EXCEPT ![r].pc = "write_failure", ![r].seen = task.attempts]
     ELSE Passed(r)
  /\ UNCHANGED <<task, reports, request, recovery, calm>>

\* The row was read running, and so not retryable: the column is written when
\* it becomes TRUE.
Failed(seen) ==
  Released([task EXCEPT !.status = "failed",
                        !.retryable = IF seen < MaxAttempts THEN TRUE ELSE @])

\* mark_failed().
WriteFailure(r) ==
  /\ run[r].pc = "write_failure"
  /\ task' = IF Readable THEN Failed(run[r].seen) ELSE task
  /\ Passed(r)
  /\ UNCHANGED <<reports, request, recovery, calm>>

------------------------------------------------------------------------------
(* Cancel and retry requests *)

ReadFor(pc) ==
  /\ request.pc = "idle" /\ Readable
  /\ request' = [pc |-> pc, owned |-> task.owner # NoOne, retryable |-> task.retryable]
  /\ UNCHANGED <<task, reports, run, recovery, calm>>

ReadForCancel == ReadFor("cancelling") /\ task.status \in {"pending", "running", "failed"}

\* retry() takes a cancelled task, too.  retry_for_operations() asks for a
\* failed and retryable one before it calls it.
ReadForRetry ==
  /\ ReadFor("retrying")
  /\ task.status \in {"failed", "cancelled"} /\ task.attempts < MaxAttempts

\* Columns are written where they were read with another value.
Freed == IF request.owned THEN Released(task) ELSE task

Cancelled ==
  [Freed EXCEPT !.status = "cancelled",
                !.retryable = IF request.retryable THEN FALSE ELSE @]

Retried ==
  [task EXCEPT !.status = "pending", !.retryable = IF request.retryable THEN FALSE ELSE @]

WriteRequest ==
  /\ request.pc # "idle"
  /\ task' = IF ~Readable THEN task
             ELSE IF request.pc = "cancelling" THEN Cancelled ELSE Retried
  /\ request' = IdleRequest
  /\ UNCHANGED <<reports, run, recovery, calm>>

------------------------------------------------------------------------------
(* Leases *)

\* Mutant of Stale: a task whose attempts are used up is left alone.
StaleWithAttempts ==
  task.status = "running" /\ task.lease = "expired" /\ task.attempts < MaxAttempts

\* The WHERE clause of recover_stale().
Stale == task.status = "running" /\ task.lease = "expired"

ReadStale(w) ==
  /\ recovery[w] = NotRecovering /\ Stale
  /\ recovery' = [recovery EXCEPT ![w] = task.attempts]
  /\ UNCHANGED <<task, reports, run, request, calm>>

\* It returns a count, not a record.
Recover(w) ==
  /\ recovery[w] # NotRecovering
  /\ task' = Failed(recovery[w])
  /\ recovery' = [recovery EXCEPT ![w] = NotRecovering]
  /\ UNCHANGED <<reports, run, request, calm>>

\* The heartbeats of the owner renew a lease that has not expired, as long as
\* a thread of its pool runs the task.
LeaseExpires ==
  /\ task.lease = "live"
  /\ calm => \A r \in Runs : ~(run[r].pc # "idle" /\ WorkerOf[r] = task.owner)
  /\ task' = [task EXCEPT !.lease = "expired"]
  /\ UNCHANGED <<reports, run, request, recovery, calm>>

------------------------------------------------------------------------------
(* Faults *)

\* A worker process dies with its pool and its transactions.
Crash(w) ==
  /\ ~calm
  /\ recovery[w] # NotRecovering \/ \E r \in Runs : WorkerOf[r] = w /\ run[r].pc # "idle"
  /\ run' = [r \in Runs |-> IF WorkerOf[r] = w THEN IdleRun ELSE run[r]]
  /\ recovery' = [recovery EXCEPT ![w] = NotRecovering]
  /\ UNCHANGED <<task, reports, request, calm>>

FaultsEnd ==
  /\ ~calm
  /\ calm' = TRUE
  /\ UNCHANGED <<task, reports, run, request, recovery>>

RunStep(r) ==
  \/ Begin(r) \/ Extract(r) \/ ReadForReport(r) \/ WriteReport(r)
  \/ ReadForReview(r) \/ WriteReview(r) \/ ReadForFailure(r) \/ WriteFailure(r)

Next ==
  \/ Schedule \/ ReadForCancel \/ ReadForRetry \/ WriteRequest
  \/ \E r \in Runs : ClaimNext(r) \/ RunStep(r)
  \/ \E w \in Workers : ReadStale(w) \/ Recover(w) \/ Crash(w)
  \/ LeaseExpires
  \/ FaultsEnd

Spec == Init /\ [][Next]_vars

\* _loop() recovers, renews and claims for ever and swallows every exception;
\* what a thread or a request started ends; clocks advance; faults end.
Fairness ==
  /\ \A r \in Runs : WF_vars(ClaimNext(r)) /\ WF_vars(RunStep(r))
  /\ \A w \in Workers : WF_vars(ReadStale(w)) /\ WF_vars(Recover(w))
  /\ WF_vars(WriteRequest) /\ WF_vars(LeaseExpires) /\ WF_vars(FaultsEnd)

FairSpec == Spec /\ Fairness

------------------------------------------------------------------------------
(* Properties *)

\* The review a user confirms and the validation report it rests on come from
\* one execution, whatever attempts were cancelled, recovered or overtaken
\* between the transactions that write them.  (A task with two reports
\* cannot be confirmed.)
ReviewMatchesReport ==
  task.status = "succeeded" /\ Readable => \E x \in reports : x.attempt = task.review

\* A review that is up for confirmation is never replaced by the one of
\* another attempt: not by a thread that read the task before it was completed,
\* nor by an attempt after the completed task was cancelled and retried.
ReviewIsFinal == [][task.review # 0 => task'.review = task.review]_vars

Ended ==
  \/ task.status \in {"succeeded", "cancelled"}
  \/ task.status = "failed" /\ (~task.retryable \/ task.attempts = MaxAttempts)

\* When faults end the task ends, with two exceptions: a retry request that
\* read it before its last attempt and wrote after it leaves it pending with
\* no attempt left; a task validated under two policy versions is no longer
\* readable, and no worker can claim it.
TaskEnds ==
  task.status # "absent" ~>
    Ended \/ ~Readable \/ (task.status = "pending" /\ task.attempts = MaxAttempts)
=============================================================================
