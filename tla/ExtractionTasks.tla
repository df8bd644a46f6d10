--------------------------- MODULE ExtractionTasks ---------------------------
(***************************************************************************)
(* The JD extraction tasks of the main API (contexts/extraction_tasks,     *)
(* workers/extraction_tasks.py, infrastructure/extraction_tasks.py): one   *)
(* row of extraction_tasks, the worker processes that poll for it, and the *)
(* requests that run it by hand.                                           *)
(*                                                                         *)
(* A run is a thread that executes the task: one of a worker's pool, or a  *)
(* request.  Claiming, marking running and finishing lock the row (FOR     *)
(* UPDATE), and are one step each.  Renewing a lease and recovering stale  *)
(* ones do not: they read the row in one statement and write the columns   *)
(* they changed in another, so each is a read and a write here.            *)
(***************************************************************************)
EXTENDS Naturals

CONSTANTS
  Workers,      \* ids of the worker processes
  Runs,         \* threads that execute
  WorkerOf,     \* the worker of each run; NoOne for a request
  MaxAttempts,
  NoOne

ASSUME AttemptsAssumption == MaxAttempts \in Nat \ {0}
ASSUME WorkerOfAssumption == NoOne \notin Workers /\ WorkerOf \in [Runs -> Workers \cup {NoOne}]

VARIABLES
  task,    \* the row
  run,     \* per run, what it is at
  poller,  \* per worker, the renewal or recovery in progress
  faults   \* what may still go wrong

vars == <<task, run, poller, faults>>

Status == {"absent", "pending", "running", "succeeded", "failed"}

\* `bundle' is the attempt that produced the stored bundle, 0 if there is none.
Task == [status : Status, attempts : 0 .. MaxAttempts, retryable : BOOLEAN,
         owner : Workers \cup {NoOne}, lease : {"none", "live", "expired"},
         bundle : 0 .. MaxAttempts]

\* "queued": claimed by the poller and handed to the pool.  `attempt' is the
\* attempt the run was started as.
Run == [pc : {"idle", "queued", "extracting"}, attempt : 0 .. MaxAttempts]

\* What the worker's poller read and has not written yet.
Poller == [pc : {"idle", "renewing", "recovering"}, status : Status,
           attempts : 0 .. MaxAttempts]

IdleRun    == [pc |-> "idle", attempt |-> 0]
IdlePoller == [pc |-> "idle", status |-> "absent", attempts |-> 0]

TypeOK ==
  /\ task \in Task
  /\ run \in [Runs -> Run]
  /\ poller \in [Workers -> Poller]
  /\ faults \in {"crashes", "delays", "none"}

Init ==
  /\ task = [status |-> "absent", attempts |-> 0, retryable |-> FALSE,
             owner |-> NoOne, lease |-> "none", bundle |-> 0]
  /\ run = [r \in Runs |-> IdleRun]
  /\ poller = [w \in Workers |-> IdlePoller]
  /\ faults \in {"crashes", "delays"}

------------------------------------------------------------------------------
(* Claiming and running *)

\* create_extraction_task(); an existing task of the key is returned as it is.
Create ==
  /\ task.status = "absent"
  /\ task' = [task EXCEPT !.status = "pending"]
  /\ UNCHANGED <<run, poller, faults>>

\* Mutant of Claimable: failed tasks are left to the retry endpoint.
ClaimablePending ==
  task.status = "pending" /\ (task.owner = NoOne \/ task.lease # "live")

\* The WHERE clause of claim_next().
Claimable ==
  /\ \/ task.status = "pending"
     \/ task.status = "failed" /\ task.retryable /\ task.attempts < MaxAttempts
  /\ task.owner = NoOne \/ task.lease # "live"

\* trigger(): the poller, or the endpoint that triggers it, claims for a free
\* thread of the worker's pool.
ClaimNext(r) ==
  /\ run[r].pc = "idle" /\ WorkerOf[r] # NoOne
  /\ Claimable
  /\ task' = [task EXCEPT !.owner = WorkerOf[r], !.lease = "live"]
  /\ run' = [run EXCEPT ![r].pc = "queued"]
  /\ UNCHANGED <<poller, faults>>

\* Mutant of Startable: a retryable task is started without a look at its
\* attempts.
StartableUnbounded(r, retry) ==
  /\ task.owner \in {NoOne, WorkerOf[r]}
  /\ task.status = "pending" \/ (task.status = "failed" /\ retry /\ task.retryable)

\* The tests of _claim().
Startable(r, retry) ==
  /\ task.owner \in {NoOne, WorkerOf[r]}
  /\ task.status = "pending" \/ (task.status = "failed" /\ retry /\ task.retryable)
  /\ task.attempts < MaxAttempts

\* Mutant of MarkRunning: the attempt is counted when it ends.
MarkRunningUncounted(r) ==
  /\ task' = [task EXCEPT !.status = "running", !.retryable = FALSE]
  /\ run' = [run EXCEPT ![r] = [pc |-> "extracting", attempt |-> task.attempts]]

\* mark_running(): the claim columns stay as they are.
MarkRunning(r) ==
  /\ task' = [task EXCEPT !.status = "running", !.attempts = @ + 1, !.retryable = FALSE]
  /\ run' = [run EXCEPT ![r] = [pc |-> "extracting", attempt |-> task.attempts + 1]]

\* run_extraction_task() of a pool thread: an error of _claim() ends it, and
\* so does a task that succeeded meanwhile.
StartQueued(r) ==
  /\ run[r].pc = "queued"
  /\ \/ Startable(r, TRUE) /\ MarkRunning(r)
     \/ /\ ~Startable(r, TRUE)
        /\ run' = [run EXCEPT ![r] = IdleRun]
        /\ UNCHANGED task
  /\ UNCHANGED <<poller, faults>>

\* The run and retry endpoints; an error leaves everything as it is.
StartByHand(r, retry) ==
  /\ run[r].pc = "idle" /\ WorkerOf[r] = NoOne
  /\ task.status # "absent"
  /\ Startable(r, retry) /\ MarkRunning(r)
  /\ UNCHANGED <<poller, faults>>

------------------------------------------------------------------------------
(* Finishing *)

Released(row) == [row EXCEPT !.owner = NoOne, !.lease = "none"]

\* _succeed() and _fail(): they ask for a running task, not for the claim.
Succeed(r) ==
  /\ run[r].pc = "extracting"
  /\ IF task.status = "running"
     THEN task' = Released([task EXCEPT !.status = "succeeded", !.retryable = FALSE,
                                        !.bundle = run[r].attempt])
     ELSE UNCHANGED task
  /\ run' = [run EXCEPT ![r] = IdleRun]
  /\ UNCHANGED <<poller, faults>>

Retries(retryable) == retryable /\ task.attempts < MaxAttempts

Fail(r, retryable) ==
  /\ run[r].pc = "extracting"
  /\ IF task.status = "running"
     THEN task' = Released([task EXCEPT !.status = "failed", !.bundle = 0,
                                        !.retryable = Retries(retryable)])
     ELSE UNCHANGED task
  /\ run' = [run EXCEPT ![r] = IdleRun]
  /\ UNCHANGED <<poller, faults>>

------------------------------------------------------------------------------
(* Leases *)

Active(w) == \E r \in Runs : WorkerOf[r] = w /\ run[r].pc # "idle"

\* renew_lease() reads the row: still the worker's, and not finished.
ReadForRenewal(w) ==
  /\ poller[w].pc = "idle" /\ Active(w)
  /\ task.owner = w /\ task.status \in {"pending", "running"}
  /\ poller' = [poller EXCEPT ![w].pc = "renewing"]
  /\ UNCHANGED <<task, run, faults>>

\* It writes the lease columns only, an expired lease included.
Renew(w) ==
  /\ poller[w].pc = "renewing"
  /\ task' = [task EXCEPT !.lease = "live"]
  /\ poller' = [poller EXCEPT ![w] = IdlePoller]
  /\ UNCHANGED <<run, faults>>

\* Mutant of Stale: a task whose attempts are used up is left alone.
StaleWithAttempts ==
  /\ task.owner # NoOne /\ task.lease = "expired" /\ task.status \in {"pending", "running"}
  /\ task.attempts < MaxAttempts

\* The WHERE clause of recover_stale().
Stale ==
  task.owner # NoOne /\ task.lease = "expired" /\ task.status \in {"pending", "running"}

\* recover_stale() reads the stale rows; one worker at a time
\* (pg_advisory_xact_lock).
ReadStale(w) ==
  /\ poller[w].pc = "idle"
  /\ \A v \in Workers : poller[v].pc # "recovering"
  /\ Stale
  /\ poller' = [poller EXCEPT ![w] = [pc |-> "recovering", status |-> task.status,
                                      attempts |-> task.attempts]]
  /\ UNCHANGED <<task, run, faults>>

\* It writes what it decided from the row it read.  `bundle_payload' was None
\* then and is set to None: no change, so the UPDATE leaves it out.
Recover(w) ==
  /\ poller[w].pc = "recovering"
  /\ task' = Released(
       IF poller[w].status = "running"
       THEN [task EXCEPT !.status = "failed",
                         !.retryable = IF poller[w].attempts < MaxAttempts THEN TRUE ELSE @]
       ELSE task)
  /\ poller' = [poller EXCEPT ![w] = IdlePoller]
  /\ UNCHANGED <<run, faults>>

LeaseExpires ==
  /\ task.lease = "live"
  /\ faults = "none" => \A w \in Workers : ~(task.owner = w /\ Active(w))
  /\ task' = [task EXCEPT !.lease = "expired"]
  /\ UNCHANGED <<run, poller, faults>>

------------------------------------------------------------------------------
(* Faults *)

\* A worker process dies with its pool; it starts again under the same id.
CrashWorker(w) ==
  /\ faults = "crashes"
  /\ Active(w) \/ poller[w].pc # "idle"
  /\ run' = [r \in Runs |-> IF WorkerOf[r] = w THEN IdleRun ELSE run[r]]
  /\ poller' = [poller EXCEPT ![w] = IdlePoller]
  /\ UNCHANGED <<task, faults>>

\* The API process dies while a request executes the task.
CrashRequest(r) ==
  /\ faults = "crashes"
  /\ WorkerOf[r] = NoOne /\ run[r].pc = "extracting"
  /\ run' = [run EXCEPT ![r] = IdleRun]
  /\ UNCHANGED <<task, poller, faults>>

FaultsEnd ==
  /\ faults # "none"
  /\ faults' = "none"
  /\ UNCHANGED <<task, run, poller>>

RunStep(r) ==
  StartQueued(r) \/ Succeed(r) \/ (\E b \in BOOLEAN : Fail(r, b))

PollerStep(w) ==
  ReadForRenewal(w) \/ Renew(w) \/ ReadStale(w) \/ Recover(w)

Next ==
  \/ Create
  \/ \E r \in Runs :
       ClaimNext(r) \/ RunStep(r) \/ CrashRequest(r) \/ \E b \in BOOLEAN : StartByHand(r, b)
  \/ \E w \in Workers : PollerStep(w) \/ CrashWorker(w)
  \/ LeaseExpires
  \/ FaultsEnd

Spec == Init /\ [][Next]_vars

\* The poller's loop claims, renews and recovers for ever (_loop swallows
\* every exception); a run that started ends; clocks advance; faults end.
Fairness ==
  /\ \A r \in Runs : WF_vars(RunStep(r))
  /\ \A r \in Runs : WorkerOf[r] # NoOne => WF_vars(ClaimNext(r))
  /\ \A w \in Workers : WF_vars(Renew(w)) /\ WF_vars(ReadStale(w)) /\ WF_vars(Recover(w))
  /\ WF_vars(LeaseExpires) /\ WF_vars(FaultsEnd)

FairSpec == Spec /\ Fairness

------------------------------------------------------------------------------
(* Properties *)

Ended ==
  \/ task.status = "succeeded"
  \/ task.status = "failed" /\ (~task.retryable \/ task.attempts = MaxAttempts)

\* No attempt is executed twice, whatever claims were lost or recovered while
\* earlier runs are still alive (test_extraction_tasks.py:310
\* test_concurrent_run_only_invokes_provider_once).
OneRunPerAttempt ==
  \A r \in Runs : run[r].pc = "extracting" =>
    /\ run[r].attempt <= task.attempts
    /\ \A q \in Runs \ {r} : run[q].pc = "extracting" => run[q].attempt # run[r].attempt

\* Without crashes the task ends whatever leases expire: a claim lost before
\* the run started, a renewal of a row that changed hands and a recovery of a
\* run that is still alive included.
TaskEnds == faults = "delays" => (task.status # "absent" ~> Ended)

\* With crashes, a task is left behind in one situation only: it runs
\* without an owner, started after its lease had been released.
OnlyOwnerlessRunsAreLost ==
  task.status # "absent" ~> Ended \/ (task.status = "running" /\ task.owner = NoOne)
=============================================================================
