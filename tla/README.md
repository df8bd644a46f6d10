# JobPulse in TLA+

JobPulse is a talent and labour-market platform: a main API with a web client,
and eight services around it (crawling, JD and CV extraction, embedding,
emerging-skill discovery, knowledge graph, trend analysis, matching). Most of
its service and API code is sequential data transformation: parsing, scoring,
ranking, formatting. What is hard to get right and hard to test is the part that
executes work asynchronously and must survive crashes, timeouts and duplicate
deliveries. This project models that part: the task pipeline and the vector
index of the matching service, and the integration outbox, the JD extraction
tasks and the CV extraction tasks of the main API.

## Inventory

| Part | State it keeps | Operations | What is hard about it |
|---|---|---|---|
| **matching: evaluation tasks** (`application/evaluation_tasks.py`) | `evaluation_tasks`, `persisted_evaluations` | submit, claim, execute_claimed, abandon, get_evaluation | leases, takeovers, results committed from an old snapshot, stale marks |
| **matching: outbox** (`application/outbox_dispatcher.py`) | `outbox_records` | claim, publish, mark published / release | crash between publish and mark; several threads with one id |
| **matching: Redis queue** (`infrastructure/redis_task_queue.py`) | stream + consumer group, retry sorted set, dead-letter hash | publish, consume, acknowledge, retry, dead_letter | every settlement is several commands; reclaim; double promotion |
| **matching: worker** (`application/task_worker.py`) | the delivery in memory | run_once, shutdown | decisions made from a row read some transactions ago |
| **matching: vector index** (`vector_indexing.py`, `vector_index_worker.py`) | `vector_outbox_events`, `vector_index_references`, Qdrant points | plan, claim, heartbeat, mark, upsert, acknowledge, activate, fail, revoke, reconcile | external store written between transactions, two events of one entity at once |
| **api: integration outbox** (`apps/api/app/infrastructure/outbox.py`) | `outbox_messages` | add, claim, heartbeat, complete, requeue | lease and attempt counter, handlers that outlive their lease |
| **api: extraction tasks** (`contexts/extraction_tasks`, `workers/extraction_tasks.py`) | `extraction_tasks` | create, claim, run by hand, renew, succeed, fail, recover_stale | completion that does not compare the owner, unlocked renewal and recovery |
| **api: CV ingestion** (`contexts/cv_ingestion`, `workers/cv_extraction.py`) | `cv_extraction_tasks`, validations and reports, review revisions | schedule, claim, execute, validate, complete, fail, cancel, retry, recover, confirm | no row locks: every transaction is a read and a later write |
| **api: validation, trend sync workers** | task tables | poll, claim, finish | polling workers around remote calls |
| **api: JD lifecycle, catalog, emerging positions, governance, talent** | review tables | review, publish, revoke | status machines over CRUD |
| matching scoring, knowledge-graph, trend, discovery, extraction, crawler, embedding, web | documents | pure computation, I/O | not concurrent |

How they interact. The API posts profile pairs to the matching service. A
submission writes the task row and its outbox record in one transaction. A
dispatcher (a request thread of the API process, or the dispatcher process)
claims the record, publishes the message to a Redis stream and marks the record.
A worker reads the stream through a consumer group, claims the task row with a
lease, evaluates, commits the outcome and settles the stream entry. Users poll
the task and its evaluation, may abandon a task, and may submit the same
idempotency key again with other profile versions; operators redeploy with other
algorithm versions.

Facts that change in the API (a profile, a confirmed extraction) are committed
with a row of `outbox_messages`. The outbox worker, or a request of the manual
synchronisation endpoint, delivers the row to the knowledge graph or to the
matching service, which plans vector events from it (`ingest_profile_event`).
Vector workers claim these events, ask the authoritative service for the current
content, compute embeddings and write points to Qdrant, with transactions on
references and events in between. JD and CV extraction tasks are polled by
worker processes with thread pools, and are also started, cancelled and retried
by requests.

What makes each part correct:

* task store: late or duplicated executions change nothing; a result exists
  exactly for a succeeded task; stale marks survive what they must survive;
* outbox and queue: no unfinished task is left without a message, whatever
  crashes; a dead letter is final; everything ends when faults cease;
* vector index: a version is searchable only when it was indexed, one version is
  indexed at a time, a withdrawn entity has no points, and what crashes left is
  repaired by reconciliation;
* API outbox and extraction tasks: bounded retries, one execution per attempt,
  results of the claim that is current, and an end for every message and task;
* CV extraction: the review a user confirms rests on the report of its own
  execution and is not replaced;
* review parts: only reviewed versions are published.

## Plan

Order of modules, the most important behaviour first. Blocks 1 to 5 are built.

1. `TaskLifecycle` (abstract), `EvaluationTasks` (implements it), their proofs.
2. `RedisTaskQueue`, `TaskOutbox`, composed with the store in
   `MatchingPipeline` (which implements `EvaluationTasks`), and its proofs.
3. `VectorIndex`: references, events and points; the planning API and the worker
   are two processes whose transactions overlap.
4. `MessageDelivery` (abstract), `IntegrationOutbox` (implements it),
   `ExtractionTasks`, `CVExtraction`: the lease protocols of the API, each with
   its own way of comparing (or not comparing) the owner.
5. Proofs of every safety property and of both refinements of 2 to 4.
6. Not built: confirmation and review revisions of CV ingestion (from the
   snapshot commit to `publish_profile_refresh`, a further producer of
   `IntegrationOutbox`); the validation and trend sync workers, which are polling
   workers of the kind of block 4; the composition of `IntegrationOutbox` with
   `VectorIndex`; the review state machines.

## Modules

| Module | Models | Role |
|---|---|---|
| `TaskLifecycle` | what a client may rely on about a task | abstract specification |
| `EvaluationTasks` | task store and executions against it | component |
| `RedisTaskQueue` | the Redis Streams adapter, command by command | component (no `Next` of its own) |
| `TaskOutbox` | outbox rows and dispatching threads | component (no `Next` of its own) |
| `MatchingPipeline` | submission, outbox, queue, workers and store together | composition |
| `VectorIndex` | references, outbox events, Qdrant points, vector workers, reconciliation | component |
| `MessageDelivery` | what producers and operators may rely on about a message | abstract specification |
| `IntegrationOutbox` | `outbox_messages` and the threads that deliver them | component |
| `ExtractionTasks` | one JD extraction task, pools, requests, pollers | component |
| `CVExtraction` | one CV extraction task up to its review | component |
| `MC...` | constants and symmetry for TLC | model checking |
| `EvaluationTasks_proofs`, `MatchingPipeline_proofs`, `VectorIndex_proofs`, `IntegrationOutbox_proofs`, `ExtractionTasks_proofs`, `CVExtraction_proofs` | theorems about the module of that name | proofs |
| `VectorIndexOrder_proofs` | theorems about `VectorIndex` that rest on the order of its events | proofs |

### EvaluationTasks

All tasks of the model belong to one idempotency key: they are the versions of
one request (`find_by_idempotency_key` returns them all). Other keys do not
interact. `task` is the row, `evaluation` the persisted result (`none`,
`current`, `stale`), `created` the order of `created_at`, `deployed` the
algorithm version the service was started with, `exec` what each worker process
holds in memory.

A unit of work locks the rows it reads (`SELECT ... FOR UPDATE` on PostgreSQL;
one lock per process around the in-memory store), so each transaction is one
action. An execution is three: `Claim`, `BeginExecution` (reads the snapshot
`running`) and `FinishExecution` (compares status and owner, then writes the
snapshot back whole). The evaluation in between is a nondeterministic outcome.
Time appears in one comparison, `lease_expires_at <= now`: a lease is `live`
until `ExpireLease`, which may happen at any moment. Worker ids survive a
restart (`MATCHING_WORKER_ID` is fixed in `compose.yaml`), so `Interrupt` keeps
the id and loses the memory: the row may still name a worker that forgot it.

### RedisTaskQueue, TaskOutbox, MatchingPipeline

Each action of the queue is one Redis command or one MULTI block, because a
crash or a socket error can fall between any two. An entry of the stream is
`unread`, `pending` (delivered, not acknowledged), `acked` (acknowledged, not
yet deleted: XACK and XDEL are two commands) or `free`. A retry member is its
JSON payload, so two equal payloads are one member of the sorted set; the reason
code is left out of the payload, which merges more members than Redis would.
`RecreateGroup` is the loss of the consumer group and its creation from `0-0`.
Decoding errors of hand-made entries are not modelled; a Redis error in the
delivery counter, which takes the same path, is (`CountFails`, `WritePoison`).

The outbox separates the claim, the publish and the recording of the outcome. A
dispatcher is a thread with an id, since all request threads of one API process
share an id (`task_submission.py:34`). Backoff delays only postpone a claim and
are left out.

`MatchingPipeline` adds `phase`, the place of a worker in `_process`, and
composes the handlers. `calm` becomes true when faults are over (only where
`FaultsCease` holds, in the liveness run). `CountingFails` says whether Redis may
fail in the delivery counter.

### VectorIndex

One entity. A version stands for the content it identifies; it has one row of
`vector_index_references` (`ref`) and one Qdrant point (`point`). An event is
identified by what its deduplication key holds: its kind and version, where a
reindex has the correlation id of its request as its kind, so that a version can
be reindexed again. The version of a revocation is a constant, so an entity is
withdrawn once.

*Planning* belongs to matching-api. `Resolve` asks the authoritative source,
before and outside of the transaction of `plan`; the source may be edited or
withdrawn before the event is planned. `Update` and `Revoke` insert rows or
write whatever they find, and are one step; a reindex first checks the lineage of
the references and then resets them (`CheckLineage`, `Reindex`). Transactions
inside this process exclude each other by the RLock of its persistence
(`Locked`).

*The worker* is a process of its own. `work` is what it holds between two
transactions: an event is claimed, the source asked for its current version
(another one discards the event), references listed, marked `embedding` and
`upserting`, points upserted inactive, the event acknowledged (which supersedes
older versions), the point activated and the older ones deactivated.
`lock_entity` and `lock_deduplication_key` do nothing, and references are read
without a lock and saved later, so a transaction is a `Read...` and a `Write...`
step, and anything of the API or of another worker may come in between.
`compose.yaml:198` starts one vector worker; the module has a set of them.

*Reconciliation* with repair (`Reconciles`) reads the references, lists the
points, and deactivates and activates in two remote calls. `calm` ends
exceptions (`Raise`), crashes and lost claims.

Left out or abstracted: the explicit heartbeats of `_process` return early where
the next transaction finds the claim lost as well; the lease of a claim is
reduced to whether another worker may find it expired (`ClaimExpires`), since no
transaction compares it; backoff delays;
embedding revisions and `deactivate_revision`; enterprise jobs, which the worker
process cannot fetch (`enterprise_contract_path` is not configured,
`http_sources.py:111`) and which end as dead letters.

### IntegrationOutbox

A slot is a thread that delivers. The slots of the worker's pool have ids of
their own; all requests of the endpoint for one event share an id
(`sync-api:<event id>`) and use the default limit of attempts instead of the
configured one. The worker claims messages of its configured event types only
(`Served`), the endpoint any message. A claim is a SELECT and a conditional UPDATE that does not look
at `next_attempt_at` again; the handler runs with a heartbeat thread beside it
(`beating`); `complete` compares owner and lease. `claimant` and `requeued` are
history. `MessageDelivery` is what remains of a message without claims, leases and
backoff: it is queued until it is delivered or given up, tried a bounded number
of times, and queued again only when an operator asks.

### ExtractionTasks and CVExtraction

One task row and the threads that execute it. In `ExtractionTasks` claiming,
starting and finishing lock the row and are one step; renewing a lease and
recovering a stale one are a read and a write (`poller`). A request runs the
task without a lease. `faults` says whether processes may crash, only leases may
expire early, or neither.

In `CVExtraction` nothing is locked except by the claiming UPDATE and the
heartbeat, so every other transaction is a read and a write; SQLAlchemy writes
the columns that changed, which is why what a transaction read (`seen`,
`recovery`, `request`) decides what it overwrites. `_task` builds the record of
a task from its only validation and raises when there are two (`Readable`);
repository methods that return a record are rolled back then. The two nested
except clauses of an execution are `handlers`. Transactions that only write
metadata (stages, progress) and the backoff before a retry are left out. A
worker process runs several threads under one worker id
(`CV_EXTRACTION_WORKER_CONCURRENCY`, 2 by default) and has one validation policy
version (`PolicyOf`); two processes may differ during a rollout.

## Runs

| Run | Bounds | Shows |
|---|---|---|
| `evaluation_tasks` | 2 versions with an algorithm each, 2 workers, 2 attempts | all safety properties of the store, and that it implements `TaskLifecycle` |
| `task_delivery` | 1 task, 2 workers, 2 dispatcher threads with one id, 2 stream entries; 1.1 million states | no silent loss, final dead letters, types; every step is a step of the store |
| `task_completion` | 1 task, 1 worker, 1 dispatcher, 2 entries, a counter that may fail, fairness; 468 000 states | no silent loss, every task ends, the queue drains |
| `vector_index` | 2 versions that may return, a reindex, a withdrawal, 1 worker beside the planning API, 1 attempt; 2.1 million states | what is indexed, what is searchable, and what a withdrawal leaves |
| `vector_reconcile` | 2 versions, 1 worker, reconciliations, fairness; 114 000 states | nothing unacknowledged is exposed, reconciliation converges, events settle |
| `integration_outbox` | 1 message, a worker slot and 2 requests with one id, limits 2 and 3, 1 requeue, fairness; 129 000 states | whose result counts, how often a message is tried, that it implements `MessageDelivery` and settles |
| `extraction_tasks` | 1 task, a pool of 2 threads, a pool of 1, a request, 3 attempts, fairness; 51 000 states | one execution per attempt, the task ends |
| `cv_extraction` | 1 task, a worker with two threads and one with one, 2 policies, 2 attempts, fairness; 610 000 states | the review rests on its report and is final, the task ends |
| `superseded_result`, `rolled_back_drift`, `poisoned_delivery`, `overlapping_withdrawal` | as the runs of their modules | the disagreements with a run, below |

Every passing run ends within three minutes on two workers.

Why the bounds are enough. Two versions are the least for superseding, two
workers for a takeover, two attempts for a retry that has a last attempt. Two
stream entries hold an original and a duplicate delivery at once; a third copy
would differ only in who reads it. When no entry is free, `PutOff` postpones a
promotion (the only action that exists for the bound). `MaxCount` caps the
delivery counter, which no decision of the worker reads; it is 1. One task is
enough for the pipeline because tasks share nothing but the workers and stream
positions. In the pipeline the second version is covered by the store's own run,
which the pipeline implements. A counter that fails leaves a poison record, which
excuses every later loss, so `task_delivery` is checked without it. The vector
runs have one worker, as deployed: a crash releases its claim and it takes the
event again at the last attempt. What holds for more workers is said by the
theorems.

### Properties of the store

* `SnapshotIsCurrent`: an execution still let through by the check of status and
  owner holds a snapshot of the current attempt. There is no fencing token;
  this is why none is needed.
* `ResultMatchesTask`, `LeaseIffRunning`: the two tables agree; no path out of
  `running` leaves an owner who could commit later.
* `TerminalIsFinal`, `SupersededStaysStale`: action properties over every
  interleaving of late workers, redeliveries, users and redeployments. The second
  is about versions after which another one was submitted; what the code does
  with the mark of the latest version is `LatestIsHealed`, a disagreement.
* `ImplementsLifecycle`: leases and executions are invisible to a client.

### Properties of the pipeline

* `NoSilentLoss`: an unfinished task is waiting in the outbox, has a live copy
  in the queue, or is visible as a poison record.
* `DeadLettersAreFinal`: a message in the dead-letter hash belongs to a task
  that has failed for good, although duplicates of it may still run.
* `ImplementsStore`: the pipeline takes only steps of `EvaluationTasks`, so the
  store's properties, and its theorems, hold in it.
* `EveryTaskEnds`, `QueueDrains`: liveness.

### Properties of the vector index

* `ActiveWasAcknowledged`: a point is searchable only after an event of its
  version was acknowledged; late activations and a reconciliation that acts on
  statuses it read earlier must respect it.
* `AtMostOneIndexed`, `IndexedHasPoint`: two versions are never indexed at once,
  although a younger one may be planned while the worker writes; an indexed one
  has its point unless the entity was withdrawn.
* `DeletedHasNoPoint`: once the revocation was processed, the references that it
  left deleted have no point, whatever the worker had upserted or was about to
  activate when the withdrawal was planned. The stronger claim that nothing is
  searchable then is `RevokedIsHidden`, a disagreement.
* `ReconcileConverges`, `EventsSettle`: liveness, with crashes between the
  acknowledgement and the activation before faults end.

### Properties of the API's workers

* `OutcomeOfLatestClaim`: a slot with an id of its own records a result only for
  the claim the row was last taken with. For slots that share an id this does
  not hold, which is why the property excepts them.
* `AttemptBudget`, `DeliveredIsFinal`, `EveryMessageSettles`: the larger of the
  two limits, and one more for each requeue, bounds the attempts; nothing
  touches a delivered message; every message is delivered or given up.
* `ImplementsDelivery`: takeovers and late outcomes are invisible, and no claim
  brings back what was given up.
* `OneRunPerAttempt`: no attempt of a JD task is executed twice.
* `TaskEnds`, `OnlyOwnerlessRunsAreLost` (JD): without crashes a task always
  ends; with them it can only be lost when it runs without an owner.
* `ReviewMatchesReport`, `ReviewIsFinal`, `TaskEnds` (CV): the review and the
  report that is confirmed with it are of one execution; a written review is not
  replaced, even when the completed task is cancelled and retried; the task ends
  unless one of the two situations described under "Disagreements" blocks it.

### Fairness

Each `FairSpec` assumes weak fairness of loops that the code runs for ever, of
the clocks that end leases, claims and timeouts, and that faults cease.

* Pipeline: the worker's loop (`run_forever` in `task_worker.py`) sleeps and tries
  again. The dispatcher's loop catches the errors of the queue; after any other
  it relies on the restart policy of its container. Without an end of faults a
  worker may crash for ever at the same place.
* Vector index: the steps of an event under way, the announcements that the
  API's outbox delivers, and reconciliations where operators run them. A claim
  has strong fairness per event, because `claim` takes what has been due longest
  and so reaches each event that is claimable again and again. The heartbeat
  thread keeps a claim alive while its worker lives, once faults are over.
* API outbox: slots of the worker's pool; requests of the endpoint only once
  they have claimed something. Extraction tasks: polls, recoveries and renewals
  (`_loop` swallows every exception), and runs that have started.

Nothing is assumed of users, of resubmission, or of the outcome of an evaluation,
a handler or an extraction.

## Disagreements found

With a run that shows the behaviour:

1. *A superseded result is served as current* (`superseded_result`). The stale
   mark is written on results that exist when the later version is submitted;
   an execution of the earlier version that is still running saves its result
   unmarked.
2. *A rolled-back deployment leaves the latest result stale*
   (`rolled_back_drift`). The drift reasons "should be cleared once consistent
   again" (`evaluation_tasks.py:49`), but the mark of the latest result is kept
   when any other version exists under the key, older ones included (line 703).
3. *A Redis error poisons a valid message* (`poisoned_delivery`). The handler of
   undecodable entries also catches the retryable error of the delivery counter:
   the entry is acknowledged and deleted, the outbox record stays `published`,
   and the task stays `pending` with nothing to run it.
4. *A withdrawal that overlaps the worker leaves a searchable point*
   (`overlapping_withdrawal`). The worker's transaction saves a reference it read
   before the withdrawal deleted it; the revocation then does not find the
   reference, and the point stays active. The test
   "worker revocation removes all derived points"
   (`test_vector_index_worker_admin_c3_c4.py:686`) plans the withdrawal after the
   worker is done.

Met while modelling, visible in the modules and excepted by the properties where
they matter, without a run of their own:

* Evaluation tasks: `abandon` documents "Move an unfinished task to a terminal
  state" (`evaluation_tasks.py:557`), but leaves `failed` with attempts left, and
  `claim` accepts failed rows: a message still queued runs the task again. The
  life cycle of `TaskLifecycle` therefore lets a failed task start again.
* Vector index: content that is edited and edited back meets the references and
  the deduplicated events of its first time and is not indexed again. A reindex
  whose source was asked before a withdrawal and that is planned after it resets
  deleted references to `pending`; its event then fails, because the source has
  nothing any more. With two vector workers, which compose does not start,
  neither `AtMostOneIndexed` nor `DeletedHasNoPoint` holds: each worker may
  acknowledge a version that the other did not read, and one may upsert a point
  after the other deleted it.
* Integration outbox: the synchronisation endpoint leaves the limit of attempts
  at the default of 5 whatever is configured, while `interface-catalog.md:1882`
  describes one limit; a requeue keeps `attempts`, so the next failure gives up.
  Attempts are counted when they complete, so a handler that kills its process is
  tried without bound; a message whose event type the worker is not configured
  with waits for ever unless the endpoint delivers it.
* JD extraction: `_succeed` and `_fail` ask for a running task and not for the
  claim, so a run whose task was recovered and started again decides the other
  run's attempt. A recovery that races the start of a run leaves it running
  without an owner, where no recovery finds it; "stale recovery handles crashes"
  (`workers/extraction_tasks.py:123`) does not hold for it.
* CV extraction: an attempt that fails after its validation was recorded blocks
  later attempts under the same policy version (the natural key is taken), and
  under another one adds a second validation, after which the task is unreadable
  and `claim_next` raises for every worker. A retry that read a failed task
  before its last attempt and writes after it leaves it `pending` with no attempt
  left. A cancellation and a completion that overlap overwrite each other. The
  outer except clause may meet the claim of another thread of the same worker and
  fails that attempt.

## Proofs

The theorems hold for any sets of tasks, workers, versions, slots, runs and
stream entries and any positive bounds, under the assumptions on constants that
the modules name.

| Module | Theorems (property) |
|---|---|
| `EvaluationTasks_proofs` | `TypeCorrect`, `Fencing` (`SnapshotIsCurrent`), `ResultConsistency` (`ResultMatchesTask`), `LeaseConsistency` (`LeaseIffRunning`), `TerminalStays` (`TerminalIsFinal`), `SupersededResultStays` (`SupersededStaysStale`), `LifecycleImplemented` (`ImplementsLifecycle`) |
| `MatchingPipeline_proofs` | `TypeCorrect`, `StoreImplemented` (`ImplementsStore`), `NothingIsLost` (`NoSilentLoss`), `DeadLettersStay` (`DeadLettersAreFinal`); `StoreStaysSafe`, `TerminalAndSupersededStay`, `LifecycleImplemented` (the store's theorems in the pipeline) |
| `VectorIndex_proofs` | `TypeCorrect`, `ActivationFollowsAcknowledgement` (`ActiveWasAcknowledged`) |
| `VectorIndexOrder_proofs` | `IndexedPointsExist` (`IndexedHasPoint`), `OneVersionIndexed` (`AtMostOneIndexed`), `DeletedPointsAreGone` (`DeletedHasNoPoint`) |
| `IntegrationOutbox_proofs` | `TypeCorrect`, `AttemptsAreBounded` (`AttemptBudget`), `OutcomesAreOfLatestClaim` (`OutcomeOfLatestClaim`), `DeliveredStays` (`DeliveredIsFinal`), `DeliveryImplemented` (`ImplementsDelivery`) |
| `ExtractionTasks_proofs` | `TypeCorrect`, `AttemptsRunOnce` (`OneRunPerAttempt`), `RunningTasksAreExecuted` (the safety part of `TaskEnds`) |
| `CVExtraction_proofs` | `TypeCorrect`, `ReviewRestsOnReport` (`ReviewMatchesReport`), `ReviewStays` (`ReviewIsFinal`) |

Each module proves one inductive invariant (`IInv`, `PInv` for the pipeline; in
`VectorIndexOrder_proofs` two, one resting on the other), one lemma per
action, and derives the theorems from it.

* *Evaluation tasks.* `SnapshotIsCurrent` is not inductive. A snapshot can only
  go out of date when the attempt counter moves while the row names that worker
  again, which needs a claim by the same worker; a worker claims only when idle,
  and an execution belongs to the row that names its worker. The invariant adds
  the types and the relation between status, owner and result.
* *Pipeline.* `NoSilentLoss` is not inductive: a copy that the properties count
  may be the one a slow consumer is about to delete. `Fresh` is a copy that no
  consumer is about to remove, and `Tracked` says that a task has ended, has a
  poison record or a fresh copy. A published task stays tracked: a consumer
  gets to XACK or XDEL only through an acknowledgement or a dead letter of a task
  that has ended, through a poison record, or through a retry, whose member of
  the sorted set is a fresh copy. For this the phase of a worker has to agree
  with its task (`WorkerFine`), receipts with the entries they name (`QueueInv`),
  and the outbox with the task table (`OutboxInv`). The lemmas about the store
  are used through an instance of `EvaluationTasks_proofs`; each step of the
  pipeline is a step of the store or leaves it alone, which gives the
  refinement. Every theorem of the store then holds in the pipeline, up to the
  abstract task: `LifecycleImplemented` joins the two refinements.
* *Vector index.* Whoever is about to activate a version has acknowledged it
  (`WorkIsSound`), every indexed reference was acknowledged, and so was every
  status a reconciliation saw as indexed (`SeenWasAcknowledged`). This needs no
  assumption on overlapping transactions.
* *Order of the vector index.* `FInv`, for any number of workers: what a worker
  holds agrees with the rows and points (`WorkFits`), a reference is as old as the
  first event of its version (`RefsOrdered`), and a point has a reference. `SInv`
  is for one worker (`OneWorker`, a hypothesis of both theorems, as compose
  deploys it), with the API planning between any two of its steps. While no
  withdrawal is planned, what the worker is about to save is still open
  (`WritesOpen`), because the API only adds references or resets them to
  `pending`; an indexed reference is older than every other open one
  (`IndexedIsOldest`); and the lineage a reindex checked still holds when it
  writes, because the API process admits no other transaction (`LineageHolds`).
  So the event of a younger version supersedes the indexed one when it indexes
  its own, also for content that returns to an earlier version. After a
  withdrawal the source has nothing to fetch any more, so the event the one worker
  has fetched is the last that is indexed, and an indexed reference is of that
  version (`AfterWithdrawal`). The revocation, which the same worker executes
  later, deletes the points of all deleted references, and none appears until it
  is processed (`RevocationSees`): that gives `DeletedHasNoPoint`. TLC finds both properties
  violated with two workers.
* *Integration outbox.* A claimed row carries the id of the slot that claimed it
  last (`ClaimIsLatest`); the budget of messages that were given up is one larger
  than that of open ones, which a requeue pays for (`Budget`). The refinement
  needs only that an outcome is recorded for a claimed row and that no slot's
  limit is above the larger one.
* *JD extraction.* `OneRunPerAttempt` is inductive together with the types,
  because starting an execution and counting its attempt are one transaction.
  Where nothing crashes, a running task has a run that executes it
  (`RunningIsExecuted`): `_succeed` and `_fail` of any run take the task out of
  `running`, so no run can leave it there without another one.
* *CV extraction.* A run that gets as far as the review has inserted its report,
  and reports are never deleted (`ReviewersReported`); the review column outlives
  cancellations and later attempts, and a second review is impossible because its
  report would make the task unreadable (`ReviewReported`).

Every invariant, action property and refinement that a passing run checks is
proved. Only model-checked: liveness (`EveryTaskEnds`, `QueueDrains`,
`ReconcileConverges`, `EventsSettle`, `EveryMessageSettles`, `TaskEnds`,
`OnlyOwnerlessRunsAreLost`), which is out of the prover's reach, as are ENABLED
and induction over data. No module declares a RECURSIVE operator.

## Not modelled

Scores, gap analysis, learning paths and every other computation over
documents: an evaluation is its outcome. HTTP, authentication and tenants: tasks
of other scopes or keys never meet. The in-memory queue and repositories are
test doubles. Message order in the stream and retry delays: any live entry may
be delivered next, which allows more than Redis does. `execute` with the shared
`inline-executor` owner is not reachable in production (submission passes
`execute_immediately=False`). CV ingestion before a task is scheduled (imports,
snapshots) and after its review is written (confirmation, review revisions, the
compatibility run). The embedding revisions of the vector index. The other
components are listed in the inventory with their place in the plan, and in
`PROJECT.json` with the reason.
