-------------------------- MODULE MatchingPipeline ---------------------------
(***************************************************************************)
(* Submission, outbox, queue, workers and task store of the matching       *)
(* service together (task_submission.py, outbox_dispatcher.py,             *)
(* task_worker.py): at-least-once delivery on one side, at most one        *)
(* committed outcome per attempt on the other.                             *)
(*                                                                         *)
(* The three components keep their own modules; a worker's `phase' is the  *)
(* place in EvaluationTaskWorker._process between their calls.             *)
(***************************************************************************)
EXTENDS Naturals

CONSTANTS
  Tasks, Workers, Algorithms, AlgorithmOf, MaxAttempts, NoOne, NoTask,
  Entries, MaxCount, NoEntry,
  FaultsCease,  \* whether faults come to an end (liveness runs)
  CountingFails, \* bound of the model: whether Redis fails while it counts a delivery
  Dispatchers, Ids, IdOf, NoId

ASSUME StoreConstants ==
  /\ MaxAttempts \in Nat \ {0}
  /\ NoOne \notin Workers
  /\ NoTask \notin Tasks
  /\ AlgorithmOf \in [Tasks -> Algorithms]

ASSUME QueueConstants ==
  /\ MaxCount \in Nat \ {0}
  /\ NoEntry \notin Entries

ASSUME FaultConstants == {FaultsCease, CountingFails} \subseteq BOOLEAN

ASSUME OutboxConstants ==
  /\ IdOf \in [Dispatchers -> Ids]
  /\ NoId \notin Ids

VARIABLES
  task, evaluation, created, deployed, exec,
  stream, retries, deadLetters, poisoned, consumer,
  outbox, dispatch,
  phase,  \* per worker, where _process is
  calm    \* faults are over: Redis answers and nothing crashes any more

Store == INSTANCE EvaluationTasks

Queue == INSTANCE RedisTaskQueue
           WITH Messages <- Tasks, Consumers <- Workers,
                NoMessage <- NoTask

Outbox == INSTANCE TaskOutbox WITH Records <- Tasks, NoRecord <- NoTask

storeVars  == <<task, evaluation, created, deployed, exec>>
queueVars  == <<stream, retries, deadLetters, poisoned, consumer>>
outboxVars == <<outbox, dispatch>>

vars == <<storeVars, queueVars, outboxVars, phase, calm>>

\* "read": the delivery is in hand; "ack", "retry" and "dead": the decision
\* is taken and its first Redis command not sent yet.
Phase == {"none", "read", "claim", "run", "ack", "retry", "dead"}

TypeOK ==
  /\ Store!TypeOK /\ Queue!QueueTypeOK /\ Outbox!OutboxTypeOK
  /\ phase \in [Workers -> Phase]
  /\ calm \in BOOLEAN

Init ==
  /\ Store!Init /\ Queue!QueueInit /\ Outbox!OutboxInit
  /\ phase = [w \in Workers |-> "none"]
  /\ calm = FALSE

------------------------------------------------------------------------------
(* Submission and dispatch *)

Submit(t) ==
  /\ Store!Submit(t)
  /\ IF task[t].status = "succeeded"
     THEN UNCHANGED outboxVars
     ELSE Outbox!EnsureOutbox(t)
  /\ UNCHANGED <<queueVars, phase, calm>>

ClaimRecord(d, t) ==
  /\ Outbox!ClaimRecord(d, t)
  /\ UNCHANGED <<storeVars, queueVars, phase, calm>>

\* XADD; when the call raises, the entry may have been added all the same.
PublishMessage(d) ==
  /\ dispatch[d].pc = "publishing"
  /\ \/ Queue!Publish(dispatch[d].record) /\ Outbox!Published(d)
     \/ /\ ~calm
        /\ Queue!Publish(dispatch[d].record) \/ UNCHANGED queueVars
        /\ Outbox!PublishFailed(d)
  /\ UNCHANGED <<storeVars, phase, calm>>

RecordOutcome(d) ==
  /\ Outbox!RecordOutcome(d)
  /\ UNCHANGED <<storeVars, queueVars, phase, calm>>

DispatcherStep(d) ==
  (\E t \in Tasks : ClaimRecord(d, t)) \/ PublishMessage(d) \/ RecordOutcome(d)

DispatcherCrash(d) ==
  /\ ~calm
  /\ Outbox!DropDispatch(d)
  /\ UNCHANGED <<storeVars, queueVars, phase, calm>>

------------------------------------------------------------------------------
(* The worker *)

Enter(w, p) == phase' = [phase EXCEPT ![w] = p]

ConsumeNext(w) ==
  /\ phase[w] = "none"
  /\ Queue!Consume(w)
  /\ Enter(w, IF consumer'[w].pc = "holding" THEN "read" ELSE "none")
  /\ UNCHANGED <<storeVars, outboxVars, calm>>

\* A Redis error while the delivery is counted.
CountFails(w) ==
  /\ CountingFails /\ ~calm
  /\ Queue!CountFails(w)
  /\ UNCHANGED <<storeVars, outboxVars, phase, calm>>

\* Mutant of AfterRead: the duplicate of a succeeded task is not recognised.
AfterReadNoDuplicate(t) ==
  IF ~Store!Exists(t) \/ Store!Exhausted(t) THEN "dead" ELSE "claim"

\* What _process decides from its first look at the task.
AfterRead(t) ==
  IF task[t].status = "succeeded" /\ evaluation[t] # "none" THEN "ack"
  ELSE IF ~Store!Exists(t) \/ Store!Terminal(t) THEN "dead" ELSE "claim"

InspectTask(w) ==
  /\ phase[w] = "read"
  /\ Enter(w, AfterRead(consumer[w].msg))
  /\ UNCHANGED <<storeVars, queueVars, outboxVars, calm>>

\* The worker returns "abandoned": the entry stays pending for a reclaim.
LeavePending(w) == Queue!LetGo(w) /\ Enter(w, "none")

ClaimTask(w) ==
  LET t == consumer[w].msg IN
  /\ phase[w] = "claim"
  /\ Store!Claim(w, t)
  /\ \/ /\ task'[t].status = "failed" /\ task'[t].attempt = MaxAttempts
        /\ Enter(w, "dead") /\ UNCHANGED queueVars
     \/ /\ task'[t].owner = w
        /\ Enter(w, "run") /\ UNCHANGED queueVars
     \/ /\ task'[t].owner # w
        /\ ~(task'[t].status = "failed" /\ task'[t].attempt = MaxAttempts)
        /\ LeavePending(w)  \* another owner, or finished meanwhile
  /\ UNCHANGED <<outboxVars, calm>>

\* Mutant of BeginExecution: the lease is not checked before evaluating.
BeginExecutionUnchecked(w) ==
  /\ phase[w] = "run"
  /\ exec[w].pc = "claimed"
  /\ exec' = [exec EXCEPT ![w] = [@ EXCEPT !.pc = "evaluating",
                                           !.attempt = task[exec[w].task].attempt]]
  /\ UNCHANGED <<task, evaluation, created, deployed, queueVars, phase, outboxVars, calm>>

BeginExecution(w) ==
  /\ phase[w] = "run"
  /\ Store!BeginExecution(w)
  /\ IF exec'[w].pc = "evaluating"
     THEN UNCHANGED <<queueVars, phase>>
     ELSE LeavePending(w)
  /\ UNCHANGED <<outboxVars, calm>>

\* Mutant of AfterRun: an attempt too few.
AfterRunShort(row) ==
  IF row.status = "succeeded" THEN "ack"
  ELSE IF row.attempt + 1 >= MaxAttempts THEN "dead" ELSE "retry"

\* What _process decides from the outcome that was saved.
AfterRun(row) ==
  IF row.status = "succeeded" THEN "ack"
  ELSE IF row.attempt >= MaxAttempts THEN "dead" ELSE "retry"

FinishExecution(w, outcome) ==
  LET t == exec[w].task IN
  /\ phase[w] = "run"
  /\ Store!FinishExecution(w, outcome)
  /\ IF Store!HoldsLease(w, t)
     THEN Enter(w, AfterRun(task'[t])) /\ UNCHANGED queueVars
     ELSE LeavePending(w)
  /\ UNCHANGED <<outboxVars, calm>>

\* The first command of the settlement, then the rest of it.
Settle(w) ==
  /\ \/ phase[w] = "ack" /\ Queue!Acknowledge(w)
     \/ phase[w] = "retry" /\ Queue!Retry(w)
     \/ phase[w] = "dead" /\ Queue!DeadLetter(w)
     \/ phase[w] = "none" /\ Queue!Settling(w)
  /\ Enter(w, "none")
  /\ UNCHANGED <<storeVars, outboxVars, calm>>

WorkerStep(w) ==
  \/ ConsumeNext(w)
  \/ InspectTask(w)
  \/ ClaimTask(w)
  \/ BeginExecution(w)
  \/ \E o \in {"succeeded", "failed"} : FinishExecution(w, o)
  \/ Settle(w)

\* Crash and restart under the same id, an exception out of run_once, or a
\* shutdown that suppresses the settlement (_abandon_current).
WorkerInterrupt(w) ==
  /\ ~calm
  /\ LeavePending(w)
  /\ IF exec[w].pc = "idle" THEN UNCHANGED storeVars ELSE Store!Interrupt(w)
  /\ UNCHANGED <<outboxVars, calm>>

------------------------------------------------------------------------------
(* Users, time and faults *)

Abandon(t) ==
  Store!Abandon(t) /\ UNCHANGED <<queueVars, outboxVars, phase, calm>>

ExpireLease(t) ==
  Store!ExpireLease(t) /\ UNCHANGED <<queueVars, outboxVars, phase, calm>>

VisibilityElapses(e) ==
  Queue!VisibilityElapses(e) /\ UNCHANGED <<storeVars, outboxVars, phase, calm>>

ClaimExpires(t) ==
  Outbox!ClaimExpires(t) /\ UNCHANGED <<storeVars, queueVars, phase, calm>>

TimePasses ==
  \/ \E t \in Tasks : ExpireLease(t) \/ ClaimExpires(t)
  \/ \E e \in Entries : VisibilityElapses(e)

RecreateGroup ==
  /\ ~calm
  /\ Queue!RecreateGroup
  /\ UNCHANGED <<storeVars, outboxVars, phase, calm>>

FaultsEnd ==
  /\ FaultsCease /\ ~calm
  /\ calm' = TRUE
  /\ UNCHANGED <<storeVars, queueVars, outboxVars, phase>>

Next ==
  \/ \E t \in Tasks : Submit(t) \/ Abandon(t)
  \/ \E d \in Dispatchers : DispatcherStep(d) \/ DispatcherCrash(d)
  \/ \E w \in Workers : WorkerStep(w) \/ WorkerInterrupt(w) \/ CountFails(w)
  \/ TimePasses
  \/ RecreateGroup
  \/ FaultsEnd

Spec == Init /\ [][Next]_vars

\* The worker and dispatcher loops keep running, clocks advance, and faults
\* do not go on for ever.  Nothing is assumed of users or of the evaluation's
\* outcome.
Fairness ==
  /\ \A w \in Workers : WF_vars(WorkerStep(w))
  /\ \A d \in Dispatchers : WF_vars(DispatcherStep(d))
  /\ \A t \in Tasks : WF_vars(ExpireLease(t)) /\ WF_vars(ClaimExpires(t))
  /\ \A e \in Entries : WF_vars(VisibilityElapses(e))
  /\ WF_vars(FaultsEnd)

FairSpec == Spec /\ Fairness

------------------------------------------------------------------------------
(* Properties *)

HasWayAhead(t) == outbox[t].status \in {"pending", "claimed"} \/ Queue!HasCopy(t)

\* Nothing is lost without a trace: a task that may still run is in the outbox
\* waiting to be published, or a copy of its message is in the stream, pending
\* with a consumer, or scheduled for a retry, or a poison record stands for it.
\* This has to survive every crash between two commands of a settlement,
\* duplicate deliveries, merged retry members and a stale consumer
\* acknowledging an entry another one reclaimed.
NoSilentLoss ==
  \A t \in Tasks :
    Store!Exists(t) /\ ~Store!Terminal(t) => HasWayAhead(t) \/ t \in poisoned

\* domain/queue.py:1 "at-least-once task messages": the message of a task that
\* may still run is not given up.
AtLeastOnce ==
  \A t \in Tasks : Store!Exists(t) /\ ~Store!Terminal(t) => HasWayAhead(t)

\* What lands in the dead-letter hash has failed for good: no duplicate of
\* the message makes such a task succeed later.
DeadLettersAreFinal == \A t \in deadLetters : Store!Exhausted(t)

\* The pipeline is an implementation of the task store's own specification.
ImplementsStore == Store!Spec

\* Every submitted task ends: with a result, out of attempts, or, if Redis
\* failed while a delivery was being counted, as a poison record.
EveryTaskEnds ==
  \A t \in Tasks : Store!Exists(t) ~> (Store!Terminal(t) \/ t \in poisoned)

\* The queue drains: each message, duplicates included, is settled in the end.
QueueDrains == \A t \in Tasks : <>[]~Queue!HasCopy(t)
=============================================================================
