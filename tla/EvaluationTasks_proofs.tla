----------------------- MODULE EvaluationTasks_proofs ------------------------
(***************************************************************************)
(* Proofs about the task store: its inductive invariant, the safety of     *)
(* executions whose lease was lost, and the implementation of the abstract *)
(* task lifecycle.                                                         *)
(***************************************************************************)
EXTENDS EvaluationTasks, TLAPS

\* An execution in memory is of some task.
ExecutionHasTask == \A w \in Workers : exec[w].pc # "idle" => exec[w].task \in Tasks

\* No attempt is counted before the row exists.
AbsentIsBlank == \A t \in Tasks : task[t].status = "absent" => task[t].attempt = 0

IInv ==
  /\ TypeOK
  /\ AbsentIsBlank
  /\ ExecutionHasTask
  /\ LeaseIffRunning
  /\ ResultMatchesTask
  /\ SnapshotIsCurrent

USE AttemptsAssumption, NoOneAssumption, NoTaskAssumption, AlgorithmAssumption

LEMMA InitIInv == Init => IInv
BY DEF Init, IInv, TypeOK, TaskRow, Status, ErrorCode, Execution, Idle, Absent,
       ExecutionHasTask, LeaseIffRunning, ResultMatchesTask, SnapshotIsCurrent, HoldsLease,
       AbsentIsBlank

------------------------------------------------------------------------------
\* One lemma per action.

\* Giving up the lease keeps a row well typed.
LEMMA ReleasedRow ==
  ASSUME NEW row \in TaskRow, NEW s \in Status, NEW c \in ErrorCode
  PROVE  LET new == Released(row, s, c) IN
           /\ new \in TaskRow
           /\ new.status = s /\ new.owner = NoOne /\ new.lease = "none" /\ new.code = c
           /\ new.attempt = row.attempt
BY DEF Released, TaskRow

LEMMA AttemptRow ==
  ASSUME NEW row \in TaskRow, NEW n \in 0 .. MaxAttempts
  PROVE  [row EXCEPT !.attempt = n] \in TaskRow
BY DEF TaskRow

\* The two ways an unfinished task fails outside an execution.
LEMMA ToFailedIInv ==
  ASSUME IInv, NEW t \in Tasks, NEW c \in ErrorCode, task[t].status # "succeeded",
         task' = [task EXCEPT ![t] = Released(task[t], "failed", c)],
         UNCHANGED <<evaluation, created, deployed, exec>>
  PROVE  IInv'
<1> DEFINE new == Released(task[t], "failed", c)
<1>1. /\ new \in TaskRow
      /\ new.status = "failed" /\ new.owner = NoOne /\ new.lease = "none"
  <2>1. task[t] \in TaskRow BY DEF IInv, TypeOK
  <2>2. "failed" \in Status BY DEF Status
  <2> QED BY <2>1, <2>2, ReleasedRow
<1>2. task' = [task EXCEPT ![t] = new]
  OBVIOUS
<1> HIDE DEF new
<1> USE <1>1, <1>2 DEF IInv
<1>3. TypeOK' BY DEF TypeOK
<1>4. ExecutionHasTask' BY DEF ExecutionHasTask
<1>5. LeaseIffRunning' BY DEF LeaseIffRunning, TypeOK
<1>6. ResultMatchesTask' BY DEF ResultMatchesTask, TypeOK
<1>7. SnapshotIsCurrent' BY DEF SnapshotIsCurrent, HoldsLease, TypeOK
<1>8. AbsentIsBlank' BY DEF AbsentIsBlank, TypeOK
<1> QED BY <1>3, <1>4, <1>5, <1>6, <1>7, <1>8

LEMMA SubmitIInv == ASSUME IInv, NEW t \in Tasks, Submit(t) PROVE IInv'
<1> USE DEF IInv, Submit, Exists
<1>1. CASE UNCHANGED task
  <2>1. UNCHANGED <<evaluation, created, deployed, exec>>
    BY <1>1 DEF TypeOK, TaskRow, Status, Absent
  <2> QED
    BY <1>1, <2>1 DEF TypeOK, ExecutionHasTask, LeaseIffRunning, ResultMatchesTask,
                      SnapshotIsCurrent, HoldsLease, AbsentIsBlank
<1>2. CASE ~Exists(t)
  <2> DEFINE new == [Absent EXCEPT !.status = "pending"]
  <2>1. /\ task' = [task EXCEPT ![t] = new] /\ evaluation' = MarkStale(t)
        /\ created' = Append(created, t) /\ UNCHANGED <<deployed, exec>>
    BY <1>2
  <2>2. new = [status |-> "pending", attempt |-> 0, owner |-> NoOne,
               lease |-> "none", code |-> "none"]
    BY DEF Absent
  <2> HIDE DEF new
  <2>3. TypeOK'
    <3>1. new \in TaskRow BY <2>2 DEF TaskRow, Status, ErrorCode
    <3>2. task' \in [Tasks -> TaskRow] BY <2>1, <3>1 DEF TypeOK
    <3>3. evaluation' \in [Tasks -> {"none", "current", "stale"}]
      BY <2>1 DEF TypeOK, MarkStale
    <3> QED BY <2>1, <3>2, <3>3 DEF TypeOK
  <2>4. ExecutionHasTask' BY <2>1 DEF ExecutionHasTask
  <2>5. LeaseIffRunning' BY <2>1, <2>2 DEF LeaseIffRunning, TypeOK
  <2>6. ResultMatchesTask'
    BY <1>2, <2>1, <2>2 DEF ResultMatchesTask, TypeOK, MarkStale
  <2>7. SnapshotIsCurrent'
    BY <2>1, <2>2 DEF SnapshotIsCurrent, HoldsLease, TypeOK
  <2>8. AbsentIsBlank' BY <2>1, <2>2 DEF AbsentIsBlank, TypeOK
  <2> QED BY <2>3, <2>4, <2>5, <2>6, <2>7, <2>8
<1> QED BY <1>1, <1>2

LEMMA ClaimIInv == ASSUME IInv, NEW w \in Workers, NEW t \in Tasks, Claim(w, t) PROVE IInv'
<1> USE DEF IInv, Claim
<1>1. UNCHANGED <<evaluation, created, deployed>>
  OBVIOUS
<1>2. CASE Exhaust(t) /\ UNCHANGED exec
  <2>1. task[t].status = "running" BY <1>2 DEF Exhaust, LeaseOver
  <2>2. task' = [task EXCEPT ![t] = Released(task[t], "failed", "exhausted")]
    BY <1>2 DEF Exhaust
  <2>3. "exhausted" \in ErrorCode BY DEF ErrorCode
  <2> QED BY ONLY IInv, t \in Tasks, <1>1, <1>2, <2>1, <2>2, <2>3, ToFailedIInv
<1>3. CASE /\ Take(w, t)
           /\ exec' = [exec EXCEPT ![w] = [pc |-> "claimed", task |-> t, attempt |-> 0]]
  <2> USE <1>1, <1>3 DEF Take, Claimable, LeaseOver
  <2>0. task[t].attempt + 1 \in 0 .. MaxAttempts BY DEF TypeOK, TaskRow
  <2>1. TypeOK' BY <2>0 DEF TypeOK, TaskRow, Status, ErrorCode, Execution
  <2>2. ExecutionHasTask' BY DEF ExecutionHasTask, TypeOK
  <2>3. LeaseIffRunning' BY DEF LeaseIffRunning, TypeOK, TaskRow
  <2>4. ResultMatchesTask' BY DEF ResultMatchesTask, TypeOK, TaskRow
  <2>5. SnapshotIsCurrent'
    <3> SUFFICES ASSUME NEW v \in Workers, exec'[v].pc = "evaluating",
                        HoldsLease(v, exec[v].task)'
                 PROVE  exec'[v].attempt = task'[exec'[v].task].attempt
      BY DEF SnapshotIsCurrent
    <3>1. v # w /\ exec'[v] = exec[v] BY DEF TypeOK
    <3>2. exec[v].task # t
      BY <3>1 DEF HoldsLease, TypeOK
    <3> QED BY <3>1, <3>2 DEF SnapshotIsCurrent, HoldsLease, TypeOK, ExecutionHasTask
  <2>6. AbsentIsBlank' BY DEF AbsentIsBlank, TypeOK, TaskRow
  <2> QED BY <2>1, <2>2, <2>3, <2>4, <2>5, <2>6
<1>4. CASE /\ UNCHANGED task
           /\ exec' = IF task[t].owner = w
                      THEN [exec EXCEPT ![w] = [pc |-> "claimed", task |-> t, attempt |-> 0]]
                      ELSE exec
  <2> USE <1>1, <1>4
  <2>1. TypeOK' BY DEF TypeOK, Execution
  <2>2. ExecutionHasTask' BY DEF ExecutionHasTask, TypeOK
  <2>3. LeaseIffRunning' /\ ResultMatchesTask' /\ AbsentIsBlank'
    BY DEF LeaseIffRunning, ResultMatchesTask, AbsentIsBlank
  <2>4. SnapshotIsCurrent' BY DEF SnapshotIsCurrent, HoldsLease, TypeOK
  <2> QED BY <2>1, <2>2, <2>3, <2>4
<1> QED BY <1>2, <1>3, <1>4

LEMMA BeginIInv == ASSUME IInv, NEW w \in Workers, BeginExecution(w) PROVE IInv'
<1> USE DEF IInv, BeginExecution
<1> DEFINE t == exec[w].task
<1>1. t \in Tasks BY DEF ExecutionHasTask
<1>2. UNCHANGED <<task, evaluation, created, deployed>>
  OBVIOUS
<1>3. exec' = [exec EXCEPT ![w] =
                  IF HoldsLease(w, t)
                  THEN [pc |-> "evaluating", task |-> t, attempt |-> task[t].attempt]
                  ELSE Idle]
  OBVIOUS
<1> USE <1>1, <1>2, <1>3
<1>4. TypeOK' BY DEF TypeOK, Execution, Idle, TaskRow
<1>5. ExecutionHasTask' BY DEF ExecutionHasTask, TypeOK, Idle
<1>6. LeaseIffRunning' /\ ResultMatchesTask' /\ AbsentIsBlank'
    BY DEF LeaseIffRunning, ResultMatchesTask, AbsentIsBlank
<1>7. SnapshotIsCurrent' BY DEF SnapshotIsCurrent, HoldsLease, TypeOK, Idle
<1> QED BY <1>4, <1>5, <1>6, <1>7

LEMMA FinishIInv ==
  ASSUME IInv, NEW w \in Workers, NEW o \in {"succeeded", "failed"}, FinishExecution(w, o)
  PROVE  IInv'
<1> USE DEF IInv, FinishExecution
<1> DEFINE t == exec[w].task
<1>1. t \in Tasks BY DEF ExecutionHasTask
<1>2. exec' = [exec EXCEPT ![w] = Idle] /\ UNCHANGED <<created, deployed>>
  OBVIOUS
<1> USE <1>1, <1>2
<1>3. CASE ~HoldsLease(w, t)
  <2>1. UNCHANGED <<task, evaluation>> BY <1>3
  <2> USE <2>1
  <2>2. TypeOK' BY DEF TypeOK, Execution, Idle
  <2>3. ExecutionHasTask' BY DEF ExecutionHasTask, TypeOK, Idle
  <2>4. LeaseIffRunning' /\ ResultMatchesTask' /\ AbsentIsBlank'
    BY DEF LeaseIffRunning, ResultMatchesTask, AbsentIsBlank
  <2>5. SnapshotIsCurrent' BY DEF SnapshotIsCurrent, HoldsLease, TypeOK, Idle
  <2> QED BY <2>2, <2>3, <2>4, <2>5
<1>4. CASE HoldsLease(w, t)
  <2> DEFINE row == [task[t] EXCEPT !.attempt = exec[w].attempt]
             new == IF o = "succeeded" THEN Released(row, "succeeded", "none")
                                       ELSE Released(row, "failed", "execution_failed")
  <2>1. task' = [task EXCEPT ![t] = new] BY <1>4
  <2>2. evaluation' = IF o = "succeeded" THEN [evaluation EXCEPT ![t] = "current"]
                                          ELSE evaluation
    BY <1>4
  <2>3. /\ new \in TaskRow /\ new.owner = NoOne /\ new.lease = "none" /\ new.status = o
    <3>1. row \in TaskRow
      <4>1. task[t] \in TaskRow /\ exec[w].attempt \in 0 .. MaxAttempts
        BY DEF TypeOK, Execution
      <4> QED BY <4>1, AttemptRow
    <3>2. {"none", "execution_failed"} \subseteq ErrorCode BY DEF ErrorCode
    <3>3. {"succeeded", "failed"} \subseteq Status BY DEF Status
    <3> HIDE DEF row
    <3> QED BY <3>1, <3>2, <3>3, ReleasedRow
  <2> HIDE DEF new
  <2>4. TypeOK'
    <3>1. task' \in [Tasks -> TaskRow] BY <2>1, <2>3 DEF TypeOK
    <3>2. evaluation' \in [Tasks -> {"none", "current", "stale"}] BY <2>2 DEF TypeOK
    <3>3. exec' \in [Workers -> Execution] BY DEF TypeOK, Execution, Idle
    <3> QED BY <3>1, <3>2, <3>3 DEF TypeOK
  <2>5. ExecutionHasTask' BY DEF ExecutionHasTask, TypeOK, Idle
  <2>6. LeaseIffRunning' BY <2>1, <2>3 DEF LeaseIffRunning, TypeOK
  <2>7. ResultMatchesTask'
    BY <1>4, <2>1, <2>2, <2>3 DEF ResultMatchesTask, TypeOK, HoldsLease
  <2>8. SnapshotIsCurrent'
    BY <2>1, <2>3 DEF SnapshotIsCurrent, HoldsLease, TypeOK, Idle
  <2>9. AbsentIsBlank' BY <2>1, <2>3 DEF AbsentIsBlank, TypeOK
  <2> QED BY <2>4, <2>5, <2>6, <2>7, <2>8, <2>9
<1> QED BY <1>3, <1>4

LEMMA InterruptIInv == ASSUME IInv, NEW w \in Workers, Interrupt(w) PROVE IInv'
<1> USE DEF IInv, Interrupt
<1>1. TypeOK' BY DEF TypeOK, Execution, Idle
<1>2. ExecutionHasTask' BY DEF ExecutionHasTask, TypeOK, Idle
<1>3. LeaseIffRunning' /\ ResultMatchesTask' /\ AbsentIsBlank'
    BY DEF LeaseIffRunning, ResultMatchesTask, AbsentIsBlank
<1>4. SnapshotIsCurrent' BY DEF SnapshotIsCurrent, HoldsLease, TypeOK, Idle
<1> QED BY <1>1, <1>2, <1>3, <1>4

LEMMA ExpireIInv == ASSUME IInv, NEW t \in Tasks, ExpireLease(t) PROVE IInv'
<1> USE DEF IInv, ExpireLease
<1>1. TypeOK' BY DEF TypeOK, TaskRow
<1>2. ExecutionHasTask' BY DEF ExecutionHasTask
<1>3. LeaseIffRunning' BY DEF LeaseIffRunning, TypeOK, TaskRow
<1>4. ResultMatchesTask' BY DEF ResultMatchesTask, TypeOK, TaskRow
<1>5. SnapshotIsCurrent' BY DEF SnapshotIsCurrent, HoldsLease, TypeOK, TaskRow
<1>6. AbsentIsBlank' BY DEF AbsentIsBlank, TypeOK, TaskRow
<1> QED BY <1>1, <1>2, <1>3, <1>4, <1>5, <1>6

LEMMA AbandonIInv == ASSUME IInv, NEW t \in Tasks, Abandon(t) PROVE IInv'
<1>1. "abandoned" \in ErrorCode BY DEF ErrorCode
<1>2. task[t].status # "succeeded" BY DEF Abandon, Abandonable
<1> QED BY <1>1, <1>2, ToFailedIInv DEF Abandon

LEMMA ReadIInv == ASSUME IInv, NEW t \in Tasks, GetEvaluation(t) PROVE IInv'
BY DEF IInv, GetEvaluation, TypeOK, ExecutionHasTask, LeaseIffRunning, ResultMatchesTask,
       SnapshotIsCurrent, HoldsLease, AbsentIsBlank

LEMMA DeployIInv == ASSUME IInv, NEW a \in Algorithms, Deploy(a) PROVE IInv'
BY DEF IInv, Deploy, TypeOK, ExecutionHasTask, LeaseIffRunning, ResultMatchesTask,
       SnapshotIsCurrent, HoldsLease, AbsentIsBlank

LEMMA StutterIInv == ASSUME IInv, UNCHANGED vars PROVE IInv'
BY DEF IInv, vars, TypeOK, ExecutionHasTask, LeaseIffRunning, ResultMatchesTask,
       SnapshotIsCurrent, HoldsLease, AbsentIsBlank

LEMMA NextIInv == IInv /\ [Next]_vars => IInv'
<1> SUFFICES ASSUME IInv, [Next]_vars PROVE IInv'
  OBVIOUS
<1>1. CASE \E t \in Tasks : Submit(t) \/ ExpireLease(t) \/ Abandon(t) \/ GetEvaluation(t)
  BY <1>1, SubmitIInv, ExpireIInv, AbandonIInv, ReadIInv
<1>2. CASE \E w \in Workers, t \in Tasks : Claim(w, t)
  BY <1>2, ClaimIInv
<1>3. CASE \E w \in Workers : BeginExecution(w) \/ Interrupt(w)
  BY <1>3, BeginIInv, InterruptIInv
<1>4. CASE \E w \in Workers, o \in {"succeeded", "failed"} : FinishExecution(w, o)
  BY <1>4, FinishIInv
<1>5. CASE \E a \in Algorithms : Deploy(a)
  BY <1>5, DeployIInv
<1>6. CASE UNCHANGED vars
  BY <1>6, StutterIInv
<1> QED BY <1>1, <1>2, <1>3, <1>4, <1>5, <1>6 DEF Next

\* The inductive invariant holds for any number of tasks and workers and any
\* attempt bound.
THEOREM Invariance == Spec => []IInv
<1>1. Init => IInv BY InitIInv
<1>2. IInv /\ [Next]_vars => IInv' BY NextIInv
<1> QED BY <1>1, <1>2, PTL DEF Spec

\* Rows stay well typed; in particular no task is ever started more often
\* than max_attempts allows.
THEOREM TypeCorrect == Spec => []TypeOK
<1>1. IInv => TypeOK BY DEF IInv
<1> QED BY <1>1, Invariance, PTL

\* Owner-only fencing is enough: an execution that can still commit works on
\* the current attempt.
THEOREM Fencing == Spec => []SnapshotIsCurrent
<1>1. IInv => SnapshotIsCurrent BY DEF IInv
<1> QED BY <1>1, Invariance, PTL

\* A result is stored exactly for the tasks that succeeded.
THEOREM ResultConsistency == Spec => []ResultMatchesTask
<1>1. IInv => ResultMatchesTask BY DEF IInv
<1> QED BY <1>1, Invariance, PTL

\* A lease exists exactly while its task runs.
THEOREM LeaseConsistency == Spec => []LeaseIffRunning
<1>1. IInv => LeaseIffRunning BY DEF IInv
<1> QED BY <1>1, Invariance, PTL

------------------------------------------------------------------------------
(* What steps never do *)

\* Every step replaces at most one row, and never a terminal one.
LEMMA TerminalStep ==
  ASSUME IInv, [Next]_vars, NEW u \in Tasks, Terminal(u) PROVE task'[u] = task[u]
<1>1. /\ task \in [Tasks -> TaskRow]
      /\ task[u].status \notin {"absent", "pending", "running"}
      /\ task[u].status = "failed" => task[u].attempt = MaxAttempts
  BY DEF IInv, TypeOK, Terminal, Exhausted
<1>2. ASSUME NEW t \in Tasks, NEW x, task' = [task EXCEPT ![t] = x], t # u
      PROVE  task'[u] = task[u]
  BY <1>1, <1>2
<1>3. ASSUME NEW t \in Tasks, Submit(t) PROVE task'[u] = task[u]
  BY <1>1, <1>2, <1>3 DEF Submit, Exists
<1>4. ASSUME NEW t \in Tasks, ExpireLease(t) PROVE task'[u] = task[u]
  <2>1. task[t].status = "running" BY <1>4 DEF ExpireLease, IInv, LeaseIffRunning
  <2> QED BY <1>1, <1>4, <2>1 DEF ExpireLease
<1>5. ASSUME NEW t \in Tasks, Abandon(t) PROVE task'[u] = task[u]
  BY <1>1, <1>2, <1>5 DEF Abandon, Abandonable
<1>6. ASSUME NEW w \in Workers, NEW t \in Tasks, Claim(w, t) PROVE task'[u] = task[u]
  <2>1. CASE Exhaust(t) BY <1>1, <1>2, <2>1 DEF Exhaust, LeaseOver
  <2>2. CASE Take(w, t)
    <3>1. t # u
      <4>1. task[u].attempt = MaxAttempts \/ task[u].status \notin {"pending", "failed", "running"}
        BY <1>1
      <4> QED BY <2>2, <4>1 DEF Take, Claimable, LeaseOver
    <3> QED BY <1>1, <2>2, <3>1 DEF Take
  <2>3. CASE UNCHANGED task BY <2>3
  <2> QED BY <1>6, <2>1, <2>2, <2>3 DEF Claim
<1>7. ASSUME NEW w \in Workers, NEW o \in {"succeeded", "failed"}, FinishExecution(w, o)
      PROVE  task'[u] = task[u]
  <2>1. CASE ~HoldsLease(w, exec[w].task) BY <1>7, <2>1 DEF FinishExecution
  <2>2. CASE HoldsLease(w, exec[w].task)
    <3>1. exec[w].task # u BY <1>1, <2>2 DEF HoldsLease
    <3> QED BY <1>1, <1>7, <2>2, <3>1 DEF FinishExecution
  <2> QED BY <2>1, <2>2
<1>8. CASE UNCHANGED task BY <1>8
<1> QED
  BY <1>3, <1>4, <1>5, <1>6, <1>7, <1>8
  DEF Next, vars, BeginExecution, Interrupt, GetEvaluation, Deploy

\* No step removes a task.
LEMMA ExistingStep ==
  ASSUME IInv, [Next]_vars, NEW u \in Tasks, Exists(u) PROVE Exists(u)'
<1>1. task \in [Tasks -> TaskRow] /\ task[u].status # "absent" BY DEF IInv, TypeOK, Exists
<1>2. ASSUME NEW t \in Tasks, NEW x, x.status # "absent", task' = [task EXCEPT ![t] = x]
      PROVE  Exists(u)'
  BY <1>1, <1>2 DEF Exists
<1>3. ASSUME NEW t \in Tasks, NEW row \in TaskRow, NEW s \in Status \ {"absent"},
             NEW c \in ErrorCode, task' = [task EXCEPT ![t] = Released(row, s, c)]
      PROVE  Exists(u)'
  <2> DEFINE x == Released(row, s, c)
  <2>1. x.status = s BY ReleasedRow
  <2> HIDE DEF x
  <2>2. x.status # "absent" /\ task' = [task EXCEPT ![t] = x] BY <1>3, <2>1 DEF x
  <2> QED BY <1>2, <2>2
<1>4. {"failed", "succeeded"} \subseteq Status \ {"absent"}
      /\ {"none", "execution_failed", "abandoned", "exhausted"} \subseteq ErrorCode
  BY DEF Status, ErrorCode
<1>5. ASSUME NEW t \in Tasks, Submit(t) PROVE Exists(u)'
  <2>1. [Absent EXCEPT !.status = "pending"].status # "absent" BY DEF Absent
  <2> QED BY <1>1, <1>2, <1>5, <2>1 DEF Submit, Exists
<1>6. ASSUME NEW t \in Tasks, ExpireLease(t) PROVE Exists(u)'
  BY <1>1, <1>6 DEF ExpireLease, TaskRow, Exists
<1>7. ASSUME NEW t \in Tasks, Abandon(t) PROVE Exists(u)'
  BY <1>1, <1>3, <1>4, <1>7 DEF Abandon
<1>8. ASSUME NEW w \in Workers, NEW t \in Tasks, Claim(w, t) PROVE Exists(u)'
  <2>1. CASE Exhaust(t) BY <1>1, <1>3, <1>4, <2>1 DEF Exhaust
  <2>2. CASE Take(w, t) BY <1>1, <1>2, <2>2 DEF Take
  <2>3. CASE UNCHANGED task BY <1>1, <2>3 DEF Exists
  <2> QED BY <1>8, <2>1, <2>2, <2>3 DEF Claim
<1>9. ASSUME NEW w \in Workers, NEW o \in {"succeeded", "failed"}, FinishExecution(w, o)
      PROVE  Exists(u)'
  <2>1. CASE ~HoldsLease(w, exec[w].task) BY <1>1, <1>9, <2>1 DEF FinishExecution, Exists
  <2>2. CASE HoldsLease(w, exec[w].task)
    <3> DEFINE t == exec[w].task
               row == [task[t] EXCEPT !.attempt = exec[w].attempt]
    <3>1. t \in Tasks BY <1>9 DEF FinishExecution, IInv, ExecutionHasTask
    <3>2. row \in TaskRow
      <4>1. task[t] \in TaskRow /\ exec[w].attempt \in 0 .. MaxAttempts
        BY <1>1, <3>1 DEF IInv, TypeOK, Execution
      <4> QED BY <4>1, AttemptRow
    <3>3. \/ task' = [task EXCEPT ![t] = Released(row, "succeeded", "none")]
          \/ task' = [task EXCEPT ![t] = Released(row, "failed", "execution_failed")]
      BY <1>9, <2>2 DEF FinishExecution
    <3> HIDE DEF t, row
    <3> QED BY <1>3, <1>4, <3>1, <3>2, <3>3
  <2> QED BY <2>1, <2>2
<1>10. CASE UNCHANGED task BY <1>1, <1>10 DEF Exists
<1> QED
  BY <1>5, <1>6, <1>7, <1>8, <1>9, <1>10
  DEF Next, vars, BeginExecution, Interrupt, GetEvaluation, Deploy

\* No late worker, redelivery, resubmission or user changes the row of a task
\* that succeeded or used up its attempts.
THEOREM TerminalStays == Spec => TerminalIsFinal
<1>1. IInv /\ [Next]_vars => [\A t \in Tasks : Terminal(t) => task'[t] = task[t]]_vars
  BY TerminalStep
<1> QED BY <1>1, Invariance, PTL DEF Spec, TerminalIsFinal

LEMMA StaleStep ==
  ASSUME IInv, [Next]_vars, NEW u \in Tasks, evaluation[u] = "stale", Superseded(u)
  PROVE  evaluation'[u] = "stale"
<1>1. evaluation \in [Tasks -> {"none", "current", "stale"}] BY DEF IInv, TypeOK
<1>2. ASSUME NEW t \in Tasks, Submit(t) PROVE evaluation'[u] = "stale"
  BY <1>2 DEF Submit, MarkStale
<1>3. ASSUME NEW t \in Tasks, GetEvaluation(t) PROVE evaluation'[u] = "stale"
  BY <1>1, <1>3 DEF GetEvaluation, StaleOnRead
<1>4. ASSUME NEW w \in Workers, NEW o \in {"succeeded", "failed"}, FinishExecution(w, o)
      PROVE  evaluation'[u] = "stale"
  <2>1. CASE ~HoldsLease(w, exec[w].task) BY <1>4, <2>1 DEF FinishExecution
  <2>2. CASE HoldsLease(w, exec[w].task)
    <3>1. exec[w].task # u BY <2>2 DEF HoldsLease, IInv, ResultMatchesTask
    <3> QED BY <1>1, <1>4, <2>2, <3>1 DEF FinishExecution
  <2> QED BY <2>1, <2>2
<1>5. CASE UNCHANGED evaluation BY <1>5
<1> QED
  BY <1>2, <1>3, <1>4, <1>5
  DEF Next, vars, Claim, BeginExecution, Interrupt, ExpireLease, Abandon, Deploy

\* The order of submission names existing versions, each once.
OrderInv ==
  \A j \in DOMAIN created :
    Exists(created[j]) /\ \A i \in DOMAIN created : i < j => created[i] # created[j]

LEMMA OrderStep == ASSUME IInv, OrderInv, [Next]_vars PROVE OrderInv'
<1>1. created \in Seq(Tasks) BY DEF IInv, TypeOK
<1>2. ASSUME NEW j \in DOMAIN created PROVE Exists(created[j])'
  <2>1. PICK u \in Tasks : u = created[j] /\ Exists(u) BY <1>1 DEF OrderInv
  <2>2. Exists(u)' BY <2>1, ExistingStep
  <2>3. created'[j] = created[j]
    <3>1. ASSUME NEW t \in Tasks, Submit(t) PROVE created'[j] = created[j]
      BY <1>1, <3>1 DEF Submit
    <3> QED
      BY <3>1 DEF Next, vars, Claim, BeginExecution, Interrupt, FinishExecution, GetEvaluation,
                  ExpireLease, Abandon, Deploy
  <2> QED BY <2>1, <2>2, <2>3 DEF Exists
<1>3. CASE UNCHANGED created BY <1>2, <1>3 DEF OrderInv
<1>4. ASSUME NEW t \in Tasks, Submit(t), ~UNCHANGED created PROVE OrderInv'
  <2>1. created' = Append(created, t) /\ ~Exists(t) BY <1>4 DEF Submit
  <2>2. Exists(t)' BY <1>4, <2>1 DEF Submit, Exists, Absent, IInv, TypeOK
  <2>3. /\ DOMAIN created = 1 .. Len(created)
        /\ DOMAIN created' = 1 .. Len(created) + 1
        /\ created'[Len(created) + 1] = t /\ Len(created) \in Nat
        /\ \A i \in DOMAIN created : created'[i] = created[i]
    BY <1>1, <2>1
  <2>4. \A i \in DOMAIN created : created[i] # t BY <2>1 DEF OrderInv
  <2>5. ASSUME NEW j \in DOMAIN created'
        PROVE  /\ Exists(created[j])'
               /\ \A i \in DOMAIN created' : i < j => created'[i] # created'[j]
    <3>1. CASE j \in DOMAIN created
      <4>1. \A i \in DOMAIN created' : i < j => i \in DOMAIN created BY <2>3, <3>1
      <4> QED BY <1>2, <2>3, <3>1, <4>1 DEF OrderInv
    <3>2. CASE j = Len(created) + 1
      <4>1. \A i \in DOMAIN created' : i < j => i \in DOMAIN created BY <2>3, <3>2
      <4>2. Exists(created[j])' BY <2>2, <2>3, <3>2 DEF Exists
      <4> QED BY <2>3, <2>4, <3>2, <4>1, <4>2
    <3> QED BY <2>3, <3>1, <3>2
  <2> QED BY <2>5 DEF OrderInv
<1> QED
  BY <1>3, <1>4 DEF Next, vars, Claim, BeginExecution, Interrupt, FinishExecution, GetEvaluation,
                    ExpireLease, Abandon, Deploy

\* Neither reads nor late executions make a result current again that a later
\* version made stale.
THEOREM SupersededResultStays == Spec => SupersededStaysStale
<1>1. Init => OrderInv BY DEF Init, OrderInv
<1>2. ASSUME IInv, OrderInv, NEW u \in Tasks, SubmittedAgain(u) PROVE Superseded(u)
  <2>1. created \in Seq(Tasks) BY <1>2 DEF IInv, TypeOK
  <2> QED BY <1>2, <2>1 DEF SubmittedAgain, OrderInv, Superseded
<1>3. IInv /\ OrderInv /\ [Next]_vars => OrderInv' BY OrderStep
<1>4. IInv /\ OrderInv /\ [Next]_vars =>
        [\A t \in Tasks : evaluation[t] = "stale" /\ SubmittedAgain(t) => evaluation'[t] = "stale"]_vars
  BY <1>2, StaleStep
<1> QED BY <1>1, <1>3, <1>4, Invariance, PTL DEF Spec, SupersededStaysStale

------------------------------------------------------------------------------
(* Implementation of the task lifecycle *)

\* The abstract variables.
st == [t \in Tasks |-> task[t].status]
at == [t \in Tasks |-> task[t].attempt]
rs == [t \in Tasks |-> evaluation[t] # "none"]

SameResults == \A t \in Tasks : (evaluation'[t] # "none") <=> (evaluation[t] # "none")

AbstractStep == [Lifecycle!LifecycleNext]_(Lifecycle!lifecycleVars)

LEMMA ResultsKept == ASSUME SameResults PROVE rs' = rs
BY DEF SameResults, rs

\* Nothing that the abstract task shows has changed.
LEMMA StutterStep == ASSUME UNCHANGED task, SameResults PROVE AbstractStep
<1>1. UNCHANGED <<st, at, rs>> BY ResultsKept DEF st, at
<1> QED BY <1>1 DEF AbstractStep, Lifecycle!lifecycleVars, st, at, rs

\* One row is replaced.
LEMMA OneRow ==
  ASSUME TypeOK, NEW t \in Tasks, NEW new, task' = [task EXCEPT ![t] = new]
  PROVE  st' = [st EXCEPT ![t] = new.status] /\ at' = [at EXCEPT ![t] = new.attempt]
<1>1. \A u \in Tasks : task'[u] = IF u = t THEN new ELSE task[u]
  BY DEF TypeOK
<1>2. st' = [st EXCEPT ![t] = new.status]
  <2> DEFINE x == new.status
  <2>1. \A u \in Tasks : task'[u].status = IF u = t THEN x ELSE task[u].status
    BY <1>1
  <2> HIDE DEF x
  <2>2. [u \in Tasks |-> task'[u].status] = [u \in Tasks |-> IF u = t THEN x ELSE task[u].status]
    BY <2>1, Zenon
  <2>3. [st EXCEPT ![t] = x] = [u \in Tasks |-> IF u = t THEN x ELSE task[u].status]
    BY DEF st
  <2>4. st' = [st EXCEPT ![t] = x] BY <2>2, <2>3, Zenon DEF st
  <2> QED BY <2>4 DEF x
<1>3. at' = [at EXCEPT ![t] = new.attempt]
  <2> DEFINE n == new.attempt
  <2>1. \A u \in Tasks : task'[u].attempt = IF u = t THEN n ELSE task[u].attempt
    BY <1>1
  <2> HIDE DEF n
  <2>2. [u \in Tasks |-> task'[u].attempt] = [u \in Tasks |-> IF u = t THEN n ELSE task[u].attempt]
    BY <2>1, Zenon
  <2>3. [at EXCEPT ![t] = n] = [u \in Tasks |-> IF u = t THEN n ELSE task[u].attempt]
    BY DEF at
  <2>4. at' = [at EXCEPT ![t] = n] BY <2>2, <2>3, Zenon DEF at
  <2> QED BY <2>4 DEF n
<1> QED BY <1>2, <1>3

\* The same, when the attempt stays as it is.
LEMMA StatusOnly ==
  ASSUME TypeOK, NEW t \in Tasks, NEW new, task' = [task EXCEPT ![t] = new],
         new.attempt = task[t].attempt
  PROVE  st' = [st EXCEPT ![t] = new.status] /\ at' = at
<1>1. st' = [st EXCEPT ![t] = new.status] /\ at' = [at EXCEPT ![t] = new.attempt]
  BY OneRow
<1>2. [at EXCEPT ![t] = new.attempt] = at
  <2> DEFINE n == new.attempt
  <2>1. n = task[t].attempt OBVIOUS
  <2> HIDE DEF n
  <2>2. [at EXCEPT ![t] = n] = at BY <2>1 DEF at
  <2> QED BY <2>2 DEF n
<1> QED BY <1>1, <1>2, Zenon

LEMMA SubmitStep == ASSUME IInv, NEW t \in Tasks, Submit(t) PROVE AbstractStep
<1>1. CASE UNCHANGED <<task, evaluation, created>>
  BY <1>1, StutterStep DEF SameResults
<1>2. CASE ~Exists(t)
  <2> DEFINE new == [status |-> "pending", attempt |-> 0, owner |-> NoOne,
                     lease |-> "none", code |-> "none"]
  <2>1. task' = [task EXCEPT ![t] = new] /\ evaluation' = MarkStale(t)
    BY <1>2 DEF Submit, Absent, Exists
  <2>2. SameResults BY <2>1 DEF SameResults, MarkStale, IInv, TypeOK
  <2>3. task[t].status = "absent" /\ task[t].attempt = 0
    BY <1>2 DEF Exists, IInv, AbsentIsBlank
  <2>4. st' = [st EXCEPT ![t] = "pending"] /\ at' = at
    <3>1. new.status = "pending" /\ new.attempt = task[t].attempt BY <2>3
    <3>2. TypeOK BY DEF IInv
    <3> HIDE DEF new
    <3> QED BY <2>1, <3>1, <3>2, StatusOnly, Zenon
  <2>5. rs' = rs BY <2>2, ResultsKept
  <2>6. st[t] = "absent" BY <2>3 DEF st
  <2>7. Lifecycle!Create(t)
    BY <2>4, <2>5, <2>6 DEF Lifecycle!Create, Lifecycle!Move, st, at, rs
  <2> QED BY <2>7 DEF AbstractStep, Lifecycle!LifecycleNext
<1> QED BY <1>1, <1>2 DEF Submit

\* An unfinished task fails: out of attempts, abandoned or in an execution.
LEMMA FailStep ==
  ASSUME IInv, NEW t \in Tasks, NEW new, task' = [task EXCEPT ![t] = new],
         new.status = "failed", new.attempt = task[t].attempt,
         task[t].status \in {"pending", "running"}, UNCHANGED evaluation
  PROVE  AbstractStep
<1>1. st' = [st EXCEPT ![t] = "failed"] /\ at' = at
  <2>1. TypeOK BY DEF IInv
  <2>2. st' = [st EXCEPT ![t] = new.status] /\ at' = at
    BY <2>1, StatusOnly
  <2> QED BY <2>2, Zenon
<1>2. rs' = rs BY ResultsKept DEF SameResults
<1>3. st[t] \in {"pending", "running"} BY DEF st
<1>4. Lifecycle!Fail(t)
  BY <1>1, <1>2, <1>3 DEF Lifecycle!Fail, Lifecycle!Move, st, at, rs
<1> QED BY <1>4 DEF AbstractStep, Lifecycle!LifecycleNext

LEMMA ClaimStep == ASSUME IInv, NEW w \in Workers, NEW t \in Tasks, Claim(w, t)
                   PROVE  AbstractStep
<1>0. UNCHANGED evaluation BY DEF Claim
<1>1. CASE Exhaust(t)
  <2> DEFINE new == Released(task[t], "failed", "exhausted")
  <2>1. task[t] \in TaskRow /\ "failed" \in Status /\ "exhausted" \in ErrorCode
    BY DEF IInv, TypeOK, Status, ErrorCode
  <2>2. new.status = "failed" /\ new.attempt = task[t].attempt
    BY <2>1, ReleasedRow
  <2>3. task' = [task EXCEPT ![t] = new] /\ task[t].status = "running"
    BY <1>1 DEF Exhaust, LeaseOver
  <2> HIDE DEF new
  <2> QED BY <1>0, <2>2, <2>3, FailStep
<1>2. CASE Take(w, t)
  <2> DEFINE new == [status |-> "running", attempt |-> task[t].attempt + 1,
                     owner |-> w, lease |-> "live", code |-> "none"]
  <2>1. task' = [task EXCEPT ![t] = new] BY <1>2 DEF Take
  <2>2. /\ st' = [st EXCEPT ![t] = "running"]
        /\ at' = [at EXCEPT ![t] = task[t].attempt + 1]
    <3>1. TypeOK BY DEF IInv
    <3>2. new.status = "running" /\ new.attempt = task[t].attempt + 1 OBVIOUS
    <3> HIDE DEF new
    <3> QED BY <2>1, <3>1, <3>2, OneRow, Zenon
  <2>3. rs' = rs BY <1>0, ResultsKept DEF SameResults
  <2>4. st[t] \in {"pending", "running", "failed"} /\ at[t] < MaxAttempts
    BY <1>2 DEF Take, Claimable, LeaseOver, st, at
  <2>5. at[t] = task[t].attempt BY DEF at
  <2>6. Lifecycle!Start(t)
    BY <2>2, <2>3, <2>4, <2>5 DEF Lifecycle!Start, Lifecycle!Move, st, at, rs
  <2> QED BY <2>6 DEF AbstractStep, Lifecycle!LifecycleNext
<1>3. CASE UNCHANGED task
  BY <1>0, <1>3, StutterStep DEF SameResults
<1> QED BY <1>1, <1>2, <1>3 DEF Claim

\* A running task succeeds and its result is stored.
LEMMA SucceedStep ==
  ASSUME IInv, NEW t \in Tasks, NEW new, task' = [task EXCEPT ![t] = new],
         new.status = "succeeded", new.attempt = task[t].attempt,
         task[t].status = "running", evaluation' = [evaluation EXCEPT ![t] = "current"]
  PROVE  AbstractStep
<1>1. st' = [st EXCEPT ![t] = "succeeded"] /\ at' = at
  <2>1. TypeOK BY DEF IInv
  <2>2. st' = [st EXCEPT ![t] = new.status] /\ at' = at
    BY <2>1, StatusOnly
  <2> QED BY <2>2, Zenon
<1>2. rs' = [rs EXCEPT ![t] = TRUE] BY DEF rs, IInv, TypeOK
<1>3. st[t] \in {"running"} BY DEF st
<1>4. Lifecycle!Succeed(t)
  BY <1>1, <1>2, <1>3 DEF Lifecycle!Succeed, Lifecycle!Move, st, at, rs
<1> QED BY <1>4 DEF AbstractStep, Lifecycle!LifecycleNext

LEMMA FinishStep ==
  ASSUME IInv, NEW w \in Workers, NEW o \in {"succeeded", "failed"}, FinishExecution(w, o)
  PROVE  AbstractStep
<1> DEFINE t == exec[w].task
           row == [task[t] EXCEPT !.attempt = exec[w].attempt]
           good == Released(row, "succeeded", "none")
           bad == Released(row, "failed", "execution_failed")
<1>1. t \in Tasks /\ exec[w].pc = "evaluating"
  BY DEF FinishExecution, IInv, ExecutionHasTask
<1>2. CASE ~HoldsLease(w, t)
  <2>1. UNCHANGED <<task, evaluation>> BY <1>2 DEF FinishExecution
  <2> QED BY <2>1, StutterStep DEF SameResults
<1>3. CASE HoldsLease(w, t)
  <2>1. task[t].status = "running" BY <1>3 DEF HoldsLease
  <2>2. exec[w].attempt = task[t].attempt /\ exec[w].attempt \in 0 .. MaxAttempts
    BY <1>1, <1>3 DEF IInv, SnapshotIsCurrent, TypeOK, Execution
  <2>3. row \in TaskRow /\ row.attempt = task[t].attempt
    <3>1. task[t] \in TaskRow BY <1>1 DEF IInv, TypeOK
    <3>2. row \in TaskRow BY <2>2, <3>1, AttemptRow
    <3>3. row.attempt = exec[w].attempt BY <3>1 DEF TaskRow
    <3> QED BY <2>2, <3>2, <3>3
  <2> HIDE DEF row
  <2>4. /\ good.status = "succeeded" /\ good.attempt = task[t].attempt
        /\ bad.status = "failed" /\ bad.attempt = task[t].attempt
    <3>1. /\ {"succeeded", "failed"} \subseteq Status
          /\ {"none", "execution_failed"} \subseteq ErrorCode
      BY DEF Status, ErrorCode
    <3> QED BY <2>3, <3>1, ReleasedRow
  <2>5. CASE o = "succeeded"
    <3>1. task' = [task EXCEPT ![t] = good] /\ evaluation' = [evaluation EXCEPT ![t] = "current"]
      BY <1>3, <2>5 DEF FinishExecution, row
    <3> HIDE DEF good
    <3> QED BY <1>1, <2>1, <2>4, <3>1, SucceedStep
  <2>6. CASE o = "failed"
    <3>1. task' = [task EXCEPT ![t] = bad] /\ UNCHANGED evaluation
      BY <1>3, <2>6 DEF FinishExecution, row
    <3> HIDE DEF bad
    <3> QED BY <1>1, <2>1, <2>4, <3>1, FailStep
  <2> QED BY <2>5, <2>6
<1> QED BY <1>2, <1>3

LEMMA ExpireStep == ASSUME IInv, NEW t \in Tasks, ExpireLease(t) PROVE AbstractStep
<1> DEFINE new == [task[t] EXCEPT !.lease = "expired"]
<1>1. task' = [task EXCEPT ![t] = new] /\ UNCHANGED evaluation
  BY DEF ExpireLease
<1>2. new.status = task[t].status /\ new.attempt = task[t].attempt
  BY DEF IInv, TypeOK, TaskRow
<1> HIDE DEF new
<1>3. UNCHANGED <<st, at, rs>>
  BY <1>1, <1>2, OneRow DEF IInv, st, at, rs
<1> QED BY <1>3 DEF AbstractStep, Lifecycle!lifecycleVars, st, at, rs

LEMMA AbandonStep == ASSUME IInv, NEW t \in Tasks, Abandon(t) PROVE AbstractStep
<1> DEFINE new == Released(task[t], "failed", "abandoned")
<1>1. task[t] \in TaskRow /\ "failed" \in Status /\ "abandoned" \in ErrorCode
  BY DEF IInv, TypeOK, Status, ErrorCode
<1>2. new.status = "failed" /\ new.attempt = task[t].attempt
  BY <1>1, ReleasedRow
<1>3. /\ task' = [task EXCEPT ![t] = new] /\ UNCHANGED evaluation
      /\ task[t].status \in {"pending", "running"}
  BY DEF Abandon, Abandonable
<1> HIDE DEF new
<1> QED BY <1>2, <1>3, FailStep

LEMMA ReadStep == ASSUME IInv, NEW t \in Tasks, GetEvaluation(t) PROVE AbstractStep
<1>1. UNCHANGED task /\ SameResults
  BY DEF GetEvaluation, SameResults, IInv, TypeOK
<1> QED BY <1>1, StutterStep

LEMMA NextStep == IInv /\ [Next]_vars => AbstractStep
<1> SUFFICES ASSUME IInv, [Next]_vars PROVE AbstractStep
  OBVIOUS
<1>1. CASE \E t \in Tasks : Submit(t) \/ ExpireLease(t) \/ Abandon(t) \/ GetEvaluation(t)
  BY <1>1, SubmitStep, ExpireStep, AbandonStep, ReadStep
<1>2. CASE \E w \in Workers, t \in Tasks : Claim(w, t)
  BY <1>2, ClaimStep
<1>3. CASE UNCHANGED <<task, evaluation>>
  BY <1>3, StutterStep DEF SameResults
<1>4. CASE \E w \in Workers, o \in {"succeeded", "failed"} : FinishExecution(w, o)
  BY <1>4, FinishStep
<1> QED BY <1>1, <1>2, <1>3, <1>4 DEF Next, BeginExecution, Interrupt, Deploy, vars

\* The task table with its leases and executions implements the lifecycle a
\* client sees: attempts never go back, a result and the status "succeeded"
\* appear together, and finished tasks stay finished.
THEOREM LifecycleImplemented == Spec => ImplementsLifecycle
<1>1. Init => Lifecycle!LifecycleInit
  <2> SUFFICES ASSUME Init PROVE Lifecycle!LifecycleInit
    OBVIOUS
  <2>1. \A t \in Tasks : /\ task[t].status = "absent" /\ task[t].attempt = 0
                         /\ (evaluation[t] # "none") = FALSE
    BY DEF Init, Absent
  <2>2. [t \in Tasks |-> task[t].status] = [t \in Tasks |-> "absent"] BY <2>1
  <2>3. [t \in Tasks |-> task[t].attempt] = [t \in Tasks |-> 0] BY <2>1
  <2>4. [t \in Tasks |-> evaluation[t] # "none"] = [t \in Tasks |-> FALSE] BY <2>1
  <2> QED BY <2>2, <2>3, <2>4 DEF Lifecycle!LifecycleInit
<1>2. IInv /\ [Next]_vars => [Lifecycle!LifecycleNext]_(Lifecycle!lifecycleVars)
  BY NextStep DEF AbstractStep
<1> QED BY <1>1, <1>2, Invariance, PTL DEF Spec, ImplementsLifecycle, Lifecycle!LifecycleSpec

=============================================================================
