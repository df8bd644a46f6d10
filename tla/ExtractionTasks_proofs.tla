----------------------- MODULE ExtractionTasks_proofs -----------------------
(***************************************************************************)
(* Proofs about the JD extraction tasks: type correctness, that no attempt *)
(* is executed twice, and that without crashes a running task is executed. *)
(***************************************************************************)
EXTENDS ExtractionTasks, TLAPS

\* OneRunPerAttempt is inductive: marking a task running is the only step
\* that starts an execution, it counts the attempt in the same transaction,
\* and no step takes an attempt back.
IInv == TypeOK /\ OneRunPerAttempt

USE AttemptsAssumption, WorkerOfAssumption

LEMMA IdlesAreTyped ==
  /\ IdleRun \in Run /\ IdleRun.pc = "idle"
  /\ IdlePoller \in Poller /\ IdlePoller.pc = "idle"
BY DEF IdleRun, Run, IdlePoller, Poller, Status


LEMMA InitIInv == Init => IInv
<1> SUFFICES ASSUME Init PROVE IInv
  OBVIOUS
<1>1. task \in Task BY DEF Init, Task, Status
<1>2. TypeOK BY <1>1, IdlesAreTyped DEF Init, TypeOK
<1>3. OneRunPerAttempt BY IdlesAreTyped DEF Init, OneRunPerAttempt
<1> QED BY <1>2, <1>3 DEF IInv

------------------------------------------------------------------------------
\* A step that keeps the attempts and starts no execution.
LEMMA QuietIInv ==
  ASSUME IInv, TypeOK', task'.attempts = task.attempts,
         \A r \in Runs : run'[r].pc = "extracting" => run'[r] = run[r]
  PROVE  IInv'
BY DEF IInv, OneRunPerAttempt

LEMMA MarkRunningIInv ==
  ASSUME IInv, NEW r \in Runs, task.attempts < MaxAttempts, MarkRunning(r),
         UNCHANGED <<poller, faults>>
  PROVE  IInv'
<1>1. task \in Task /\ task.attempts \in 0 .. MaxAttempts BY DEF IInv, TypeOK, Task
<1>2. task.attempts + 1 \in 0 .. MaxAttempts BY <1>1
<1>3. task' \in Task /\ task'.attempts = task.attempts + 1
  BY <1>1, <1>2 DEF MarkRunning, Task, Status
<1>4. [pc |-> "extracting", attempt |-> task.attempts + 1] \in Run
  BY <1>2 DEF Run
<1>5. TypeOK' BY <1>3, <1>4 DEF IInv, TypeOK, MarkRunning
<1>6. OneRunPerAttempt'
  <2> SUFFICES ASSUME NEW q \in Runs, run'[q].pc = "extracting"
               PROVE  /\ run'[q].attempt <= task'.attempts
                      /\ \A p \in Runs \ {q} : run'[p].pc = "extracting"
                                                 => run'[p].attempt # run'[q].attempt
    BY DEF OneRunPerAttempt
  <2>1. run'[r].attempt = task.attempts + 1 BY DEF IInv, TypeOK, MarkRunning
  <2>2. \A p \in Runs \ {r} : run'[p] = run[p] BY DEF IInv, TypeOK, MarkRunning
  <2>3. \A p \in Runs : run[p].attempt \in Nat BY DEF IInv, TypeOK, Run
  <2>4. \A p \in Runs \ {r} : run'[p].pc = "extracting" => run'[p].attempt <= task.attempts
    BY <2>2 DEF IInv, OneRunPerAttempt
  <2>5. CASE q = r
    BY <1>1, <1>3, <2>1, <2>2, <2>3, <2>4, <2>5
  <2>6. CASE q # r
    <3>1. run'[q].attempt <= task'.attempts BY <1>1, <1>3, <2>2, <2>3, <2>4, <2>6
    <3>2. ASSUME NEW p \in Runs \ {q}, run'[p].pc = "extracting"
          PROVE  run'[p].attempt # run'[q].attempt
      <4>1. CASE p = r BY <1>1, <2>1, <2>2, <2>3, <2>4, <2>6, <4>1
      <4>2. CASE p # r BY <2>2, <2>6, <3>2, <4>2 DEF IInv, OneRunPerAttempt
      <4> QED BY <4>1, <4>2
    <3> QED BY <3>1, <3>2
  <2> QED BY <2>5, <2>6
<1> QED BY <1>5, <1>6 DEF IInv

LEMMA ReleasedRow ==
  ASSUME NEW x \in Task PROVE Released(x) \in Task /\ Released(x).attempts = x.attempts
BY DEF Released, Task

\* The steps that end an execution, in either way.
LEMMA FinishIInv ==
  ASSUME IInv, NEW r \in Runs, Succeed(r) \/ \E b \in BOOLEAN : Fail(r, b)
  PROVE  IInv'
<1>0. 0 \in 0 .. MaxAttempts OBVIOUS
<1>1. task \in Task /\ run[r] \in Run BY DEF IInv, TypeOK
<1>2. task' \in Task /\ task'.attempts = task.attempts
  <2>1. CASE UNCHANGED task BY <1>1, <2>1
  <2>2. CASE task' = Released([task EXCEPT !.status = "succeeded", !.retryable = FALSE,
                                           !.bundle = run[r].attempt])
    <3> DEFINE x == [task EXCEPT !.status = "succeeded", !.retryable = FALSE,
                                 !.bundle = run[r].attempt]
    <3>1. x \in Task /\ x.attempts = task.attempts BY <1>1 DEF Task, Status, Run
    <3> HIDE DEF x
    <3> QED BY <2>2, <3>1, ReleasedRow DEF x
  <2>3. ASSUME NEW b \in BOOLEAN,
               task' = Released([task EXCEPT !.status = "failed", !.bundle = 0,
                                             !.retryable = Retries(b)])
        PROVE  task' \in Task /\ task'.attempts = task.attempts
    <3>1. PICK c \in BOOLEAN : c = Retries(b) BY DEF Retries
    <3> DEFINE x == [task EXCEPT !.status = "failed", !.bundle = 0, !.retryable = c]
    <3>2. x \in Task /\ x.attempts = task.attempts BY <1>1, <1>0 DEF Task, Status
    <3>3. task' = Released(x) BY <2>3, <3>1
    <3> HIDE DEF x
    <3> QED BY <3>2, <3>3, ReleasedRow
  <2> QED BY <2>1, <2>2, <2>3 DEF Succeed, Fail
<1>3. run' = [run EXCEPT ![r] = IdleRun] /\ UNCHANGED <<poller, faults>>
  BY DEF Succeed, Fail
<1>4. TypeOK' BY <1>2, <1>3, IdlesAreTyped DEF IInv, TypeOK
<1> QED BY <1>2, <1>3, <1>4, QuietIInv, IdlesAreTyped DEF IInv, TypeOK

\* Claims, which hand a run to the pool.
LEMMA ClaimIInv ==
  ASSUME IInv, NEW r \in Runs, ClaimNext(r) PROVE IInv'
<1>1. task \in Task /\ run[r] \in Run BY DEF IInv, TypeOK
<1>2. task' \in Task /\ task'.attempts = task.attempts
  BY <1>1 DEF ClaimNext, Task
<1>3. [run[r] EXCEPT !.pc = "queued"] \in Run BY <1>1 DEF Run
<1>4. /\ run' = [run EXCEPT ![r] = [run[r] EXCEPT !.pc = "queued"]]
      /\ UNCHANGED <<poller, faults>>
  BY DEF ClaimNext
<1>5. TypeOK' BY <1>2, <1>3, <1>4 DEF IInv, TypeOK
<1>6. run'[r].pc = "queued" BY <1>1, <1>4 DEF IInv, TypeOK, Run
<1> QED BY <1>2, <1>4, <1>5, <1>6, QuietIInv DEF IInv, TypeOK

\* The poller of a worker.
LEMMA PollerIInv ==
  ASSUME IInv, NEW w \in Workers, PollerStep(w) PROVE IInv'
<1>1. task \in Task /\ poller[w] \in Poller BY DEF IInv, TypeOK
<1>2. CASE ReadForRenewal(w)
  <2>1. [poller[w] EXCEPT !.pc = "renewing"] \in Poller BY <1>1 DEF Poller
  <2>2. TypeOK' BY <1>2, <2>1 DEF ReadForRenewal, IInv, TypeOK
  <2> QED BY <1>2, <2>2, QuietIInv DEF ReadForRenewal
<1>3. CASE Renew(w)
  <2>1. task' \in Task /\ task'.attempts = task.attempts
    BY <1>1, <1>3 DEF Renew, Task
  <2>2. TypeOK' BY <1>3, <2>1, IdlesAreTyped DEF Renew, IInv, TypeOK
  <2> QED BY <1>3, <2>1, <2>2, QuietIInv DEF Renew
<1>4. CASE ReadStale(w)
  <2>1. [pc |-> "recovering", status |-> task.status, attempts |-> task.attempts] \in Poller
    BY <1>1 DEF Poller, Task
  <2>2. TypeOK' BY <1>4, <2>1 DEF ReadStale, IInv, TypeOK
  <2> QED BY <1>4, <2>2, QuietIInv DEF ReadStale
<1>5. CASE Recover(w)
  <2> DEFINE x == IF poller[w].status = "running"
                  THEN [task EXCEPT !.status = "failed",
                          !.retryable = IF poller[w].attempts < MaxAttempts THEN TRUE ELSE @]
                  ELSE task
  <2>1. x \in Task /\ x.attempts = task.attempts
    <3>1. task.retryable \in BOOLEAN BY <1>1 DEF Task
    <3>2. PICK b \in BOOLEAN : b = IF poller[w].attempts < MaxAttempts THEN TRUE
                                   ELSE task.retryable
      BY <3>1
    <3>3. [task EXCEPT !.status = "failed", !.retryable = b] \in Task
      BY <1>1 DEF Task, Status
    <3>4. [task EXCEPT !.status = "failed", !.retryable = b].attempts = task.attempts
      BY <1>1 DEF Task
    <3> QED BY <1>1, <3>2, <3>3, <3>4
  <2>2. task' = Released(x) /\ poller' = [poller EXCEPT ![w] = IdlePoller]
        /\ UNCHANGED <<run, faults>>
    BY <1>5 DEF Recover
  <2> HIDE DEF x
  <2>3. task' \in Task /\ task'.attempts = task.attempts BY <2>1, <2>2, ReleasedRow
  <2>4. TypeOK' BY <2>2, <2>3, IdlesAreTyped DEF IInv, TypeOK
  <2> QED BY <2>2, <2>3, <2>4, QuietIInv
<1> QED BY <1>2, <1>3, <1>4, <1>5 DEF PollerStep

LEMMA NextIInv == IInv /\ [Next]_vars => IInv'
<1> SUFFICES ASSUME IInv, [Next]_vars PROVE IInv'
  OBVIOUS
<1>0. task \in Task BY DEF IInv, TypeOK
<1>1. CASE UNCHANGED vars
  BY <1>1, QuietIInv DEF vars, IInv, TypeOK
<1>2. CASE Create
  <2>1. task' \in Task /\ task'.attempts = task.attempts
    BY <1>0, <1>2 DEF Create, Task, Status
  <2>2. TypeOK' BY <1>2, <2>1 DEF Create, IInv, TypeOK
  <2> QED BY <1>2, <2>1, <2>2, QuietIInv DEF Create
<1>3. ASSUME NEW r \in Runs, RunStep(r) PROVE IInv'
  <2>1. CASE StartQueued(r)
    <3>1. CASE Startable(r, TRUE) /\ MarkRunning(r)
      BY <2>1, <3>1, MarkRunningIInv DEF Startable, StartQueued
    <3>2. CASE run' = [run EXCEPT ![r] = IdleRun] /\ UNCHANGED task
      <4>1. TypeOK' BY <2>1, <3>2, IdlesAreTyped DEF StartQueued, IInv, TypeOK
      <4> QED BY <3>2, <4>1, QuietIInv, IdlesAreTyped DEF IInv, TypeOK
    <3> QED BY <2>1, <3>1, <3>2 DEF StartQueued
  <2> QED BY <1>3, <2>1, FinishIInv DEF RunStep
<1>4. ASSUME NEW r \in Runs, NEW b \in BOOLEAN, StartByHand(r, b) PROVE IInv'
  BY <1>4, MarkRunningIInv DEF StartByHand, Startable
<1>5. ASSUME NEW r \in Runs, CrashRequest(r) PROVE IInv'
  <2>1. TypeOK' BY <1>5, IdlesAreTyped DEF CrashRequest, IInv, TypeOK
  <2> QED BY <1>5, <2>1, QuietIInv, IdlesAreTyped DEF CrashRequest, IInv, TypeOK
<1>6. ASSUME NEW w \in Workers, CrashWorker(w) PROVE IInv'
  <2>1. TypeOK' BY <1>6, IdlesAreTyped DEF CrashWorker, IInv, TypeOK
  <2> QED BY <1>6, <2>1, QuietIInv, IdlesAreTyped DEF CrashWorker
<1>7. CASE LeaseExpires
  <2>1. task' \in Task /\ task'.attempts = task.attempts
    BY <1>0, <1>7 DEF LeaseExpires, Task
  <2>2. TypeOK' BY <1>7, <2>1 DEF LeaseExpires, IInv, TypeOK
  <2> QED BY <1>7, <2>1, <2>2, QuietIInv DEF LeaseExpires
<1>8. CASE FaultsEnd
  BY <1>8, QuietIInv DEF FaultsEnd, IInv, TypeOK
<1> QED
  BY <1>1, <1>2, <1>3, <1>4, <1>5, <1>6, <1>7, <1>8, ClaimIInv, PollerIInv DEF Next

LEMMA Invariance == Spec => []IInv
BY InitIInv, NextIInv, PTL DEF Spec

------------------------------------------------------------------------------
(* Theorems *)

\* The row, the runs and the pollers keep their types: no attempt beyond the
\* maximum is ever counted, by pool threads and by requests together
\* (mark_running after the tests of _claim).
THEOREM TypeCorrect == Spec => []TypeOK
BY Invariance, PTL DEF IInv

\* For any number of workers, pool threads, requests and attempts, and
\* whatever leases are lost, renewed late or recovered: two executions that
\* are alive together are different attempts.
THEOREM AttemptsRunOnce == Spec => []OneRunPerAttempt
BY Invariance, PTL DEF IInv

------------------------------------------------------------------------------
(* Runs that nobody kills *)

\* A running task is executed by somebody.  Without crashes this holds
\* although any run may end the attempt of any other one, since the run that
\* ends also ends the task.
RunningIsExecuted == task.status = "running" => \E r \in Runs : run[r].pc = "extracting"

NoCrash == faults # "crashes" /\ RunningIsExecuted

LEMMA NextNoCrash == IInv /\ NoCrash /\ [Next]_vars => NoCrash'
<1> SUFFICES ASSUME IInv, NoCrash, [Next]_vars PROVE NoCrash'
  OBVIOUS
<1> USE DEF IInv, TypeOK, NoCrash
<1>1. faults' # "crashes"
  BY DEF Next, Create, ClaimNext, RunStep, StartQueued, Succeed, Fail, CrashRequest, StartByHand,
         PollerStep, ReadForRenewal, Renew, ReadStale, Recover, CrashWorker, LeaseExpires,
         FaultsEnd, vars
<1>2. ASSUME NEW r \in Runs, ClaimNext(r) PROVE RunningIsExecuted'
  <2>1. task'.status = task.status BY <1>2 DEF ClaimNext, Task
  <2>2. \A q \in Runs : run[q].pc = "extracting" => run'[q].pc = "extracting"
    BY <1>2 DEF ClaimNext, Run
  <2> QED BY <2>1, <2>2 DEF RunningIsExecuted
<1>3. ASSUME NEW r \in Runs, MarkRunning(r) PROVE RunningIsExecuted'
  <2>1. run'[r].pc = "extracting" BY <1>3 DEF MarkRunning
  <2> QED BY <2>1 DEF RunningIsExecuted
<1>4. ASSUME NEW r \in Runs, run[r].pc = "queued", run' = [run EXCEPT ![r] = IdleRun],
             UNCHANGED task
      PROVE  RunningIsExecuted'
  <2>1. \A q \in Runs : run[q].pc = "extracting" => run'[q].pc = "extracting" BY <1>4
  <2> QED BY <1>4, <2>1 DEF RunningIsExecuted
<1>5. ASSUME NEW r \in Runs, Succeed(r) \/ \E b \in BOOLEAN : Fail(r, b)
      PROVE  RunningIsExecuted'
  <2>1. task'.status # "running" BY <1>5 DEF Succeed, Fail, Released, Task
  <2> QED BY <2>1 DEF RunningIsExecuted
<1>6. ASSUME UNCHANGED run, task'.status = "running" => task.status = "running"
      PROVE  RunningIsExecuted'
  BY <1>6 DEF RunningIsExecuted
<1>7. CASE Create \/ LeaseExpires
  BY <1>6, <1>7 DEF Create, LeaseExpires, Task
<1>8. ASSUME NEW w \in Workers, PollerStep(w) PROVE RunningIsExecuted'
  BY <1>6, <1>8 DEF PollerStep, ReadForRenewal, Renew, ReadStale, Recover, Released, Task
<1>9. CASE FaultsEnd \/ UNCHANGED vars
  BY <1>6, <1>9 DEF FaultsEnd, vars
<1>10. ASSUME NEW r \in Runs, StartQueued(r) \/ \E b \in BOOLEAN : StartByHand(r, b)
       PROVE  RunningIsExecuted'
  BY <1>3, <1>4, <1>10 DEF StartQueued, StartByHand
<1>11. RunningIsExecuted'
  BY <1>2, <1>5, <1>7, <1>8, <1>9, <1>10 DEF Next, RunStep, CrashWorker, CrashRequest
<1> QED BY <1>1, <1>11

\* Where no process crashes, a running task always has a run that will end
\* it, whatever leases expire, are renewed too late or recovered under it and
\* whoever starts it again: the safety part of TaskEnds, for any number of
\* workers, threads and requests.
THEOREM RunningTasksAreExecuted == Spec => (faults = "delays" => []RunningIsExecuted)
<1>1. Init /\ faults = "delays" => NoCrash BY DEF Init, NoCrash, RunningIsExecuted
<1>2. NoCrash => RunningIsExecuted BY DEF NoCrash
<1> QED BY <1>1, <1>2, NextNoCrash, Invariance, PTL DEF Spec
=============================================================================
