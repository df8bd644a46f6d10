------------------------ MODULE CVExtraction_proofs -------------------------
(***************************************************************************)
(* Proofs about the CV extraction task: type correctness, that a review    *)
(* rests on the report of its own attempt, and that it is never replaced.  *)
(***************************************************************************)
EXTENDS CVExtraction, TLAPS

\* A run that does something runs an attempt.
RunHasAttempt == \A r \in Runs : run[r].pc # "idle" => run[r].attempt # 0

\* What happened before an attempt may write its review: its own report was
\* inserted.  Reports are never deleted.
ReviewersReported ==
  \A r \in Runs : run[r].pc \in {"complete", "write_review"} => NewReport(r) \in reports

\* The review column outlives cancellation, retries and later attempts, and
\* so does the report it rests on.
ReviewReported ==
  /\ task.review # 0 => \E x \in reports : x.attempt = task.review
  /\ task.status = "succeeded" => task.review # 0

IInv ==
  /\ TypeOK
  /\ RunHasAttempt
  /\ ReviewersReported
  /\ ReviewReported

USE AttemptsAssumption, WorkerOfAssumption, PolicyAssumption

LEMMA IdlesAreTyped ==
  /\ IdleRun \in Run /\ IdleRun.pc = "idle" /\ IdleRequest \in Request
  /\ 0 \in 0 .. NotRecovering /\ NotRecovering \in 0 .. NotRecovering
BY DEF IdleRun, Run, IdleRequest, Request, NotRecovering

LEMMA InitIInv == Init => IInv
<1> SUFFICES ASSUME Init PROVE IInv
  OBVIOUS
<1>1. task \in Task /\ task.review = 0 /\ task.status = "absent" BY DEF Init, Task, Status
<1>2. TypeOK BY <1>1, IdlesAreTyped DEF Init, TypeOK
<1>3. RunHasAttempt /\ ReviewersReported
  BY IdlesAreTyped DEF Init, RunHasAttempt, ReviewersReported
<1>4. ReviewReported BY <1>1 DEF ReviewReported
<1> QED BY <1>2, <1>3, <1>4 DEF IInv

------------------------------------------------------------------------------
(* What the writes make of the row *)

\* A row after a write that is not a review.
Follows(x) ==
  x \in Task /\ x.review = task.review /\ x.status \in Status \ {"succeeded"}

LEMMA ReleasedRow ==
  ASSUME NEW x \in Task
  PROVE  Released(x) \in Task /\ Released(x).review = x.review /\ Released(x).status = x.status
BY DEF Released, Task

LEMMA ClaimedRow ==
  ASSUME task \in Task, NEW w \in Workers, Claimable PROVE Follows(Claimed(w))
<1>1. task.attempts + 1 \in 0 .. MaxAttempts BY DEF Claimable, Task
<1>2. "running" \in Status \ {"succeeded"} BY DEF Status
<1> QED BY <1>1, <1>2 DEF Claimed, Task, Follows

LEMMA StatusRow ==
  ASSUME task \in Task, NEW s \in Status \ {"succeeded"}, NEW b \in BOOLEAN
  PROVE  Follows([task EXCEPT !.status = s, !.retryable = b])
BY DEF Task, Follows

LEMMA FailedRow == ASSUME task \in Task, NEW n \in Nat PROVE Follows(Failed(n))
<1>1. task.retryable \in BOOLEAN BY DEF Task
<1>2. PICK b \in BOOLEAN : b = IF n < MaxAttempts THEN TRUE ELSE task.retryable BY <1>1
<1> DEFINE x == [task EXCEPT !.status = "failed", !.retryable = b]
<1>3. Follows(x) BY StatusRow DEF Status
<1>4. Failed(n) = Released(x) BY <1>2 DEF Failed
<1> HIDE DEF x
<1> QED BY <1>3, <1>4, ReleasedRow DEF Follows

LEMMA RequestedRow == ASSUME task \in Task PROVE Follows(Cancelled) /\ Follows(Retried)
<1>1. task.retryable \in BOOLEAN BY DEF Task
<1>2. PICK b \in BOOLEAN : b = IF request.retryable THEN FALSE ELSE task.retryable BY <1>1
<1>3. Follows(Retried)
  <2>1. Retried = [task EXCEPT !.status = "pending", !.retryable = b] BY <1>2 DEF Retried
  <2> QED BY <2>1, StatusRow DEF Status
<1>4. Follows(Cancelled)
  <2>1. Freed \in Task /\ Freed.review = task.review /\ Freed.retryable = task.retryable
    BY ReleasedRow DEF Freed, Released, Task
  <2>2. Cancelled = [Freed EXCEPT !.status = "cancelled", !.retryable = b]
    BY <1>2, <2>1 DEF Cancelled
  <2>3. "cancelled" \in Status \ {"succeeded"} BY DEF Status
  <2> QED BY <2>1, <2>2, <2>3 DEF Task, Follows
<1> QED BY <1>3, <1>4

------------------------------------------------------------------------------
(* Steps *)

\* A step that writes no review.
LEMMA QuietIInv ==
  ASSUME IInv, TypeOK', RunHasAttempt', reports \subseteq reports',
         task' = task \/ Follows(task'),
         \A r \in Runs : run'[r].pc \in {"complete", "write_review"} =>
           /\ run'[r].attempt = run[r].attempt
           /\ run[r].pc \in {"complete", "write_review"} \/ NewReport(r) \in reports'
  PROVE  IInv'
<1>1. ReviewersReported'
  BY DEF IInv, ReviewersReported, NewReport
<1>2. ReviewReported'
  BY DEF IInv, ReviewReported, Follows
<1> QED BY <1>1, <1>2 DEF IInv

\* One run goes on, with its attempt, or stops.
Continues(r, x) ==
  /\ x \in Run
  /\ x.pc # "idle" => x.attempt = run[r].attempt /\ run[r].pc # "idle"

LEMMA GoesTo ==
  ASSUME NEW r \in Runs, run[r] \in Run, run[r].pc # "idle",
         NEW pc \in {"extracting", "validate", "write_report", "complete", "write_review"}
  PROVE  LET x == [run[r] EXCEPT !.pc = pc] IN Continues(r, x) /\ x.pc = pc
BY DEF Run, Continues

LEMMA Raises ==
  ASSUME NEW r \in Runs, run[r] \in Run, run[r].pc # "idle", NEW n \in {1, 2}
  PROVE  LET x == [run[r] EXCEPT !.pc = "failing", !.handlers = n] IN
           Continues(r, x) /\ x.pc = "failing"
<1>1. n \in 0 .. 2 OBVIOUS
<1> QED BY <1>1 DEF Run, Continues

LEMMA WillFail ==
  ASSUME NEW r \in Runs, run[r] \in Run, run[r].pc # "idle", NEW n \in 0 .. MaxAttempts
  PROVE  LET x == [run[r] EXCEPT !.pc = "write_failure", !.seen = n] IN
           Continues(r, x) /\ x.pc = "write_failure"
BY DEF Run, Continues

\* A step of one run that writes no review.
LEMMA RunIInv ==
  ASSUME IInv, NEW r \in Runs, NEW x, Continues(r, x), run' = [run EXCEPT ![r] = x],
         task' = task \/ Follows(task'),
         reports' \subseteq Report, reports \subseteq reports',
         x.pc = "complete" => NewReport(r) \in reports',
         x.pc = "write_review" => run[r].pc = "complete",
         UNCHANGED <<request, recovery, calm>>
  PROVE  IInv'
<1>1. task' \in Task BY DEF IInv, TypeOK, Follows
<1>2. \A q \in Runs : run'[q] = IF q = r THEN x ELSE run[q] BY DEF IInv, TypeOK
<1>3. TypeOK' BY <1>1 DEF IInv, TypeOK, Continues
<1>4. RunHasAttempt' BY <1>2 DEF IInv, RunHasAttempt, Continues
<1>5. ASSUME NEW q \in Runs, run'[q].pc \in {"complete", "write_review"}
      PROVE  /\ run'[q].attempt = run[q].attempt
             /\ run[q].pc \in {"complete", "write_review"} \/ NewReport(q) \in reports'
  BY <1>2, <1>5 DEF Continues
<1> QED BY <1>3, <1>4, <1>5, QuietIInv

LEMMA ClaimIInv == ASSUME IInv, NEW r \in Runs, ClaimNext(r) PROVE IInv'
<1> DEFINE x == [IdleRun EXCEPT !.pc = "queued", !.attempt = task.attempts + 1]
<1>1. task \in Task /\ WorkerOf[r] \in Workers BY DEF IInv, TypeOK
<1>2. task.attempts + 1 \in 0 .. MaxAttempts /\ task.attempts + 1 # 0
  BY <1>1 DEF ClaimNext, Claimable, Task
<1>3. x \in Run /\ x.pc = "queued" /\ x.attempt # 0
  <2>1. \A n \in 0 .. MaxAttempts : [IdleRun EXCEPT !.pc = "queued", !.attempt = n] \in Run
    BY IdlesAreTyped DEF Run
  <2>2. x.pc = "queued" /\ x.attempt = task.attempts + 1 BY DEF IdleRun
  <2>3. x \in Run BY <1>2, <2>1
  <2> QED BY <1>2, <2>2, <2>3
<1>4. Follows(task') BY <1>1, ClaimedRow DEF ClaimNext
<1>5. run' = [run EXCEPT ![r] = x] /\ UNCHANGED <<reports, request, recovery, calm>>
  BY DEF ClaimNext
<1> HIDE DEF x
<1>6. TypeOK' BY <1>3, <1>4, <1>5 DEF IInv, TypeOK, Follows
<1>7. RunHasAttempt' BY <1>3, <1>5 DEF IInv, TypeOK, RunHasAttempt
<1>8. \A q \in Runs : run'[q].pc \in {"complete", "write_review"} => run'[q] = run[q]
  BY <1>3, <1>5 DEF IInv, TypeOK
<1> QED BY <1>4, <1>5, <1>6, <1>7, <1>8, QuietIInv

\* The steps of an execution, without its last.
LEMMA RunStepIInv ==
  ASSUME IInv, NEW r \in Runs, RunStep(r), ~WriteReview(r) PROVE IInv'
<1> DEFINE to(pc) == [run[r] EXCEPT !.pc = pc]
           raised(n) == [run[r] EXCEPT !.pc = "failing", !.handlers = n]
<1>1. /\ run[r] \in Run /\ task \in Task /\ reports \subseteq Report
      /\ WorkerOf[r] \in Workers /\ PolicyOf[WorkerOf[r]] \in Policies
  BY DEF IInv, TypeOK
<1>2. /\ \A pc : Go(r, pc) => run' = [run EXCEPT ![r] = to(pc)]
      /\ \A n : RaiseTo(r, n) => run' = [run EXCEPT ![r] = raised(n)]
      /\ Stop(r) => run' = [run EXCEPT ![r] = IdleRun]
  BY DEF Go, RaiseTo, Stop
<1>3. run[r].pc # "idle"
  BY DEF RunStep, Begin, Extract, ReadForReport, ReadForReview, ReadHolding, WriteReport,
         ReadForFailure, WriteFailure
<1>4. ASSUME NEW pc \in {"extracting", "validate", "write_report", "complete", "write_review"}
      PROVE  Continues(r, to(pc)) /\ to(pc).pc = pc
  BY <1>1, <1>3, GoesTo
<1>5. ASSUME NEW n \in {1, 2} PROVE Continues(r, raised(n)) /\ raised(n).pc = "failing"
  BY <1>1, <1>3, Raises
<1>6. Continues(r, IdleRun) /\ IdleRun.pc = "idle" BY IdlesAreTyped DEF Continues
<1> HIDE DEF to, raised
\* Steps that only move the run.
<1>7. ASSUME UNCHANGED <<task, reports, request, recovery, calm>>,
             \/ Stop(r)
             \/ RaiseTo(r, 1) \/ RaiseTo(r, 2)
             \/ Go(r, "extracting") \/ Go(r, "validate") \/ Go(r, "write_report")
             \/ run[r].pc = "complete" /\ Go(r, "write_review")
      PROVE  IInv'
  <2>1. PICK x : /\ Continues(r, x) /\ run' = [run EXCEPT ![r] = x]
                 /\ x.pc # "complete"
                 /\ x.pc = "write_review" => run[r].pc = "complete"
    BY <1>2, <1>4, <1>5, <1>6, <1>7
  <2> QED BY <1>1, <1>7, <2>1, RunIInv
<1>8. CASE Begin(r) BY <1>7, <1>8 DEF Begin
<1>9. CASE Extract(r) BY <1>7, <1>9 DEF Extract
<1>10. CASE ReadForReport(r) BY <1>7, <1>10 DEF ReadForReport, ReadHolding
<1>11. CASE ReadForReview(r) BY <1>7, <1>11 DEF ReadForReview, ReadHolding
<1>12. CASE WriteReport(r)
  <2>1. CASE Duplicate(r) BY <1>7, <1>12, <2>1 DEF WriteReport
  <2>2. CASE ~Duplicate(r)
    <3>1. NewReport(r) \in Report
      <4>1. run[r].attempt # 0 BY <1>3 DEF IInv, RunHasAttempt
      <4>2. run[r].attempt \in 1 .. MaxAttempts BY <1>1, <4>1 DEF Run
      <4> QED BY <1>1, <4>2 DEF NewReport, Report
    <3>2. /\ run' = [run EXCEPT ![r] = to("complete")] /\ reports' = reports \cup {NewReport(r)}
          /\ UNCHANGED <<task, request, recovery, calm>>
      BY <1>2, <1>12, <2>2 DEF WriteReport, Recorded
    <3> QED BY <1>1, <1>4, <3>1, <3>2, RunIInv
  <2> QED BY <2>1, <2>2
<1>13. CASE ReadForFailure(r)
  <2>1. CASE run' = [run EXCEPT ![r].pc = "write_failure", ![r].seen = task.attempts]
    <3> DEFINE x == [run[r] EXCEPT !.pc = "write_failure", !.seen = task.attempts]
    <3>1. task.attempts \in 0 .. MaxAttempts BY <1>1 DEF Task
    <3>2. Continues(r, x) /\ x.pc = "write_failure" BY <1>1, <1>3, <3>1, WillFail
    <3>3. run' = [run EXCEPT ![r] = x] BY <2>1
    <3> HIDE DEF x
    <3> QED BY <1>1, <1>13, <3>2, <3>3, RunIInv DEF ReadForFailure
  <2> QED BY <1>7, <1>13, <2>1 DEF ReadForFailure, Passed
<1>14. CASE WriteFailure(r)
  <2>1. task' = task \/ Follows(task')
    <3>1. run[r].seen \in Nat BY <1>1 DEF Run
    <3> QED BY <1>1, <1>14, <3>1, FailedRow DEF WriteFailure
  <2>2. PICK x : /\ Continues(r, x) /\ run' = [run EXCEPT ![r] = x]
                 /\ x.pc \in {"idle", "failing"}
    BY <1>2, <1>5, <1>6, <1>14 DEF WriteFailure, Passed
  <2> QED BY <1>1, <1>14, <2>1, <2>2, RunIInv DEF WriteFailure
<1> QED BY <1>8, <1>9, <1>10, <1>11, <1>12, <1>13, <1>14 DEF RunStep

\* The review of an attempt is written for a task that is readable, and so
\* has the report of this attempt as its only one: a review that is there
\* already is the same.
LEMMA WriteReviewStep ==
  ASSUME IInv, NEW r \in Runs, WriteReview(r)
  PROVE  IInv' /\ (task.review # 0 => task'.review = task.review)
<1>1. run[r] \in Run /\ task \in Task BY DEF IInv, TypeOK
<1>2. NewReport(r) \in reports /\ run[r].attempt # 0
  BY DEF WriteReview, IInv, ReviewersReported, RunHasAttempt
<1>3. CASE Readable
  <2> DEFINE x == [task EXCEPT !.status = "succeeded", !.review = run[r].attempt]
  <2>1. x \in Task /\ x.status = "succeeded" /\ x.review = run[r].attempt
    BY <1>1 DEF Task, Run, Status
  <2>2. /\ task' = Released(x) /\ run' = [run EXCEPT ![r] = IdleRun]
        /\ UNCHANGED <<reports, request, recovery, calm>>
    BY <1>3 DEF WriteReview, Stop
  <2> HIDE DEF x
  <2>3. /\ task' \in Task /\ task'.status = "succeeded"
        /\ task'.review = run[r].attempt
    BY <2>1, <2>2, ReleasedRow
  <2>4. NewReport(r).attempt = run[r].attempt BY DEF NewReport
  <2>5. TypeOK' BY <2>2, <2>3, IdlesAreTyped DEF IInv, TypeOK
  <2>6. \A q \in Runs : run'[q].pc # "idle" => run'[q] = run[q]
    BY <2>2, IdlesAreTyped DEF IInv, TypeOK
  <2>7. RunHasAttempt' BY <2>6 DEF IInv, RunHasAttempt
  <2>8. ReviewersReported' BY <2>2, <2>6 DEF IInv, ReviewersReported, NewReport
  <2>9. ReviewReported' BY <1>2, <2>2, <2>3, <2>4 DEF ReviewReported
  <2>10. task.review # 0 => task.review = run[r].attempt
    BY <1>2, <1>3, <2>4 DEF IInv, ReviewReported, Readable
  <2> QED BY <2>3, <2>5, <2>7, <2>8, <2>9, <2>10 DEF IInv
<1>4. CASE ~Readable
  <2> DEFINE x == [run[r] EXCEPT !.pc = "failing", !.handlers = 2]
  <2>1. run[r].pc # "idle" BY DEF WriteReview
  <2>2. Continues(r, x) /\ x.pc = "failing" BY <1>1, <2>1, Raises
  <2>3. /\ run' = [run EXCEPT ![r] = x]
        /\ UNCHANGED <<task, reports, request, recovery, calm>>
    BY <1>4 DEF WriteReview, RaiseTo
  <2> HIDE DEF x
  <2>4. reports \subseteq Report BY DEF IInv, TypeOK
  <2> QED BY <2>2, <2>3, <2>4, RunIInv
<1> QED BY <1>3, <1>4

\* The steps that leave the runs alone, or stop some.
LEMMA OtherIInv ==
  ASSUME IInv,
         \/ Schedule \/ ReadForCancel \/ ReadForRetry \/ WriteRequest
         \/ \E w \in Workers : ReadStale(w) \/ Recover(w) \/ Crash(w)
         \/ LeaseExpires
         \/ FaultsEnd
  PROVE  IInv'
<1>1. task \in Task /\ task.review = task.review BY DEF IInv, TypeOK
\* It suffices to look at the types and at the row.
<1>2. ASSUME TypeOK', task' = task \/ Follows(task'), UNCHANGED reports,
             \A r \in Runs : run'[r] = run[r] \/ run'[r] = IdleRun
      PROVE  IInv'
  <2>1. RunHasAttempt' BY <1>2, IdlesAreTyped DEF IInv, RunHasAttempt
  <2> QED BY <1>2, <2>1, QuietIInv, IdlesAreTyped
<1>3. CASE Schedule
  <2>1. Follows([task EXCEPT !.status = "pending"])
    BY <1>1 DEF Follows, Task, Status
  <2>2. TypeOK' BY <1>3, <2>1 DEF Schedule, IInv, TypeOK, Follows
  <2> QED BY <1>2, <1>3, <2>1, <2>2 DEF Schedule
<1>4. CASE ReadForCancel \/ ReadForRetry
  <2>1. /\ request' \in Request
        /\ UNCHANGED <<task, reports, run, recovery, calm>>
    <3>1. PICK b \in BOOLEAN, c \in BOOLEAN : b = (task.owner # NoOne) /\ c = task.retryable
      BY <1>1 DEF Task
    <3>2. \A pc \in {"cancelling", "retrying"} :
            [pc |-> pc, owned |-> b, retryable |-> c] \in Request
      BY DEF Request
    <3> QED BY <1>4, <3>1, <3>2 DEF ReadForCancel, ReadForRetry, ReadFor
  <2>2. TypeOK' BY <2>1 DEF IInv, TypeOK
  <2> QED BY <1>2, <2>1, <2>2
<1>5. CASE WriteRequest
  <2>1. task' = task \/ Follows(task') BY <1>1, <1>5, RequestedRow DEF WriteRequest
  <2>2. TypeOK' BY <1>1, <1>5, <2>1, IdlesAreTyped DEF WriteRequest, IInv, TypeOK, Follows
  <2> QED BY <1>2, <1>5, <2>1, <2>2 DEF WriteRequest
<1>6. ASSUME NEW w \in Workers, ReadStale(w) PROVE IInv'
  <2>1. task.attempts \in 0 .. NotRecovering BY <1>1 DEF Task, NotRecovering
  <2>2. TypeOK' BY <1>6, <2>1 DEF ReadStale, IInv, TypeOK
  <2> QED BY <1>2, <1>6, <2>2 DEF ReadStale
<1>7. ASSUME NEW w \in Workers, Recover(w) PROVE IInv'
  <2>1. recovery[w] \in Nat BY DEF IInv, TypeOK, NotRecovering
  <2>2. Follows(task') BY <1>1, <1>7, <2>1, FailedRow DEF Recover
  <2>3. TypeOK' BY <1>7, <2>2, IdlesAreTyped DEF Recover, IInv, TypeOK, Follows
  <2> QED BY <1>2, <1>7, <2>2, <2>3 DEF Recover
<1>8. ASSUME NEW w \in Workers, Crash(w) PROVE IInv'
  <2>1. TypeOK' BY <1>8, IdlesAreTyped DEF Crash, IInv, TypeOK
  <2> QED BY <1>2, <1>8, <2>1 DEF Crash
<1>9. CASE LeaseExpires
  <2>1. task' \in Task /\ task'.review = task.review /\ task'.status = task.status
    BY <1>1, <1>9 DEF LeaseExpires, Task
  <2>2. TypeOK' /\ RunHasAttempt' /\ ReviewersReported'
    BY <1>9, <2>1
       DEF LeaseExpires, IInv, TypeOK, RunHasAttempt, ReviewersReported, NewReport
  <2>3. ReviewReported' BY <1>9, <2>1 DEF LeaseExpires, IInv, ReviewReported
  <2> QED BY <2>2, <2>3 DEF IInv
<1>10. CASE FaultsEnd
  <2>1. TypeOK' BY <1>10 DEF FaultsEnd, IInv, TypeOK
  <2> QED BY <1>2, <1>10, <2>1 DEF FaultsEnd
<1> QED BY <1>3, <1>4, <1>5, <1>6, <1>7, <1>8, <1>9, <1>10

LEMMA NextIInv == IInv /\ [Next]_vars => IInv'
<1> SUFFICES ASSUME IInv, [Next]_vars PROVE IInv'
  OBVIOUS
<1>1. CASE UNCHANGED vars
  BY <1>1 DEF vars, IInv, TypeOK, RunHasAttempt, ReviewersReported, ReviewReported, NewReport
<1>2. ASSUME NEW r \in Runs, ClaimNext(r) \/ RunStep(r) PROVE IInv'
  BY <1>2, ClaimIInv, RunStepIInv, WriteReviewStep
<1> QED BY <1>1, <1>2, OtherIInv DEF Next

LEMMA Invariance == Spec => []IInv
BY InitIInv, NextIInv, PTL DEF Spec

------------------------------------------------------------------------------
(* Theorems *)

\* The row, the reports and everything under way keep their types: claim()
\* alone counts attempts, and never beyond the maximum.
THEOREM TypeCorrect == Spec => []TypeOK
BY Invariance, PTL DEF IInv

\* For any number of workers, threads, policy versions and attempts: a
\* completed task that can be read holds the review of the attempt that its
\* validation report is from.
THEOREM ReviewRestsOnReport == Spec => []ReviewMatchesReport
<1>1. IInv => ReviewMatchesReport
  BY DEF IInv, ReviewReported, ReviewMatchesReport
<1> QED BY <1>1, Invariance, PTL

\* A review is never replaced by that of another attempt.
THEOREM ReviewStays == Spec => ReviewIsFinal
<1>1. IInv /\ [Next]_vars => [task.review # 0 => task'.review = task.review]_vars
  <2> SUFFICES ASSUME IInv, Next, task.review # 0 PROVE task'.review = task.review
    OBVIOUS
  <2>0. task \in Task BY DEF IInv, TypeOK
  <2>1. ASSUME NEW r \in Runs, ClaimNext(r) PROVE task'.review = task.review
    <3>1. WorkerOf[r] \in Workers OBVIOUS
    <3> QED BY <2>0, <2>1, <3>1, ClaimedRow DEF ClaimNext, Follows
  <2>2. ASSUME NEW r \in Runs, RunStep(r) PROVE task'.review = task.review
    <3>1. CASE WriteReview(r) BY <3>1, WriteReviewStep
    <3>2. CASE WriteFailure(r)
      <4>1. run[r].seen \in Nat BY DEF IInv, TypeOK, Run
      <4> QED BY <2>0, <3>2, <4>1, FailedRow DEF WriteFailure, Follows
    <3> QED
      BY <2>2, <3>1, <3>2
         DEF RunStep, Begin, Extract, ReadForReport, ReadForReview, ReadHolding, WriteReport,
             ReadForFailure
  <2>3. ASSUME NEW w \in Workers, Recover(w) PROVE task'.review = task.review
    <3>1. recovery[w] \in Nat BY DEF IInv, TypeOK, NotRecovering
    <3> QED BY <2>0, <2>3, <3>1, FailedRow DEF Recover, Follows
  <2>4. CASE WriteRequest BY <2>0, <2>4, RequestedRow DEF WriteRequest, Follows
  <2>5. CASE Schedule \/ LeaseExpires BY <2>0, <2>5 DEF Schedule, LeaseExpires, Task
  <2> QED
    BY <2>1, <2>2, <2>3, <2>4, <2>5
       DEF Next, ReadForCancel, ReadForRetry, ReadFor, ReadStale, Crash, FaultsEnd
<1> QED BY <1>1, Invariance, PTL DEF Spec, ReviewIsFinal
=============================================================================
