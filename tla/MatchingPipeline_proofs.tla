----------------------- MODULE MatchingPipeline_proofs -----------------------
(***************************************************************************)
(* Proofs about the pipeline: it implements the task store, it loses no    *)
(* task, and dead letters are final, for any number of tasks, workers,     *)
(* dispatchers, ids and stream entries.                                    *)
(***************************************************************************)
EXTENDS MatchingPipeline, TLAPS

\* The lemmas about the store, for the store of the pipeline.
StoreProofs == INSTANCE EvaluationTasks_proofs

------------------------------------------------------------------------------
(* The inductive invariant *)

\* Messages are of tasks that were submitted.
Submitted == {t \in Tasks : Store!Exists(t)}

\* The consumer was given an entry and has not settled it.
Holds(w) == consumer[w].pc \in {"counting", "poisoning", "holding", "xack", "xdel"}

\* The entry may be removed by a consumer that is done with it.
Leaving(w, e) == consumer[w].pc \in {"xack", "xdel"} /\ consumer[w].entry = e

QueueInv ==
  /\ Queue!QueueTypeOK
  /\ \A e \in Entries : stream[e].state # "free" => stream[e].msg \in Submitted
  /\ \A r \in retries : r.msg \in Submitted
  /\ \A w \in Workers : \A r \in consumer[w].due : r.msg \in Submitted
  /\ \A w \in Workers : Holds(w) =>
       /\ consumer[w].entry \in Entries
       /\ consumer[w].msg \in Submitted
       /\ stream[consumer[w].entry].state # "free" =>
            stream[consumer[w].entry].msg = consumer[w].msg

\* A copy of the message that no consumer is about to remove.
Fresh(t) ==
  \/ \E r \in retries : r.msg = t
  \/ \E e \in Entries : /\ Queue!Live(e) /\ stream[e].msg = t
                        /\ \A w \in Workers : ~Leaving(w, e)

\* Once published, a task never gets out of this before it ends: a copy is
\* removed only after its task ended, after a poison record, or after a
\* retry that is itself a fresh copy.
Tracked(t) == Store!Terminal(t) \/ t \in poisoned \/ Fresh(t)

OutboxInv ==
  /\ Outbox!OutboxTypeOK
  /\ \A t \in Tasks : Store!Exists(t) <=> outbox[t].status # "absent"
  /\ \A d \in Dispatchers : dispatch[d].pc # "idle" => dispatch[d].record \in Submitted

\* The dispatcher that will mark its record has published the message.
PublishedIsTracked ==
  /\ \A t \in Tasks : outbox[t].status = "published" => Tracked(t)
  /\ \A d \in Dispatchers : dispatch[d].pc = "marking" => Tracked(dispatch[d].record)

\* What a worker has in hand agrees with what it decided.
WorkerFine(w) ==
  /\ phase[w] # "none" => consumer[w].pc = "holding"
  /\ exec[w].pc # "idle" => phase[w] = "run" /\ exec[w].task = consumer[w].msg
  /\ phase[w] = "dead" => Store!Exhausted(consumer[w].msg)
  /\ phase[w] = "ack" => Store!Terminal(consumer[w].msg)

WorkerInv == phase \in [Workers -> Phase] /\ \A w \in Workers : WorkerFine(w)

PInv ==
  /\ StoreProofs!IInv
  /\ QueueInv
  /\ OutboxInv
  /\ PublishedIsTracked
  /\ WorkerInv
  /\ DeadLettersAreFinal
  /\ calm \in BOOLEAN

------------------------------------------------------------------------------
(* The store *)

\* The two instances of the store have the same steps.
LEMMA SameStore == Store!Next <=> StoreProofs!Next
<1>1. ASSUME NEW t PROVE Store!Submit(t) <=> StoreProofs!Submit(t)
  BY Zenon DEF Store!Submit, StoreProofs!Submit, Store!Exists, StoreProofs!Exists,
               Store!MarkStale, StoreProofs!MarkStale, Store!Absent, StoreProofs!Absent
<1>2. ASSUME NEW t, NEW w PROVE Store!Claim(w, t) <=> StoreProofs!Claim(w, t)
  BY Zenon DEF Store!Claim, StoreProofs!Claim, Store!Exists, StoreProofs!Exists,
               Store!Exhaust, StoreProofs!Exhaust, Store!Take, StoreProofs!Take,
               Store!Claimable, StoreProofs!Claimable, Store!LeaseOver, StoreProofs!LeaseOver,
               Store!Released, StoreProofs!Released
<1>3. ASSUME NEW w PROVE Store!BeginExecution(w) <=> StoreProofs!BeginExecution(w)
  BY Zenon DEF Store!BeginExecution, StoreProofs!BeginExecution, Store!HoldsLease,
               StoreProofs!HoldsLease, Store!Idle, StoreProofs!Idle
<1>4. ASSUME NEW w, NEW o
      PROVE  Store!FinishExecution(w, o) <=> StoreProofs!FinishExecution(w, o)
  BY Zenon DEF Store!FinishExecution, StoreProofs!FinishExecution, Store!HoldsLease,
               StoreProofs!HoldsLease, Store!Idle, StoreProofs!Idle, Store!Released,
               StoreProofs!Released
<1> QED
  BY <1>1, <1>2, <1>3, <1>4, Zenon
  DEF Store!Next, StoreProofs!Next, Store!ExpireLease, StoreProofs!ExpireLease,
      Store!Abandon, StoreProofs!Abandon, Store!Abandonable, StoreProofs!Abandonable,
      Store!Released, StoreProofs!Released, Store!GetEvaluation, StoreProofs!GetEvaluation,
      Store!StaleOnRead, StoreProofs!StaleOnRead, Store!Superseded, StoreProofs!Superseded,
      Store!Exists, StoreProofs!Exists, Store!Interrupt, StoreProofs!Interrupt,
      Store!Idle, StoreProofs!Idle, Store!Deploy, StoreProofs!Deploy

\* What the invariant of the store says, in the pipeline's names.
LEMMA StoreTypes ==
  ASSUME StoreProofs!IInv
  PROVE  /\ Store!TypeOK
         /\ \A w \in Workers : exec[w].pc # "idle" => exec[w].task \in Tasks
         /\ \A t \in Tasks : evaluation[t] # "none" <=> task[t].status = "succeeded"
         /\ \A t \in Tasks : task[t].status = "running" <=> task[t].owner # NoOne
<1>1. Store!TypeOK
  BY DEF StoreProofs!IInv, StoreProofs!TypeOK, Store!TypeOK, StoreProofs!TaskRow, Store!TaskRow,
         StoreProofs!Status, Store!Status, StoreProofs!ErrorCode, Store!ErrorCode,
         StoreProofs!Execution, Store!Execution
<1> QED
  BY <1>1 DEF StoreProofs!IInv, StoreProofs!ExecutionHasTask, StoreProofs!ResultMatchesTask,
              StoreProofs!LeaseIffRunning

\* What every step of the store keeps.
StoreKept ==
  /\ StoreProofs!IInv'
  /\ \A t \in Tasks : /\ Store!Exists(t) => Store!Exists(t)'
                      /\ Store!Terminal(t) => Store!Terminal(t)'
                      /\ Store!Exhausted(t) => Store!Exhausted(t)'

LEMMA StoreStep ==
  ASSUME StoreProofs!IInv, [Store!Next]_(Store!vars) PROVE StoreKept
<1>1. [StoreProofs!Next]_(StoreProofs!vars)
  BY SameStore DEF Store!vars, StoreProofs!vars
<1>2. StoreProofs!IInv' BY <1>1, StoreProofs!NextIInv, StoreConstants
<1>3. ASSUME NEW t \in Tasks, Store!Exists(t) PROVE Store!Exists(t)'
  <2>1. StoreProofs!Exists(t) BY <1>3 DEF Store!Exists, StoreProofs!Exists
  <2>2. StoreProofs!Exists(t)' BY <1>1, <2>1, StoreProofs!ExistingStep, StoreConstants
  <2> QED BY <2>2 DEF Store!Exists, StoreProofs!Exists
<1>4. ASSUME NEW t \in Tasks, Store!Terminal(t) PROVE task'[t] = task[t]
  <2>1. StoreProofs!Terminal(t)
    BY <1>4 DEF Store!Terminal, StoreProofs!Terminal, Store!Exhausted, StoreProofs!Exhausted
  <2> QED BY <1>1, <2>1, StoreProofs!TerminalStep, StoreConstants
<1>5. ASSUME NEW t \in Tasks, Store!Terminal(t) PROVE Store!Terminal(t)'
  BY <1>4, <1>5 DEF Store!Terminal, Store!Exhausted
<1>6. ASSUME NEW t \in Tasks, Store!Exhausted(t) PROVE Store!Exhausted(t)'
  BY <1>4, <1>6 DEF Store!Terminal, Store!Exhausted
<1> QED BY <1>2, <1>3, <1>5, <1>6 DEF StoreKept

LEMMA StoreStutter == ASSUME StoreProofs!IInv, UNCHANGED storeVars PROVE StoreKept
BY StoreStep DEF storeVars, Store!vars

LEMMA InitPInv == Init => PInv
<1> SUFFICES ASSUME Init PROVE PInv
  OBVIOUS
<1>1. StoreProofs!IInv
  <2>1. StoreProofs!Init
    BY DEF Init, Store!Init, StoreProofs!Init, Store!Absent, StoreProofs!Absent, Store!Idle,
           StoreProofs!Idle
  <2> QED BY <2>1, StoreProofs!InitIInv, StoreConstants
<1>2. \A t \in Tasks : ~Store!Exists(t) BY DEF Init, Store!Init, Store!Absent, Store!Exists
<1>3. QueueInv
  <2>1. Queue!QueueTypeOK
    BY QueueConstants
    DEF Init, Queue!QueueInit, Queue!QueueTypeOK, Queue!Entry, Queue!FreeEntry,
        Queue!RetryMember, Queue!Consumer, Queue!Resting
  <2> QED BY <2>1 DEF Init, Queue!QueueInit, Queue!FreeEntry, Queue!Resting, QueueInv, Holds
<1>4. OutboxInv
  <2>1. Outbox!OutboxTypeOK
    BY DEF Init, Outbox!OutboxInit, Outbox!OutboxTypeOK, Outbox!OutboxRow, Outbox!Dispatch,
           Outbox!Unclaimed, Outbox!AtRest
  <2> QED
    BY <1>2, <2>1 DEF Init, Outbox!OutboxInit, Outbox!Unclaimed, Outbox!AtRest, OutboxInv
<1>5. PublishedIsTracked
  BY DEF Init, Outbox!OutboxInit, Outbox!Unclaimed, Outbox!AtRest, PublishedIsTracked
<1>6. WorkerInv
  BY DEF Init, Store!Init, Store!Idle, WorkerInv, WorkerFine, Phase
<1>7. DeadLettersAreFinal /\ calm \in BOOLEAN
  BY DEF Init, Queue!QueueInit, DeadLettersAreFinal
<1> QED BY <1>1, <1>3, <1>4, <1>5, <1>6, <1>7 DEF PInv
------------------------------------------------------------------------------
(* The queue *)

HoldingPcs == {"counting", "poisoning", "holding", "xack", "xdel"}

\* Every entry keeps its message, is freed, or is added where nobody holds a
\* receipt.
StreamFollows ==
  /\ stream' \in [Entries -> Queue!Entry]
  /\ \A e \in Entries :
       \/ stream'[e].state = "free"
       \/ stream[e].state # "free" /\ stream'[e].msg = stream[e].msg
       \/ e \in Queue!Available /\ stream'[e].msg \in Submitted

\* A consumer may become x.
Fits(x) ==
  /\ x \in Queue!Consumer
  /\ \A r \in x.due : r.msg \in Submitted
  /\ x.pc \in HoldingPcs =>
       /\ x.entry \in Entries /\ x.msg \in Submitted
       /\ stream'[x.entry].state # "free" => stream'[x.entry].msg = x.msg

LEMMA SubmittedStays == ASSUME StoreKept PROVE Submitted \subseteq Submitted'
BY DEF StoreKept, Submitted

LEMMA QueueInvStep ==
  ASSUME QueueInv, StoreKept, StreamFollows,
         retries' \subseteq Queue!RetryMember, \A r \in retries' : r.msg \in Submitted,
         deadLetters' \subseteq Tasks, poisoned' \subseteq Tasks,
         consumer' \in [Workers -> Queue!Consumer],
         \A w \in Workers : consumer'[w] = consumer[w] \/ Fits(consumer'[w])
  PROVE  QueueInv'
<1>1. Queue!QueueTypeOK' BY DEF StreamFollows, Queue!QueueTypeOK
<1>2. ASSUME NEW e \in Entries, stream'[e].state # "free" PROVE stream'[e].msg \in Submitted'
  <2>1. stream'[e].msg \in Submitted BY <1>2 DEF StreamFollows, QueueInv
  <2> QED BY <2>1, SubmittedStays
<1>3. \A r \in retries' : r.msg \in Submitted' BY SubmittedStays
<1>4. ASSUME NEW w \in Workers, NEW r \in consumer'[w].due PROVE r.msg \in Submitted'
  <2>1. r.msg \in Submitted BY <1>4 DEF QueueInv, Fits
  <2> QED BY <2>1, SubmittedStays
<1>5. ASSUME NEW w \in Workers, Holds(w)'
      PROVE  /\ consumer'[w].entry \in Entries
             /\ consumer'[w].msg \in Submitted'
             /\ stream'[consumer'[w].entry].state # "free" =>
                  stream'[consumer'[w].entry].msg = consumer'[w].msg
  <2> DEFINE m == consumer'[w].msg
  <2>1. CASE consumer'[w] = consumer[w]
    <3>1. Holds(w) BY <1>5, <2>1 DEF Holds
    <3>2. consumer[w].entry \in Entries /\ m \in Submitted BY <2>1, <3>1 DEF QueueInv
    <3>3. consumer[w].entry \notin Queue!Available BY DEF Queue!Available
    <3>4. stream'[consumer[w].entry].state # "free" => stream'[consumer[w].entry].msg = m
      BY <2>1, <3>1, <3>2, <3>3 DEF QueueInv, StreamFollows
    <3>5. m \in Submitted' BY <3>2, SubmittedStays
    <3> QED BY <2>1, <3>2, <3>4, <3>5
  <2>2. CASE Fits(consumer'[w])
    <3>1. consumer'[w].pc \in HoldingPcs BY <1>5 DEF Holds, HoldingPcs
    <3>2. m \in Submitted' BY <2>2, <3>1, SubmittedStays DEF Fits
    <3> QED BY <2>2, <3>1, <3>2 DEF Fits
  <2> QED BY <2>1, <2>2
<1> QED BY <1>1, <1>2, <1>3, <1>4, <1>5 DEF QueueInv

LEMMA StreamStutters == ASSUME QueueInv, stream' = stream PROVE StreamFollows
BY DEF StreamFollows, QueueInv, Queue!QueueTypeOK

\* A holding consumer that goes on with its delivery.
LEMMA HolderFits ==
  ASSUME QueueInv, StreamFollows, NEW w \in Workers, Holds(w),
         NEW pc \in HoldingPcs, NEW n \in 0 .. MaxCount
  PROVE  Fits([consumer[w] EXCEPT !.pc = pc, !.count = n])
<1> DEFINE x == [consumer[w] EXCEPT !.pc = pc, !.count = n]
<1>1. consumer[w] \in Queue!Consumer BY DEF QueueInv, Queue!QueueTypeOK
<1>2. /\ x \in Queue!Consumer
      /\ x.entry = consumer[w].entry /\ x.msg = consumer[w].msg /\ x.due = consumer[w].due
  BY <1>1 DEF Queue!Consumer, HoldingPcs
<1>3. consumer[w].entry \notin Queue!Available BY DEF Queue!Available
<1> HIDE DEF x
<1>4. /\ consumer[w].entry \in Entries /\ consumer[w].msg \in Submitted
      /\ \A r \in consumer[w].due : r.msg \in Submitted
      /\ stream[consumer[w].entry].state # "free" =>
           stream[consumer[w].entry].msg = consumer[w].msg
  BY DEF QueueInv
<1>5. stream'[consumer[w].entry].state # "free" =>
        stream'[consumer[w].entry].msg = consumer[w].msg
  BY <1>3, <1>4 DEF StreamFollows
<1>6. Fits(x) BY <1>2, <1>4, <1>5 DEF Fits
<1> QED BY <1>6 DEF x

LEMMA RestingFits == Fits(Queue!Resting) /\ Queue!Resting \in Queue!Consumer
BY QueueConstants DEF Fits, Queue!Resting, Queue!Consumer, HoldingPcs

\* Fresh copies stay, except perhaps those of message m.
FreshKept(m) == \A t \in Tasks : Fresh(t) => Fresh(t)' \/ t = m

LEMMA FreshStep ==
  ASSUME NEW m, retries \subseteq retries',
         \A e \in Entries : Queue!Live(e) /\ stream[e].msg # m =>
           \/ Queue!Live(e)' /\ stream'[e].msg = stream[e].msg
           \/ \E w \in Workers : Leaving(w, e),
         \A e \in Entries, w \in Workers :
           Queue!Live(e) /\ stream[e].msg # m /\ Leaving(w, e)' => Leaving(w, e)
  PROVE  FreshKept(m)
<1> SUFFICES ASSUME NEW t \in Tasks, Fresh(t), t # m PROVE Fresh(t)'
  BY DEF FreshKept
<1>1. CASE \E r \in retries : r.msg = t BY <1>1 DEF Fresh
<1>2. CASE \E e \in Entries : /\ Queue!Live(e) /\ stream[e].msg = t
                              /\ \A w \in Workers : ~Leaving(w, e)
  <2>1. PICK e \in Entries : /\ Queue!Live(e) /\ stream[e].msg = t
                             /\ \A w \in Workers : ~Leaving(w, e)
    BY <1>2
  <2>2. Queue!Live(e)' /\ stream'[e].msg = t /\ \A w \in Workers : ~Leaving(w, e)'
    BY <2>1
  <2> QED BY <2>2 DEF Fresh
<1> QED BY <1>1, <1>2 DEF Fresh

\* One consumer becomes x; it is not about to remove an entry, or was so
\* before, or may remove the entry of its own message.
LEMMA FreshConsumerStep ==
  ASSUME QueueInv, NEW w \in Workers, NEW x, NEW m, consumer' = [consumer EXCEPT ![w] = x],
         retries \subseteq retries',
         \/ x.pc \notin {"xack", "xdel"}
         \/ consumer[w].pc \in {"xack", "xdel"} /\ x.entry = consumer[w].entry
         \/ Holds(w) /\ x.entry = consumer[w].entry /\ m = consumer[w].msg,
         \A e \in Entries : Queue!Live(e) /\ stream[e].msg # m =>
           \/ Queue!Live(e)' /\ stream'[e].msg = stream[e].msg
           \/ \E v \in Workers : Leaving(v, e)
  PROVE  FreshKept(m)
<1>1. \A v \in Workers : consumer'[v] = IF v = w THEN x ELSE consumer[v]
  BY DEF QueueInv, Queue!QueueTypeOK
<1>2. ASSUME NEW e \in Entries, NEW v \in Workers,
             Queue!Live(e), stream[e].msg # m, Leaving(v, e)'
      PROVE  Leaving(v, e)
  <2>1. CASE v # w BY <1>1, <1>2, <2>1 DEF Leaving
  <2>2. CASE v = w
    <3>1. x.pc \in {"xack", "xdel"} /\ x.entry = e BY <1>1, <1>2, <2>2 DEF Leaving
    <3>2. ~(Holds(w) /\ consumer[w].entry = e /\ m = consumer[w].msg)
      BY <1>2 DEF QueueInv, Queue!Live
    <3> QED BY <2>2, <3>1, <3>2 DEF Leaving
  <2> QED BY <2>1, <2>2
<1> QED BY <1>2, FreshStep
------------------------------------------------------------------------------
(* The commands of the queue *)

\* A step of the queue that keeps its invariant and every fresh copy but
\* those of m.
QueueKept(m) == QueueInv' /\ FreshKept(m)

LEMMA AddedEntry ==
  ASSUME QueueInv, NEW e \in Queue!Available, NEW m \in Submitted, NEW n \in 0 .. MaxCount,
         stream' = Queue!Added(e, m, n)
  PROVE  /\ StreamFollows /\ e \in Entries
         /\ stream'[e].state = "unread" /\ stream'[e].msg = m
         /\ \A f \in Entries \ {e} : stream'[f] = stream[f]
<1> DEFINE x == [Queue!FreeEntry EXCEPT !.state = "unread", !.msg = m, !.count = n]
<1>1. x \in Queue!Entry /\ x.state = "unread" /\ x.msg = m
  BY DEF Queue!FreeEntry, Queue!Entry, Submitted
<1>2. stream' = [stream EXCEPT ![e] = x] BY DEF Queue!Added
<1>3. e \in Entries /\ stream \in [Entries -> Queue!Entry]
  BY DEF Queue!Available, QueueInv, Queue!QueueTypeOK
<1> HIDE DEF x
<1> QED BY <1>1, <1>2, <1>3 DEF StreamFollows

LEMMA PublishStep ==
  ASSUME QueueInv, StoreKept, NEW m \in Submitted, Queue!Publish(m)
  PROVE  QueueKept(NoTask) /\ Fresh(m)'
<1>1. PICK e \in Queue!Available : stream' = Queue!Added(e, m, 0)
  BY DEF Queue!Publish
<1>2. UNCHANGED <<retries, deadLetters, poisoned, consumer>> BY DEF Queue!Publish
<1>3. 0 \in 0 .. MaxCount BY QueueConstants
<1>4. /\ StreamFollows /\ e \in Entries
      /\ stream'[e].state = "unread" /\ stream'[e].msg = m
      /\ \A f \in Entries \ {e} : stream'[f] = stream[f]
  BY <1>1, <1>3, AddedEntry
<1>5. QueueInv'
  BY <1>2, <1>4, QueueInvStep DEF QueueInv, Queue!QueueTypeOK
<1>6. ~Queue!Live(e) /\ \A w \in Workers : ~Leaving(w, e)
  BY <1>1 DEF Queue!Available, Queue!Live, Leaving
<1>7. FreshKept(NoTask)
  BY <1>2, <1>4, <1>6, FreshStep DEF Queue!Live, Leaving
<1>8. Fresh(m)' BY <1>2, <1>4, <1>6 DEF Fresh, Queue!Live, Leaving
<1> QED BY <1>5, <1>7, <1>8 DEF QueueKept

\* A command of one consumer, in the form the lemmas above need.
LEMMA ConsumerInv ==
  ASSUME QueueInv, StoreKept, NEW w \in Workers, NEW x, Fits(x),
         consumer' = [consumer EXCEPT ![w] = x], StreamFollows,
         retries' \subseteq Queue!RetryMember, \A r \in retries' : r.msg \in Submitted,
         deadLetters' \subseteq Tasks, poisoned' \subseteq Tasks
  PROVE  QueueInv'
<1>1. consumer \in [Workers -> Queue!Consumer] BY DEF QueueInv, Queue!QueueTypeOK
<1>2. consumer' \in [Workers -> Queue!Consumer]
      /\ \A v \in Workers : consumer'[v] = consumer[v] \/ Fits(consumer'[v])
  BY <1>1 DEF Fits
<1> QED BY <1>2, QueueInvStep

\* A command of one consumer that leaves the stream and the tables alone.
LEMMA QuietConsumer ==
  ASSUME QueueInv, StoreKept, NEW w \in Workers, NEW x, NEW m,
         StreamFollows => Fits(x),
         consumer' = [consumer EXCEPT ![w] = x],
         UNCHANGED <<stream, retries, deadLetters, poisoned>>,
         \/ x.pc \notin {"xack", "xdel"}
         \/ consumer[w].pc \in {"xack", "xdel"} /\ x.entry = consumer[w].entry
         \/ Holds(w) /\ x.entry = consumer[w].entry /\ m = consumer[w].msg
  PROVE  QueueKept(m)
<1>1. StreamFollows BY StreamStutters
<1>2. QueueInv' BY <1>1, ConsumerInv DEF QueueInv, Queue!QueueTypeOK
<1>3. FreshKept(m) BY FreshConsumerStep DEF Queue!Live
<1> QED BY <1>2, <1>3 DEF QueueKept

LEMMA LetGoStep ==
  ASSUME QueueInv, StoreKept, NEW w \in Workers, Queue!LetGo(w)
  PROVE  QueueKept(NoTask) /\ consumer'[w].pc = "idle"
<1>1. Queue!Resting.pc = "idle" BY DEF Queue!Resting
<1>2. consumer' = [consumer EXCEPT ![w] = Queue!Resting]
      /\ UNCHANGED <<stream, retries, deadLetters, poisoned>>
  BY DEF Queue!LetGo
<1>3. consumer'[w].pc = "idle" BY <1>1, <1>2 DEF QueueInv, Queue!QueueTypeOK
<1> QED BY <1>1, <1>2, <1>3, QuietConsumer, RestingFits

LEMMA ReceiptIsTyped ==
  ASSUME NEW e \in Entries, NEW m \in Tasks
  PROVE  LET x == [Queue!Resting EXCEPT !.pc = "counting", !.entry = e, !.msg = m] IN
           /\ x \in Queue!Consumer /\ x.pc = "counting" /\ x.entry = e /\ x.msg = m
           /\ x.due = {}
<1>1. 0 \in 0 .. MaxCount BY QueueConstants
<1> QED BY <1>1 DEF Queue!Resting, Queue!Consumer

LEMMA DeliveredStep ==
  ASSUME QueueInv, StoreKept, NEW w \in Workers, NEW e \in Entries,
         stream[e].state \in {"pending", "unread"}, Queue!Delivered(w, e)
  PROVE  QueueKept(NoTask)
<1> DEFINE x == [Queue!Resting EXCEPT !.pc = "counting", !.entry = e, !.msg = stream[e].msg]
           y == [stream[e] EXCEPT !.state = "pending", !.idle = FALSE]
<1>1. stream \in [Entries -> Queue!Entry] /\ stream[e].msg \in Submitted
  BY DEF QueueInv, Queue!QueueTypeOK
<1>2. y \in Queue!Entry /\ y.state = "pending" /\ y.msg = stream[e].msg
  BY <1>1 DEF Queue!Entry
<1>3. /\ stream' = [stream EXCEPT ![e] = y] /\ consumer' = [consumer EXCEPT ![w] = x]
      /\ UNCHANGED <<retries, deadLetters, poisoned>>
  BY DEF Queue!Delivered
<1>4. /\ x \in Queue!Consumer /\ x.pc = "counting" /\ x.entry = e /\ x.msg = stream[e].msg
      /\ x.due = {}
  <2>1. stream[e].msg \in Tasks BY <1>1 DEF Submitted
  <2> QED BY <2>1, ReceiptIsTyped
<1> HIDE DEF x, y
<1>5. StreamFollows /\ stream'[e] = y /\ \A f \in Entries \ {e} : stream'[f] = stream[f]
  BY <1>1, <1>2, <1>3 DEF StreamFollows
<1>6. Fits(x) BY <1>1, <1>2, <1>4, <1>5 DEF Fits
<1>7. QueueInv' BY <1>3, <1>5, <1>6, ConsumerInv DEF QueueInv, Queue!QueueTypeOK
<1>8. FreshKept(NoTask)
  <2>1. \A f \in Entries : Queue!Live(f) => Queue!Live(f)' /\ stream'[f].msg = stream[f].msg
    BY <1>2, <1>5 DEF Queue!Live
  <2> QED BY <1>3, <1>4, <2>1, FreshConsumerStep
<1> QED BY <1>7, <1>8 DEF QueueKept

LEMMA PromoteStep ==
  ASSUME QueueInv, StoreKept, NEW w \in Workers, NEW m \in consumer[w].due,
         Queue!PromoteOne(w, m)
  PROVE  QueueKept(NoTask)
<1>1. /\ stream \in [Entries -> Queue!Entry] /\ retries \subseteq Queue!RetryMember
      /\ consumer[w] \in Queue!Consumer /\ m \in Queue!RetryMember /\ m.msg \in Submitted
  BY DEF QueueInv, Queue!QueueTypeOK, Queue!Consumer
<1>2. PICK e \in Queue!Available : stream' = Queue!Promoted(e, m)
  BY DEF Queue!PromoteOne
<1>3. m.count \in 0 .. MaxCount BY <1>1 DEF Queue!RetryMember
<1>4. /\ StreamFollows /\ e \in Entries
      /\ stream'[e].state = "unread" /\ stream'[e].msg = m.msg
      /\ \A f \in Entries \ {e} : stream'[f] = stream[f]
  BY <1>1, <1>2, <1>3, AddedEntry DEF Queue!Promoted
<1>5. PICK pc \in {"promoting", "fetching"} :
        consumer' = [consumer EXCEPT ![w] = [consumer[w] EXCEPT !.due = consumer[w].due \ {m},
                                                                !.pc = pc]]
  BY <1>1 DEF Queue!PromoteOne, QueueInv, Queue!QueueTypeOK
<1> DEFINE x == [consumer[w] EXCEPT !.due = consumer[w].due \ {m}, !.pc = pc]
<1>6. /\ x \in Queue!Consumer /\ x.pc = pc /\ x.due \subseteq consumer[w].due
      /\ x.entry = consumer[w].entry
  BY <1>1 DEF Queue!Consumer
<1>7. consumer' = [consumer EXCEPT ![w] = x] BY <1>5
<1> HIDE DEF x
<1>8. Fits(x) BY <1>6 DEF Fits, QueueInv, HoldingPcs
<1>9. retries' = retries \ {m} /\ UNCHANGED <<deadLetters, poisoned>>
  BY DEF Queue!PromoteOne
<1>10. QueueInv'
  BY <1>1, <1>4, <1>7, <1>8, <1>9, ConsumerInv DEF QueueInv, Queue!QueueTypeOK
<1>11. ~Queue!Live(e) /\ \A v \in Workers : consumer[v].entry # e
  BY <1>2 DEF Queue!Available, Queue!Live
\* No consumer starts to remove an entry; the new one is fresh.
<1>12. \A v \in Workers : consumer'[v] = IF v = w THEN x ELSE consumer[v]
  BY <1>7 DEF QueueInv, Queue!QueueTypeOK
<1>13. \A f \in Entries, v \in Workers : Leaving(v, f)' => Leaving(v, f)
  BY <1>6, <1>12 DEF Leaving
<1>14. Queue!Live(e)' /\ \A v \in Workers : ~Leaving(v, e)'
  BY <1>4, <1>6, <1>11, <1>12 DEF Queue!Live, Leaving
<1>15. ASSUME NEW t \in Tasks, Fresh(t) PROVE Fresh(t)'
  <2>1. CASE \E r \in retries : r.msg = t
    <3>1. CASE t = m.msg BY <1>4, <1>14, <3>1 DEF Fresh
    <3>2. CASE t # m.msg BY <1>9, <2>1, <3>2 DEF Fresh
    <3> QED BY <3>1, <3>2
  <2>2. CASE \E f \in Entries : /\ Queue!Live(f) /\ stream[f].msg = t
                                /\ \A v \in Workers : ~Leaving(v, f)
    <3>1. PICK f \in Entries : /\ Queue!Live(f) /\ stream[f].msg = t
                               /\ \A v \in Workers : ~Leaving(v, f)
      BY <2>2
    <3>2. Queue!Live(f)' /\ stream'[f].msg = t /\ \A v \in Workers : ~Leaving(v, f)'
      BY <1>4, <1>11, <1>13, <3>1 DEF Queue!Live
    <3> QED BY <3>2 DEF Fresh
  <2> QED BY <1>15, <2>1, <2>2 DEF Fresh
<1> QED BY <1>10, <1>15 DEF QueueKept, FreshKept

\* A holding consumer goes on with its delivery; the entry keeps its message.
LEMMA HolderStep ==
  ASSUME QueueInv, StoreKept, NEW w \in Workers, Holds(w), NEW x, Fits(x), NEW m,
         consumer' = [consumer EXCEPT ![w] = x], x.entry = consumer[w].entry,
         StreamFollows,
         retries' \subseteq Queue!RetryMember, \A r \in retries' : r.msg \in Submitted,
         retries \subseteq retries', deadLetters' \subseteq Tasks, poisoned' \subseteq Tasks,
         \/ x.pc \notin {"xack", "xdel"}
         \/ consumer[w].pc \in {"xack", "xdel"}
         \/ m = consumer[w].msg,
         \A e \in Entries : Queue!Live(e) /\ stream[e].msg # m =>
           \/ Queue!Live(e)' /\ stream'[e].msg = stream[e].msg
           \/ \E v \in Workers : Leaving(v, e)
  PROVE  QueueKept(m)
<1>1. QueueInv' BY ConsumerInv
<1>2. FreshKept(m) BY FreshConsumerStep
<1> QED BY <1>1, <1>2 DEF QueueKept

\* A consumer that only moves.
LEMMA HolderMoves ==
  ASSUME QueueInv, StreamFollows, NEW w \in Workers, Holds(w), NEW pc \in HoldingPcs
  PROVE  LET x == [consumer[w] EXCEPT !.pc = pc] IN
           Fits(x) /\ x.pc = pc /\ x.entry = consumer[w].entry
<1>1. consumer[w] \in Queue!Consumer BY DEF QueueInv, Queue!QueueTypeOK
<1>2. PICK n \in 0 .. MaxCount : n = consumer[w].count BY <1>1 DEF Queue!Consumer
<1>3. [consumer[w] EXCEPT !.pc = pc] = [consumer[w] EXCEPT !.pc = pc, !.count = n]
  BY <1>1, <1>2 DEF Queue!Consumer
<1>4. Fits([consumer[w] EXCEPT !.pc = pc, !.count = n]) BY HolderFits
<1>5. [consumer[w] EXCEPT !.pc = pc].pc = pc
      /\ [consumer[w] EXCEPT !.pc = pc].entry = consumer[w].entry
  BY <1>1 DEF Queue!Consumer
<1> QED BY <1>3, <1>4, <1>5

\* What does not change is typed.
LEMMA TablesTyped ==
  ASSUME QueueInv
  PROVE  /\ retries \subseteq Queue!RetryMember /\ \A r \in retries : r.msg \in Submitted
         /\ deadLetters \subseteq Tasks /\ poisoned \subseteq Tasks
         /\ consumer \in [Workers -> Queue!Consumer]
         /\ stream \in [Entries -> Queue!Entry]
BY DEF QueueInv, Queue!QueueTypeOK

\* Counting a delivery changes the count of an entry only.
LEMMA CountedEntry ==
  ASSUME QueueInv, NEW e \in Entries, stream' \in {stream, Queue!Counted(e)}
  PROVE  /\ StreamFollows
         /\ \A f \in Entries : /\ stream'[f].state = stream[f].state
                               /\ stream'[f].msg = stream[f].msg
<1>1. stream \in [Entries -> Queue!Entry] BY DEF QueueInv, Queue!QueueTypeOK
<1>2. CASE stream' = stream BY <1>2, StreamStutters
<1>3. CASE stream' = Queue!Counted(e)
  <2>1. PICK n \in 0 .. MaxCount : n = Queue!CountUp(stream[e].count)
    <3>1. stream[e].count \in 0 .. MaxCount BY <1>1 DEF Queue!Entry
    <3> QED BY <3>1, QueueConstants DEF Queue!CountUp
  <2> DEFINE y == [stream[e] EXCEPT !.count = n]
  <2>2. stream' = [stream EXCEPT ![e] = y] BY <1>1, <1>3, <2>1 DEF Queue!Counted
  <2>3. y \in Queue!Entry /\ y.state = stream[e].state /\ y.msg = stream[e].msg
    BY <1>1 DEF Queue!Entry
  <2> HIDE DEF y
  <2> QED BY <1>1, <2>2, <2>3 DEF StreamFollows
<1> QED BY <1>2, <1>3

LEMMA CountStep ==
  ASSUME QueueInv, StoreKept, NEW w \in Workers, Queue!CountDelivery(w)
  PROVE  QueueKept(NoTask)
<1> DEFINE e == consumer[w].entry
<1>1. Holds(w) /\ e \in Entries /\ stream \in [Entries -> Queue!Entry]
  BY DEF Queue!CountDelivery, Holds, QueueInv, Queue!QueueTypeOK
<1>2. stream[e].count \in 0 .. MaxCount BY <1>1 DEF Queue!Entry
<1>3. Queue!CountUp(stream[e].count) \in 0 .. MaxCount
  BY <1>2, QueueConstants DEF Queue!CountUp
<1>4. PICK n \in 0 .. MaxCount :
        consumer' = [consumer EXCEPT ![w].pc = "holding", ![w].count = n]
  <2>1. 1 .. MaxCount \subseteq 0 .. MaxCount BY QueueConstants
  <2> QED BY <1>3, <2>1 DEF Queue!CountDelivery
<1> DEFINE x == [consumer[w] EXCEPT !.pc = "holding", !.count = n]
<1>5. consumer' = [consumer EXCEPT ![w] = x] BY <1>4, TablesTyped
<1>6. stream' \in {stream, Queue!Counted(e)} /\ UNCHANGED <<retries, deadLetters, poisoned>>
  BY DEF Queue!CountDelivery
<1>7. /\ StreamFollows
      /\ \A f \in Entries : stream'[f].state = stream[f].state /\ stream'[f].msg = stream[f].msg
  BY <1>1, <1>6, CountedEntry
<1>8. \A f \in Entries : Queue!Live(f) => Queue!Live(f)' /\ stream'[f].msg = stream[f].msg
  BY <1>7 DEF Queue!Live
<1>9. Fits(x) BY <1>1, <1>7, HolderFits DEF HoldingPcs
<1>10. x.pc = "holding" /\ x.entry = consumer[w].entry
  BY TablesTyped DEF Queue!Consumer
<1> HIDE DEF x
<1> QED BY <1>1, <1>5, <1>6, <1>7, <1>8, <1>9, <1>10, HolderStep, TablesTyped

LEMMA CountFailsStep ==
  ASSUME QueueInv, StoreKept, NEW w \in Workers, Queue!CountFails(w)
  PROVE  QueueKept(NoTask)
<1> DEFINE e == consumer[w].entry
<1>1. Holds(w) /\ e \in Entries BY DEF Queue!CountFails, Holds, QueueInv
<1>2. stream' \in {stream, Queue!Counted(e)} /\ UNCHANGED <<retries, deadLetters, poisoned>>
      /\ consumer' = [consumer EXCEPT ![w].pc = "poisoning"]
  BY DEF Queue!CountFails
<1>3. /\ StreamFollows
      /\ \A f \in Entries : stream'[f].state = stream[f].state /\ stream'[f].msg = stream[f].msg
  BY <1>1, <1>2, CountedEntry
<1>4. \A f \in Entries : Queue!Live(f) => Queue!Live(f)' /\ stream'[f].msg = stream[f].msg
  BY <1>3 DEF Queue!Live
<1> DEFINE x == [consumer[w] EXCEPT !.pc = "poisoning"]
<1>5. consumer' = [consumer EXCEPT ![w] = x] BY <1>2
<1>6. Fits(x) /\ x.pc = "poisoning" /\ x.entry = consumer[w].entry
  BY <1>1, <1>3, HolderMoves DEF HoldingPcs
<1> HIDE DEF x
<1> QED BY <1>1, <1>2, <1>3, <1>4, <1>5, <1>6, HolderStep, TablesTyped

\* The first records of a settlement: a poison record, a retry, a dead letter.
LEMMA RecordStep ==
  ASSUME QueueInv, StoreKept, NEW w \in Workers,
         Queue!WritePoison(w) \/ Queue!Retry(w) \/ Queue!DeadLetter(w)
  PROVE  /\ QueueKept(consumer[w].msg)
         /\ Queue!WritePoison(w) => consumer[w].msg \in poisoned'
         /\ \A t : Queue!Retry(w) /\ t = consumer[w].msg => Fresh(t)'
<1> DEFINE m == consumer[w].msg
<1>1. Holds(w) BY DEF Queue!WritePoison, Queue!Retry, Queue!DeadLetter, Holds
<1>2. m \in Submitted /\ m \in Tasks BY <1>1 DEF QueueInv, Submitted
<1>3. consumer' = [consumer EXCEPT ![w].pc = "xack"] /\ stream' = stream
  BY DEF Queue!WritePoison, Queue!Retry, Queue!DeadLetter
<1>4. StreamFollows BY <1>3, StreamStutters
<1> DEFINE r == [msg |-> m, count |-> consumer[w].count]
<1>5. r \in Queue!RetryMember /\ r.msg = m
  BY <1>2, TablesTyped DEF Queue!RetryMember, Queue!Consumer
<1>6. retries' = retries \/ retries' = retries \cup {r}
  BY DEF Queue!WritePoison, Queue!Retry, Queue!DeadLetter, Queue!Scheduled
<1>7. Queue!Retry(w) => r \in retries' BY DEF Queue!Retry, Queue!Scheduled
<1> HIDE DEF r
<1>8. retries \subseteq retries' /\ retries' \subseteq Queue!RetryMember
      /\ \A q \in retries' : q.msg \in Submitted
  BY <1>2, <1>5, <1>6 DEF QueueInv, Queue!QueueTypeOK
<1>9. deadLetters' \subseteq Tasks /\ poisoned' \subseteq Tasks
  BY <1>2 DEF Queue!WritePoison, Queue!Retry, Queue!DeadLetter, QueueInv, Queue!QueueTypeOK
<1> DEFINE x == [consumer[w] EXCEPT !.pc = "xack"]
<1>10. consumer' = [consumer EXCEPT ![w] = x] BY <1>3
<1>11. Fits(x) /\ x.entry = consumer[w].entry BY <1>1, <1>4, HolderMoves DEF HoldingPcs
<1> HIDE DEF x
<1>12. QueueKept(m)
  <2>1. \A f \in Entries : Queue!Live(f) => Queue!Live(f)' /\ stream'[f].msg = stream[f].msg
    BY <1>3 DEF Queue!Live
  <2> QED BY <1>1, <1>4, <1>8, <1>9, <1>10, <1>11, <2>1, HolderStep
<1>13. \A t : Queue!Retry(w) /\ t = m => Fresh(t)' BY <1>5, <1>7 DEF Fresh
<1>14. Queue!WritePoison(w) => m \in poisoned' BY DEF Queue!WritePoison
<1> QED BY <1>12, <1>13, <1>14

\* An acknowledged entry is a well formed entry with the same message.
LEMMA AckedEntry ==
  ASSUME NEW z \in Queue!Entry
  PROVE  LET y == [z EXCEPT !.state = "acked", !.idle = FALSE]
         IN  y \in Queue!Entry /\ y.msg = z.msg
BY DEF Queue!Entry

LEMMA AckStep ==
  ASSUME QueueInv, StoreKept, NEW w \in Workers, Queue!Acknowledge(w), NEW m,
         consumer[w].pc = "xack" \/ m = consumer[w].msg
  PROVE  QueueKept(m)
<1> DEFINE e == consumer[w].entry
           y == [stream[e] EXCEPT !.state = "acked", !.idle = FALSE]
<1>1. /\ Holds(w) /\ e \in Entries /\ stream \in [Entries -> Queue!Entry]
      /\ stream[e].state # "free" => stream[e].msg = consumer[w].msg
  BY DEF Queue!Acknowledge, Holds, QueueInv, Queue!QueueTypeOK
<1>2. consumer' = [consumer EXCEPT ![w].pc = "xdel"]
      /\ UNCHANGED <<retries, deadLetters, poisoned>>
  BY DEF Queue!Acknowledge
<1>3. stream[e] \in Queue!Entry BY <1>1
<1>4. y \in Queue!Entry /\ y.msg = stream[e].msg BY <1>3, AckedEntry
<1>5. stream' = [stream EXCEPT ![e] = IF stream[e].state = "pending" THEN y ELSE stream[e]]
  BY <1>1 DEF Queue!Acknowledge, Queue!Acked
<1> HIDE DEF y
<1>6. StreamFollows BY <1>1, <1>4, <1>5 DEF StreamFollows
<1>7. \A f \in Entries : Queue!Live(f) /\ stream[f].msg # m =>
        \/ Queue!Live(f)' /\ stream'[f].msg = stream[f].msg
        \/ \E v \in Workers : Leaving(v, f)
  <2> SUFFICES ASSUME NEW f \in Entries, Queue!Live(f), stream[f].msg # m
               PROVE  \/ Queue!Live(f)' /\ stream'[f].msg = stream[f].msg
                      \/ \E v \in Workers : Leaving(v, f)
    OBVIOUS
  <2>1. CASE f # e BY <1>1, <1>5, <2>1 DEF Queue!Live
  <2>2. CASE f = e
    <3>1. stream[e].msg = consumer[w].msg BY <1>1, <2>2 DEF Queue!Live
    <3>2. Leaving(w, e) BY <2>2, <3>1 DEF Leaving
    <3> QED BY <2>2, <3>2
  <2> QED BY <2>1, <2>2
<1> DEFINE x == [consumer[w] EXCEPT !.pc = "xdel"]
<1>8. consumer' = [consumer EXCEPT ![w] = x] BY <1>2
<1>9. Fits(x) /\ x.entry = consumer[w].entry BY <1>1, <1>6, HolderMoves DEF HoldingPcs
<1> HIDE DEF x
<1>10. consumer[w].pc \in {"xack", "xdel"} \/ m = consumer[w].msg OBVIOUS
<1> QED BY <1>1, <1>2, <1>6, <1>7, <1>8, <1>9, <1>10, HolderStep, TablesTyped

LEMMA DeleteStep ==
  ASSUME QueueInv, StoreKept, NEW w \in Workers, Queue!Delete(w)
  PROVE  QueueKept(NoTask)
<1> DEFINE e == consumer[w].entry
<1>1. /\ e \in Entries /\ stream \in [Entries -> Queue!Entry] /\ Leaving(w, e)
  BY DEF Queue!Delete, Holds, Leaving, QueueInv, Queue!QueueTypeOK
<1>2. Queue!FreeEntry \in Queue!Entry /\ Queue!FreeEntry.state = "free"
  BY QueueConstants DEF Queue!FreeEntry, Queue!Entry
<1>3. /\ stream' = [stream EXCEPT ![e] = Queue!FreeEntry]
      /\ consumer' = [consumer EXCEPT ![w] = Queue!Resting]
      /\ UNCHANGED <<retries, deadLetters, poisoned>>
  BY DEF Queue!Delete
<1>4. StreamFollows BY <1>1, <1>2, <1>3 DEF StreamFollows
<1>5. QueueInv'
  BY <1>3, <1>4, RestingFits, ConsumerInv DEF QueueInv, Queue!QueueTypeOK
<1>6. FreshKept(NoTask)
  <2>1. \A f \in Entries : Queue!Live(f) => \/ Queue!Live(f)' /\ stream'[f].msg = stream[f].msg
                                            \/ \E v \in Workers : Leaving(v, f)
    BY <1>1, <1>3 DEF Queue!Live
  <2>2. Queue!Resting.pc \notin {"xack", "xdel"} BY DEF Queue!Resting
  <2> QED BY <1>3, <2>1, <2>2, FreshConsumerStep
<1> QED BY <1>5, <1>6 DEF QueueKept
\* The stream changes, no message in it does.
LEMMA StreamOnly ==
  ASSUME QueueInv, StoreKept, stream' \in [Entries -> Queue!Entry],
         \A e \in Entries : /\ stream'[e].msg = stream[e].msg
                            /\ stream'[e].state = "free" <=> stream[e].state = "free"
                            /\ Queue!Live(e) => Queue!Live(e)',
         UNCHANGED <<retries, deadLetters, poisoned, consumer>>
  PROVE  QueueKept(NoTask)
<1>1. StreamFollows BY DEF StreamFollows
<1>2. QueueInv' BY <1>1, QueueInvStep, TablesTyped
<1>3. FreshKept(NoTask) BY FreshStep DEF Leaving
<1> QED BY <1>2, <1>3 DEF QueueKept

LEMMA QueueStutter ==
  ASSUME QueueInv, StoreKept, UNCHANGED queueVars PROVE QueueKept(NoTask)
BY StreamOnly, TablesTyped DEF queueVars, Queue!Live

LEMMA VisibilityStep ==
  ASSUME QueueInv, StoreKept, NEW e \in Entries, Queue!VisibilityElapses(e)
  PROVE  QueueKept(NoTask)
<1> DEFINE y == [stream[e] EXCEPT !.idle = TRUE]
<1>1. stream \in [Entries -> Queue!Entry] BY TablesTyped
<1>2. y \in Queue!Entry /\ y.state = stream[e].state /\ y.msg = stream[e].msg
  BY <1>1 DEF Queue!Entry
<1>3. stream' = [stream EXCEPT ![e] = y] BY <1>1 DEF Queue!VisibilityElapses
<1>4. UNCHANGED <<retries, deadLetters, poisoned, consumer>> BY DEF Queue!VisibilityElapses
<1> HIDE DEF y
<1>5. /\ stream' \in [Entries -> Queue!Entry]
      /\ \A f \in Entries : stream'[f].msg = stream[f].msg /\ stream'[f].state = stream[f].state
  BY <1>1, <1>2, <1>3
<1> QED BY <1>4, <1>5, StreamOnly DEF Queue!Live

LEMMA RecreateStep ==
  ASSUME QueueInv, StoreKept, Queue!RecreateGroup PROVE QueueKept(NoTask)
<1>1. stream \in [Entries -> Queue!Entry] BY TablesTyped
<1>2. UNCHANGED <<retries, deadLetters, poisoned, consumer>> BY DEF Queue!RecreateGroup
<1>3. ASSUME NEW e \in Entries
      PROVE  /\ stream'[e] \in Queue!Entry
             /\ stream'[e].msg = stream[e].msg
             /\ stream'[e].state = "free" <=> stream[e].state = "free"
             /\ Queue!Live(e) => Queue!Live(e)'
  <2> DEFINE y == [stream[e] EXCEPT !.state = "unread", !.idle = FALSE]
  <2>1. stream[e] \in Queue!Entry BY <1>1
  <2>2. y \in Queue!Entry /\ y.state = "unread" /\ y.msg = stream[e].msg
    BY <2>1 DEF Queue!Entry
  <2>3. stream'[e] = IF stream[e].state \in {"pending", "acked"} THEN y ELSE stream[e]
    BY DEF Queue!RecreateGroup
  <2> HIDE DEF y
  <2> QED BY <2>1, <2>2, <2>3 DEF Queue!Live
<1>4. stream' \in [Entries -> Queue!Entry]
  <2>1. stream' = [e \in Entries |-> stream'[e]] BY DEF Queue!RecreateGroup
  <2> QED BY <1>3, <2>1
<1> QED BY <1>2, <1>3, <1>4, StreamOnly

\* Before a delivery is in hand.
LEMMA ConsumeStep ==
  ASSUME QueueInv, StoreKept, NEW w \in Workers, Queue!Consume(w)
  PROVE  /\ \E m : QueueKept(m) /\ (m \in Tasks => m \in poisoned')
         /\ poisoned \subseteq poisoned' /\ deadLetters' = deadLetters
         /\ \A v \in Workers : v # w => consumer'[v] = consumer[v]
<1> DEFINE Goal == /\ \E m : QueueKept(m) /\ (m \in Tasks => m \in poisoned')
                   /\ poisoned \subseteq poisoned' /\ deadLetters' = deadLetters
                   /\ \A v \in Workers : v # w => consumer'[v] = consumer[v]
<1>1. NoTask \notin Tasks BY StoreConstants
<1>2. consumer \in [Workers -> Queue!Consumer] BY TablesTyped
<1>3. ASSUME NEW due \in SUBSET retries, Queue!RangeDueRetries(w, due) PROVE Goal
  <2> DEFINE x == [Queue!Resting EXCEPT !.pc = "promoting", !.due = due]
  <2>1. due \subseteq Queue!RetryMember /\ 0 \in 0 .. MaxCount BY TablesTyped, QueueConstants
  <2>2. x \in Queue!Consumer /\ x.pc = "promoting" /\ x.due = due
    BY <2>1 DEF Queue!Resting, Queue!Consumer
  <2>3. consumer' = [consumer EXCEPT ![w] = x] BY <1>3 DEF Queue!RangeDueRetries
  <2> HIDE DEF x
  <2>4. Fits(x) BY <2>2, TablesTyped DEF Fits, HoldingPcs
  <2>5. UNCHANGED <<stream, retries, deadLetters, poisoned>> BY <1>3 DEF Queue!RangeDueRetries
  <2>6. QueueKept(NoTask) BY <2>2, <2>3, <2>4, <2>5, QuietConsumer
  <2> QED BY <1>1, <1>2, <2>3, <2>5, <2>6
<1>4. ASSUME NEW m \in consumer[w].due, Queue!PromoteOne(w, m) PROVE Goal
  <2>1. QueueKept(NoTask) BY <1>4, PromoteStep
  <2>2. /\ UNCHANGED <<deadLetters, poisoned>>
        /\ \A v \in Workers : v # w => consumer'[v] = consumer[v]
    BY <1>2, <1>4 DEF Queue!PromoteOne
  <2> QED BY <1>1, <2>1, <2>2
<1>5. ASSUME Queue!PutOff(w) PROVE Goal
  <2> DEFINE x == [Queue!Resting EXCEPT !.pc = "fetching"]
  <2>1. x.pc = "fetching" /\ x.due = {} /\ x \in Queue!Consumer
    BY RestingFits DEF Queue!Resting, Queue!Consumer
  <2>2. /\ consumer' = [consumer EXCEPT ![w] = x]
        /\ UNCHANGED <<stream, retries, deadLetters, poisoned>>
    BY <1>5 DEF Queue!PutOff
  <2> HIDE DEF x
  <2>3. Fits(x) BY <2>1 DEF Fits, HoldingPcs
  <2>4. QueueKept(NoTask) BY <2>1, <2>2, <2>3, QuietConsumer
  <2> QED BY <1>1, <1>2, <2>2, <2>4
<1>6. ASSUME NEW e \in Entries, stream[e].state \in {"pending", "unread"}, Queue!Delivered(w, e)
      PROVE  Goal
  <2>1. QueueKept(NoTask) BY <1>6, DeliveredStep
  <2>2. /\ UNCHANGED <<deadLetters, poisoned>>
        /\ \A v \in Workers : v # w => consumer'[v] = consumer[v]
    BY <1>2, <1>6 DEF Queue!Delivered
  <2> QED BY <1>1, <2>1, <2>2
<1>7. CASE Queue!Reclaim(w) \/ Queue!ReadNew(w)
  BY <1>6, <1>7 DEF Queue!Reclaim, Queue!ReadNew, Queue!Reclaimable, Queue!Unread
<1>8. ASSUME Queue!FetchNothing(w) PROVE Goal
  <2>1. /\ consumer' = [consumer EXCEPT ![w] = Queue!Resting]
        /\ UNCHANGED <<stream, retries, deadLetters, poisoned>>
    BY <1>8 DEF Queue!FetchNothing
  <2>2. Queue!Resting.pc = "idle" BY DEF Queue!Resting
  <2>3. QueueKept(NoTask) BY <2>1, <2>2, RestingFits, QuietConsumer
  <2> QED BY <1>1, <1>2, <2>1, <2>3
<1>9. ASSUME Queue!CountDelivery(w) PROVE Goal
  <2>1. QueueKept(NoTask) BY <1>9, CountStep
  <2>2. /\ UNCHANGED <<deadLetters, poisoned>>
        /\ \A v \in Workers : v # w => consumer'[v] = consumer[v]
    BY <1>2, <1>9 DEF Queue!CountDelivery
  <2> QED BY <1>1, <2>1, <2>2
<1>10. ASSUME Queue!WritePoison(w) PROVE Goal
  <2>1. QueueKept(consumer[w].msg) /\ consumer[w].msg \in poisoned' BY <1>10, RecordStep
  <2>2. /\ poisoned \subseteq poisoned' /\ deadLetters' = deadLetters
        /\ \A v \in Workers : v # w => consumer'[v] = consumer[v]
    BY <1>2, <1>10 DEF Queue!WritePoison
  <2> QED BY <2>1, <2>2
<1> QED BY <1>3, <1>4, <1>5, <1>7, <1>8, <1>9, <1>10 DEF Queue!Consume
------------------------------------------------------------------------------
(* The parts of the pipeline *)

TrackedKept == \A t \in Tasks : Tracked(t) => Tracked(t)'

OutboxKept == OutboxInv' /\ PublishedIsTracked'

\* The step is one of the task store, or invisible to it.
StoreFollows == [Store!Next]_(Store!vars)

LEMMA QueueTracked ==
  ASSUME StoreKept, NEW m, QueueKept(m), poisoned \subseteq poisoned',
         m \in Tasks => Tracked(m)'
  PROVE  TrackedKept
<1> SUFFICES ASSUME NEW t \in Tasks, Tracked(t) PROVE Tracked(t)'
  BY DEF TrackedKept
<1>1. CASE t = m
  <2>1. \A u : u = m /\ Tracked(m)' => Tracked(u)'
    BY DEF Tracked, Store!Terminal, Store!Exhausted, Fresh
  <2> QED BY <1>1, <2>1
<1>2. CASE t # m BY <1>2 DEF Tracked, QueueKept, FreshKept, StoreKept
<1> QED BY <1>1, <1>2

\* A step that leaves the outbox alone and submits nothing.
LEMMA OutboxRests ==
  ASSUME OutboxInv, PublishedIsTracked, StoreKept, TrackedKept, UNCHANGED outboxVars,
         \A t \in Tasks : Store!Exists(t)' => Store!Exists(t)
  PROVE  OutboxKept
<1>1. UNCHANGED <<outbox, dispatch>> BY DEF outboxVars
<1>2. Outbox!OutboxTypeOK' BY <1>1 DEF OutboxInv, Outbox!OutboxTypeOK
<1>3. \A t \in Tasks : Store!Exists(t)' <=> outbox'[t].status # "absent"
  BY <1>1 DEF OutboxInv, StoreKept
<1>4. \A d \in Dispatchers : dispatch'[d].pc # "idle" => dispatch'[d].record \in Submitted'
  BY <1>1, SubmittedStays DEF OutboxInv
<1>5. ASSUME NEW d \in Dispatchers, dispatch'[d].pc = "marking"
      PROVE  Tracked(dispatch[d].record)'
  <2>1. PICK r \in Tasks : r = dispatch[d].record BY <1>1, <1>5 DEF OutboxInv, Submitted
  <2>2. Tracked(r)' BY <1>1, <1>5, <2>1 DEF PublishedIsTracked, TrackedKept
  <2> QED BY <1>1, <2>1, <2>2 DEF Tracked, Store!Terminal, Store!Exhausted, Fresh
<1>6. PublishedIsTracked' BY <1>1, <1>5 DEF PublishedIsTracked, TrackedKept
<1> QED BY <1>2, <1>3, <1>4, <1>6 DEF OutboxKept, OutboxInv

\* What a worker knows of its task stays true.
LEMMA WorkersStay ==
  ASSUME QueueInv, WorkerInv, StoreKept, phase' \in [Workers -> Phase],
         \A w \in Workers :
           \/ phase'[w] = phase[w] /\ consumer'[w] = consumer[w] /\ exec'[w] = exec[w]
           \/ WorkerFine(w)'
  PROVE  WorkerInv'
<1> SUFFICES ASSUME NEW w \in Workers PROVE WorkerFine(w)'
  BY DEF WorkerInv
<1>1. SUFFICES ASSUME phase'[w] = phase[w], consumer'[w] = consumer[w], exec'[w] = exec[w]
               PROVE  WorkerFine(w)'
  OBVIOUS
<1>2. WorkerFine(w) BY DEF WorkerInv
<1>3. CASE phase[w] = "none" BY <1>1, <1>2, <1>3 DEF WorkerFine
<1>4. CASE phase[w] # "none"
  <2>1. consumer[w].msg \in Submitted BY <1>2, <1>4 DEF WorkerFine, Holds, QueueInv
  <2>2. PICK t \in Tasks : t = consumer[w].msg BY <2>1 DEF Submitted
  <2>3. Store!Exhausted(t) => Store!Exhausted(t)' BY DEF StoreKept
  <2>4. Store!Terminal(t) => Store!Terminal(t)' BY DEF StoreKept
  <2>5. phase'[w] = "dead" => Store!Exhausted(consumer[w].msg)'
    BY <1>1, <1>2, <2>2, <2>3 DEF WorkerFine, Store!Exhausted
  <2>6. phase'[w] = "ack" => Store!Terminal(consumer[w].msg)'
    BY <1>1, <1>2, <2>2, <2>4 DEF WorkerFine, Store!Exhausted, Store!Terminal
  <2> QED BY <1>1, <1>2, <2>5, <2>6 DEF WorkerFine
<1> QED BY <1>3, <1>4

LEMMA PInvStep ==
  ASSUME PInv, StoreKept, NEW m, QueueKept(m), poisoned \subseteq poisoned',
         TrackedKept => OutboxKept, m \in Tasks => Tracked(m)',
         \A t \in deadLetters' : t \in deadLetters \/ Store!Exhausted(t)',
         phase' \in [Workers -> Phase],
         \A w \in Workers :
           \/ phase'[w] = phase[w] /\ consumer'[w] = consumer[w] /\ exec'[w] = exec[w]
           \/ WorkerFine(w)',
         calm' \in BOOLEAN
  PROVE  PInv'
<1>1. TrackedKept BY QueueTracked
<1>2. QueueInv /\ WorkerInv /\ DeadLettersAreFinal BY DEF PInv
<1>3. WorkerInv' BY <1>2, WorkersStay
<1>4. DeadLettersAreFinal'
  BY <1>2 DEF DeadLettersAreFinal, StoreKept, QueueInv, Queue!QueueTypeOK
<1> QED BY <1>1, <1>3, <1>4 DEF PInv, StoreKept, QueueKept, OutboxKept

\* A step that leaves the queue and the workers alone.
LEMMA QuietStep ==
  ASSUME PInv, StoreKept, UNCHANGED queueVars, UNCHANGED <<phase, exec>>, calm' \in BOOLEAN,
         TrackedKept => OutboxKept
  PROVE  PInv'
<1>1. QueueInv /\ WorkerInv BY DEF PInv
<1>2. QueueKept(NoTask) BY <1>1, QueueStutter
<1>3. NoTask \notin Tasks BY StoreConstants
<1>4. UNCHANGED <<poisoned, deadLetters, consumer>> BY DEF queueVars
<1>5. phase' \in [Workers -> Phase] BY <1>1 DEF WorkerInv
<1> QED BY <1>2, <1>3, <1>4, <1>5, PInvStep

\* A step of the store under a pipeline step.
LEMMA StoreWithin ==
  ASSUME PInv, StoreFollows PROVE StoreKept
BY StoreStep DEF PInv, StoreFollows

LEMMA StoreSkip == ASSUME UNCHANGED storeVars PROVE StoreFollows
BY DEF storeVars, Store!vars, StoreFollows
------------------------------------------------------------------------------
(* Submission and dispatch *)

LEMMA SubmitPInv ==
  ASSUME PInv, NEW t \in Tasks, Submit(t) PROVE PInv' /\ StoreFollows
<1>1. StoreFollows BY DEF Submit, StoreFollows, Store!Next
<1>2. StoreKept BY <1>1, StoreWithin
<1>3. /\ OutboxInv /\ PublishedIsTracked /\ StoreProofs!IInv
      /\ outbox \in [Tasks -> Outbox!OutboxRow]
      /\ task \in [Tasks -> Store!TaskRow]
  BY StoreTypes DEF PInv, OutboxInv, Outbox!OutboxTypeOK, Store!TypeOK
<1>4. /\ Store!Exists(t)' /\ exec' = exec
      /\ \A u \in Tasks : u # t => Store!Exists(u)' = Store!Exists(u)
  <2>1. CASE Store!Exists(t) /\ UNCHANGED task
    BY <2>1 DEF Submit, Store!Submit, Store!Exists
  <2>2. CASE task' = [task EXCEPT ![t] = [Store!Absent EXCEPT !.status = "pending"]]
    BY <1>3, <2>2 DEF Submit, Store!Submit, Store!Exists, Store!Absent
  <2> QED BY <2>1, <2>2 DEF Submit, Store!Submit
<1>5. ASSUME TrackedKept PROVE OutboxKept
  <2>1. dispatch' = dispatch BY DEF Submit, outboxVars, Outbox!EnsureOutbox
  <2>2. /\ outbox' \in [Tasks -> Outbox!OutboxRow]
        /\ outbox'[t].status # "absent"
        /\ \A u \in Tasks : u # t => outbox'[u] = outbox[u]
        /\ \A u \in Tasks : outbox'[u].status = "published" => outbox[u].status = "published"
    <3>1. CASE task[t].status = "succeeded"
      BY <1>3, <3>1 DEF Submit, outboxVars, OutboxInv, Store!Exists
    <3>2. CASE Outbox!EnsureOutbox(t)
      BY <1>3, <3>2 DEF Outbox!EnsureOutbox, Outbox!Unclaimed, Outbox!OutboxRow
    <3> QED BY <3>1, <3>2 DEF Submit
  <2>3. OutboxInv'
    BY <1>2, <1>3, <1>4, <2>1, <2>2, SubmittedStays DEF OutboxInv, Outbox!OutboxTypeOK
  <2>4. ASSUME NEW d \in Dispatchers, dispatch'[d].pc = "marking"
        PROVE  Tracked(dispatch[d].record)'
    <3>1. PICK r \in Tasks : r = dispatch[d].record
      BY <1>3, <2>1, <2>4 DEF OutboxInv, Submitted
    <3>2. Tracked(r)' BY <1>3, <1>5, <2>1, <2>4, <3>1 DEF PublishedIsTracked, TrackedKept
    <3> QED BY <2>1, <3>1, <3>2 DEF Tracked, Store!Terminal, Store!Exhausted, Fresh
  <2>5. PublishedIsTracked'
    BY <1>3, <1>5, <2>1, <2>2, <2>4 DEF PublishedIsTracked, TrackedKept
  <2> QED BY <2>3, <2>5 DEF OutboxKept
<1>6. PInv' BY <1>2, <1>4, <1>5, QuietStep DEF Submit, PInv
<1> QED BY <1>1, <1>6

\* The dispatchers: the store is left alone.
LEMMA DispatchInv ==
  ASSUME OutboxInv, PublishedIsTracked, StoreKept, TrackedKept, UNCHANGED storeVars,
         Outbox!OutboxTypeOK',
         \A t \in Tasks : /\ outbox'[t].status = "absent" <=> outbox[t].status = "absent"
                          /\ outbox'[t].status = "published" =>
                               outbox[t].status = "published" \/ Tracked(t)',
         \A d \in Dispatchers :
           \/ dispatch'[d] = dispatch[d]
           \/ dispatch'[d].pc = "idle"
           \/ dispatch'[d].pc # "marking" /\ dispatch'[d].record \in Submitted
           \/ \E t \in Submitted : dispatch'[d].record = t /\ Tracked(t)'
  PROVE  OutboxKept
<1>1. \A t \in Tasks : Store!Exists(t)' = Store!Exists(t) BY DEF storeVars, Store!Exists
<1>2. \A d \in Dispatchers : dispatch'[d].pc # "idle" => dispatch'[d].record \in Submitted'
  BY SubmittedStays DEF OutboxInv
<1>3. ASSUME NEW d \in Dispatchers, dispatch'[d].pc = "marking"
      PROVE  Tracked(dispatch[d].record)'
  <2>1. PICK r \in Tasks : r = dispatch'[d].record BY <1>2, <1>3 DEF Submitted
  <2>2. Tracked(r)'
    <3>1. CASE dispatch'[d] = dispatch[d]
      <4>1. Tracked(r) BY <1>3, <2>1, <3>1 DEF PublishedIsTracked
      <4> QED BY <4>1 DEF TrackedKept
    <3>2. CASE \E t \in Submitted : dispatch'[d].record = t /\ Tracked(t)'
      <4>1. PICK t : dispatch'[d].record = t /\ Tracked(t)' BY <3>2
      <4> QED BY <2>1, <4>1 DEF Tracked, Store!Terminal, Store!Exhausted, Fresh
    <3> QED BY <1>3, <3>1, <3>2
  <2> QED BY <2>1, <2>2 DEF Tracked, Store!Terminal, Store!Exhausted, Fresh
<1>4. PublishedIsTracked' BY <1>3 DEF PublishedIsTracked, TrackedKept
<1>5. OutboxInv' BY <1>1, <1>2 DEF OutboxInv
<1> QED BY <1>4, <1>5 DEF OutboxKept

LEMMA DispatchTypes ==
  ASSUME PInv
  PROVE  /\ OutboxInv /\ PublishedIsTracked /\ QueueInv
         /\ outbox \in [Tasks -> Outbox!OutboxRow]
         /\ dispatch \in [Dispatchers -> Outbox!Dispatch]
         /\ \A d \in Dispatchers : IdOf[d] \in Ids
BY OutboxConstants DEF PInv, OutboxInv, Outbox!OutboxTypeOK

LEMMA ClaimRecordPInv ==
  ASSUME PInv, NEW d \in Dispatchers, NEW t \in Tasks, ClaimRecord(d, t)
  PROVE  PInv' /\ StoreFollows
<1>1. UNCHANGED storeVars /\ UNCHANGED queueVars /\ UNCHANGED <<phase, calm>>
  BY DEF ClaimRecord
<1>2. StoreFollows /\ StoreKept BY <1>1, StoreSkip, StoreWithin
<1> DEFINE x == [status |-> "claimed", claimedBy |-> IdOf[d], expired |-> FALSE]
           y == [pc |-> "publishing", record |-> t]
<1>3. x \in Outbox!OutboxRow /\ y \in Outbox!Dispatch
  BY DispatchTypes DEF Outbox!OutboxRow, Outbox!Dispatch
<1>4. outbox' = [outbox EXCEPT ![t] = x] /\ dispatch' = [dispatch EXCEPT ![d] = y]
  BY DEF ClaimRecord, Outbox!ClaimRecord
<1>5. outbox[t].status # "absent" BY DEF ClaimRecord, Outbox!ClaimRecord, Outbox!ClaimableRecord
<1>6. t \in Submitted BY <1>5, DispatchTypes DEF OutboxInv, Submitted
<1>7. x.status = "claimed" /\ y.pc = "publishing" /\ y.record = t OBVIOUS
<1> HIDE DEF x, y
<1>8. Outbox!OutboxTypeOK' BY <1>3, <1>4, DispatchTypes DEF Outbox!OutboxTypeOK
<1>9. TrackedKept => OutboxKept
  BY <1>1, <1>2, <1>4, <1>5, <1>6, <1>7, <1>8, DispatchTypes, DispatchInv
<1>10. PInv' BY <1>1, <1>2, <1>9, QuietStep DEF storeVars, PInv
<1> QED BY <1>2, <1>10

LEMMA PublishPInv ==
  ASSUME PInv, NEW d \in Dispatchers, PublishMessage(d) PROVE PInv' /\ StoreFollows
<1>1. UNCHANGED storeVars /\ UNCHANGED <<phase, calm>> BY DEF PublishMessage
<1>2. StoreFollows /\ StoreKept BY <1>1, StoreSkip, StoreWithin
<1>3. dispatch[d].record \in Submitted
  BY DispatchTypes DEF PublishMessage, OutboxInv
<1>4. PICK m \in Submitted : m = dispatch[d].record BY <1>3
<1>5. NoTask \notin Tasks BY StoreConstants
<1>6. consumer' = consumer /\ exec' = exec /\ phase' = phase /\ poisoned' = poisoned
      /\ deadLetters' = deadLetters /\ calm' = calm
  BY <1>1 DEF PublishMessage, queueVars, storeVars, Queue!Publish
<1>7. PICK pc \in {"marking", "releasing"} :
        /\ dispatch' = [dispatch EXCEPT ![d].pc = pc] /\ outbox' = outbox
        /\ QueueKept(NoTask) /\ (pc = "marking" => Fresh(m)')
  <2>1. CASE Queue!Publish(m) /\ Outbox!Published(d)
    BY <1>2, <2>1, PublishStep, DispatchTypes DEF Outbox!Published
  <2>2. CASE (Queue!Publish(m) \/ UNCHANGED queueVars) /\ Outbox!PublishFailed(d)
    BY <1>2, <2>2, PublishStep, QueueStutter, DispatchTypes DEF Outbox!PublishFailed
  <2> QED BY <1>4, <2>1, <2>2 DEF PublishMessage
<1> DEFINE y == [dispatch[d] EXCEPT !.pc = pc]
<1>8. y \in Outbox!Dispatch /\ y.pc = pc /\ y.record = m
  BY <1>4, DispatchTypes DEF Outbox!Dispatch
<1>9. dispatch' = [dispatch EXCEPT ![d] = y] BY <1>7
<1> HIDE DEF y
<1>10. Outbox!OutboxTypeOK' BY <1>7, <1>8, <1>9, DispatchTypes DEF Outbox!OutboxTypeOK
<1>11. Fresh(m)' => Tracked(m)' BY DEF Tracked
<1>12. TrackedKept => OutboxKept
  BY <1>1, <1>2, <1>7, <1>8, <1>9, <1>10, <1>11, DispatchTypes, DispatchInv
<1>13. phase' \in [Workers -> Phase] BY <1>6 DEF PInv, WorkerInv
<1>14. PInv' BY <1>2, <1>5, <1>6, <1>7, <1>12, <1>13, PInvStep DEF PInv
<1> QED BY <1>2, <1>14

LEMMA OutcomePInv ==
  ASSUME PInv, NEW d \in Dispatchers, RecordOutcome(d) PROVE PInv' /\ StoreFollows
<1>1. UNCHANGED storeVars /\ UNCHANGED queueVars /\ UNCHANGED <<phase, calm>>
  BY DEF RecordOutcome
<1>2. StoreFollows /\ StoreKept BY <1>1, StoreSkip, StoreWithin
<1>3. dispatch[d].record \in Submitted
  BY DispatchTypes DEF RecordOutcome, Outbox!RecordOutcome, OutboxInv
<1>4. PICK m \in Submitted : m = dispatch[d].record BY <1>3
<1>5. m \in Tasks BY DEF Submitted
<1>6. Outbox!AtRest \in Outbox!Dispatch /\ Outbox!AtRest.pc = "idle"
  BY DEF Outbox!AtRest, Outbox!Dispatch
<1> DEFINE x == Outbox!Unclaimed(Outbox!Outcome(d))
<1>7. /\ x \in Outbox!OutboxRow /\ x.status \in {"published", "pending"}
      /\ x.status = "published" => dispatch[d].pc = "marking"
  BY DEF Outbox!Unclaimed, Outbox!Outcome, Outbox!OutboxRow
<1>8. /\ dispatch' = [dispatch EXCEPT ![d] = Outbox!AtRest]
      /\ \/ outbox' = outbox
         \/ outbox' = [outbox EXCEPT ![m] = x] /\ outbox[m].status = "claimed"
  BY <1>4 DEF RecordOutcome, Outbox!RecordOutcome, Outbox!StillClaimed
<1> HIDE DEF x
<1>9. Outbox!OutboxTypeOK' BY <1>5, <1>6, <1>7, <1>8, DispatchTypes DEF Outbox!OutboxTypeOK
<1>10. ASSUME TrackedKept, dispatch[d].pc = "marking" PROVE Tracked(m)'
  <2>1. Tracked(m) BY <1>4, <1>10, DispatchTypes DEF PublishedIsTracked
  <2> QED BY <1>5, <1>10, <2>1 DEF TrackedKept
<1>11. ASSUME TrackedKept PROVE OutboxKept
  <2>1. ASSUME NEW t \in Tasks, outbox'[t].status = "published"
        PROVE  outbox[t].status = "published" \/ Tracked(t)'
    <3>1. CASE t = m
      <4>1. CASE outbox' = outbox BY <2>1, <4>1
      <4>2. CASE outbox' = [outbox EXCEPT ![m] = x]
        <5>1. Tracked(m)' BY <1>5, <1>7, <1>10, <1>11, <2>1, <3>1, <4>2, DispatchTypes
        <5> QED BY <3>1, <5>1 DEF Tracked, Store!Terminal, Store!Exhausted, Fresh
      <4> QED BY <1>8, <4>1, <4>2
    <3>2. CASE t # m BY <1>8, <2>1, <3>2, DispatchTypes
    <3> QED BY <3>1, <3>2
  <2>2. \A t \in Tasks : outbox'[t].status = "absent" <=> outbox[t].status = "absent"
    BY <1>5, <1>7, <1>8, DispatchTypes
  <2>3. \A e \in Dispatchers : dispatch'[e] = dispatch[e] \/ dispatch'[e].pc = "idle"
    BY <1>6, <1>8, DispatchTypes
  <2> QED BY <1>1, <1>2, <1>9, <1>11, <2>1, <2>2, <2>3, DispatchTypes, DispatchInv
<1>12. PInv' BY <1>1, <1>2, <1>11, QuietStep DEF storeVars, PInv
<1> QED BY <1>2, <1>12

LEMMA OutboxTimePInv ==
  ASSUME PInv, \/ \E d \in Dispatchers : DispatcherCrash(d)
               \/ \E t \in Tasks : ClaimExpires(t)
  PROVE  PInv' /\ StoreFollows
<1>1. UNCHANGED storeVars /\ UNCHANGED queueVars /\ UNCHANGED <<phase, calm>>
  BY DEF DispatcherCrash, ClaimExpires
<1>2. StoreFollows /\ StoreKept BY <1>1, StoreSkip, StoreWithin
<1>3. ASSUME NEW d \in Dispatchers, DispatcherCrash(d) PROVE TrackedKept => OutboxKept
  <2>1. Outbox!AtRest \in Outbox!Dispatch /\ Outbox!AtRest.pc = "idle"
    BY DEF Outbox!AtRest, Outbox!Dispatch
  <2>2. outbox' = outbox /\ dispatch' = [dispatch EXCEPT ![d] = Outbox!AtRest]
    BY <1>3 DEF DispatcherCrash, Outbox!DropDispatch
  <2>3. Outbox!OutboxTypeOK' BY <2>1, <2>2, DispatchTypes DEF Outbox!OutboxTypeOK
  <2> QED BY <1>1, <1>2, <2>1, <2>2, <2>3, DispatchTypes, DispatchInv
<1>4. ASSUME NEW t \in Tasks, ClaimExpires(t) PROVE TrackedKept => OutboxKept
  <2> DEFINE x == [outbox[t] EXCEPT !.expired = TRUE]
  <2>1. x \in Outbox!OutboxRow /\ x.status = outbox[t].status
    BY DispatchTypes DEF Outbox!OutboxRow
  <2>2. outbox' = [outbox EXCEPT ![t] = x] /\ dispatch' = dispatch
    BY <1>4 DEF ClaimExpires, Outbox!ClaimExpires
  <2> HIDE DEF x
  <2>3. Outbox!OutboxTypeOK' BY <2>1, <2>2, DispatchTypes DEF Outbox!OutboxTypeOK
  <2> QED BY <1>1, <1>2, <2>1, <2>2, <2>3, DispatchTypes, DispatchInv
<1>5. TrackedKept => OutboxKept BY <1>3, <1>4
<1>6. PInv' BY <1>1, <1>2, <1>5, QuietStep DEF storeVars, PInv
<1> QED BY <1>2, <1>6
------------------------------------------------------------------------------
(* The worker *)

\* A step of worker w that leaves the outbox alone, given what it does to the
\* queue, the store and the worker.
LEMMA WorkerStepPInv ==
  ASSUME PInv, StoreFollows, NEW w \in Workers, NEW m, QueueKept(m),
         poisoned \subseteq poisoned', m \in Tasks => Tracked(m)',
         \A t \in deadLetters' : t \in deadLetters \/ Store!Exhausted(t)',
         \A t \in Tasks : Store!Exists(t)' => Store!Exists(t),
         UNCHANGED outboxVars, calm' = calm,
         phase' \in [Workers -> Phase], WorkerFine(w)',
         \A v \in Workers : v # w => /\ phase'[v] = phase[v] /\ consumer'[v] = consumer[v]
                                     /\ exec'[v] = exec[v]
  PROVE  PInv'
<1>1. StoreKept BY StoreWithin
<1>2. OutboxInv /\ PublishedIsTracked BY DEF PInv
<1>3. TrackedKept => OutboxKept BY <1>1, <1>2, OutboxRests
<1>4. calm' \in BOOLEAN BY DEF PInv
<1> QED BY <1>1, <1>3, <1>4, PInvStep

\* The types the steps below need, and the message in hand.
LEMMA WorkerTypes ==
  ASSUME PInv
  PROVE  /\ QueueInv /\ WorkerInv /\ StoreProofs!IInv
         /\ phase \in [Workers -> Phase] /\ exec \in [Workers -> Store!Execution]
         /\ consumer \in [Workers -> Queue!Consumer]
         /\ task \in [Tasks -> Store!TaskRow]
         /\ \A w \in Workers : WorkerFine(w)
         /\ \A w \in Workers : phase[w] # "none" =>
              /\ consumer[w].pc = "holding" /\ Holds(w)
              /\ consumer[w].msg \in Submitted /\ consumer[w].msg \in Tasks
              /\ Store!Exists(consumer[w].msg)
<1>1. QueueInv /\ WorkerInv /\ StoreProofs!IInv /\ phase \in [Workers -> Phase]
      /\ \A w \in Workers : WorkerFine(w)
  BY DEF PInv, WorkerInv
<1>2. exec \in [Workers -> Store!Execution] /\ task \in [Tasks -> Store!TaskRow]
  BY <1>1, StoreTypes DEF Store!TypeOK
<1>3. consumer \in [Workers -> Queue!Consumer] BY <1>1, TablesTyped
<1>4. ASSUME NEW w \in Workers, phase[w] # "none"
      PROVE  /\ consumer[w].pc = "holding" /\ Holds(w)
             /\ consumer[w].msg \in Submitted /\ consumer[w].msg \in Tasks
             /\ Store!Exists(consumer[w].msg)
  BY <1>1, <1>4 DEF WorkerFine, Holds, QueueInv, Submitted
<1> QED BY <1>1, <1>2, <1>3, <1>4

\* A consumer that rests holds nothing a worker relies on.
LEMMA Rested ==
  ASSUME NEW w, phase'[w] = "none", exec'[w].pc = "idle" PROVE WorkerFine(w)'
BY DEF WorkerFine

LEMMA SameStoreExists == ASSUME UNCHANGED storeVars
                         PROVE  \A t \in Tasks : Store!Exists(t)' => Store!Exists(t)
BY DEF storeVars, Store!Exists

LEMMA ConsumePInv ==
  ASSUME PInv, NEW w \in Workers, ConsumeNext(w) PROVE PInv' /\ StoreFollows
<1>1. /\ UNCHANGED storeVars /\ UNCHANGED outboxVars /\ calm' = calm /\ exec' = exec
      /\ phase[w] = "none" /\ Queue!Consume(w)
  BY DEF ConsumeNext, storeVars
<1>2. StoreFollows /\ StoreKept BY <1>1, StoreSkip, StoreWithin
<1>3. PICK m : QueueKept(m) /\ (m \in Tasks => m \in poisoned')
  BY <1>1, <1>2, WorkerTypes, ConsumeStep
<1>4. /\ poisoned \subseteq poisoned' /\ deadLetters' = deadLetters
      /\ \A v \in Workers : v # w => consumer'[v] = consumer[v]
  BY <1>1, <1>2, WorkerTypes, ConsumeStep
<1>5. PICK p \in {"read", "none"} : /\ phase' = [phase EXCEPT ![w] = p]
                                    /\ p = "read" => consumer'[w].pc = "holding"
  BY DEF ConsumeNext, Enter
<1>6. phase' \in [Workers -> Phase] /\ phase'[w] = p
      /\ \A v \in Workers : v # w => phase'[v] = phase[v]
  BY <1>5, WorkerTypes DEF Phase
<1>7. WorkerFine(w)' BY <1>1, <1>5, <1>6, WorkerTypes DEF WorkerFine
<1>8. m \in Tasks => Tracked(m)'
  <2>1. m \in poisoned' => Tracked(m)' BY DEF Tracked
  <2> QED BY <1>3, <2>1
<1>9. PInv'
  BY <1>1, <1>2, <1>3, <1>4, <1>6, <1>7, <1>8, SameStoreExists, WorkerStepPInv
<1> QED BY <1>2, <1>9

LEMMA CountFailsPInv ==
  ASSUME PInv, NEW w \in Workers, CountFails(w) PROVE PInv' /\ StoreFollows
<1>1. /\ UNCHANGED storeVars /\ UNCHANGED outboxVars /\ calm' = calm /\ exec' = exec
      /\ phase' = phase /\ Queue!CountFails(w)
  BY DEF CountFails, storeVars
<1>2. StoreFollows /\ StoreKept BY <1>1, StoreSkip, StoreWithin
<1>3. QueueKept(NoTask) /\ NoTask \notin Tasks
  BY <1>1, <1>2, WorkerTypes, CountFailsStep, StoreConstants
<1>4. /\ poisoned' = poisoned /\ deadLetters' = deadLetters
      /\ \A v \in Workers : v # w => consumer'[v] = consumer[v]
  BY <1>1, WorkerTypes DEF Queue!CountFails
<1>5. phase[w] = "none" BY <1>1, WorkerTypes DEF Queue!CountFails
<1>6. WorkerFine(w)' BY <1>1, <1>5, WorkerTypes DEF WorkerFine
<1>7. PInv'
  BY <1>1, <1>2, <1>3, <1>4, <1>6, WorkerTypes, SameStoreExists, WorkerStepPInv
<1> QED BY <1>2, <1>7

LEMMA InspectPInv ==
  ASSUME PInv, NEW w \in Workers, InspectTask(w) PROVE PInv' /\ StoreFollows
<1>1. /\ UNCHANGED storeVars /\ UNCHANGED queueVars /\ UNCHANGED outboxVars /\ calm' = calm
      /\ exec' = exec /\ consumer' = consumer /\ deadLetters' = deadLetters
      /\ poisoned' = poisoned /\ task' = task /\ phase[w] = "read"
  BY DEF InspectTask, storeVars, queueVars
<1>2. StoreFollows /\ StoreKept BY <1>1, StoreSkip, StoreWithin
<1>3. QueueKept(NoTask) /\ NoTask \notin Tasks
  BY <1>1, <1>2, WorkerTypes, QueueStutter, StoreConstants
<1>4. PICK t \in Tasks : t = consumer[w].msg /\ Store!Exists(t) BY <1>1, WorkerTypes
<1>5. evaluation[t] # "none" <=> task[t].status = "succeeded" BY WorkerTypes, StoreTypes
<1>6. PICK p \in {"ack", "dead", "claim"} :
        /\ phase' = [phase EXCEPT ![w] = p]
        /\ p = "ack" => Store!Terminal(t)
        /\ p = "dead" => Store!Exhausted(t)
  BY <1>4, <1>5 DEF InspectTask, Enter, AfterRead, Store!Terminal
<1>7. phase' \in [Workers -> Phase] /\ phase'[w] = p
      /\ \A v \in Workers : v # w => phase'[v] = phase[v]
  BY <1>6, WorkerTypes DEF Phase
<1>8. WorkerFine(w)'
  BY <1>1, <1>4, <1>6, <1>7, WorkerTypes DEF WorkerFine, Store!Terminal, Store!Exhausted
<1>9. PInv'
  BY <1>1, <1>2, <1>3, <1>7, <1>8, SameStoreExists, WorkerStepPInv
<1> QED BY <1>2, <1>9

\* Leaving the entry pending.
LEMMA LeaveStep ==
  ASSUME PInv, StoreFollows, NEW w \in Workers, LeavePending(w), UNCHANGED outboxVars,
         calm' = calm, exec'[w].pc = "idle",
         \A v \in Workers : v # w => exec'[v] = exec[v],
         \A t \in Tasks : Store!Exists(t)' => Store!Exists(t)
  PROVE  PInv'
<1>1. QueueKept(NoTask) /\ NoTask \notin Tasks
  BY StoreWithin, WorkerTypes, LetGoStep, StoreConstants DEF LeavePending
<1>2. /\ poisoned' = poisoned /\ deadLetters' = deadLetters
      /\ \A v \in Workers : v # w => consumer'[v] = consumer[v]
  BY WorkerTypes DEF LeavePending, Queue!LetGo
<1>3. phase' \in [Workers -> Phase] /\ phase'[w] = "none"
      /\ \A v \in Workers : v # w => phase'[v] = phase[v]
  BY WorkerTypes DEF LeavePending, Enter, Phase
<1> QED BY <1>1, <1>2, <1>3, Rested, WorkerStepPInv

\* Going on with the delivery in hand.
LEMMA GoOnStep ==
  ASSUME PInv, StoreFollows, NEW w \in Workers, UNCHANGED queueVars, UNCHANGED outboxVars,
         calm' = calm, NEW p \in Phase, phase' = [phase EXCEPT ![w] = p],
         phase'[w] = p => WorkerFine(w)',
         \A v \in Workers : v # w => exec'[v] = exec[v],
         \A t \in Tasks : Store!Exists(t)' => Store!Exists(t)
  PROVE  PInv'
<1>1. QueueKept(NoTask) /\ NoTask \notin Tasks
  BY StoreWithin, WorkerTypes, QueueStutter, StoreConstants
<1>2. UNCHANGED <<poisoned, deadLetters, consumer>> BY DEF queueVars
<1>3. phase' \in [Workers -> Phase] /\ phase'[w] = p
      /\ \A v \in Workers : v # w => phase'[v] = phase[v]
  BY WorkerTypes
<1> QED BY <1>1, <1>2, <1>3, WorkerStepPInv
LEMMA ClaimPInv ==
  ASSUME PInv, NEW w \in Workers, ClaimTask(w) PROVE PInv' /\ StoreFollows
<1>1. phase[w] = "claim" /\ UNCHANGED outboxVars /\ calm' = calm
  BY DEF ClaimTask
<1>2. PICK t \in Tasks : t = consumer[w].msg /\ Store!Exists(t) BY <1>1, WorkerTypes
<1>3. Store!Claim(w, t) BY <1>2 DEF ClaimTask
<1>4. StoreFollows BY <1>3 DEF StoreFollows, Store!Next
<1>5. /\ exec[w].pc = "idle"
      /\ \A v \in Workers : v # w => exec'[v] = exec[v]
      /\ \A u \in Tasks : Store!Exists(u)' => Store!Exists(u)
  <2>1. \A v \in Workers : v # w => exec'[v] = exec[v]
    BY <1>3, WorkerTypes DEF Store!Claim
  <2>2. \A u \in Tasks : u # t => task'[u] = task[u]
    BY <1>3, WorkerTypes DEF Store!Claim, Store!Exhaust, Store!Take
  <2> QED BY <1>2, <1>3, <2>1, <2>2 DEF Store!Claim, Store!Exists
\* The execution starts exactly when the claimed row names this worker.
<1>6. /\ \/ exec'[w] = exec[w]
         \/ exec'[w].task = t /\ task'[t].owner = w
      /\ task'[t].owner = w => task'[t].status = "running"
  <2>1. CASE Store!Exhaust(t) /\ UNCHANGED exec
    <3>1. task'[t].owner = NoOne
      BY <2>1, WorkerTypes DEF Store!Exhaust, Store!Released, Store!TaskRow
    <3> QED BY <2>1, <3>1, StoreConstants
  <2>2. CASE Store!Take(w, t) /\ exec' = [exec EXCEPT ![w] =
                                            [pc |-> "claimed", task |-> t, attempt |-> 0]]
    BY <2>2, WorkerTypes DEF Store!Take
  <2>3. CASE UNCHANGED task /\ exec' = IF task[t].owner = w
                                       THEN [exec EXCEPT ![w] = [pc |-> "claimed", task |-> t,
                                                                 attempt |-> 0]]
                                       ELSE exec
    <3>1. task[t].owner = w => task[t].status = "running"
      BY WorkerTypes, StoreTypes, StoreConstants
    <3> QED BY <2>3, <3>1, WorkerTypes
  <2> QED BY <1>3, <2>1, <2>2, <2>3 DEF Store!Claim
<1>7. CASE /\ task'[t].status = "failed" /\ task'[t].attempt = MaxAttempts
           /\ Enter(w, "dead") /\ UNCHANGED queueVars
  <2>1. exec'[w].pc = "idle" BY <1>5, <1>6, <1>7
  <2>2. consumer' = consumer BY <1>7 DEF queueVars
  <2>3. phase'[w] = "dead" => WorkerFine(w)'
    BY <1>1, <1>2, <1>7, <2>1, <2>2, WorkerTypes DEF WorkerFine, Store!Exhausted
  <2>4. phase' = [phase EXCEPT ![w] = "dead"] BY <1>7 DEF Enter
  <2>5. PInv' BY <1>1, <1>4, <1>5, <1>7, <2>3, <2>4, GoOnStep DEF Phase
  <2> QED BY <1>4, <2>5
<1>8. CASE task'[t].owner = w /\ Enter(w, "run") /\ UNCHANGED queueVars
  <2>1. consumer' = consumer BY <1>8 DEF queueVars
  <2>2. phase'[w] = "run" => WorkerFine(w)'
    BY <1>1, <1>2, <1>5, <1>6, <2>1, WorkerTypes DEF WorkerFine
  <2>3. phase' = [phase EXCEPT ![w] = "run"] BY <1>8 DEF Enter
  <2>4. PInv' BY <1>1, <1>4, <1>5, <1>8, <2>2, <2>3, GoOnStep DEF Phase
  <2> QED BY <1>4, <2>4
<1>9. CASE task'[t].owner # w /\ LeavePending(w)
  <2>1. exec'[w].pc = "idle" BY <1>5, <1>6, <1>9
  <2> QED BY <1>1, <1>4, <1>5, <1>9, <2>1, LeaveStep
<1> QED BY <1>2, <1>7, <1>8, <1>9 DEF ClaimTask

LEMMA BeginPInv ==
  ASSUME PInv, NEW w \in Workers, BeginExecution(w) PROVE PInv' /\ StoreFollows
<1>1. /\ phase[w] = "run" /\ UNCHANGED outboxVars /\ calm' = calm /\ task' = task
      /\ Store!BeginExecution(w) /\ exec[w].pc = "claimed"
  BY DEF BeginExecution, Store!BeginExecution
<1>2. StoreFollows BY <1>1 DEF StoreFollows, Store!Next
<1>3. /\ \A v \in Workers : v # w => exec'[v] = exec[v]
      /\ \A u \in Tasks : Store!Exists(u)' => Store!Exists(u)
      /\ exec'[w].pc = "idle" \/ (exec'[w].pc = "evaluating" /\ exec'[w].task = exec[w].task)
  <2>1. PICK t : t = exec[w].task OBVIOUS
  <2>2. exec' = [exec EXCEPT ![w] = IF Store!HoldsLease(w, t)
                                    THEN [pc |-> "evaluating", task |-> t,
                                          attempt |-> task[t].attempt]
                                    ELSE Store!Idle]
    BY <1>1, <2>1 DEF Store!BeginExecution
  <2>3. \A v \in Workers : v # w => exec'[v] = exec[v] BY <2>2, WorkerTypes
  <2>4. exec'[w].pc = "idle" \/ (exec'[w].pc = "evaluating" /\ exec'[w].task = exec[w].task)
    BY <2>1, <2>2, WorkerTypes DEF Store!Idle
  <2> QED BY <1>1, <2>3, <2>4 DEF Store!Exists
<1>4. CASE exec'[w].pc = "evaluating" /\ UNCHANGED <<queueVars, phase>>
  <2>1. consumer' = consumer /\ UNCHANGED queueVars BY <1>4 DEF queueVars
  <2>2. phase' = [phase EXCEPT ![w] = "run"] BY <1>1, <1>4, WorkerTypes
  <2>3. exec[w].task = consumer[w].msg BY <1>1, WorkerTypes DEF WorkerFine
  <2>4. phase'[w] = "run" => WorkerFine(w)'
    BY <1>1, <1>3, <1>4, <2>1, <2>3, WorkerTypes DEF WorkerFine
  <2>5. PInv' BY <1>1, <1>2, <1>3, <2>1, <2>2, <2>4, GoOnStep DEF Phase
  <2> QED BY <1>2, <2>5
<1>5. CASE exec'[w].pc # "evaluating" /\ LeavePending(w)
  BY <1>1, <1>2, <1>3, <1>5, LeaveStep
<1> QED BY <1>4, <1>5 DEF BeginExecution

LEMMA FinishPInv ==
  ASSUME PInv, NEW w \in Workers, NEW o \in {"succeeded", "failed"}, FinishExecution(w, o)
  PROVE  PInv' /\ StoreFollows
<1>1. /\ phase[w] = "run" /\ UNCHANGED outboxVars /\ calm' = calm
      /\ Store!FinishExecution(w, o) /\ exec[w].pc = "evaluating"
  BY DEF FinishExecution, Store!FinishExecution
<1>2. StoreFollows BY <1>1 DEF StoreFollows, Store!Next
<1>3. PICK t \in Tasks : t = exec[w].task /\ t = consumer[w].msg
  BY <1>1, WorkerTypes DEF WorkerFine
<1> DEFINE row == [task[t] EXCEPT !.attempt = exec[w].attempt]
<1>4. row \in Store!TaskRow
  BY WorkerTypes DEF Store!Execution, Store!TaskRow
<1>5. /\ exec'[w].pc = "idle"
      /\ \A v \in Workers : v # w => exec'[v] = exec[v]
  BY <1>1, WorkerTypes DEF Store!FinishExecution, Store!Idle
<1>6. IF Store!HoldsLease(w, t)
      THEN task' = [task EXCEPT ![t] = IF o = "succeeded"
                                       THEN Store!Released(row, "succeeded", "none")
                                       ELSE Store!Released(row, "failed", "execution_failed")]
      ELSE UNCHANGED task
  BY <1>1, <1>3 DEF Store!FinishExecution
<1> HIDE DEF row
<1>7. Store!HoldsLease(w, t) => /\ task'[t].status \in {"succeeded", "failed"}
                                /\ task'[t].attempt \in 0 .. MaxAttempts
  <2>1. ASSUME NEW s, NEW c
        PROVE  /\ Store!Released(row, s, c).status = s
               /\ Store!Released(row, s, c).attempt \in 0 .. MaxAttempts
    BY <1>4 DEF Store!Released, Store!TaskRow
  <2> QED BY <1>6, <2>1, WorkerTypes
<1>8. \A u \in Tasks : Store!Exists(u)' => Store!Exists(u)
  BY <1>6, WorkerTypes DEF Store!Exists, Store!HoldsLease
<1>9. CASE Store!HoldsLease(w, t)
  <2>1. PICK p \in {"ack", "dead", "retry"} :
          /\ phase' = [phase EXCEPT ![w] = p]
          /\ p = "ack" => task'[t].status = "succeeded"
          /\ p = "dead" => task'[t].status = "failed" /\ task'[t].attempt = MaxAttempts
    <3>1. phase' = [phase EXCEPT ![w] = AfterRun(task'[t])]
      BY <1>3, <1>9 DEF FinishExecution, Enter
    <3>2. task'[t].attempt >= MaxAttempts => task'[t].attempt = MaxAttempts
      BY <1>7, <1>9, StoreConstants
    <3>3. /\ AfterRun(task'[t]) \in {"ack", "dead", "retry"}
          /\ AfterRun(task'[t]) = "ack" => task'[t].status = "succeeded"
          /\ AfterRun(task'[t]) = "dead" => /\ task'[t].status = "failed"
                                            /\ task'[t].attempt = MaxAttempts
      BY <1>7, <1>9, <3>2 DEF AfterRun
    <3> QED BY <3>1, <3>3
  <2>2. UNCHANGED queueVars BY <1>3, <1>9 DEF FinishExecution
  <2>3. consumer' = consumer BY <2>2 DEF queueVars
  <2>4. phase'[w] = p => WorkerFine(w)'
    BY <1>1, <1>3, <1>5, <2>1, <2>3, WorkerTypes
    DEF WorkerFine, Store!Terminal, Store!Exhausted
  <2>5. PInv' BY <1>1, <1>2, <1>5, <1>8, <2>1, <2>2, <2>4, GoOnStep DEF Phase
  <2> QED BY <1>2, <2>5
<1>10. CASE ~Store!HoldsLease(w, t)
  <2>1. LeavePending(w) BY <1>3, <1>10 DEF FinishExecution
  <2> QED BY <1>1, <1>2, <1>5, <1>8, <2>1, LeaveStep
<1> QED BY <1>9, <1>10

LEMMA SettlePInv ==
  ASSUME PInv, NEW w \in Workers, Settle(w) PROVE PInv' /\ StoreFollows
<1>1. /\ UNCHANGED storeVars /\ UNCHANGED outboxVars /\ calm' = calm /\ exec' = exec
      /\ task' = task /\ phase[w] \in {"ack", "retry", "dead", "none"}
      /\ phase' = [phase EXCEPT ![w] = "none"]
  BY DEF Settle, storeVars, Enter
<1>2. StoreFollows /\ StoreKept BY <1>1, StoreSkip, StoreWithin
<1>3. /\ phase' \in [Workers -> Phase] /\ phase'[w] = "none"
      /\ \A v \in Workers : v # w => phase'[v] = phase[v]
  BY <1>1, WorkerTypes DEF Phase
<1>4. WorkerFine(w)' BY <1>1, <1>3, WorkerTypes, Rested DEF WorkerFine
<1>5. ASSUME NEW m, QueueKept(m), poisoned \subseteq poisoned', m \in Tasks => Tracked(m)',
             \A t \in deadLetters' : t \in deadLetters \/ Store!Exhausted(t)',
             \A v \in Workers : v # w => consumer'[v] = consumer[v]
      PROVE  PInv'
  BY <1>1, <1>2, <1>3, <1>4, <1>5, SameStoreExists, WorkerStepPInv
<1>6. ASSUME phase[w] # "none" PROVE \E m \in Tasks : m = consumer[w].msg
  BY <1>6, WorkerTypes
<1>7. CASE phase[w] = "ack" /\ Queue!Acknowledge(w)
  <2>1. PICK m \in Tasks : m = consumer[w].msg BY <1>6, <1>7
  <2>2. QueueKept(m) BY <1>2, <1>7, <2>1, WorkerTypes, AckStep
  <2>3. Store!Terminal(m)
    BY <1>7, <2>1, WorkerTypes DEF WorkerFine
  <2>4. Tracked(m)' BY <1>2, <2>3 DEF StoreKept, Tracked
  <2>5. /\ poisoned' = poisoned /\ deadLetters' = deadLetters
        /\ \A v \in Workers : v # w => consumer'[v] = consumer[v]
    BY <1>7, WorkerTypes DEF Queue!Acknowledge
  <2>6. PInv' BY <1>5, <2>2, <2>4, <2>5
  <2> QED BY <1>2, <2>6
<1>8. CASE phase[w] = "retry" /\ Queue!Retry(w)
  <2>1. PICK m \in Tasks : m = consumer[w].msg BY <1>6, <1>8
  <2>2. QueueKept(consumer[w].msg) /\ Fresh(m)' BY <1>2, <1>8, <2>1, WorkerTypes, RecordStep
  <2>3. QueueKept(m) BY <2>1, <2>2 DEF QueueKept, FreshKept
  <2>4. Tracked(m)' BY <2>2 DEF Tracked
  <2>5. /\ poisoned' = poisoned /\ deadLetters' = deadLetters
        /\ \A v \in Workers : v # w => consumer'[v] = consumer[v]
    BY <1>8, WorkerTypes DEF Queue!Retry
  <2>6. PInv' BY <1>5, <2>3, <2>4, <2>5
  <2> QED BY <1>2, <2>6
<1>9. CASE phase[w] = "dead" /\ Queue!DeadLetter(w)
  <2>1. PICK m \in Tasks : m = consumer[w].msg BY <1>6, <1>9
  <2>2. QueueKept(consumer[w].msg) BY <1>2, <1>9, WorkerTypes, RecordStep
  <2>3. QueueKept(m) BY <2>1, <2>2 DEF QueueKept, FreshKept
  <2>4. Store!Exhausted(m) BY <1>9, <2>1, WorkerTypes DEF WorkerFine
  <2>5. Tracked(m)' /\ Store!Exhausted(m)'
    BY <1>2, <2>4 DEF StoreKept, Tracked, Store!Terminal
  <2>6. /\ poisoned' = poisoned /\ deadLetters' = deadLetters \cup {m}
        /\ \A v \in Workers : v # w => consumer'[v] = consumer[v]
    BY <1>9, <2>1, WorkerTypes DEF Queue!DeadLetter
  <2>7. \A t \in deadLetters' : t \in deadLetters \/ Store!Exhausted(t)'
    BY <2>5, <2>6 DEF Store!Exhausted
  <2>8. PInv' BY <1>5, <2>3, <2>5, <2>6, <2>7
  <2> QED BY <1>2, <2>8
<1>10. CASE phase[w] = "none" /\ Queue!Settling(w)
  <2>1. QueueKept(NoTask)
    BY <1>2, <1>10, WorkerTypes, AckStep, DeleteStep DEF Queue!Settling
  <2>2. NoTask \notin Tasks BY StoreConstants
  <2>3. /\ poisoned' = poisoned /\ deadLetters' = deadLetters
        /\ \A v \in Workers : v # w => consumer'[v] = consumer[v]
    BY <1>10, WorkerTypes DEF Queue!Settling, Queue!Acknowledge, Queue!Delete
  <2>4. PInv' BY <1>5, <2>1, <2>2, <2>3
  <2> QED BY <1>2, <2>4
<1> QED BY <1>7, <1>8, <1>9, <1>10 DEF Settle

LEMMA InterruptPInv ==
  ASSUME PInv, NEW w \in Workers, WorkerInterrupt(w) PROVE PInv' /\ StoreFollows
<1>1. UNCHANGED outboxVars /\ calm' = calm /\ LeavePending(w) /\ task' = task
  BY DEF WorkerInterrupt, storeVars, Store!Interrupt
<1>2. StoreFollows
  <2>1. CASE UNCHANGED storeVars BY <2>1, StoreSkip
  <2>2. CASE Store!Interrupt(w) BY <2>2 DEF StoreFollows, Store!Next
  <2> QED BY <2>1, <2>2 DEF WorkerInterrupt
<1>3. exec'[w].pc = "idle" /\ \A v \in Workers : v # w => exec'[v] = exec[v]
  BY WorkerTypes DEF WorkerInterrupt, storeVars, Store!Interrupt, Store!Idle
<1>4. \A t \in Tasks : Store!Exists(t)' => Store!Exists(t) BY <1>1 DEF Store!Exists
<1>5. PInv' BY <1>1, <1>2, <1>3, <1>4, LeaveStep
<1> QED BY <1>2, <1>5
------------------------------------------------------------------------------
(* Users, time and faults *)

\* A step of the store on the task table only.
LEMMA TaskOnlyPInv ==
  ASSUME PInv, StoreFollows, NEW t \in Tasks, Store!Exists(t), NEW x,
         task' = [task EXCEPT ![t] = x], exec' = exec,
         UNCHANGED <<queueVars, outboxVars, phase, calm>>
  PROVE  PInv'
<1>1. StoreKept BY StoreWithin
<1>2. \A u \in Tasks : Store!Exists(u)' => Store!Exists(u)
  BY WorkerTypes DEF Store!Exists
<1>3. TrackedKept => OutboxKept BY <1>1, <1>2, OutboxRests DEF PInv
<1> QED BY <1>1, <1>3, QuietStep DEF PInv

LEMMA UserPInv ==
  ASSUME PInv, NEW t \in Tasks, Abandon(t) \/ ExpireLease(t) PROVE PInv' /\ StoreFollows
<1>1. StoreFollows BY DEF Abandon, ExpireLease, StoreFollows, Store!Next
<1>2. Store!Exists(t)
  <2>1. CASE Abandon(t)
    BY <2>1 DEF Abandon, Store!Abandon, Store!Abandonable, Store!Exists
  <2>2. CASE ExpireLease(t)
    <3>1. task[t].lease # "none" BY <2>2 DEF ExpireLease, Store!ExpireLease
    <3>2. task[t].status = "running"
      BY <3>1, WorkerTypes DEF StoreProofs!IInv, StoreProofs!LeaseIffRunning
    <3> QED BY <3>2 DEF Store!Exists
  <2> QED BY <2>1, <2>2
<1>3. /\ \E x : task' = [task EXCEPT ![t] = x]
      /\ exec' = exec /\ UNCHANGED <<queueVars, outboxVars, phase, calm>>
  BY DEF Abandon, ExpireLease, Store!Abandon, Store!ExpireLease
<1>4. PInv' BY <1>1, <1>2, <1>3, TaskOnlyPInv
<1> QED BY <1>1, <1>4

LEMMA QueueTimePInv ==
  ASSUME PInv, RecreateGroup \/ \E e \in Entries : VisibilityElapses(e)
  PROVE  PInv' /\ StoreFollows
<1>1. /\ UNCHANGED storeVars /\ UNCHANGED outboxVars /\ UNCHANGED <<phase, calm, exec>>
      /\ UNCHANGED <<poisoned, deadLetters, consumer>>
  BY DEF RecreateGroup, VisibilityElapses, Queue!RecreateGroup, Queue!VisibilityElapses,
         storeVars
<1>2. StoreFollows /\ StoreKept BY <1>1, StoreSkip, StoreWithin
<1>3. QueueKept(NoTask) /\ NoTask \notin Tasks
  BY <1>2, WorkerTypes, VisibilityStep, RecreateStep, StoreConstants
  DEF RecreateGroup, VisibilityElapses
<1>4. TrackedKept => OutboxKept BY <1>1, <1>2, SameStoreExists, OutboxRests DEF PInv
<1>5. phase' \in [Workers -> Phase] /\ calm' \in BOOLEAN BY <1>1, WorkerTypes DEF PInv
<1>6. PInv' BY <1>1, <1>2, <1>3, <1>4, <1>5, PInvStep
<1> QED BY <1>2, <1>6

\* The end of the faults, or no step at all.
LEMMA QuietPInv ==
  ASSUME PInv, FaultsEnd \/ UNCHANGED vars PROVE PInv' /\ StoreFollows
<1>1. /\ UNCHANGED storeVars /\ UNCHANGED outboxVars /\ UNCHANGED <<phase, exec>>
      /\ UNCHANGED queueVars /\ calm' \in BOOLEAN
  BY DEF FaultsEnd, vars, storeVars, PInv
<1>2. StoreFollows /\ StoreKept BY <1>1, StoreSkip, StoreWithin
<1>3. TrackedKept => OutboxKept BY <1>1, <1>2, SameStoreExists, OutboxRests DEF PInv
<1>4. PInv' BY <1>1, <1>2, <1>3, QuietStep
<1> QED BY <1>2, <1>4

LEMMA NextPInv == PInv /\ [Next]_vars => PInv' /\ StoreFollows
<1> SUFFICES ASSUME PInv, [Next]_vars PROVE PInv' /\ StoreFollows
  OBVIOUS
<1>1. CASE \E t \in Tasks : Submit(t) \/ Abandon(t)
  BY <1>1, SubmitPInv, UserPInv
<1>2. CASE \E d \in Dispatchers : DispatcherStep(d) \/ DispatcherCrash(d)
  BY <1>2, ClaimRecordPInv, PublishPInv, OutcomePInv, OutboxTimePInv DEF DispatcherStep
<1>3. ASSUME NEW w \in Workers, WorkerStep(w) PROVE PInv' /\ StoreFollows
  BY <1>3, ConsumePInv, InspectPInv, ClaimPInv, BeginPInv, FinishPInv, SettlePInv
  DEF WorkerStep
<1>4. CASE \E w \in Workers : WorkerStep(w) \/ WorkerInterrupt(w) \/ CountFails(w)
  BY <1>3, <1>4, InterruptPInv, CountFailsPInv
<1>5. CASE TimePasses
  BY <1>5, UserPInv, OutboxTimePInv, QueueTimePInv DEF TimePasses
<1>6. CASE RecreateGroup BY <1>6, QueueTimePInv
<1>7. CASE FaultsEnd \/ UNCHANGED vars BY <1>7, QuietPInv
<1> QED BY <1>1, <1>2, <1>4, <1>5, <1>6, <1>7 DEF Next

------------------------------------------------------------------------------
(* The theorems *)

THEOREM Invariance == Spec => []PInv
<1>1. Init => PInv BY InitPInv
<1>2. PInv /\ [Next]_vars => PInv' BY NextPInv
<1> QED BY <1>1, <1>2, PTL DEF Spec

\* The tables of the store, the queue and the outbox stay well typed together.
THEOREM TypeCorrect == Spec => []TypeOK
<1>1. PInv => TypeOK
  BY StoreTypes DEF PInv, TypeOK, QueueInv, OutboxInv, WorkerInv
<1> QED BY <1>1, Invariance, PTL

\* Whatever the queue delivers twice, late or to several workers, the task
\* table sees only steps of the store's own specification.
THEOREM StoreImplemented == Spec => ImplementsStore
<1>1. Init => Store!Init BY DEF Init
<1>2. PInv /\ [Next]_vars => [Store!Next]_(Store!vars) BY NextPInv DEF StoreFollows
<1> QED BY <1>1, <1>2, Invariance, PTL DEF Spec, ImplementsStore, Store!Spec

\* A submitted task that has not ended is in the outbox, in the queue, or has
\* a poison record, whatever crashed or was delivered twice.
THEOREM NothingIsLost == Spec => []NoSilentLoss
<1>1. PInv => NoSilentLoss
  <2> SUFFICES ASSUME PInv, NEW t \in Tasks, Store!Exists(t), ~Store!Terminal(t)
               PROVE  HasWayAhead(t) \/ t \in poisoned
    BY DEF NoSilentLoss
  <2>1. outbox[t].status \in {"pending", "claimed", "published"}
    BY DEF PInv, OutboxInv, Outbox!OutboxTypeOK, Outbox!OutboxRow
  <2>2. outbox[t].status = "published" => Fresh(t) \/ t \in poisoned
    BY DEF PInv, PublishedIsTracked, Tracked
  <2>3. Fresh(t) => Queue!HasCopy(t) BY DEF Fresh, Queue!HasCopy
  <2> QED BY <2>1, <2>2, <2>3 DEF HasWayAhead
<1> QED BY <1>1, Invariance, PTL

\* A message reaches the dead-letter hash only when its task has failed for
\* good, so no duplicate can make it succeed later.
THEOREM DeadLettersStay == Spec => []DeadLettersAreFinal
<1>1. PInv => DeadLettersAreFinal BY DEF PInv
<1> QED BY <1>1, Invariance, PTL

------------------------------------------------------------------------------
(* The store's own theorems, in the pipeline *)

LEMMA StoreSpec == Spec => StoreProofs!Spec
<1>1. Store!Init => StoreProofs!Init
  BY Zenon DEF Store!Init, StoreProofs!Init, Store!Absent, StoreProofs!Absent, Store!Idle, StoreProofs!Idle
<1>2. [Store!Next]_(Store!vars) => [StoreProofs!Next]_(StoreProofs!vars)
  BY SameStore, Zenon DEF Store!vars, StoreProofs!vars
<1> QED BY <1>1, <1>2, StoreImplemented, PTL DEF ImplementsStore, Store!Spec, StoreProofs!Spec

\* Duplicates, reclaims and lost replies of the queue let no worker commit an
\* outdated snapshot, separate no result from its task and leave no lease.
THEOREM StoreStaysSafe ==
  Spec => [](Store!SnapshotIsCurrent /\ Store!ResultMatchesTask /\ Store!LeaseIffRunning)
<1>1. StoreProofs!SnapshotIsCurrent => Store!SnapshotIsCurrent
  BY Zenon DEF StoreProofs!SnapshotIsCurrent, Store!SnapshotIsCurrent, Store!HoldsLease,
               StoreProofs!HoldsLease
<1>2. StoreProofs!ResultMatchesTask => Store!ResultMatchesTask
  BY Zenon DEF StoreProofs!ResultMatchesTask, Store!ResultMatchesTask
<1>3. StoreProofs!LeaseIffRunning => Store!LeaseIffRunning
  BY Zenon DEF StoreProofs!LeaseIffRunning, Store!LeaseIffRunning
<1>4. /\ StoreProofs!Spec => []StoreProofs!SnapshotIsCurrent
      /\ StoreProofs!Spec => []StoreProofs!ResultMatchesTask
      /\ StoreProofs!Spec => []StoreProofs!LeaseIffRunning
  BY StoreProofs!Fencing, StoreProofs!ResultConsistency, StoreProofs!LeaseConsistency, StoreConstants
<1> QED BY <1>1, <1>2, <1>3, <1>4, StoreSpec, PTL

\* No redelivery moves a task that ended, and none clears the stale mark of
\* a superseded result.
THEOREM TerminalAndSupersededStay ==
  Spec => Store!TerminalIsFinal /\ Store!SupersededStaysStale
<1>1. [\A t \in Tasks : StoreProofs!Terminal(t) => task'[t] = task[t]]_(StoreProofs!vars)
        => [\A t \in Tasks : Store!Terminal(t) => task'[t] = task[t]]_(Store!vars)
  BY Zenon DEF Store!vars, StoreProofs!vars, Store!Terminal, StoreProofs!Terminal,
               Store!Exhausted, StoreProofs!Exhausted
<1>2. [\A t \in Tasks : evaluation[t] = "stale" /\ StoreProofs!SubmittedAgain(t)
                         => evaluation'[t] = "stale"]_(StoreProofs!vars)
        => [\A t \in Tasks : evaluation[t] = "stale" /\ Store!SubmittedAgain(t)
                            => evaluation'[t] = "stale"]_(Store!vars)
  BY Zenon DEF Store!vars, StoreProofs!vars, Store!SubmittedAgain, StoreProofs!SubmittedAgain
<1>3. /\ StoreProofs!Spec => StoreProofs!TerminalIsFinal
      /\ StoreProofs!Spec => StoreProofs!SupersededStaysStale
  BY StoreProofs!TerminalStays, StoreProofs!SupersededResultStays, StoreConstants
<1> QED
  BY <1>1, <1>2, <1>3, StoreSpec, PTL
  DEF Store!TerminalIsFinal, StoreProofs!TerminalIsFinal,
      Store!SupersededStaysStale, StoreProofs!SupersededStaysStale

\* What a client relies on holds for the whole pipeline: submission, outbox,
\* queue and workers together implement the abstract task.
THEOREM LifecycleImplemented == Spec => Store!ImplementsLifecycle
<1>1. StoreProofs!ImplementsLifecycle => Store!ImplementsLifecycle
  <2>1. StoreProofs!Lifecycle!LifecycleInit => Store!Lifecycle!LifecycleInit
    BY Zenon DEF Store!Lifecycle!LifecycleInit, StoreProofs!Lifecycle!LifecycleInit
  <2>2. ASSUME NEW t
        PROVE  /\ StoreProofs!Lifecycle!Create(t) => Store!Lifecycle!Create(t)
               /\ StoreProofs!Lifecycle!Start(t) => Store!Lifecycle!Start(t)
               /\ StoreProofs!Lifecycle!Succeed(t) => Store!Lifecycle!Succeed(t)
               /\ StoreProofs!Lifecycle!Fail(t) => Store!Lifecycle!Fail(t)
    BY Zenon DEF Store!Lifecycle!Move, StoreProofs!Lifecycle!Move,
                 Store!Lifecycle!Create, StoreProofs!Lifecycle!Create,
                 Store!Lifecycle!Start, StoreProofs!Lifecycle!Start,
                 Store!Lifecycle!Succeed, StoreProofs!Lifecycle!Succeed,
                 Store!Lifecycle!Fail, StoreProofs!Lifecycle!Fail
  <2>3. [StoreProofs!Lifecycle!LifecycleNext]_(StoreProofs!Lifecycle!lifecycleVars)
          => [Store!Lifecycle!LifecycleNext]_(Store!Lifecycle!lifecycleVars)
    BY <2>2, Zenon DEF Store!Lifecycle!LifecycleNext, StoreProofs!Lifecycle!LifecycleNext,
                       Store!Lifecycle!lifecycleVars, StoreProofs!Lifecycle!lifecycleVars
  <2> QED BY <2>1, <2>3, PTL DEF StoreProofs!ImplementsLifecycle, Store!ImplementsLifecycle,
             Store!Lifecycle!LifecycleSpec, StoreProofs!Lifecycle!LifecycleSpec
<1>2. StoreProofs!Spec => StoreProofs!ImplementsLifecycle
  BY StoreProofs!LifecycleImplemented, StoreConstants
<1> QED BY <1>1, <1>2, StoreSpec, PTL
=============================================================================
