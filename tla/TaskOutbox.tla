----------------------------- MODULE TaskOutbox ------------------------------
(***************************************************************************)
(* The transactional outbox of evaluation tasks: outbox_records and the    *)
(* dispatchers that publish them (application/outbox_dispatcher.py,        *)
(* SQLAlchemyOutboxRepository).                                            *)
(*                                                                         *)
(* dispatch_once is three steps with two gaps: the claim commits, the      *)
(* message is published outside any transaction, and a second transaction  *)
(* records the outcome if the claim still carries this dispatcher's id.    *)
(* The threads of one API process share one dispatcher id                  *)
(* (task_submission.py:33), so a dispatcher here is a THREAD with an id.   *)
(***************************************************************************)
CONSTANTS
  Records,      \* the tasks that get an outbox record
  Dispatchers,  \* dispatching threads: API requests and the dispatcher process
  Ids,          \* dispatcher ids
  IdOf,         \* the id each thread writes to claimed_by
  NoRecord, NoId

VARIABLES
  outbox,   \* the outbox_records rows
  dispatch  \* per thread, the record it works on in memory

outboxVars == <<outbox, dispatch>>

OutboxRow ==
  [status    : {"absent", "pending", "claimed", "published"},
   claimedBy : Ids \cup {NoId},
   expired   : BOOLEAN]

Dispatch ==
  [pc : {"idle", "publishing", "marking", "releasing"},
   record : Records \cup {NoRecord}]

OutboxTypeOK ==
  /\ outbox \in [Records -> OutboxRow]
  /\ dispatch \in [Dispatchers -> Dispatch]

Unclaimed(status) == [status |-> status, claimedBy |-> NoId, expired |-> FALSE]

AtRest == [pc |-> "idle", record |-> NoRecord]

OutboxInit ==
  /\ outbox = [r \in Records |-> Unclaimed("absent")]
  /\ dispatch = [d \in Dispatchers |-> AtRest]

------------------------------------------------------------------------------
\* _ensure_outbox: an existing record is left as it is, published or not.
EnsureOutbox(r) ==
  /\ outbox' = IF outbox[r].status = "absent"
               THEN [outbox EXCEPT ![r] = Unclaimed("pending")]
               ELSE outbox
  /\ UNCHANGED dispatch

\* Mutant of ClaimableRecord: a claim that expired is never taken over.
ClaimableOnce(r) == outbox[r].status = "pending"

ClaimableRecord(r) ==
  \/ outbox[r].status = "pending"
  \/ outbox[r].status = "claimed" /\ outbox[r].expired

ClaimRecord(d, r) ==
  /\ dispatch[d].pc = "idle"
  /\ ClaimableRecord(r)
  /\ outbox' = [outbox EXCEPT ![r] = [status |-> "claimed", claimedBy |-> IdOf[d],
                                      expired |-> FALSE]]
  /\ dispatch' = [dispatch EXCEPT ![d] = [pc |-> "publishing", record |-> r]]

\* The publish call returned.
Published(d) ==
  /\ dispatch[d].pc = "publishing"
  /\ dispatch' = [dispatch EXCEPT ![d].pc = "marking"]
  /\ UNCHANGED outbox

\* The publish call raised TaskQueueError.
PublishFailed(d) ==
  /\ dispatch[d].pc = "publishing"
  /\ dispatch' = [dispatch EXCEPT ![d].pc = "releasing"]
  /\ UNCHANGED outbox

\* The guard of mark_published and of release_for_retry.
StillClaimed(d) ==
  LET row == outbox[dispatch[d].record] IN
    row.status = "claimed" /\ row.claimedBy = IdOf[d]

\* Mutant of Outcome: a failed publish is marked published as well.
OutcomeAlwaysPublished(d) == "published"

Outcome(d) == IF dispatch[d].pc = "marking" THEN "published" ELSE "pending"

\* mark_published or release_for_retry
RecordOutcome(d) ==
  /\ dispatch[d].pc \in {"marking", "releasing"}
  /\ outbox' = IF StillClaimed(d)
               THEN [outbox EXCEPT ![dispatch[d].record] = Unclaimed(Outcome(d))]
               ELSE outbox
  /\ dispatch' = [dispatch EXCEPT ![d] = AtRest]

\* The thread dies between two steps.
DropDispatch(d) ==
  /\ dispatch[d].pc # "idle"
  /\ dispatch' = [dispatch EXCEPT ![d] = AtRest]
  /\ UNCHANGED outbox

ClaimExpires(r) ==
  /\ outbox[r].status = "claimed" /\ ~outbox[r].expired
  /\ outbox' = [outbox EXCEPT ![r].expired = TRUE]
  /\ UNCHANGED dispatch
=============================================================================
