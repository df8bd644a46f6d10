-------------------------- MODULE IntegrationOutbox --------------------------
(***************************************************************************)
(* The transactional outbox of the main API (apps/api, infrastructure/     *)
(* outbox.py): messages committed with a business fact, delivered to the   *)
(* knowledge graph and the matching service by the threads of the outbox   *)
(* worker and by the manual synchronisation endpoint.                      *)
(*                                                                         *)
(* A slot is a thread that delivers: a slot of the worker's pool, whose id *)
(* is its own, or a request of the endpoint, all of which use the id       *)
(* "sync-api:<event id>".  A delivery is a claim in two statements, the    *)
(* handler's remote call with a heartbeat thread beside it, and the        *)
(* recording of its result in a transaction of its own.                    *)
(***************************************************************************)
EXTENDS Naturals

CONSTANTS
  Messages,
  Served,       \* those of an event type that the worker is configured with
  Slots,        \* delivering threads
  Syncs,        \* those of them that serve the manual endpoint
  Ids, IdOf,    \* the worker id each slot claims under
  MaxAttempts,  \* KG_OUTBOX_MAX_ATTEMPTS, the limit of the worker
  DefaultMax,   \* the default limit, which the endpoint is left with
  NoId, NoSlot, NoMessage,
  MaxRequeues   \* bound of the model: requeues of one message

ASSUME LimitAssumption == MaxAttempts \in Nat \ {0} /\ DefaultMax \in Nat \ {0}
ASSUME SlotAssumption  == Syncs \subseteq Slots /\ NoSlot \notin Slots
ASSUME IdAssumption    == IdOf \in [Slots -> Ids] /\ NoId \notin Ids
ASSUME NoMessageAssumption == NoMessage \notin Messages
ASSUME ServedAssumption    == Served \subseteq Messages
ASSUME RequeueAssumption   == MaxRequeues \in Nat

VARIABLES
  row,       \* the outbox_messages rows
  slot,      \* per thread, the delivery it is in
  requeued,  \* how often an operator queued the message again
  claimant,  \* the slot that made the latest claim (history)
  calm       \* no crash, lost heartbeat or database error any more

vars == <<row, slot, requeued, claimant, calm>>

Status == {"absent", "pending", "claimed", "retryable", "delivered", "dead_letter"}

LargerLimit == IF MaxAttempts >= DefaultMax THEN MaxAttempts ELSE DefaultMax

\* `due' is next_attempt_at <= now, `failed' is last_error # None.
Row == [status : Status, attempts : 0 .. (LargerLimit + MaxRequeues), owner : Ids \cup {NoId},
        lease : {"none", "live", "expired"}, due : BOOLEAN, failed : BOOLEAN]

Result == {"none", "delivered", "retryable", "permanent"}

\* "chosen": the claim's SELECT returned the message, its UPDATE is to come.
Slot == [pc : {"idle", "chosen", "handling", "handled"},
         msg : Messages \cup {NoMessage}, result : Result, beating : BOOLEAN]

IdleSlot == [pc |-> "idle", msg |-> NoMessage, result |-> "none", beating |-> FALSE]

TypeOK ==
  /\ row \in [Messages -> Row]
  /\ slot \in [Slots -> Slot]
  /\ requeued \in [Messages -> 0 .. MaxRequeues]
  /\ claimant \in [Messages -> Slots \cup {NoSlot}]
  /\ calm \in BOOLEAN

Init ==
  /\ row = [m \in Messages |-> [status |-> "absent", attempts |-> 0, owner |-> NoId,
                                lease |-> "none", due |-> FALSE, failed |-> FALSE]]
  /\ slot = [s \in Slots |-> IdleSlot]
  /\ requeued = [m \in Messages |-> 0]
  /\ claimant = [m \in Messages |-> NoSlot]
  /\ calm = FALSE

------------------------------------------------------------------------------
(* Producers and operators *)

\* add(): written with the business fact; a second message with the same
\* idempotency key finds the row there and changes nothing.
Add(m) ==
  /\ row[m].status = "absent"
  /\ row' = [row EXCEPT ![m].status = "pending", ![m].due = TRUE]
  /\ UNCHANGED <<slot, requeued, claimant, calm>>

\* Mutant of Requeueable: a delivered message is accepted.
RequeueableDelivered(m) ==
  \/ row[m].status \in {"retryable", "dead_letter", "delivered"}
  \/ row[m].status = "claimed" /\ row[m].lease # "live"

\* A pending message is answered with an error, or unchanged when it has
\* failed before.
Requeueable(m) ==
  \/ row[m].status \in {"retryable", "dead_letter"}
  \/ row[m].status = "claimed" /\ row[m].lease # "live"

\* requeue() keeps `attempts' and `last_error'.
Requeue(m) ==
  /\ Requeueable(m)
  /\ requeued[m] < MaxRequeues
  /\ row' = [row EXCEPT ![m].status = "pending", ![m].due = TRUE,
                        ![m].owner = NoId, ![m].lease = "none"]
  /\ requeued' = [requeued EXCEPT ![m] = @ + 1]
  /\ UNCHANGED <<slot, claimant, calm>>

------------------------------------------------------------------------------
(* Claims *)

\* Mutant of Free: the message of a dead worker is not taken over.
FreeUnclaimed(m) == row[m].status \in {"pending", "retryable"}

\* Mutant of Free: every message without a lease that was not delivered.
FreeGivenUp(m) == row[m].status \notin {"absent", "delivered"} /\ row[m].lease # "live"

\* The condition the SELECT and the UPDATE share.
Free(m) == row[m].status \in {"pending", "retryable", "claimed"} /\ row[m].lease # "live"

\* The SELECT of _claim: the worker asks for its event types, the endpoint
\* for one message.
Choose(s, m) ==
  /\ slot[s].pc = "idle"
  /\ s \in Syncs \/ m \in Served
  /\ Free(m) /\ row[m].due
  /\ slot' = [slot EXCEPT ![s] = [IdleSlot EXCEPT !.pc = "chosen", !.msg = m]]
  /\ UNCHANGED <<row, requeued, claimant, calm>>

\* The conditional UPDATE, which does not look at next_attempt_at again; the
\* heartbeat thread starts with the handler.
Claim(s) ==
  /\ slot[s].pc = "chosen"
  /\ LET m == slot[s].msg IN
       IF Free(m)
       THEN /\ row' = [row EXCEPT ![m].status = "claimed", ![m].owner = IdOf[s],
                                  ![m].lease = "live"]
            /\ claimant' = [claimant EXCEPT ![m] = s]
            /\ slot' = [slot EXCEPT ![s].pc = "handling", ![s].beating = TRUE]
       ELSE /\ slot' = [slot EXCEPT ![s] = IdleSlot]
            /\ UNCHANGED <<row, claimant>>
  /\ UNCHANGED <<requeued, calm>>

------------------------------------------------------------------------------
(* Handling and completion *)

\* The handler returned; dispatch_one turns an exception into a retryable
\* result and a missing handler into a permanent one.  stop() ends the
\* heartbeat; whether it had lost the lease is not asked.
Handle(s, result) ==
  /\ slot[s].pc = "handling"
  /\ slot' = [slot EXCEPT ![s].pc = "handled", ![s].result = result]
  /\ UNCHANGED <<row, requeued, claimant, calm>>

\* Mutant of Completes: the owner is not compared.
CompletesAnyClaim(s) ==
  LET m == slot[s].msg IN row[m].status = "claimed" /\ row[m].lease = "live"

\* The WHERE clause of complete().
Completes(s) ==
  LET m == slot[s].msg IN
    row[m].status = "claimed" /\ row[m].owner = IdOf[s] /\ row[m].lease = "live"

Limit(s) == IF s \in Syncs THEN DefaultMax ELSE MaxAttempts

\* Mutant of Again: an attempt too many.
AgainOnceMore(s, attempts) == slot[s].result = "retryable" /\ attempts <= Limit(s)

\* Whether the message is tried again after its attempts-th outcome.
Again(s, attempts) == slot[s].result = "retryable" /\ attempts < Limit(s)

\* complete(); a slot that lost its lease reports LOST_LEASE and changes
\* nothing.
Complete(s) ==
  /\ slot[s].pc = "handled"
  /\ LET m == slot[s].msg
         n == row[m].attempts + 1 IN
       IF Completes(s)
       THEN row' = [row EXCEPT ![m] =
              [status |-> IF slot[s].result = "delivered" THEN "delivered"
                          ELSE IF Again(s, n) THEN "retryable" ELSE "dead_letter",
               attempts |-> n, owner |-> NoId, lease |-> "none",
               due |-> ~Again(s, n), failed |-> slot[s].result # "delivered"]]
       ELSE UNCHANGED row
  /\ slot' = [slot EXCEPT ![s] = IdleSlot]
  /\ UNCHANGED <<requeued, claimant, calm>>

------------------------------------------------------------------------------
(* Time and faults *)

DueAgain(m) ==
  /\ row[m].status \in {"pending", "retryable", "claimed"} /\ ~row[m].due
  /\ row' = [row EXCEPT ![m].due = TRUE]
  /\ UNCHANGED <<slot, requeued, claimant, calm>>

\* Some thread with the owner's id still renews the lease, or is about to
\* record its result.
Renewed(m) ==
  \E s \in Slots : slot[s].beating /\ slot[s].msg = m /\ IdOf[s] = row[m].owner

\* lease_until passes.  While faults go on it may do so at any moment (a
\* paused process, a database that does not answer); later only when no
\* heartbeat renews it.
LeaseExpires(m) ==
  /\ row[m].lease = "live"
  /\ calm => ~Renewed(m)
  /\ row' = [row EXCEPT ![m].lease = "expired"]
  /\ UNCHANGED <<slot, requeued, claimant, calm>>

\* The heartbeat thread met an exception, or found the lease lost, and ended.
HeartbeatEnds(s) ==
  /\ slot[s].beating
  /\ calm => ~Completes(s)
  /\ slot' = [slot EXCEPT ![s].beating = FALSE]
  /\ UNCHANGED <<row, requeued, claimant, calm>>

\* The process dies; or, at the endpoint, an exception leaves the handler
\* and complete() is not reached.
Crash(s) ==
  /\ ~calm
  /\ slot[s].pc # "idle"
  /\ slot' = [slot EXCEPT ![s] = IdleSlot]
  /\ UNCHANGED <<row, requeued, claimant, calm>>

FaultsEnd ==
  /\ ~calm
  /\ calm' = TRUE
  /\ UNCHANGED <<row, slot, requeued, claimant>>

SlotStep(s) ==
  \/ \E m \in Messages : Choose(s, m)
  \/ Claim(s)
  \/ \E r \in Result \ {"none"} : Handle(s, r)
  \/ Complete(s)

Next ==
  \/ \E m \in Messages : Add(m) \/ Requeue(m) \/ DueAgain(m) \/ LeaseExpires(m)
  \/ \E s \in Slots : SlotStep(s) \/ HeartbeatEnds(s) \/ Crash(s)
  \/ FaultsEnd

Spec == Init /\ [][Next]_vars

\* The worker's loop (workers/outbox.py) dispatches again after every round,
\* so its slots keep stepping; clocks advance; faults end.  Nothing is
\* assumed of the endpoint's callers before they have claimed something, nor
\* of what a handler answers.
Fairness ==
  /\ \A s \in Slots \ Syncs : WF_vars(SlotStep(s))
  /\ \A s \in Syncs : WF_vars(SlotStep(s) /\ slot[s].pc # "idle")
  /\ \A m \in Messages : WF_vars(DueAgain(m)) /\ WF_vars(LeaseExpires(m))
  /\ WF_vars(FaultsEnd)

FairSpec == Spec /\ Fairness

------------------------------------------------------------------------------
(* Properties *)

Open(m) == row[m].status \in {"pending", "claimed", "retryable"}

Unique(s) == \A r \in Slots : IdOf[r] = IdOf[s] => r = s

\* complete() compares the owner and the lease, not the claim.  For a slot
\* with an id of its own that is enough: it records a result only for the
\* claim the row was last taken with, whatever leases expired, were requeued
\* or taken over in between, by slots that share their id among them.
OutcomeOfLatestClaim ==
  \A s \in Slots :
    Unique(s) /\ slot[s].pc \in {"handling", "handled"} /\ Completes(s)
      => claimant[slot[s].msg] = s

\* A message that was not given up has attempts left, counted over all slots
\* and both limits: late results, takeovers and crashes never use more
\* attempts than the larger limit and one for each requeue.
AttemptBudget ==
  \A m \in Messages :
    Open(m) => row[m].attempts < LargerLimit + requeued[m]

\* No late completion, heartbeat, claim or requeue touches a delivered
\* message.
DeliveredIsFinal ==
  [][\A m \in Messages : row[m].status = "delivered" => row'[m] = row[m]]_vars

\* What the row shows of a message.
Shown(status) ==
  CASE status \in {"pending", "claimed", "retryable"} -> "queued"
    [] status = "dead_letter" -> "given_up"
    [] OTHER -> status

Delivery == INSTANCE MessageDelivery WITH
  MaxTries <- LargerLimit,
  state <- [m \in Messages |-> Shown(row[m].status)],
  tries <- [m \in Messages |-> row[m].attempts],
  asked <- requeued

\* Claims, takeovers, lost leases and late outcomes do not show: each
\* transaction of any slot is one step of the abstract message or none.
\* In particular no claim brings back what was given up.
ImplementsDelivery == Delivery!DeliverySpec

\* When faults end, every message of a type the worker serves is delivered or
\* given up for good, also one whose worker died in the middle of a delivery.
EveryMessageSettles ==
  \A m \in Served : row[m].status # "absent" ~> []~Open(m)
=============================================================================
