---------------------- MODULE IntegrationOutbox_proofs ----------------------
(***************************************************************************)
(* Proofs about the integration outbox: its inductive invariant, the       *)
(* attempts a message is given, whose outcome is recorded, and that a      *)
(* delivered message is left alone.                                        *)
(***************************************************************************)
EXTENDS IntegrationOutbox, TLAPS

\* A delivery under way is of some message.
DeliveryHasMessage == \A s \in Slots : slot[s].pc # "idle" => slot[s].msg \in Messages

\* AttemptBudget and what it rests on: the bound of the messages that were
\* given up, which a requeue opens again, and of those not added yet.
Budget ==
  \A m \in Messages :
    /\ row[m].attempts <= LargerLimit + requeued[m]
    /\ Open(m) => row[m].attempts < LargerLimit + requeued[m]
    /\ row[m].status = "absent" => row[m].attempts = 0

\* A claimed row carries the id of the slot that claimed it last.
ClaimIsLatest ==
  \A m \in Messages :
    row[m].status = "claimed" => claimant[m] \in Slots /\ row[m].owner = IdOf[claimant[m]]

\* A lease is renewed for a claimed row only.
LiveIsClaimed == \A m \in Messages : row[m].lease = "live" => row[m].status = "claimed"

IInv ==
  /\ TypeOK
  /\ DeliveryHasMessage
  /\ Budget
  /\ ClaimIsLatest
  /\ LiveIsClaimed

USE LimitAssumption, SlotAssumption, IdAssumption, NoMessageAssumption, RequeueAssumption

LEMMA LimitsAreBounded ==
  /\ LargerLimit \in Nat \ {0}
  /\ \A s \in Slots : Limit(s) \in Nat /\ Limit(s) <= LargerLimit
BY DEF LargerLimit, Limit

LEMMA InitIInv == Init => IInv
<1> SUFFICES ASSUME Init PROVE IInv
  OBVIOUS
<1> DEFINE r == [status |-> "absent", attempts |-> 0, owner |-> NoId,
                 lease |-> "none", due |-> FALSE, failed |-> FALSE]
<1>1. r \in Row /\ r.status = "absent" /\ r.attempts = 0 /\ r.lease = "none"
  BY LimitsAreBounded DEF Row, Status
<1>2. IdleSlot \in Slot /\ IdleSlot.pc = "idle"
  BY DEF IdleSlot, Slot, Result
<1>3. \A m \in Messages : row[m] = r
  BY DEF Init
<1> HIDE DEF r
<1>4. TypeOK
  <2>1. row \in [Messages -> Row] BY <1>1, <1>3 DEF Init
  <2>2. slot \in [Slots -> Slot] BY <1>2 DEF Init
  <2>3. requeued \in [Messages -> 0 .. MaxRequeues] BY DEF Init
  <2>4. claimant \in [Messages -> Slots \cup {NoSlot}] /\ calm \in BOOLEAN BY DEF Init
  <2> QED BY <2>1, <2>2, <2>3, <2>4 DEF TypeOK
<1>5. DeliveryHasMessage BY <1>2 DEF Init, DeliveryHasMessage
<1>6. Budget
  <2>1. ASSUME NEW m \in Messages
        PROVE  /\ row[m].attempts <= LargerLimit + requeued[m]
               /\ row[m].attempts < LargerLimit + requeued[m]
               /\ row[m].attempts = 0
    <3>1. row[m].attempts = 0 BY <1>1, <1>3
    <3>2. requeued[m] = 0 BY DEF Init
    <3>3. 0 < LargerLimit + 0 /\ 0 <= LargerLimit + 0 BY LimitsAreBounded
    <3> QED BY <3>1, <3>2, <3>3
  <2> QED BY <2>1 DEF Budget
<1>7. ClaimIsLatest /\ LiveIsClaimed BY <1>1, <1>3 DEF ClaimIsLatest, LiveIsClaimed
<1> QED BY <1>4, <1>5, <1>6, <1>7 DEF IInv

------------------------------------------------------------------------------
\* A step that writes one row: what the new row has to satisfy.
LEMMA RowIInv ==
  ASSUME IInv, NEW m \in Messages, NEW r \in Row,
         row' = [row EXCEPT ![m] = r],
         UNCHANGED calm, TypeOK', DeliveryHasMessage',
         \A n \in Messages \ {m} : requeued'[n] = requeued[n] /\ claimant'[n] = claimant[n],
         r.attempts <= LargerLimit + requeued'[m],
         r.status \in {"pending", "claimed", "retryable"}
           => r.attempts < LargerLimit + requeued'[m],
         r.status # "absent",
         r.status = "claimed" => claimant'[m] \in Slots /\ r.owner = IdOf[claimant'[m]],
         r.lease = "live" => r.status = "claimed"
  PROVE  IInv'
<1> USE DEF IInv
<1>1. \A n \in Messages : row'[n] = IF n = m THEN r ELSE row[n]
  BY DEF TypeOK
<1>2. Budget' BY <1>1 DEF Budget, Open
<1>3. ClaimIsLatest' BY <1>1 DEF ClaimIsLatest
<1>4. LiveIsClaimed' BY <1>1 DEF LiveIsClaimed
<1> QED BY <1>2, <1>3, <1>4

\* A step that writes no row.
LEMMA SlotIInv ==
  ASSUME IInv, UNCHANGED <<row, requeued, claimant>>, TypeOK', DeliveryHasMessage'
  PROVE  IInv'
BY DEF IInv, Budget, Open, ClaimIsLatest, LiveIsClaimed

LEMMA RowWith ==
  ASSUME NEW x \in Row, NEW s \in Status, NEW o \in Ids \cup {NoId},
         NEW l \in {"none", "live", "expired"}, NEW d \in BOOLEAN
  PROVE  /\ [x EXCEPT !.status = s, !.due = d] \in Row
         /\ [x EXCEPT !.status = s, !.owner = o, !.lease = l] \in Row
         /\ [x EXCEPT !.status = s, !.due = d, !.owner = o, !.lease = l] \in Row
BY DEF Row

LEMMA AddIInv == ASSUME IInv, NEW m \in Messages, Add(m) PROVE IInv'
<1> DEFINE r == [row[m] EXCEPT !.status = "pending", !.due = TRUE]
<1>0. row[m] \in Row /\ "pending" \in Status BY DEF IInv, TypeOK, Status
<1>1. r \in Row /\ r.status = "pending" /\ r.attempts = row[m].attempts
      /\ r.lease = row[m].lease
  <2>1. r \in Row BY <1>0, RowWith
  <2> QED BY <1>0, <2>1 DEF Row
<1>2. row' = [row EXCEPT ![m] = r] /\ UNCHANGED <<slot, requeued, claimant, calm>>
  BY DEF Add
<1>3. row[m].status = "absent" BY DEF Add
<1> HIDE DEF r
<1> USE <1>2, <1>3 DEF IInv
<1>4. r.attempts < LargerLimit + requeued[m] /\ r.attempts <= LargerLimit + requeued[m]
  BY <1>1, LimitsAreBounded DEF Budget, TypeOK
<1>5. TypeOK' /\ DeliveryHasMessage' BY <1>1 DEF TypeOK, DeliveryHasMessage
<1>6. r.lease # "live" BY <1>1 DEF LiveIsClaimed
<1> QED BY <1>1, <1>4, <1>5, <1>6, RowIInv

LEMMA RequeueIInv == ASSUME IInv, NEW m \in Messages, Requeue(m) PROVE IInv'
<1> DEFINE r == [row[m] EXCEPT !.status = "pending", !.due = TRUE, !.owner = NoId,
                               !.lease = "none"]
<1>0. row[m] \in Row /\ "pending" \in Status BY DEF IInv, TypeOK, Status
<1>1. r \in Row /\ r.status = "pending" /\ r.attempts = row[m].attempts /\ r.lease = "none"
  <2>1. r \in Row BY <1>0, RowWith
  <2> QED BY <1>0, <2>1 DEF Row
<1>2. /\ row' = [row EXCEPT ![m] = r] /\ requeued' = [requeued EXCEPT ![m] = @ + 1]
      /\ UNCHANGED <<slot, claimant, calm>> /\ requeued[m] < MaxRequeues
  BY DEF Requeue
<1> HIDE DEF r
<1> USE <1>2 DEF IInv
<1>3. requeued[m] \in Nat /\ requeued'[m] = requeued[m] + 1 BY DEF TypeOK
<1>4. r.attempts < LargerLimit + requeued'[m] /\ r.attempts <= LargerLimit + requeued'[m]
  BY <1>1, <1>3, LimitsAreBounded DEF Budget, TypeOK, Row
<1>5. TypeOK' /\ DeliveryHasMessage' BY <1>1, <1>2 DEF TypeOK, DeliveryHasMessage
<1>6. \A n \in Messages \ {m} : requeued'[n] = requeued[n] BY DEF TypeOK
<1> QED BY <1>1, <1>4, <1>5, <1>6, RowIInv

LEMMA ClaimIInv == ASSUME IInv, NEW s \in Slots, Claim(s) PROVE IInv'
<1> DEFINE m == slot[s].msg
           r == [row[m] EXCEPT !.status = "claimed", !.owner = IdOf[s], !.lease = "live"]
<1>0. m \in Messages BY DEF IInv, DeliveryHasMessage, Claim
<1>a. row[m] \in Row /\ "claimed" \in Status BY <1>0 DEF IInv, TypeOK, Status
<1>b. r \in Row /\ r.status = "claimed" /\ r.attempts = row[m].attempts /\ r.owner = IdOf[s]
  <2>1. r \in Row BY <1>a, RowWith
  <2> QED BY <1>a, <2>1 DEF Row
<1> USE DEF IInv, Claim
<1>1. CASE Free(m)
  <2>1. r \in Row /\ r.status = "claimed" /\ r.attempts = row[m].attempts /\ r.owner = IdOf[s]
    BY <1>b
  <2>2. /\ row' = [row EXCEPT ![m] = r]
        /\ claimant' = [claimant EXCEPT ![m] = s]
        /\ slot' = [slot EXCEPT ![s].pc = "handling", ![s].beating = TRUE]
    BY <1>1
  <2>3. Open(m) BY <1>1 DEF Free, Open
  <2> HIDE DEF r
  <2>4. TypeOK' BY <1>0, <2>1, <2>2 DEF TypeOK, Slot
  <2>5. DeliveryHasMessage' BY <1>0, <2>2 DEF TypeOK, DeliveryHasMessage, Slot
  <2>6. claimant'[m] = s /\ \A n \in Messages \ {m} : claimant'[n] = claimant[n]
    BY <1>0, <2>2 DEF TypeOK
  <2>7. r.attempts < LargerLimit + requeued[m] /\ r.attempts <= LargerLimit + requeued[m]
    BY <1>0, <2>1, <2>3 DEF Budget
  <2> QED BY <1>0, <2>1, <2>2, <2>4, <2>5, <2>6, <2>7, RowIInv
<1>2. CASE ~Free(m)
  <2>1. slot' = [slot EXCEPT ![s] = IdleSlot] /\ UNCHANGED <<row, requeued, claimant, calm>>
    BY <1>2
  <2>2. IdleSlot \in Slot /\ IdleSlot.pc = "idle" BY DEF IdleSlot, Slot, Result
  <2>3. TypeOK' /\ DeliveryHasMessage' BY <2>1, <2>2 DEF TypeOK, DeliveryHasMessage
  <2> QED BY <2>1, <2>3, SlotIInv
<1> QED BY <1>1, <1>2

LEMMA CompleteIInv == ASSUME IInv, NEW s \in Slots, Complete(s) PROVE IInv'
<1> USE DEF IInv, Complete
<1> DEFINE m == slot[s].msg
           n == row[m].attempts + 1
           r == [status |-> IF slot[s].result = "delivered" THEN "delivered"
                            ELSE IF Again(s, n) THEN "retryable" ELSE "dead_letter",
                 attempts |-> n, owner |-> NoId, lease |-> "none",
                 due |-> ~Again(s, n), failed |-> slot[s].result # "delivered"]
<1>0. m \in Messages BY DEF DeliveryHasMessage
<1>1. CASE Completes(s)
  <2>1. row[m].status = "claimed" BY <1>1 DEF Completes
  <2>2. row[m].attempts \in Nat /\ requeued[m] \in 0 .. MaxRequeues
    BY <1>0 DEF TypeOK, Row
  <2>3. row[m].attempts < LargerLimit + requeued[m]
    BY <1>0, <2>1 DEF Budget, Open
  <2>4. n \in 0 .. (LargerLimit + MaxRequeues) /\ n <= LargerLimit + requeued[m]
    BY <2>2, <2>3, LimitsAreBounded
  <2>5. r.status = "retryable" => n < LargerLimit + requeued[m]
    BY <2>2, LimitsAreBounded DEF Again
  <2>6. /\ r \in Row /\ r.attempts = n
        /\ r.status \in {"delivered", "retryable", "dead_letter"} /\ r.lease = "none"
    <3>1. Again(s, n) \in BOOLEAN /\ (slot[s].result # "delivered") \in BOOLEAN
      BY DEF Again
    <3> HIDE DEF n
    <3> QED BY <2>4, <3>1 DEF Row, Status
  <2>7. row' = [row EXCEPT ![m] = r] /\ slot' = [slot EXCEPT ![s] = IdleSlot]
    BY <1>1
  <2> HIDE DEF r, n
  <2>8. TypeOK' /\ DeliveryHasMessage'
    BY <2>6, <2>7 DEF TypeOK, Slot, IdleSlot, Result, DeliveryHasMessage
  <2> QED BY <1>0, <2>4, <2>5, <2>6, <2>7, <2>8, RowIInv
<1>2. CASE ~Completes(s)
  <2>1. TypeOK' /\ DeliveryHasMessage'
    BY <1>2 DEF TypeOK, Slot, IdleSlot, Result, DeliveryHasMessage
  <2> QED BY <1>2, <2>1, SlotIInv
<1> QED BY <1>1, <1>2

\* The steps that write a flag or the lease of a row, or no row at all.
LEMMA OtherIInv ==
  ASSUME IInv,
         \/ \E m \in Messages : DueAgain(m) \/ LeaseExpires(m)
         \/ \E s \in Slots : HeartbeatEnds(s) \/ Crash(s)
         \/ \E s \in Slots, m \in Messages : Choose(s, m)
         \/ \E s \in Slots, result \in Result \ {"none"} : Handle(s, result)
         \/ FaultsEnd
  PROVE  IInv'
<1> USE DEF IInv
<1>1. ASSUME NEW m \in Messages, DueAgain(m) \/ LeaseExpires(m) PROVE IInv'
  <2>0. row[m] \in Row BY DEF TypeOK
  <2>1. PICK r \in Row : /\ row' = [row EXCEPT ![m] = r]
                         /\ r.status = row[m].status /\ r.attempts = row[m].attempts
                         /\ r.owner = row[m].owner
                         /\ r.lease = "live" => row[m].lease = "live"
    <3>1. CASE DueAgain(m)
      <4>1. [row[m] EXCEPT !.due = TRUE] \in Row BY <2>0 DEF Row
      <4> QED BY <2>0, <3>1, <4>1 DEF DueAgain, Row
    <3>2. CASE LeaseExpires(m)
      <4>1. [row[m] EXCEPT !.lease = "expired"] \in Row BY <2>0 DEF Row
      <4> QED BY <2>0, <3>2, <4>1 DEF LeaseExpires, Row
    <3> QED BY <1>1, <3>1, <3>2
  <2>2. UNCHANGED <<slot, requeued, claimant, calm>> BY <1>1 DEF DueAgain, LeaseExpires
  <2>3. TypeOK' /\ DeliveryHasMessage' BY <2>1, <2>2 DEF TypeOK, DeliveryHasMessage
  <2>4. \A n \in Messages : /\ row'[n].status = row[n].status
                            /\ row'[n].attempts = row[n].attempts
                            /\ row'[n].owner = row[n].owner
                            /\ row'[n].lease = "live" => row[n].lease = "live"
    BY <2>1 DEF TypeOK
  <2>5. Budget' BY <2>2, <2>4 DEF Budget, Open
  <2>6. ClaimIsLatest' BY <2>2, <2>4 DEF ClaimIsLatest
  <2>7. LiveIsClaimed' BY <2>4 DEF LiveIsClaimed
  <2> QED BY <2>3, <2>5, <2>6, <2>7
<1>2. ASSUME NEW s \in Slots, HeartbeatEnds(s) PROVE IInv'
  <2>1. TypeOK' BY <1>2 DEF HeartbeatEnds, TypeOK, Slot
  <2>2. DeliveryHasMessage' BY <1>2 DEF HeartbeatEnds, TypeOK, Slot, DeliveryHasMessage
  <2> QED BY <1>2, <2>1, <2>2, SlotIInv DEF HeartbeatEnds
<1>3. ASSUME NEW s \in Slots, Crash(s) PROVE IInv'
  <2>1. TypeOK' BY <1>3 DEF Crash, TypeOK, Slot, IdleSlot, Result
  <2>2. DeliveryHasMessage' BY <1>3 DEF Crash, TypeOK, IdleSlot, DeliveryHasMessage
  <2> QED BY <1>3, <2>1, <2>2, SlotIInv DEF Crash
<1>4. ASSUME NEW s \in Slots, NEW m \in Messages, Choose(s, m) PROVE IInv'
  <2> DEFINE new == [IdleSlot EXCEPT !.pc = "chosen", !.msg = m]
  <2>1. new \in Slot /\ new.msg = m BY DEF IdleSlot, Slot, Result
  <2>2. slot' = [slot EXCEPT ![s] = new] BY <1>4 DEF Choose
  <2> HIDE DEF new
  <2>3. TypeOK' BY <1>4, <2>1, <2>2 DEF Choose, TypeOK
  <2>4. DeliveryHasMessage' BY <2>1, <2>2 DEF TypeOK, DeliveryHasMessage
  <2> QED BY <1>4, <2>3, <2>4, SlotIInv DEF Choose
<1>5. ASSUME NEW s \in Slots, NEW result \in Result \ {"none"}, Handle(s, result) PROVE IInv'
  <2>1. TypeOK' BY <1>5 DEF Handle, TypeOK, Slot
  <2>2. DeliveryHasMessage' BY <1>5 DEF Handle, TypeOK, Slot, DeliveryHasMessage
  <2> QED BY <1>5, <2>1, <2>2, SlotIInv DEF Handle
<1>6. CASE FaultsEnd
  <2>1. TypeOK' /\ DeliveryHasMessage' BY <1>6 DEF FaultsEnd, TypeOK, DeliveryHasMessage
  <2> QED BY <1>6, <2>1, SlotIInv DEF FaultsEnd
<1> QED BY <1>1, <1>2, <1>3, <1>4, <1>5, <1>6

LEMMA NextIInv == IInv /\ [Next]_vars => IInv'
<1> SUFFICES ASSUME IInv, [Next]_vars PROVE IInv'
  OBVIOUS
<1>1. CASE UNCHANGED vars
  <2>1. TypeOK' /\ DeliveryHasMessage' BY <1>1 DEF IInv, vars, TypeOK, DeliveryHasMessage
  <2> QED BY <1>1, <2>1, SlotIInv DEF vars
<1>2. ASSUME NEW m \in Messages, Add(m) \/ Requeue(m) PROVE IInv'
  BY <1>2, AddIInv, RequeueIInv
<1>3. ASSUME NEW s \in Slots, Claim(s) \/ Complete(s) PROVE IInv'
  BY <1>3, ClaimIInv, CompleteIInv
<1> QED BY <1>1, <1>2, <1>3, OtherIInv DEF Next, SlotStep

LEMMA Invariance == Spec => []IInv
BY InitIInv, NextIInv, PTL DEF Spec

------------------------------------------------------------------------------
(* Theorems *)

\* Every row and every delivery keeps its type: in particular no message is
\* ever counted more attempts than the larger limit and its requeues allow
\* (outbox.py, complete and requeue).
THEOREM TypeCorrect == Spec => []TypeOK
BY Invariance, PTL DEF IInv

\* For any number of slots, workers' ids and messages, and whatever the two
\* limits are: a message that is not given up has an attempt left.
THEOREM AttemptsAreBounded == Spec => []AttemptBudget
<1>1. IInv => AttemptBudget BY DEF IInv, Budget, AttemptBudget
<1> QED BY <1>1, Invariance, PTL

\* For any set of slots, a slot whose id is its own records a result only
\* for the claim the row was last taken with (complete() compares the owner).
THEOREM OutcomesAreOfLatestClaim == Spec => []OutcomeOfLatestClaim
<1>1. IInv => OutcomeOfLatestClaim
  <2> SUFFICES ASSUME IInv, NEW s \in Slots, Unique(s),
                      slot[s].pc \in {"handling", "handled"}, Completes(s)
               PROVE  claimant[slot[s].msg] = s
    BY DEF OutcomeOfLatestClaim
  <2>1. slot[s].msg \in Messages BY DEF IInv, DeliveryHasMessage
  <2>2. /\ claimant[slot[s].msg] \in Slots
        /\ IdOf[claimant[slot[s].msg]] = IdOf[s]
    BY <2>1 DEF IInv, ClaimIsLatest, Completes
  <2> QED BY <2>2 DEF Unique
<1> QED BY <1>1, Invariance, PTL

\* A delivered message is never touched again, by any number of late slots,
\* claims and requeues.
THEOREM DeliveredStays == Spec => DeliveredIsFinal
<1>1. IInv /\ [Next]_vars
        => [\A m \in Messages : row[m].status = "delivered" => row'[m] = row[m]]_vars
  <2> SUFFICES ASSUME IInv, Next, NEW m \in Messages, row[m].status = "delivered"
               PROVE  row'[m] = row[m]
    BY DEF vars
  <2> USE DEF IInv
  <2>1. ASSUME NEW n \in Messages, Add(n) \/ Requeue(n) \/ DueAgain(n) \/ LeaseExpires(n)
        PROVE  row'[m] = row[m]
    <3>1. row[m].lease # "live" BY DEF LiveIsClaimed
    <3>2. m # n BY <2>1, <3>1 DEF Add, Requeue, Requeueable, DueAgain, LeaseExpires
    <3> QED BY <2>1, <3>2 DEF Add, Requeue, DueAgain, LeaseExpires, TypeOK
  <2>2. ASSUME NEW s \in Slots, SlotStep(s) \/ HeartbeatEnds(s) \/ Crash(s)
        PROVE  row'[m] = row[m]
    BY <2>2 DEF SlotStep, Choose, Claim, Free, Handle, Complete, Completes, HeartbeatEnds, Crash,
       TypeOK, DeliveryHasMessage
  <2>3. ASSUME FaultsEnd PROVE row'[m] = row[m]
    BY <2>3 DEF FaultsEnd
  <2> QED BY <2>1, <2>2, <2>3 DEF Next
<1> QED BY <1>1, Invariance, PTL DEF Spec, DeliveredIsFinal

------------------------------------------------------------------------------
(* Implementation of the abstract delivery *)

\* The abstract variables.
st == [m \in Messages |-> Shown(row[m].status)]
tr == [m \in Messages |-> row[m].attempts]

AbstractStep == [Delivery!DeliveryNext]_(Delivery!deliveryVars)

\* A row is replaced: what is shown of it.
LEMMA ShownRow ==
  ASSUME TypeOK, NEW m \in Messages, NEW r, row' = [row EXCEPT ![m] = r],
         NEW state, state = Shown(r.status), NEW n, n = r.attempts
  PROVE  st' = [st EXCEPT ![m] = state] /\ tr' = [tr EXCEPT ![m] = n]
<1>1. \A k \in Messages : row'[k] = IF k = m THEN r ELSE row[k]
  BY DEF TypeOK
<1>2. \A k \in Messages : /\ Shown(row'[k].status) = IF k = m THEN state ELSE Shown(row[k].status)
                          /\ row'[k].attempts = IF k = m THEN n ELSE row[k].attempts
  BY <1>1
<1> QED BY <1>2 DEF st, tr

LEMMA SameRowStep ==
  ASSUME TypeOK, UNCHANGED requeued, NEW m \in Messages, NEW r, row' = [row EXCEPT ![m] = r],
         Shown(r.status) = Shown(row[m].status), r.attempts = row[m].attempts
  PROVE  AbstractStep
<1> DEFINE state == Shown(r.status)
           n     == r.attempts
<1>1. state = st[m] /\ n = tr[m] BY DEF st, tr
<1>2. st' = [st EXCEPT ![m] = state] /\ tr' = [tr EXCEPT ![m] = n] BY ShownRow
<1> HIDE DEF state, n
<1>3. UNCHANGED <<st, tr, requeued>> BY <1>1, <1>2 DEF st, tr
<1> QED BY <1>3 DEF AbstractStep, Delivery!deliveryVars, st, tr

LEMMA SlotOnlyStep == ASSUME UNCHANGED <<row, requeued>> PROVE AbstractStep
<1>1. UNCHANGED <<st, tr, requeued>> BY DEF st, tr
<1> QED BY <1>1 DEF AbstractStep, Delivery!deliveryVars, st, tr

LEMMA AddStep == ASSUME IInv, NEW m \in Messages, Add(m) PROVE AbstractStep
<1> DEFINE r == [row[m] EXCEPT !.status = "pending", !.due = TRUE]
<1>1. row[m] \in Row BY DEF IInv, TypeOK
<1>2. r.status = "pending" /\ r.attempts = row[m].attempts BY <1>1 DEF Row
<1>3. row' = [row EXCEPT ![m] = r] /\ UNCHANGED requeued /\ row[m].status = "absent"
  BY DEF Add
<1> HIDE DEF r
<1>4. Shown(r.status) = "queued" /\ st[m] = "absent" /\ r.attempts = tr[m]
  BY <1>2, <1>3 DEF Shown, st, tr
<1>5. st' = [st EXCEPT ![m] = "queued"] /\ tr' = [tr EXCEPT ![m] = tr[m]]
  BY <1>3, <1>4, ShownRow DEF IInv
<1>6. tr' = tr BY <1>5 DEF tr
<1>7. Delivery!Produce(m) BY <1>3, <1>4, <1>5, <1>6 DEF Delivery!Produce, st, tr
<1> QED BY <1>7 DEF AbstractStep, Delivery!DeliveryNext

LEMMA RequeueStep == ASSUME IInv, NEW m \in Messages, Requeue(m) PROVE AbstractStep
<1> DEFINE r == [row[m] EXCEPT !.status = "pending", !.due = TRUE, !.owner = NoId,
                               !.lease = "none"]
<1>1. row[m] \in Row BY DEF IInv, TypeOK
<1>2. r.status = "pending" /\ r.attempts = row[m].attempts BY <1>1 DEF Row
<1>3. /\ row' = [row EXCEPT ![m] = r] /\ requeued' = [requeued EXCEPT ![m] = @ + 1]
      /\ row[m].status \in {"retryable", "dead_letter", "claimed"}
  BY DEF Requeue, Requeueable
<1> HIDE DEF r
<1>4. Shown(r.status) = "queued" /\ st[m] \in {"queued", "given_up"} /\ r.attempts = tr[m]
  BY <1>2, <1>3 DEF Shown, st, tr
<1>5. st' = [st EXCEPT ![m] = "queued"] /\ tr' = [tr EXCEPT ![m] = tr[m]]
  BY <1>3, <1>4, ShownRow DEF IInv
<1>6. tr' = tr BY <1>5 DEF tr
<1>7. Delivery!AskAgain(m) BY <1>3, <1>4, <1>5, <1>6 DEF Delivery!AskAgain, st, tr
<1> QED BY <1>7 DEF AbstractStep, Delivery!DeliveryNext

LEMMA ClaimStep == ASSUME IInv, NEW s \in Slots, Claim(s) PROVE AbstractStep
<1> DEFINE m == slot[s].msg
           r == [row[m] EXCEPT !.status = "claimed", !.owner = IdOf[s], !.lease = "live"]
<1>0. m \in Messages BY DEF IInv, DeliveryHasMessage, Claim
<1>1. CASE Free(m)
  <2>1. row[m] \in Row BY <1>0 DEF IInv, TypeOK
  <2>2. r.status = "claimed" /\ r.attempts = row[m].attempts BY <2>1 DEF Row
  <2>3. row' = [row EXCEPT ![m] = r] /\ UNCHANGED requeued BY <1>1 DEF Claim
  <2>4. row[m].status \in {"pending", "retryable", "claimed"} BY <1>1 DEF Free
  <2> HIDE DEF r
  <2>5. Shown(r.status) = Shown(row[m].status) BY <2>2, <2>4 DEF Shown
  <2> QED BY <1>0, <2>2, <2>3, <2>5, SameRowStep DEF IInv
<1>2. CASE ~Free(m) BY <1>2, SlotOnlyStep DEF Claim
<1> QED BY <1>1, <1>2

\* An outcome is recorded for a claimed message only, so it is tried at most
\* as often as it may be, and its last outcome decides.
LEMMA CompleteStep == ASSUME IInv, NEW s \in Slots, Complete(s) PROVE AbstractStep
<1>0. PICK m \in Messages : m = slot[s].msg BY DEF IInv, DeliveryHasMessage, Complete
<1>1. CASE ~Completes(s) BY <1>1, SlotOnlyStep DEF Complete
<1>2. CASE Completes(s)
  <2>1. PICK n : n = row[m].attempts + 1 OBVIOUS
  <2>2. PICK status : status = IF slot[s].result = "delivered" THEN "delivered"
                               ELSE IF Again(s, n) THEN "retryable" ELSE "dead_letter"
    OBVIOUS
  <2>3. PICK r : /\ row' = [row EXCEPT ![m] = r] /\ UNCHANGED requeued
                 /\ r.status = status /\ r.attempts = n
    BY <1>0, <1>2, <2>1, <2>2 DEF Complete
  <2>4. row[m].attempts \in Nat BY LimitsAreBounded DEF IInv, TypeOK, Row
  <2>5. st[m] = "queued" /\ n = tr[m] + 1
    BY <1>0, <1>2, <2>1 DEF Completes, st, tr, Shown
  <2>6. PICK shown : shown = Shown(status) OBVIOUS
  <2>7. st' = [st EXCEPT ![m] = shown] /\ tr' = [tr EXCEPT ![m] = n]
    BY <2>3, <2>6, ShownRow DEF IInv
  <2>8. Delivery!Tried(m, shown)
    BY <2>3, <2>5, <2>7 DEF Delivery!Tried, st, tr
  <2>9. CASE status = "delivered"
    <3>1. shown = "delivered" BY <2>6, <2>9 DEF Shown
    <3>2. Delivery!Deliver(m) BY <2>8, <3>1 DEF Delivery!Deliver
    <3> QED BY <3>2 DEF AbstractStep, Delivery!DeliveryNext
  <2>10. CASE status = "dead_letter"
    <3>1. shown = "given_up" BY <2>6, <2>10 DEF Shown
    <3>2. Delivery!GiveUp(m) BY <2>8, <3>1 DEF Delivery!GiveUp
    <3> QED BY <3>2 DEF AbstractStep, Delivery!DeliveryNext
  <2>11. CASE status = "retryable"
    <3>1. shown = "queued" BY <2>6, <2>11 DEF Shown
    <3>2. n < LargerLimit BY <2>1, <2>2, <2>4, <2>11, LimitsAreBounded DEF Again
    <3>3. tr[m] + 1 < LargerLimit BY <2>5, <3>2
    <3>4. Delivery!Postpone(m) BY <2>8, <3>1, <3>3 DEF Delivery!Postpone, tr
    <3> QED BY <3>4 DEF AbstractStep, Delivery!DeliveryNext
  <2> QED BY <2>2, <2>9, <2>10, <2>11
<1> QED BY <1>1, <1>2

LEMMA ClockStep == ASSUME IInv, NEW m \in Messages, DueAgain(m) \/ LeaseExpires(m) PROVE AbstractStep
<1>1. row[m] \in Row BY DEF IInv, TypeOK
<1>2. PICK r : /\ row' = [row EXCEPT ![m] = r]
               /\ r.status = row[m].status /\ r.attempts = row[m].attempts
  BY <1>1 DEF DueAgain, LeaseExpires, Row
<1>3. UNCHANGED requeued BY DEF DueAgain, LeaseExpires
<1> QED BY <1>2, <1>3, SameRowStep DEF IInv

\* For any number of slots, ids and messages and whatever the two limits are,
\* the table and its delivering threads implement the abstract delivery.
THEOREM DeliveryImplemented == Spec => ImplementsDelivery
<1>1. Init => Delivery!DeliveryInit
  <2> SUFFICES ASSUME Init PROVE Delivery!DeliveryInit
    OBVIOUS
  <2>1. \A m \in Messages : Shown(row[m].status) = "absent" /\ row[m].attempts = 0
    BY DEF Init, Shown
  <2> QED BY <2>1 DEF Init, Delivery!DeliveryInit
<1>2. IInv /\ [Next]_vars => [Delivery!DeliveryNext]_(Delivery!deliveryVars)
  <2> SUFFICES ASSUME IInv, [Next]_vars PROVE AbstractStep
    BY DEF AbstractStep
  <2>1. CASE UNCHANGED <<row, requeued>> BY <2>1, SlotOnlyStep
  <2>2. ASSUME NEW m \in Messages, Add(m) \/ Requeue(m) \/ DueAgain(m) \/ LeaseExpires(m)
        PROVE  AbstractStep
    BY <2>2, AddStep, RequeueStep, ClockStep
  <2>3. ASSUME NEW s \in Slots, Claim(s) \/ Complete(s) PROVE AbstractStep
    BY <2>3, ClaimStep, CompleteStep
  <2> QED
    BY <2>1, <2>2, <2>3
    DEF Next, SlotStep, Choose, Handle, HeartbeatEnds, Crash, FaultsEnd, vars
<1> QED BY <1>1, <1>2, Invariance, PTL DEF Spec, ImplementsDelivery, Delivery!DeliverySpec
=============================================================================
