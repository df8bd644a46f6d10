----------------------------- MODULE VectorIndex -----------------------------
(***************************************************************************)
(* The vector index of the matching service (application/vector_indexing,  *)
(* vector_index_worker, vector_index_admin): references and outbox events  *)
(* in the database, points in Qdrant, and the workers between them.        *)
(*                                                                         *)
(* One entity.  A version stands for the content it identifies and has one *)
(* reference and one point.  An event is identified by what its            *)
(* deduplication key holds: its type and version, and the correlation id   *)
(* of a reindex.                                                           *)
(*                                                                         *)
(* Events are planned in the process of the API, whose transactions        *)
(* exclude each other (an RLock per process); a worker is a process of its *)
(* own.  Between processes nothing is excluded: lock_entity does nothing,  *)
(* and references are read without a lock and written later.  A            *)
(* transaction whose writes depend on what it read is therefore a read and *)
(* a write; those that only insert, or write whatever they find, are one   *)
(* step.  Remote calls are steps of their own.  The explicit heartbeats of *)
(* _process only return early where the next transaction finds the claim   *)
(* lost as well, and are left out.                                         *)
(***************************************************************************)
EXTENDS Naturals, FiniteSets

CONSTANTS
  MaxVersion,
  Workers,
  MaxAttempts,
  NoWorker, NoEvent,
  Correlations, \* correlation ids of reindex requests
  Occurring,    \* bound of the model: the events that may be planned
  Reverts,      \* bound of the model: whether content returns to an earlier version
  Reconciles    \* whether an operator reconciles

Versions  == 1 .. MaxVersion
Withdrawn == 0

Revocation == [kind |-> "revoked", version |-> Withdrawn]
Announcements == {"published", "updated"}
Event == [kind : Announcements \cup Correlations, version : Versions] \cup {Revocation}

ASSUME VersionAssumption == MaxVersion \in Nat \ {0}
ASSUME AttemptAssumption == MaxAttempts \in Nat \ {0}
ASSUME NoAssumption      == NoWorker \notin Workers
ASSUME EventAssumption   == Occurring \subseteq Event
ASSUME SwitchAssumption  == {Reverts, Reconciles} \subseteq BOOLEAN
ASSUME CorrelationAssumption ==
  IsFiniteSet(Correlations) /\ Correlations \cap (Announcements \cup {"revoked"}) = {}

VARIABLES
  source,  \* the version the authoritative service holds
  ref,     \* vector_index_references
  event,   \* vector_outbox_events
  point,   \* the points in Qdrant
  work,    \* per worker, the event it processes
  request, \* per event, the request of the API that plans it
  admin,   \* the reconciliation in progress
  acked,   \* versions that an event was acknowledged for (history)
  calm     \* no crash and no error any more

vars == <<source, ref, event, point, work, request, admin, acked, calm>>

Terminal  == {"deleted", "superseded"}
RefStatus == {"absent", "pending", "embedding", "upserting", "indexed", "retrying", "failed"}
             \cup Terminal

\* `created' is the position of the event that a row was created with.
Ref == [status : RefStatus, created : 0 .. Cardinality(Event)]

EventRow == [status : {"absent", "pending", "claimed", "retrying", "processed", "dead_letter"},
             attempt : 0 .. MaxAttempts, owner : Workers \cup {NoWorker},
             created : 0 .. Cardinality(Event)]

Writing == {"write_mark", "write_ack", "write_discard", "write_fail"}

\* `targets': the references the worker's points belong to; `writes': those
\* its transaction is about to save; `old': those it will deactivate.
Work == [pc : {"idle", "fetch", "list", "mark", "upsert", "previous", "delete", "ack",
               "activate", "deactivate", "discard", "fail"} \cup Writing,
         event : Event \cup {NoEvent}, stage : {"embedding", "upserting"},
         targets : SUBSET Versions, writes : SUBSET Versions, old : SUBSET Versions]

IdleWork == [pc |-> "idle", event |-> NoEvent, stage |-> "embedding",
             targets |-> {}, writes |-> {}, old |-> {}]

Request == {"none", "resolved", "checked"}

Admin == [pc : {"idle", "read", "listed", "hidden"}, seen : [Versions -> RefStatus],
          off : SUBSET Versions, on : SUBSET Versions]

IdleAdmin == [pc |-> "idle", seen |-> [v \in Versions |-> "absent"], off |-> {}, on |-> {}]

TypeOK ==
  /\ source \in Versions \cup {Withdrawn}
  /\ ref \in [Versions -> Ref]
  /\ event \in [Event -> EventRow]
  /\ point \in [Versions -> {"absent", "inactive", "active"}]
  /\ work \in [Workers -> Work]
  /\ request \in [Event -> Request]
  /\ admin \in Admin
  /\ acked \subseteq Versions
  /\ calm \in BOOLEAN

Init ==
  /\ source = 1
  /\ ref = [v \in Versions |-> [status |-> "absent", created |-> 0]]
  /\ event = [e \in Event |-> [status |-> "absent", attempt |-> 0, owner |-> NoWorker,
                               created |-> 0]]
  /\ point = [v \in Versions |-> "absent"]
  /\ work = [w \in Workers |-> IdleWork]
  /\ request = [e \in Event |-> "none"]
  /\ admin = IdleAdmin
  /\ acked = {}
  /\ calm \in BOOLEAN

------------------------------------------------------------------------------
(* The authoritative source and the planning of events *)

Edit(v) ==
  /\ source # Withdrawn /\ v # source
  /\ Reverts \/ v > source
  /\ source' = v
  /\ UNCHANGED <<ref, event, point, work, request, admin, acked, calm>>

\* A deleted entity does not come back.
Withdraw ==
  /\ Revocation \in Occurring
  /\ source # Withdrawn
  /\ source' = Withdrawn
  /\ UNCHANGED <<ref, event, point, work, request, admin, acked, calm>>

\* Another transaction of the API process is under way.
Locked == \E e \in Event : request[e] = "checked"

Open(v) == ref[v].status \notin Terminal \cup {"absent"}

Clock == Cardinality({e \in Event : event[e].status # "absent"}) + 1

\* An event is created once; the moment of planning is taken as one with the
\* transaction.
Created(e) == [event EXCEPT ![e].status = "pending", ![e].created = Clock]

\* _resolve() asks the source before the transaction, and outside of it.  A
\* request that fails or dies before its commit leaves nothing behind.
Resolve(e) ==
  /\ e \in Occurring \ {Revocation} /\ event[e].status = "absent"
  /\ request[e] = "none" /\ source = e.version
  /\ request' = [request EXCEPT ![e] = "resolved"]
  /\ UNCHANGED <<source, ref, event, point, work, admin, acked, calm>>

\* plan() of an announced profile: an existing reference is left as it is.
Update(e) ==
  /\ e.kind \in Announcements /\ request[e] = "resolved" /\ ~Locked
  /\ request' = [request EXCEPT ![e] = "none"]
  /\ event' = Created(e)
  /\ ref' = IF ref[e.version].status = "absent"
            THEN [ref EXCEPT ![e.version] = [status |-> "pending", created |-> Clock]]
            ELSE ref
  /\ UNCHANGED <<source, point, work, admin, acked, calm>>

\* plan() of a reindex, refused while a reference of another version is in use.
CheckLineage(e) ==
  /\ e.kind \in Correlations /\ request[e] = "resolved" /\ ~Locked
  /\ request' = [request EXCEPT ![e] = IF \A v \in Versions : Open(v) => v = e.version
                                       THEN "checked" ELSE "none"]
  /\ UNCHANGED <<source, ref, event, point, work, admin, acked, calm>>

Reindex(e) ==
  /\ request[e] = "checked"
  /\ request' = [request EXCEPT ![e] = "none"]
  /\ event' = Created(e)
  /\ ref' = [ref EXCEPT ![e.version] =
               [status |-> "pending", created |-> IF @.status = "absent" THEN Clock ELSE @.created]]
  /\ UNCHANGED <<source, point, work, admin, acked, calm>>

\* plan() of a withdrawal saves every reference there is, and only plan() adds
\* any.
Revoke ==
  /\ source = Withdrawn /\ ~Locked
  /\ Revocation \in Occurring /\ event[Revocation].status = "absent"
  /\ event' = Created(Revocation)
  /\ ref' = [v \in Versions |-> IF ref[v].status = "absent" THEN ref[v]
                                ELSE [ref[v] EXCEPT !.status = "deleted"]]
  /\ UNCHANGED <<source, point, work, request, admin, acked, calm>>

\* retry_failed() of the admin service; operators retry while faults last.
RetryFailed(e) ==
  /\ ~Locked /\ ~calm /\ event[e].status = "dead_letter"
  /\ event' = [event EXCEPT ![e].status = "retrying", ![e].attempt = 0]
  /\ UNCHANGED <<source, ref, point, work, request, admin, acked, calm>>

------------------------------------------------------------------------------
(* Claims *)

\* The heartbeat thread renews the claim while the worker lives, an expired
\* one included as long as nobody took it, and no transaction compares the
\* expiry: it matters only to a worker that claims.
ClaimExpires(e) == calm => work[event[e].owner].event # e

\* Mutant of Claimable: an expired claim of the last attempt is left.
ClaimableWithAttempts(e) ==
  /\ event[e].status \in {"pending", "retrying", "claimed"}
  /\ event[e].status = "claimed" => ClaimExpires(e)
  /\ event[e].attempt < MaxAttempts

\* The WHERE clause of claim().
Claimable(e) ==
  \/ event[e].status \in {"pending", "retrying"} /\ event[e].attempt < MaxAttempts
  \/ event[e].status = "claimed" /\ ClaimExpires(e)

\* Mutant of Attempted: not capped.
AttemptedUncapped(e) == event[e].attempt + 1

Attempted(e) == IF event[e].attempt < MaxAttempts THEN event[e].attempt + 1 ELSE MaxAttempts

Claim(w, e) ==
  /\ work[w].pc = "idle" /\ Claimable(e)
  /\ event' = [event EXCEPT ![e].status = "claimed", ![e].owner = w,
                            ![e].attempt = Attempted(e)]
  /\ work' = [work EXCEPT ![w] = [IdleWork EXCEPT
                !.pc = IF e = Revocation THEN "list" ELSE "fetch", !.event = e]]
  /\ UNCHANGED <<source, ref, point, request, admin, acked, calm>>

Owns(w, e) == event[e].status = "claimed" /\ event[e].owner = w

------------------------------------------------------------------------------
(* The worker *)

Go(w, pc) == work' = [work EXCEPT ![w].pc = pc]
Stop(w)   == work' = [work EXCEPT ![w] = IdleWork]

Fetch(w) ==
  /\ work[w].pc = "fetch"
  /\ Go(w, IF source = Withdrawn THEN "fail"
           ELSE IF source = work[w].event.version THEN "list" ELSE "discard")
  /\ UNCHANGED <<source, ref, event, point, request, admin, acked, calm>>

\* Mutant of Expected: a revocation, too, looks for references in use.
ExpectedOpen(e) == {v \in Versions : Open(v) /\ (e = Revocation \/ v = e.version)}

\* _expected_reference_ids() and _event_references().
Expected(e) ==
  IF e = Revocation THEN {v \in Versions : ref[v].status = "deleted"}
  ELSE {v \in {e.version} : Open(v)}

\* Without a usable reference: VECTOR_FRAGMENT_PLAN_MISMATCH.
List(w) ==
  /\ work[w].pc = "list"
  /\ LET e == work[w].event IN
       work' = [work EXCEPT ![w].targets = Expected(e),
                            ![w].pc = IF e = Revocation THEN "delete"
                                      ELSE IF Expected(e) = {} THEN "fail" ELSE "mark"]
  /\ UNCHANGED <<source, ref, event, point, request, admin, acked, calm>>

\* A transaction of the worker reads: with the claim lost it ends the work.
\* Columns that do not change are not written.
Read(w, writes, pc) ==
  IF Owns(w, work[w].event)
  THEN work' = [work EXCEPT ![w].writes = writes, ![w].pc = pc]
  ELSE Stop(w)

StatusSet(vs, status) ==
  [v \in Versions |-> IF v \in vs THEN [ref[v] EXCEPT !.status = status] ELSE ref[v]]

ReadMark(w) ==
  /\ work[w].pc = "mark"
  /\ Read(w, {v \in Expected(work[w].event) : ref[v].status # work[w].stage}, "write_mark")
  /\ UNCHANGED <<source, ref, event, point, request, admin, acked, calm>>

\* mark_references() does not look at the event again.  The embedding is
\* computed between the two marks.
WriteMark(w) ==
  /\ work[w].pc = "write_mark"
  /\ ref' = StatusSet(work[w].writes, work[w].stage)
  /\ work' = IF work[w].stage = "embedding"
             THEN [work EXCEPT ![w].stage = "upserting", ![w].pc = "mark"]
             ELSE [work EXCEPT ![w].pc = "upsert"]
  /\ UNCHANGED <<source, event, point, request, admin, acked, calm>>

\* Setting a payload changes existing points only.
PointsSet(vs, p) ==
  [v \in Versions |-> IF v \in vs /\ point[v] # "absent" THEN p ELSE point[v]]

\* Mutants of Upserted: the payload is set instead; the point is active.
UpsertedExisting(vs) == PointsSet(vs, "inactive")
UpsertedActive(vs)   == [v \in Versions |-> IF v \in vs THEN "active" ELSE point[v]]

\* An upsert replaces the payload: an active point is inactive again.
Upserted(vs) == [v \in Versions |-> IF v \in vs THEN "inactive" ELSE point[v]]

Upsert(w) ==
  /\ work[w].pc = "upsert"
  /\ point' = Upserted(work[w].targets)
  /\ Go(w, "previous")
  /\ UNCHANGED <<source, ref, event, request, admin, acked, calm>>

\* Mutant of Older: references that are not indexed yet are not superseded.
OlderIndexed(e) ==
  {v \in Versions : /\ ref[v].status = "indexed" /\ v # e.version
                    /\ ref[v].created < event[e].created}

Older(e) == {v \in Versions : Open(v) /\ v # e.version /\ ref[v].created < event[e].created}

Previous(w) ==
  /\ work[w].pc = "previous"
  /\ work' = [work EXCEPT ![w].old = Older(work[w].event), ![w].pc = "ack"]
  /\ UNCHANGED <<source, ref, event, point, request, admin, acked, calm>>

\* A revocation deletes the points of the references it found.
Delete(w) ==
  /\ work[w].pc = "delete"
  /\ point' = [v \in Versions |-> IF v \in work[w].targets THEN "absent" ELSE point[v]]
  /\ Go(w, "ack")
  /\ UNCHANGED <<source, ref, event, request, admin, acked, calm>>

AckMatches(w) == Expected(work[w].event) = work[w].targets

ReadAck(w) ==
  /\ work[w].pc = "ack"
  /\ IF Owns(w, work[w].event) /\ ~AckMatches(w)
     THEN Go(w, "fail")
     ELSE Read(w, IF work[w].event = Revocation THEN {}
                  ELSE {v \in work[w].targets : ref[v].status # "indexed"}, "write_ack")
  /\ UNCHANGED <<source, ref, event, point, request, admin, acked, calm>>

Closed(e, status) ==
  [event EXCEPT ![e].status = status, ![e].owner = NoWorker]

\* acknowledge() supersedes the older versions that are open now.
WriteAck(w) ==
  /\ work[w].pc = "write_ack"
  /\ LET e == work[w].event IN
       IF ~Owns(w, e)
       THEN Stop(w) /\ UNCHANGED <<ref, event, acked>>
       ELSE /\ event' = Closed(e, "processed")
            /\ IF e = Revocation
               THEN Stop(w) /\ UNCHANGED <<ref, acked>>
               ELSE /\ ref' = [v \in Versions |->
                                 IF v \in work[w].writes THEN [ref[v] EXCEPT !.status = "indexed"]
                                 ELSE IF v \in Older(e) THEN [ref[v] EXCEPT !.status = "superseded"]
                                 ELSE ref[v]]
                    /\ acked' = acked \cup work[w].targets
                    /\ Go(w, "activate")
  /\ UNCHANGED <<source, point, request, admin, calm>>

Activate(w) ==
  /\ work[w].pc = "activate"
  /\ point' = PointsSet(work[w].targets, "active")
  /\ Go(w, "deactivate")
  /\ UNCHANGED <<source, ref, event, request, admin, acked, calm>>

Deactivate(w) ==
  /\ work[w].pc = "deactivate"
  /\ point' = PointsSet(work[w].old, "inactive")
  /\ Stop(w)
  /\ UNCHANGED <<source, ref, event, request, admin, acked, calm>>

ReadDiscard(w) ==
  /\ work[w].pc = "discard"
  /\ Read(w, Expected(work[w].event), "write_discard")
  /\ UNCHANGED <<source, ref, event, point, request, admin, acked, calm>>

\* discard_stale() commits the references even where the claim was lost.
WriteDiscard(w) ==
  /\ work[w].pc = "write_discard"
  /\ ref' = StatusSet(work[w].writes, "superseded")
  /\ event' = IF Owns(w, work[w].event) THEN Closed(work[w].event, "processed") ELSE event
  /\ Stop(w)
  /\ UNCHANGED <<source, point, request, admin, acked, calm>>

Exhausted(e) == event[e].attempt >= MaxAttempts

ReadFail(w) ==
  /\ work[w].pc = "fail"
  /\ LET e == work[w].event IN
       Read(w, {v \in Expected(e) : /\ ref[v].status # "deleted"
                                    /\ ref[v].status # IF Exhausted(e) THEN "failed" ELSE "retrying"},
            "write_fail")
  /\ UNCHANGED <<source, ref, event, point, request, admin, acked, calm>>

WriteFail(w) ==
  /\ work[w].pc = "write_fail"
  /\ LET e == work[w].event IN
       IF Owns(w, e)
       THEN /\ event' = Closed(e, IF Exhausted(e) THEN "dead_letter" ELSE "retrying")
            /\ ref' = StatusSet(work[w].writes, IF Exhausted(e) THEN "failed" ELSE "retrying")
       ELSE UNCHANGED <<event, ref>>
  /\ Stop(w)
  /\ UNCHANGED <<source, point, request, admin, acked, calm>>

------------------------------------------------------------------------------
(* Reconciliation (repair = true) *)

ReadReferences ==
  /\ Reconciles /\ admin.pc = "idle" /\ ~Locked
  /\ admin' = [IdleAdmin EXCEPT !.pc = "read", !.seen = [v \in Versions |-> ref[v].status]]
  /\ UNCHANGED <<source, ref, event, point, work, request, acked, calm>>

\* Mutants: only points without a reference are hidden; points whose
\* indexing is not acknowledged yet are shown.
ToHideOrphans == {v \in Versions : point[v] # "absent" /\ admin.seen[v] = "absent"}
ToShowUpserted ==
  {v \in Versions : point[v] = "inactive" /\ admin.seen[v] \in {"indexed", "upserting"}}

\* Deleted references raise no issue.
ToHide == {v \in Versions : \/ point[v] = "active" /\ admin.seen[v] \notin {"indexed", "deleted"}
                            \/ point[v] # "absent" /\ admin.seen[v] = "absent"}

ToShow == {v \in Versions : point[v] = "inactive" /\ admin.seen[v] = "indexed"}

ListPoints ==
  /\ admin.pc = "read"
  /\ admin' = [IdleAdmin EXCEPT !.pc = "listed", !.off = ToHide, !.on = ToShow]
  /\ UNCHANGED <<source, ref, event, point, work, request, acked, calm>>

RepairHide ==
  /\ admin.pc = "listed"
  /\ point' = PointsSet(admin.off, "inactive")
  /\ admin' = [admin EXCEPT !.pc = "hidden", !.off = {}]
  /\ UNCHANGED <<source, ref, event, work, request, acked, calm>>

\* An indexed reference without a point asks for a reindex as well; it only
\* occurs after a withdrawal, when the source has no profile to index.
RepairShow ==
  /\ admin.pc = "hidden"
  /\ point' = PointsSet(admin.on, "active")
  /\ admin' = IdleAdmin
  /\ UNCHANGED <<source, ref, event, work, request, acked, calm>>

------------------------------------------------------------------------------
(* Faults *)

\* An exception in _process is caught and becomes a failure of the event.
Raise(w) ==
  /\ ~calm
  /\ work[w].pc \notin {"idle", "fail", "write_fail"}
  /\ Go(w, "fail")
  /\ UNCHANGED <<source, ref, event, point, request, admin, acked, calm>>

\* The process dies; it starts again under the same id.
Crash(w) ==
  /\ ~calm
  /\ work[w].pc # "idle"
  /\ Stop(w)
  /\ UNCHANGED <<source, ref, event, point, request, admin, acked, calm>>

FaultsEnd ==
  /\ ~calm
  /\ calm' = TRUE
  /\ UNCHANGED <<source, ref, event, point, work, request, admin, acked>>

Process(w) ==
  \/ Fetch(w) \/ List(w) \/ ReadMark(w) \/ WriteMark(w) \/ Upsert(w) \/ Previous(w)
  \/ Delete(w) \/ ReadAck(w) \/ WriteAck(w) \/ Activate(w) \/ Deactivate(w)
  \/ ReadDiscard(w) \/ WriteDiscard(w) \/ ReadFail(w) \/ WriteFail(w)

PlanStep(e) == Resolve(e) \/ Update(e) \/ CheckLineage(e) \/ Reindex(e)

AdminStep == ReadReferences \/ ListPoints \/ RepairHide \/ RepairShow

Next ==
  \/ \E v \in Versions : Edit(v)
  \/ Withdraw
  \/ \E e \in Event : PlanStep(e) \/ RetryFailed(e)
  \/ Revoke
  \/ \E w \in Workers : Process(w) \/ Raise(w) \/ Crash(w)
  \/ \E w \in Workers, e \in Event : Claim(w, e)
  \/ AdminStep
  \/ FaultsEnd

Spec == Init /\ [][Next]_vars

\* run_forever() polls for ever and claims what has been due longest, a
\* claim its owner stopped renewing included; faults end; where operators
\* reconcile they go on doing so; the API's outbox delivers what the source
\* announces.
Fairness ==
  /\ \A w \in Workers : WF_vars(Process(w))
  /\ \A e \in Occurring : /\ SF_vars(\E w \in Workers : Claim(w, e))
                         /\ WF_vars(PlanStep(e))
  /\ WF_vars(Revoke) /\ WF_vars(AdminStep) /\ WF_vars(FaultsEnd)

FairSpec == Spec /\ Fairness

------------------------------------------------------------------------------
(* Properties *)

\* Points are searchable only after some event of their version was
\* acknowledged, whatever crashes, expires or is reconciled
\* (test_vector_index_worker_admin_c3_c4.py:378).
ActiveWasAcknowledged ==
  \A v \in Versions : point[v] = "active" => v \in acked

\* Two versions are never indexed at once, in whatever order their events are
\* planned, also while the worker is about to write, executed, retried and
\* acknowledged.  This needs that there is one worker (compose.yaml starts
\* one): of two, each may acknowledge a version the other did not read.
AtMostOneIndexed ==
  \A u, v \in Versions : ref[u].status = "indexed" /\ ref[v].status = "indexed" => u = v

\* An indexed reference has its point; only a withdrawal takes it away.
IndexedHasPoint ==
  \A v \in Versions :
    ref[v].status = "indexed" => point[v] # "absent" \/ event[Revocation].status # "absent"

\* Every event ends, one that lost its worker at the last attempt included.
EventsSettle ==
  \A e \in Occurring : event[e].status # "absent" ~> event[e].status \in {"processed", "dead_letter"}

Consistent ==
  \A v \in Versions :
    /\ ref[v].status = "indexed" => point[v] = "active"
    /\ ref[v].status \notin {"indexed", "deleted"} => point[v] # "active"

\* Reconciliation converges: whatever state crashes between an
\* acknowledgement and its activation, stale activations and failed retries
\* left, the searchable points become those of the indexed references.
ReconcileConverges == <>[]Consistent

\* Once the revocation is processed the references it deleted have no point
\* any more, searchable or not, whatever the worker had upserted or was about
\* to activate when it died, and whatever a reconciliation saw before.  This,
\* too, needs that there is one worker.
DeletedHasNoPoint ==
  event[Revocation].status = "processed" =>
    \A v \in Versions : ref[v].status = "deleted" => point[v] = "absent"

\* test_vector_index_worker_admin_c3_c4.py:686 "worker_revocation_removes_all
\* _derived_points": once the revocation is processed nothing is searchable.
RevokedIsHidden ==
  event[Revocation].status = "processed" => \A v \in Versions : point[v] # "active"
=============================================================================
