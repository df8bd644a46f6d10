------------------------- MODULE VectorIndex_proofs --------------------------
(***************************************************************************)
(* Proofs about the vector index: type correctness, and that no version is *)
(* searchable before one of its events was acknowledged, for any number of *)
(* versions and workers, with transactions that overlap.                   *)
(***************************************************************************)
EXTENDS VectorIndex, TLAPS, FiniteSetTheorems

\* What a worker holds between its steps: the event it works on, targets that
\* are acknowledged (in the set a) before they are activated, and no write of
\* an acknowledgement outside of its targets.
Sound(x, a) ==
  /\ x.pc # "idle" => x.event \in Event
  /\ x.pc = "activate" => x.targets \subseteq a
  /\ x.pc = "write_ack" => x.writes \subseteq x.targets

WorkIsSound == \A w \in Workers : Sound(work[w], acked)

IndexedWasAcknowledged == \A v \in Versions : ref[v].status = "indexed" => v \in acked

\* The reconciliation acts on statuses it read earlier.
SeenWasAcknowledged ==
  /\ \A v \in Versions : admin.seen[v] = "indexed" => v \in acked
  /\ admin.on \subseteq acked

\* A request plans an event that is not there yet, of a version.
RequestIsNew ==
  \A e \in Event : request[e] # "none" => event[e].status = "absent" /\ e.version \in Versions

IInv ==
  /\ TypeOK
  /\ RequestIsNew
  /\ WorkIsSound
  /\ ActiveWasAcknowledged
  /\ IndexedWasAcknowledged
  /\ SeenWasAcknowledged

USE VersionAssumption, AttemptAssumption, CorrelationAssumption

------------------------------------------------------------------------------
(* Constants *)

LEMMA IdlesAreTyped ==
  /\ IdleWork \in Work /\ IdleWork.pc = "idle"
  /\ IdleAdmin \in Admin /\ IdleAdmin.on = {}
  /\ IdleAdmin.seen = [v \in Versions |-> "absent"]
BY DEF IdleWork, Work, IdleAdmin, Admin, RefStatus

LEMMA EventsAreFinite == IsFiniteSet(Event)
<1> DEFINE Kinds == Announcements \cup Correlations
           Pairs == Kinds \X Versions
           Records == [kind : Kinds, version : Versions]
           f == [p \in Pairs |-> [kind |-> p[1], version |-> p[2]]]
<1>1. IsFiniteSet(Kinds)
  <2>1. IsFiniteSet({"published"}) BY FS_Singleton
  <2>2. IsFiniteSet({"published"} \cup {"updated"}) BY <2>1, FS_AddElement
  <2>3. Announcements = {"published"} \cup {"updated"} BY DEF Announcements
  <2> QED BY <2>2, <2>3, FS_Union
<1>2. IsFiniteSet(Versions) BY FS_Interval DEF Versions
<1>3. IsFiniteSet(Pairs) BY <1>1, <1>2, FS_Product
<1>4. f \in Surjection(Pairs, Records)
  <2>1. f \in [Pairs -> Records] OBVIOUS
  <2>2. ASSUME NEW e \in Records PROVE \E p \in Pairs : f[p] = e
    <3>1. <<e.kind, e.version>> \in Pairs /\ f[<<e.kind, e.version>>] = e OBVIOUS
    <3> QED BY <3>1
  <2> QED BY <2>1, <2>2 DEF Surjection
<1>5. IsFiniteSet(Records)
  <2> HIDE DEF f, Pairs, Records
  <2> QED BY <1>3, <1>4, FS_Surjection
<1> QED BY <1>5, FS_AddElement DEF Event

\* While an event is absent its position is within the number of events.
LEMMA ClockIsPosition ==
  ASSUME NEW e \in Event, event[e].status = "absent"
  PROVE  Clock \in 0 .. Cardinality(Event)
<1> DEFINE S == {x \in Event : event[x].status # "absent"}
<1>1. S \in SUBSET Event /\ S # Event OBVIOUS
<1> HIDE DEF S
<1>2. IsFiniteSet(S) /\ Cardinality(S) <= Cardinality(Event) /\ Cardinality(S) # Cardinality(Event)
  BY <1>1, EventsAreFinite, FS_Subset
<1>3. Cardinality(S) \in Nat /\ Cardinality(Event) \in Nat
  BY <1>2, EventsAreFinite, FS_CardinalityType
<1>4. Clock = Cardinality(S) + 1 BY DEF Clock, S
<1> QED BY <1>2, <1>3, <1>4

LEMMA EventHasVersion ==
  ASSUME NEW e \in Event, e # Revocation PROVE e.version \in Versions
BY DEF Event

LEMMA UpdateIsNoRevocation ==
  ASSUME NEW e \in Event, e.kind \in Announcements \cup Correlations
  PROVE  e # Revocation /\ e.version \in Versions
<1>1. e # Revocation BY DEF Revocation, Announcements
<1> QED BY <1>1, EventHasVersion

LEMMA ExpectedAreVersions ==
  ASSUME NEW e \in Event PROVE Expected(e) \subseteq Versions /\ Older(e) \subseteq Versions
BY EventHasVersion DEF Expected, Older

LEMMA InitIInv == Init => IInv
<1> SUFFICES ASSUME Init PROVE IInv
  OBVIOUS
<1>1. 0 \in 0 .. Cardinality(Event)
  BY EventsAreFinite, FS_CardinalityType
<1>2. 1 \in Versions BY DEF Versions
<1>3. ref \in [Versions -> Ref] BY <1>1 DEF Init, Ref, RefStatus
<1>4. event \in [Event -> EventRow] BY <1>1 DEF Init, EventRow
<1>5. TypeOK BY <1>2, <1>3, <1>4, IdlesAreTyped DEF Init, TypeOK, Request
<1>6. WorkIsSound /\ RequestIsNew BY IdlesAreTyped DEF Init, WorkIsSound, Sound, RequestIsNew
<1>7. ActiveWasAcknowledged /\ IndexedWasAcknowledged
  BY DEF Init, ActiveWasAcknowledged, IndexedWasAcknowledged
<1>8. SeenWasAcknowledged BY IdlesAreTyped DEF Init, SeenWasAcknowledged
<1> QED BY <1>5, <1>6, <1>7, <1>8 DEF IInv

------------------------------------------------------------------------------
(* What the writes make of references, events and points *)

\* References of which none becomes indexed.
RefsFollow(f) ==
  /\ f \in [Versions -> Ref]
  /\ \A v \in Versions : f[v].status = "indexed" => ref[v].status = "indexed"

\* Points of which none becomes active.
PointsFollow(f) ==
  /\ f \in [Versions -> {"absent", "inactive", "active"}]
  /\ \A v \in Versions : f[v] = "active" => point[v] = "active"

\* Events of which none is created.
EventsFollow(f) ==
  /\ f \in [Event -> EventRow]
  /\ \A e \in Event : event[e].status = "absent" => f[e].status = "absent"

LEMMA StatusesFollow ==
  ASSUME ref \in [Versions -> Ref], NEW vs, NEW s \in RefStatus \ {"indexed"}
  PROVE  RefsFollow(StatusSet(vs, s))
<1>1. \A v \in Versions : [ref[v] EXCEPT !.status = s] \in Ref
                          /\ [ref[v] EXCEPT !.status = s].status = s
  BY DEF Ref
<1> QED BY <1>1 DEF StatusSet, RefsFollow

LEMMA PointsSetFollow ==
  ASSUME point \in [Versions -> {"absent", "inactive", "active"}], NEW vs
  PROVE  PointsFollow(PointsSet(vs, "inactive")) /\ PointsFollow(Upserted(vs))
BY DEF PointsSet, Upserted, PointsFollow

LEMMA ClosedFollows ==
  ASSUME NoWorker \notin Workers, event \in [Event -> EventRow], NEW e \in Event,
         NEW w \in Workers, Owns(w, e), NEW s \in {"processed", "dead_letter", "retrying"}
  PROVE  EventsFollow(Closed(e, s))
BY DEF Closed, EventRow, EventsFollow, Owns

LEMMA CreatedIsTyped ==
  ASSUME event \in [Event -> EventRow], NEW e \in Event, event[e].status = "absent"
  PROVE  /\ Created(e) \in [Event -> EventRow] /\ Clock \in 0 .. Cardinality(Event)
         /\ \A x \in Event : x # e => Created(e)[x] = event[x]
<1>1. Clock \in 0 .. Cardinality(Event) BY ClockIsPosition
<1>2. PICK c \in 0 .. Cardinality(Event) : c = Clock BY <1>1
<1>3. Created(e) = [event EXCEPT ![e].status = "pending", ![e].created = c]
  BY <1>2 DEF Created
<1>4. [event[e] EXCEPT !.status = "pending", !.created = c] \in EventRow BY DEF EventRow
<1> QED BY <1>1, <1>3, <1>4

------------------------------------------------------------------------------
(* Steps *)

\* A step that leaves the reconciliation alone.
LEMMA StepIInv ==
  ASSUME IInv, admin' = admin, acked \subseteq acked', TypeOK', RequestIsNew',
         \A v \in Versions : ref'[v].status = "indexed" =>
           ref[v].status = "indexed" \/ v \in acked',
         \A v \in Versions : point'[v] = "active" => point[v] = "active" \/ v \in acked',
         \A w \in Workers : work'[w] = work[w] \/ Sound(work'[w], acked')
  PROVE  IInv'
<1>1. WorkIsSound' BY DEF IInv, WorkIsSound, Sound
<1>2. ActiveWasAcknowledged' BY DEF IInv, ActiveWasAcknowledged
<1>3. IndexedWasAcknowledged' BY DEF IInv, IndexedWasAcknowledged
<1>4. SeenWasAcknowledged' BY DEF IInv, SeenWasAcknowledged
<1> QED BY <1>1, <1>2, <1>3, <1>4 DEF IInv

LEMMA RequestsKept ==
  ASSUME IInv, request' = request, EventsFollow(event') PROVE RequestIsNew'
BY DEF IInv, RequestIsNew, EventsFollow

\* A step of the database and the source.
LEMMA PlanIInv ==
  ASSUME IInv, UNCHANGED <<point, work, admin, acked, calm>>,
         request' \in [Event -> Request], RequestIsNew',
         source' \in Versions \cup {Withdrawn}, event' \in [Event -> EventRow], RefsFollow(ref')
  PROVE  IInv'
<1>1. TypeOK' BY DEF IInv, TypeOK, RefsFollow
<1> QED BY <1>1, StepIInv DEF RefsFollow

\* A step of one worker, that becomes x.
LEMMA WorkIInv ==
  ASSUME IInv, NEW w \in Workers, NEW x \in Work, Sound(x, acked'),
         work' = [work EXCEPT ![w] = x], UNCHANGED <<source, request, admin, calm>>,
         acked \subseteq acked', acked' \subseteq Versions,
         EventsFollow(event'),
         ref' \in [Versions -> Ref],
         \A v \in Versions : ref'[v].status = "indexed" =>
           ref[v].status = "indexed" \/ v \in acked',
         point' \in [Versions -> {"absent", "inactive", "active"}],
         \A v \in Versions : point'[v] = "active" => point[v] = "active" \/ v \in acked'
  PROVE  IInv'
<1>1. TypeOK' BY DEF IInv, TypeOK, EventsFollow
<1>2. \A u \in Workers : work'[u] = work[u] \/ Sound(work'[u], acked')
  BY DEF IInv, TypeOK
<1>3. RequestIsNew' BY RequestsKept
<1> QED BY <1>1, <1>2, <1>3, StepIInv

\* The same where nothing becomes indexed, active or acknowledged.
LEMMA QuietWorkIInv ==
  ASSUME IInv, NEW w \in Workers, NEW x \in Work, Sound(x, acked),
         work' = [work EXCEPT ![w] = x], UNCHANGED <<source, request, admin, acked, calm>>,
         EventsFollow(event'), RefsFollow(ref'), PointsFollow(point')
  PROVE  IInv'
<1>1. acked' = acked /\ acked \subseteq Versions BY DEF IInv, TypeOK
<1> QED BY <1>1, WorkIInv DEF RefsFollow, PointsFollow

LEMMA SameFollows ==
  ASSUME IInv PROVE RefsFollow(ref) /\ PointsFollow(point) /\ EventsFollow(event)
BY DEF IInv, TypeOK, RefsFollow, PointsFollow, EventsFollow

\* The places a worker may go to without a proof obligation of their own.
Places == {"fetch", "list", "mark", "upsert", "previous", "delete", "ack", "deactivate",
           "discard", "fail", "write_mark", "write_discard", "write_fail"}

LEMMA GoesTo ==
  ASSUME NEW w \in Workers, work[w] \in Work, work[w].event \in Event, NEW pc \in Places
  PROVE  [work[w] EXCEPT !.pc = pc] \in Work /\ Sound([work[w] EXCEPT !.pc = pc], acked)
BY DEF Work, Places, Writing, Sound

LEMMA Reads ==
  ASSUME NEW w \in Workers, work[w] \in Work, work[w].event \in Event,
         NEW vs \in SUBSET Versions, NEW pc \in Places
  PROVE  LET x == [work[w] EXCEPT !.writes = vs, !.pc = pc] IN x \in Work /\ Sound(x, acked)
BY DEF Work, Places, Writing, Sound
------------------------------------------------------------------------------
(* The source, planning, claims *)

LEMMA RequestIInv ==
  ASSUME IInv, NEW e \in Event, Resolve(e) \/ CheckLineage(e) PROVE IInv'
<1>1. /\ source' \in Versions \cup {Withdrawn} /\ event' \in [Event -> EventRow]
      /\ RefsFollow(ref') /\ UNCHANGED <<event, point, work, admin, acked, calm>>
  BY SameFollows DEF IInv, TypeOK, Resolve, CheckLineage, RefsFollow
<1>2. e # Revocation /\ event[e].status = "absent"
  <2>1. CASE Resolve(e) BY <2>1 DEF Resolve
  <2>2. CASE CheckLineage(e)
    BY <2>2, UpdateIsNoRevocation DEF CheckLineage, IInv, RequestIsNew
  <2> QED BY <2>1, <2>2
<1>3. PICK r \in Request : request' = [request EXCEPT ![e] = r]
  BY DEF Resolve, CheckLineage, Request
<1>4. request' \in [Event -> Request] BY <1>3 DEF IInv, TypeOK
<1>5. RequestIsNew' BY <1>1, <1>2, <1>3, EventHasVersion DEF IInv, TypeOK, RequestIsNew
<1> QED BY <1>1, <1>4, <1>5, PlanIInv

\* plan() of an event of the API.
LEMMA CreateIInv ==
  ASSUME IInv, NEW e \in Event, Update(e) \/ Reindex(e) PROVE IInv'
<1>1. /\ source \in Versions \cup {Withdrawn} /\ ref \in [Versions -> Ref]
      /\ event \in [Event -> EventRow] /\ RefsFollow(ref) /\ request \in [Event -> Request]
  BY SameFollows DEF IInv, TypeOK
<1>2. e.version \in Versions /\ event[e].status = "absent"
  BY DEF Update, Reindex, IInv, RequestIsNew
<1>3. /\ event' = Created(e) /\ request' = [request EXCEPT ![e] = "none"]
      /\ UNCHANGED <<source, point, work, admin, acked, calm>>
  BY DEF Update, Reindex
<1>4. /\ event' \in [Event -> EventRow] /\ Clock \in 0 .. Cardinality(Event)
      /\ \A x \in Event : x # e => event'[x] = event[x]
  BY <1>1, <1>2, <1>3, CreatedIsTyped
<1>5. request' \in [Event -> Request] BY <1>1, <1>3 DEF Request
<1>6. RequestIsNew' BY <1>1, <1>3, <1>4 DEF IInv, RequestIsNew
\* A reference planned anew is pending.
<1>7. ASSUME NEW c \in 0 .. Cardinality(Event)
      PROVE  RefsFollow([ref EXCEPT ![e.version] = [status |-> "pending", created |-> c]])
  BY <1>1, <1>2 DEF RefsFollow, Ref, RefStatus
<1>8. RefsFollow(ref')
  <2>1. CASE Update(e) BY <1>1, <1>4, <1>7, <2>1 DEF Update
  <2>2. CASE Reindex(e)
    <3>1. ref[e.version].created \in 0 .. Cardinality(Event) BY <1>1, <1>2 DEF Ref
    <3>2. PICK c \in 0 .. Cardinality(Event) :
            ref' = [ref EXCEPT ![e.version] = [status |-> "pending", created |-> c]]
      BY <1>4, <2>2, <3>1 DEF Reindex
    <3> QED BY <1>7, <3>2
  <2> QED BY <2>1, <2>2
<1> QED BY <1>1, <1>3, <1>4, <1>5, <1>6, <1>8, PlanIInv

LEMMA RevokeIInv == ASSUME IInv, Revoke PROVE IInv'
<1>1. /\ source \in Versions \cup {Withdrawn} /\ ref \in [Versions -> Ref]
      /\ event \in [Event -> EventRow] /\ RefsFollow(ref) /\ request \in [Event -> Request]
      /\ UNCHANGED <<source, point, work, request, admin, acked, calm>>
      /\ event' = Created(Revocation)
  BY SameFollows DEF IInv, TypeOK, Revoke
<1>2. Revocation \in Event /\ event[Revocation].status = "absent" BY DEF Event, Revoke
<1>3. /\ event' \in [Event -> EventRow]
      /\ \A x \in Event : x # Revocation => event'[x] = event[x]
  BY <1>1, <1>2, CreatedIsTyped
<1>4. RefsFollow(ref')
  <2>1. \A v \in Versions : [ref[v] EXCEPT !.status = "deleted"] \in Ref
                            /\ [ref[v] EXCEPT !.status = "deleted"].status = "deleted"
    BY <1>1 DEF Ref, RefStatus, Terminal
  <2> QED BY <1>1, <2>1 DEF Revoke, RefsFollow
<1>5. RequestIsNew'
  <2>1. Revocation.version \notin Versions BY DEF Revocation, Withdrawn, Versions
  <2> QED BY <1>1, <1>3, <2>1 DEF IInv, RequestIsNew
<1> QED BY <1>1, <1>3, <1>4, <1>5, PlanIInv

LEMMA PlanningIInv ==
  ASSUME IInv,
         \/ \E v \in Versions : Edit(v)
         \/ Withdraw
         \/ \E e \in Event : PlanStep(e) \/ RetryFailed(e)
         \/ Revoke
  PROVE  IInv'
<1>1. /\ source \in Versions \cup {Withdrawn} /\ event \in [Event -> EventRow]
      /\ RefsFollow(ref) /\ EventsFollow(event) /\ request \in [Event -> Request]
  BY SameFollows DEF IInv, TypeOK
<1>2. ASSUME NEW v \in Versions, Edit(v) PROVE IInv'
  BY <1>1, <1>2, RequestsKept, PlanIInv DEF Edit
<1>3. CASE Withdraw BY <1>1, <1>3, RequestsKept, PlanIInv DEF Withdraw
<1>4. ASSUME NEW e \in Event, RetryFailed(e) PROVE IInv'
  <2>1. 0 \in 0 .. MaxAttempts OBVIOUS
  <2>2. EventsFollow(event') BY <1>1, <1>4, <2>1 DEF RetryFailed, EventRow, EventsFollow
  <2> QED BY <1>1, <1>4, <2>2, RequestsKept, PlanIInv DEF RetryFailed, EventsFollow
<1> QED BY <1>2, <1>3, <1>4, RequestIInv, CreateIInv, RevokeIInv DEF PlanStep

LEMMA ClaimIInv ==
  ASSUME IInv, NEW w \in Workers, NEW e \in Event, Claim(w, e) PROVE IInv'
<1>1. /\ event \in [Event -> EventRow] /\ RefsFollow(ref) /\ PointsFollow(point)
  BY SameFollows DEF IInv, TypeOK
<1>2. PICK n \in 0 .. MaxAttempts : n = Attempted(e)
  <2>1. event[e].attempt \in 0 .. MaxAttempts BY <1>1 DEF EventRow
  <2>2. Attempted(e) \in 0 .. MaxAttempts BY <2>1 DEF Attempted
  <2> QED BY <2>2
<1>3. event' = [event EXCEPT ![e].status = "claimed", ![e].owner = w, ![e].attempt = n]
  BY <1>2 DEF Claim
<1>4. EventsFollow(event')
  <2>1. event[e].status # "absent" BY DEF Claim, Claimable
  <2>2. [event[e] EXCEPT !.status = "claimed", !.owner = w, !.attempt = n] \in EventRow
    BY <1>1 DEF EventRow
  <2> QED BY <1>1, <1>3, <2>1, <2>2 DEF EventsFollow
<1>5. PICK pc \in Places :
        work' = [work EXCEPT ![w] = [IdleWork EXCEPT !.pc = pc, !.event = e]]
  BY DEF Claim, Places
<1> DEFINE x == [IdleWork EXCEPT !.pc = pc, !.event = e]
<1>6. x \in Work /\ Sound(x, acked)
  BY IdlesAreTyped DEF Work, Places, Writing, Sound
<1>7. work' = [work EXCEPT ![w] = x] BY <1>5
<1>8. UNCHANGED <<source, ref, point, request, admin, acked, calm>> BY DEF Claim
<1> HIDE DEF x
<1> QED BY <1>1, <1>4, <1>6, <1>7, <1>8, QuietWorkIInv

------------------------------------------------------------------------------
(* The worker *)

\* Every step but the acknowledgement and the activation.
LEMMA QuietProcessIInv ==
  ASSUME IInv, NEW w \in Workers, work[w].pc # "idle",
         \/ Fetch(w) \/ List(w) \/ ReadMark(w) \/ WriteMark(w) \/ Upsert(w) \/ Previous(w)
         \/ Delete(w) \/ Deactivate(w) \/ ReadDiscard(w) \/ WriteDiscard(w) \/ ReadFail(w)
         \/ WriteFail(w) \/ Raise(w) \/ Crash(w)
  PROVE  IInv'
<1>1. /\ event \in [Event -> EventRow] /\ ref \in [Versions -> Ref]
      /\ point \in [Versions -> {"absent", "inactive", "active"}]
      /\ RefsFollow(ref) /\ PointsFollow(point) /\ EventsFollow(event) /\ work \in [Workers -> Work] /\ work[w] \in Work
      /\ work[w].event \in Event
  BY SameFollows DEF IInv, TypeOK, WorkIsSound, Sound
<1>2. ASSUME NEW vs \in SUBSET Versions, NEW pc \in Places
      PROVE  LET x == [work[w] EXCEPT !.writes = vs, !.pc = pc] IN x \in Work /\ Sound(x, acked)
  BY <1>1, Reads
<1>3. /\ \A pc : Go(w, pc) => work' = [work EXCEPT ![w] = [work[w] EXCEPT !.pc = pc]]
      /\ Stop(w) => work' = [work EXCEPT ![w] = IdleWork]
  BY <1>1 DEF Go, Stop
<1>4. IdleWork \in Work /\ Sound(IdleWork, acked) BY IdlesAreTyped DEF Sound
\* The worker stops, or goes on to a place of no obligation.
<1>5. ASSUME UNCHANGED <<source, request, admin, acked, calm>>,
             EventsFollow(event'), RefsFollow(ref'), PointsFollow(point'),
             Stop(w) \/ \E pc \in Places : Go(w, pc)
      PROVE  IInv'
  <2>1. CASE Stop(w) BY <1>3, <1>4, <1>5, <2>1, QuietWorkIInv
  <2>2. ASSUME NEW pc \in Places, Go(w, pc) PROVE IInv'
    <3> DEFINE x == [work[w] EXCEPT !.pc = pc]
    <3>1. x \in Work /\ Sound(x, acked) BY <1>1, GoesTo
    <3>2. work' = [work EXCEPT ![w] = x] BY <1>3, <2>2
    <3> HIDE DEF x
    <3> QED BY <1>5, <3>1, <3>2, QuietWorkIInv
  <2> QED BY <1>5, <2>1, <2>2
<1>6. ASSUME NEW vs \in SUBSET Versions, NEW pc \in Places, Read(w, vs, pc),
             UNCHANGED <<source, ref, event, point, request, admin, acked, calm>>
      PROVE  IInv'
  <2>1. CASE Stop(w) BY <1>1, <1>5, <1>6, <2>1
  <2>2. CASE ~Stop(w)
    <3> DEFINE x == [work[w] EXCEPT !.writes = vs, !.pc = pc]
    <3>1. x \in Work /\ Sound(x, acked) BY <1>2
    <3>2. work' = [work EXCEPT ![w] = x] BY <1>1, <1>6, <2>2 DEF Read
    <3> HIDE DEF x
    <3> QED BY <1>1, <1>6, <3>1, <3>2, QuietWorkIInv
  <2> QED BY <2>1, <2>2
<1>7. CASE Fetch(w) BY <1>1, <1>5, <1>7 DEF Fetch, Places
<1>8. CASE List(w)
  <2>1. PICK vs \in SUBSET Versions, pc \in Places :
          work' = [work EXCEPT ![w].targets = vs, ![w].pc = pc]
    BY <1>1, <1>8, ExpectedAreVersions DEF List, Places
  <2> DEFINE x == [work[w] EXCEPT !.targets = vs, !.pc = pc]
  <2>2. x \in Work /\ Sound(x, acked) BY <1>1 DEF Work, Places, Writing, Sound
  <2>3. work' = [work EXCEPT ![w] = x] BY <1>1, <2>1
  <2> HIDE DEF x
  <2> QED BY <1>1, <1>8, <2>2, <2>3, QuietWorkIInv DEF List
<1>9. CASE ReadMark(w)
  <2> DEFINE vs == {v \in Expected(work[w].event) : ref[v].status # work[w].stage}
  <2>1. vs \in SUBSET Versions BY <1>1, ExpectedAreVersions
  <2>2. Read(w, vs, "write_mark") /\ "write_mark" \in Places BY <1>9 DEF ReadMark, Places
  <2> HIDE DEF vs
  <2> QED BY <1>6, <1>9, <2>1, <2>2 DEF ReadMark
<1>10. CASE WriteMark(w)
  <2>1. work[w].stage \in RefStatus \ {"indexed"} BY <1>1 DEF Work, RefStatus
  <2>2. RefsFollow(ref') BY <1>1, <1>10, <2>1, StatusesFollow DEF WriteMark
  <2>3. PICK s \in {"embedding", "upserting"}, pc \in Places :
          work' = [work EXCEPT ![w] = [work[w] EXCEPT !.stage = s, !.pc = pc]]
    <3>1. CASE work[w].stage = "embedding" BY <1>1, <1>10, <3>1 DEF WriteMark, Places
    <3>2. CASE work[w].stage = "upserting"
      <4>1. [work[w] EXCEPT !.pc = "upsert"] = [work[w] EXCEPT !.stage = "upserting", !.pc = "upsert"]
        BY <1>1, <3>2 DEF Work
      <4>2. work' = [work EXCEPT ![w] = [work[w] EXCEPT !.pc = "upsert"]]
        BY <1>1, <1>10, <3>2 DEF WriteMark
      <4> QED BY <4>1, <4>2 DEF Places
    <3> QED BY <1>1, <3>1, <3>2 DEF Work
  <2> DEFINE x == [work[w] EXCEPT !.stage = s, !.pc = pc]
  <2>4. x \in Work /\ Sound(x, acked) BY <1>1 DEF Work, Places, Writing, Sound
  <2>5. work' = [work EXCEPT ![w] = x] BY <2>3
  <2> HIDE DEF x
  <2> QED BY <1>1, <1>10, <2>2, <2>4, <2>5, QuietWorkIInv DEF WriteMark
<1>11. CASE Upsert(w)
  <2>1. PointsFollow(point') BY <1>1, <1>11, PointsSetFollow DEF Upsert
  <2> QED BY <1>1, <1>5, <1>11, <2>1 DEF Upsert, Places
<1>12. CASE Previous(w)
  <2> DEFINE vs == Older(work[w].event)
             x == [work[w] EXCEPT !.old = vs, !.pc = "ack"]
  <2>1. vs \in SUBSET Versions BY <1>1, ExpectedAreVersions
  <2> HIDE DEF vs
  <2>2. x \in Work /\ Sound(x, acked) BY <1>1, <2>1 DEF Work, Sound
  <2>3. work' = [work EXCEPT ![w] = x] BY <1>1, <1>12 DEF Previous, vs
  <2> HIDE DEF x
  <2> QED BY <1>1, <1>12, <2>2, <2>3, QuietWorkIInv DEF Previous
<1>13. CASE Delete(w)
  <2>1. PointsFollow(point') BY <1>1, <1>13 DEF Delete, PointsFollow
  <2> QED BY <1>1, <1>5, <1>13, <2>1 DEF Delete, Places
<1>14. CASE Deactivate(w)
  <2>1. PointsFollow(point') BY <1>1, <1>14, PointsSetFollow DEF Deactivate
  <2> QED BY <1>1, <1>5, <1>14, <2>1 DEF Deactivate
<1>15. CASE ReadDiscard(w)
  <2>1. Expected(work[w].event) \in SUBSET Versions BY <1>1, ExpectedAreVersions
  <2>2. "write_discard" \in Places BY DEF Places
  <2> QED BY <1>6, <1>15, <2>1, <2>2 DEF ReadDiscard
<1>16. CASE WriteDiscard(w)
  <2>1. "superseded" \in RefStatus \ {"indexed"} BY DEF RefStatus, Terminal
  <2>2. RefsFollow(ref') BY <1>1, <1>16, <2>1, StatusesFollow DEF WriteDiscard
  <2>3. EventsFollow(event')
    BY <1>1, <1>16, NoAssumption, ClosedFollows DEF WriteDiscard
  <2> QED BY <1>1, <1>5, <1>16, <2>2, <2>3 DEF WriteDiscard
<1>17. CASE ReadFail(w)
  <2>1. PICK vs \in SUBSET Versions : Read(w, vs, "write_fail")
    <3> DEFINE e == work[w].event
               status == IF Exhausted(e) THEN "failed" ELSE "retrying"
               ws == {v \in Expected(e) : ref[v].status # "deleted" /\ ref[v].status # status}
    <3>1. ws \in SUBSET Versions BY <1>1, ExpectedAreVersions
    <3>2. Read(w, ws, "write_fail") BY <1>17 DEF ReadFail
    <3> QED BY <3>1, <3>2
  <2>2. "write_fail" \in Places BY DEF Places
  <2> QED BY <1>6, <1>17, <2>1, <2>2 DEF ReadFail
<1>18. CASE WriteFail(w)
  <2>1. {"failed", "retrying"} \subseteq RefStatus \ {"indexed"} BY DEF RefStatus
  <2>2. RefsFollow(ref')
    <3>1. RefsFollow(StatusSet(work[w].writes, "failed"))
          /\ RefsFollow(StatusSet(work[w].writes, "retrying"))
      BY <1>1, <2>1, StatusesFollow
    <3> QED BY <1>1, <1>18, <3>1 DEF WriteFail
  <2>3. EventsFollow(event')
    <3>1. Owns(w, work[w].event) => /\ EventsFollow(Closed(work[w].event, "dead_letter"))
                                    /\ EventsFollow(Closed(work[w].event, "retrying"))
      BY <1>1, NoAssumption, ClosedFollows
    <3> QED BY <1>1, <1>18, <3>1 DEF WriteFail
  <2> QED BY <1>1, <1>5, <1>18, <2>2, <2>3 DEF WriteFail
<1>19. CASE Raise(w) BY <1>1, <1>5, <1>19 DEF Raise, Places
<1>20. CASE Crash(w) BY <1>1, <1>5, <1>20 DEF Crash
<1> QED
  BY <1>7, <1>8, <1>9, <1>10, <1>11, <1>12, <1>13, <1>14, <1>15, <1>16, <1>17, <1>18, <1>19,
     <1>20

\* The acknowledgement reads, and will write nothing but targets.
LEMMA ReadAckIInv == ASSUME IInv, NEW w \in Workers, ReadAck(w) PROVE IInv'
<1>1. /\ event \in [Event -> EventRow] /\ RefsFollow(ref) /\ PointsFollow(point) /\ EventsFollow(event)
      /\ work \in [Workers -> Work] /\ work[w] \in Work /\ work[w].event \in Event
  BY SameFollows DEF ReadAck, IInv, TypeOK, WorkIsSound, Sound
<1>2. UNCHANGED <<source, ref, event, point, request, admin, acked, calm>> BY DEF ReadAck
<1>3. ASSUME NEW x \in Work, Sound(x, acked), work' = [work EXCEPT ![w] = x] PROVE IInv'
  BY <1>1, <1>2, <1>3, QuietWorkIInv
<1>4. CASE Stop(w) BY <1>3, <1>4, IdlesAreTyped DEF Stop, Sound
<1>5. CASE Go(w, "fail")
  <2>1. "fail" \in Places BY DEF Places
  <2>2. work' = [work EXCEPT ![w] = [work[w] EXCEPT !.pc = "fail"]] BY <1>1, <1>5 DEF Go
  <2> QED BY <1>1, <1>3, <2>1, <2>2, GoesTo
<1>6. ASSUME NEW vs, vs \subseteq work[w].targets,
             work' = [work EXCEPT ![w].writes = vs, ![w].pc = "write_ack"]
      PROVE  IInv'
  <2> DEFINE x == [work[w] EXCEPT !.writes = vs, !.pc = "write_ack"]
  <2>1. vs \in SUBSET Versions BY <1>1, <1>6 DEF Work
  <2>2. x \in Work /\ Sound(x, acked) BY <1>1, <1>6, <2>1 DEF Work, Writing, Sound
  <2>3. work' = [work EXCEPT ![w] = x] BY <1>1, <1>6
  <2> HIDE DEF x
  <2> QED BY <1>3, <2>2, <2>3
<1>7. CASE Owns(w, work[w].event) /\ ~AckMatches(w) BY <1>5, <1>7 DEF ReadAck
<1>8. CASE ~(Owns(w, work[w].event) /\ ~AckMatches(w))
  <2> DEFINE vs == IF work[w].event = Revocation THEN {}
                   ELSE {v \in work[w].targets : ref[v].status # "indexed"}
  <2>1. vs \subseteq work[w].targets OBVIOUS
  <2>2. Read(w, vs, "write_ack") BY <1>8 DEF ReadAck
  <2> HIDE DEF vs
  <2> QED BY <1>4, <1>6, <2>1, <2>2 DEF Read
<1> QED BY <1>7, <1>8

\* The only step that indexes acknowledges in the same transaction.
LEMMA WriteAckIInv == ASSUME IInv, NEW w \in Workers, WriteAck(w) PROVE IInv'
<1> DEFINE e == work[w].event
<1>1. /\ event \in [Event -> EventRow] /\ ref \in [Versions -> Ref] /\ PointsFollow(point)
      /\ RefsFollow(ref) /\ EventsFollow(event) /\ work \in [Workers -> Work]
      /\ work[w] \in Work /\ e \in Event
      /\ work[w].writes \subseteq work[w].targets
      /\ acked \subseteq Versions /\ work[w].targets \subseteq Versions
  BY SameFollows DEF WriteAck, IInv, TypeOK, WorkIsSound, Sound, Work
<1>2. UNCHANGED <<source, point, request, admin, calm>> BY DEF WriteAck
<1>3. CASE Stop(w) /\ UNCHANGED <<ref, acked>>
  <2>1. EventsFollow(event')
    BY <1>1, NoAssumption, ClosedFollows DEF WriteAck
  <2> QED BY <1>1, <1>2, <1>3, <2>1, QuietWorkIInv, IdlesAreTyped DEF Stop, Sound
<1>4. CASE Owns(w, e) /\ e # Revocation
  <2> DEFINE x == [work[w] EXCEPT !.pc = "activate"]
  <2>1. /\ acked' = acked \cup work[w].targets /\ event' = Closed(e, "processed")
        /\ ref' = [v \in Versions |->
                     IF v \in work[w].writes THEN [ref[v] EXCEPT !.status = "indexed"]
                     ELSE IF v \in Older(e) THEN [ref[v] EXCEPT !.status = "superseded"]
                     ELSE ref[v]]
        /\ Go(w, "activate")
    BY <1>4 DEF WriteAck
  <2>2. work' = [work EXCEPT ![w] = x] BY <1>1, <2>1 DEF Go
  <2>3. x \in Work /\ Sound(x, acked')
    <3>1. x.pc = "activate" /\ x.event = e /\ x.targets = work[w].targets /\ x \in Work
      BY <1>1 DEF Work
    <3> QED BY <1>1, <2>1, <3>1 DEF Sound
  <2>4. EventsFollow(event')
    <3>1. EventsFollow(Closed(e, "processed")) BY <1>1, <1>4, NoAssumption, ClosedFollows
    <3> QED BY <2>1, <3>1
  <2>5. /\ ref' \in [Versions -> Ref]
        /\ \A v \in Versions : ref'[v].status = "indexed" =>
             ref[v].status = "indexed" \/ v \in acked'
    <3>1. ASSUME NEW v \in Versions, NEW s \in RefStatus
          PROVE  [ref[v] EXCEPT !.status = s] \in Ref /\ [ref[v] EXCEPT !.status = s].status = s
      BY <1>1 DEF Ref
    <3>2. "indexed" \in RefStatus /\ "superseded" \in RefStatus BY DEF RefStatus, Terminal
    <3> QED BY <1>1, <2>1, <3>1, <3>2
  <2> HIDE DEF x
  <2>6. acked' \subseteq Versions /\ acked \subseteq acked' BY <1>1, <2>1
  <2> QED BY <1>1, <1>2, <2>2, <2>3, <2>4, <2>5, <2>6, WorkIInv DEF PointsFollow
<1> QED BY <1>3, <1>4 DEF WriteAck

LEMMA ActivateIInv == ASSUME IInv, NEW w \in Workers, Activate(w) PROVE IInv'
<1> DEFINE x == [work[w] EXCEPT !.pc = "deactivate"]
<1>1. /\ event \in [Event -> EventRow] /\ ref \in [Versions -> Ref]
      /\ point \in [Versions -> {"absent", "inactive", "active"}]
      /\ work \in [Workers -> Work] /\ work[w] \in Work /\ work[w].event \in Event
      /\ work[w].targets \subseteq acked /\ acked \subseteq Versions /\ EventsFollow(event)
  BY SameFollows DEF Activate, IInv, TypeOK, WorkIsSound, Sound
<1>2. x \in Work /\ Sound(x, acked) BY <1>1, GoesTo DEF Places
<1>3. work' = [work EXCEPT ![w] = x] /\ UNCHANGED <<source, ref, event, request, admin, acked, calm>>
  BY <1>1 DEF Activate, Go
<1>4. /\ point' \in [Versions -> {"absent", "inactive", "active"}]
      /\ \A v \in Versions : point'[v] = "active" => point[v] = "active" \/ v \in acked'
  BY <1>1, <1>3 DEF Activate, PointsSet
<1> HIDE DEF x
<1> QED BY <1>1, <1>2, <1>3, <1>4, WorkIInv

------------------------------------------------------------------------------
(* Reconciliation and the end of faults *)

LEMMA AdminIInv == ASSUME IInv, AdminStep PROVE IInv'
<1>1. CASE ReadReferences
  <2> DEFINE f == [v \in Versions |-> ref[v].status]
  <2>1. ref \in [Versions -> Ref] BY DEF IInv, TypeOK
  <2>2. f \in [Versions -> RefStatus] BY <2>1 DEF Ref
  <2>3. /\ admin' = [IdleAdmin EXCEPT !.pc = "read", !.seen = f]
        /\ UNCHANGED <<source, ref, event, point, work, request, acked, calm>>
    BY <1>1 DEF ReadReferences
  <2>4. admin' \in Admin /\ admin'.seen = f /\ admin'.on = {}
    <3> HIDE DEF f
    <3> QED BY <2>2, <2>3, IdlesAreTyped DEF Admin
  <2>5. TypeOK' BY <2>3, <2>4 DEF IInv, TypeOK
  <2>6. SeenWasAcknowledged' BY <2>3, <2>4 DEF IInv, IndexedWasAcknowledged, SeenWasAcknowledged
  <2> QED BY <2>3, <2>5, <2>6 DEF IInv, RequestIsNew, WorkIsSound, ActiveWasAcknowledged, IndexedWasAcknowledged
<1>2. CASE ListPoints
  <2>1. ToHide \subseteq Versions /\ ToShow \subseteq Versions BY DEF ToHide, ToShow
  <2>2. ToShow \subseteq acked BY DEF ToShow, IInv, SeenWasAcknowledged
  <2>3. /\ admin' = [IdleAdmin EXCEPT !.pc = "listed", !.off = ToHide, !.on = ToShow]
        /\ UNCHANGED <<source, ref, event, point, work, request, acked, calm>>
    BY <1>2 DEF ListPoints
  <2>4. admin' \in Admin /\ admin'.on = ToShow /\ admin'.seen = [v \in Versions |-> "absent"]
    BY <2>1, <2>3, IdlesAreTyped DEF Admin
  <2>5. TypeOK' BY <2>3, <2>4 DEF IInv, TypeOK
  <2>6. SeenWasAcknowledged' BY <2>2, <2>3, <2>4 DEF SeenWasAcknowledged
  <2> QED BY <2>3, <2>5, <2>6 DEF IInv, RequestIsNew, WorkIsSound, ActiveWasAcknowledged, IndexedWasAcknowledged
<1>3. CASE RepairHide
  <2>1. /\ admin' = [admin EXCEPT !.pc = "hidden", !.off = {}]
        /\ UNCHANGED <<source, ref, event, work, request, acked, calm>>
    BY <1>3 DEF RepairHide
  <2>2. PointsFollow(point') BY <1>3, PointsSetFollow DEF RepairHide, IInv, TypeOK
  <2>3. admin' \in Admin /\ admin'.on = admin.on /\ admin'.seen = admin.seen
    BY <2>1 DEF IInv, TypeOK, Admin
  <2>4. TypeOK' BY <2>1, <2>2, <2>3 DEF IInv, TypeOK, PointsFollow
  <2>5. ActiveWasAcknowledged' /\ SeenWasAcknowledged'
    BY <2>1, <2>2, <2>3 DEF IInv, ActiveWasAcknowledged, SeenWasAcknowledged, PointsFollow
  <2> QED BY <2>1, <2>4, <2>5 DEF IInv, RequestIsNew, WorkIsSound, IndexedWasAcknowledged
<1>4. CASE RepairShow
  <2>1. admin' = IdleAdmin /\ UNCHANGED <<source, ref, event, work, request, acked, calm>>
    BY <1>4 DEF RepairShow
  <2>2. /\ point' \in [Versions -> {"absent", "inactive", "active"}]
        /\ \A v \in Versions : point'[v] = "active" => point[v] = "active" \/ v \in admin.on
    BY <1>4 DEF RepairShow, PointsSet, IInv, TypeOK
  <2>3. TypeOK' BY <2>1, <2>2, IdlesAreTyped DEF IInv, TypeOK
  <2>4. ActiveWasAcknowledged'
    BY <2>1, <2>2 DEF IInv, ActiveWasAcknowledged, SeenWasAcknowledged
  <2>5. SeenWasAcknowledged' BY <2>1, IdlesAreTyped DEF SeenWasAcknowledged
  <2> QED BY <2>1, <2>3, <2>4, <2>5 DEF IInv, RequestIsNew, WorkIsSound, IndexedWasAcknowledged
<1> QED BY <1>1, <1>2, <1>3, <1>4 DEF AdminStep

LEMMA StutterIInv == ASSUME IInv, UNCHANGED vars \/ FaultsEnd PROVE IInv'
<1>1. UNCHANGED <<source, ref, event, point, work, request, admin, acked>> /\ calm' \in BOOLEAN
  BY DEF vars, FaultsEnd, IInv, TypeOK
<1>2. TypeOK' /\ RequestIsNew' BY <1>1 DEF IInv, TypeOK, RequestIsNew
<1> QED BY <1>1, <1>2, StepIInv

LEMMA NextIInv == IInv /\ [Next]_vars => IInv'
<1> SUFFICES ASSUME IInv, [Next]_vars PROVE IInv'
  OBVIOUS
<1>1. ASSUME NEW w \in Workers, Process(w) \/ Raise(w) \/ Crash(w) PROVE IInv'
  <2>1. CASE ReadAck(w) BY <2>1, ReadAckIInv
  <2>2. CASE WriteAck(w) BY <2>2, WriteAckIInv
  <2>3. CASE Activate(w) BY <2>3, ActivateIInv
  <2>4. CASE ~(ReadAck(w) \/ WriteAck(w) \/ Activate(w))
    <3>1. work[w].pc # "idle"
      BY <1>1, <2>4 DEF Process, Fetch, List, ReadMark, WriteMark, Upsert, Previous, Delete,
                        Deactivate, ReadDiscard, WriteDiscard, ReadFail, WriteFail, Raise, Crash
    <3> QED BY <1>1, <2>4, <3>1, QuietProcessIInv DEF Process
  <2> QED BY <2>1, <2>2, <2>3, <2>4
<1> QED BY <1>1, PlanningIInv, ClaimIInv, AdminIInv, StutterIInv DEF Next

LEMMA Invariance == Spec => []IInv
<1>1. Init => IInv BY InitIInv
<1>2. IInv /\ [Next]_vars => IInv' BY NextIInv
<1> QED BY <1>1, <1>2, PTL DEF Spec

\* Every variable keeps its type: attempts stay within their bound, and the
\* position of a new event within the number of events.
THEOREM TypeCorrect == Spec => []TypeOK
<1>1. IInv => TypeOK BY DEF IInv
<1> QED BY <1>1, Invariance, PTL

\* No version is searchable before one of its events was acknowledged,
\* whatever workers, crashes, stale activations and reconciliations do.
THEOREM ActivationFollowsAcknowledgement == Spec => []ActiveWasAcknowledged
<1>1. IInv => ActiveWasAcknowledged BY DEF IInv
<1> QED BY <1>1, Invariance, PTL
=============================================================================
