------------------------ MODULE VectorIndexOrder_proofs -----------------------
(***************************************************************************)
(* Proofs about the vector index that rest on the order of events: an      *)
(* indexed reference has its point (for any number of workers), and, with  *)
(* one worker beside the process that plans, two versions are never        *)
(* indexed at once and the references a processed withdrawal deleted have  *)
(* no point any more.  Transactions overlap throughout.                    *)
(***************************************************************************)
EXTENDS VectorIndex_proofs

Announced  == event[Revocation].status # "absent"
RefThere(v) == ref[v].status # "absent"

\* Places of workers that index or discard, and those after the references
\* were listed.
IndexPcs  == {"fetch", "mark", "write_mark", "upsert", "previous", "activate", "deactivate",
              "discard", "write_discard"}
TargetPcs == {"mark", "write_mark", "upsert", "previous", "ack", "write_ack", "activate"}

\* What a worker holds agrees with the events, references and points.
Fits(x, events, refs, points) ==
  /\ x.pc # "idle" => events[x.event].status # "absent"
  /\ x.pc = "delete" => x.event = Revocation
  /\ x.pc \in IndexPcs => x.event # Revocation
  /\ x.pc \in TargetPcs /\ x.event # Revocation => x.targets = {x.event.version}
  /\ x.pc \in {"previous", "ack", "write_ack"} /\ x.event # Revocation =>
       \/ events[Revocation].status # "absent"
       \/ \A v \in x.targets : points[v] # "absent"
  /\ \A v \in x.targets : refs[v].status # "absent"
  /\ x.pc \in Writing => \A v \in x.writes : refs[v].status # "absent"

WorkFits == \A w \in Workers : Fits(work[w], event, ref, point)

\* A reference is as old as the first event of its version.
RefsOrdered ==
  /\ \A v \in Versions : RefThere(v) => ref[v].created < Clock
  /\ \A e \in Event \ {Revocation} : event[e].status # "absent" =>
       RefThere(e.version) /\ ref[e.version].created <= event[e].created
  /\ \A u, v \in Versions : RefThere(u) /\ RefThere(v) /\ u # v => ref[u].created # ref[v].created

PointsHaveRefs == \A v \in Versions : point[v] # "absent" => RefThere(v)

\* The part that holds for any number of workers.
FInv ==
  /\ WorkFits
  /\ RefsOrdered
  /\ PointsHaveRefs
  /\ IndexedHasPoint

------------------------------------------------------------------------------
(* Steps that neither plan nor create anything *)

\* The rows that exist stay those that exist, with their positions.
SameRefs(f) ==
  \A v \in Versions : /\ f[v].status = "absent" <=> ref[v].status = "absent"
                      /\ f[v].created = ref[v].created

SameEvents(g) ==
  \A e \in Event : /\ g[e].status = "absent" <=> event[e].status = "absent"
                   /\ g[e].created = event[e].created

SameRows == SameRefs(ref') /\ SameEvents(event')

LEMMA SameClock == ASSUME SameRows PROVE Clock' = Clock /\ Announced' = Announced
<1>1. {e \in Event : event'[e].status # "absent"} = {e \in Event : event[e].status # "absent"}
  BY DEF SameRows, SameEvents
<1>2. Revocation \in Event BY DEF Event
<1> QED BY <1>1, <1>2 DEF Clock, Announced, SameRows, SameEvents

LEMMA SameOrder == ASSUME RefsOrdered, SameRows PROVE RefsOrdered'
<1>1. \A e \in Event \ {Revocation} : e.version \in Versions BY EventHasVersion
<1> QED BY <1>1, SameClock DEF RefsOrdered, SameRows, SameRefs, SameEvents, RefThere

LEMMA FitsStays ==
  ASSUME NEW x \in Work, x.pc # "idle" => x.event \in Event, Fits(x, event, ref, point),
         SameRows,
         \A v \in Versions : point[v] # "absent" => point'[v] # "absent" \/ Announced
  PROVE  Fits(x, event', ref', point')
<1>1. Revocation \in Event BY DEF Event
<1>2. x.targets \subseteq Versions /\ x.writes \subseteq Versions BY DEF Work
<1> QED BY <1>1, <1>2 DEF Fits, SameRows, SameRefs, SameEvents, Announced, Writing

LEMMA FInvStep ==
  ASSUME IInv, FInv, NEW w \in Workers, NEW x, work' = [work EXCEPT ![w] = x],
         SameRows, Fits(x, event', ref', point'),
         \A v \in Versions : point[v] # "absent" => point'[v] # "absent" \/ Announced,
         \A v \in Versions : point'[v] # "absent" => point[v] # "absent" \/ RefThere(v),
         \A v \in Versions : ref'[v].status = "indexed" =>
           ref[v].status = "indexed" \/ point'[v] # "absent" \/ Announced
  PROVE  FInv'
<1>1. WorkFits'
  <2> SUFFICES ASSUME NEW u \in Workers PROVE Fits(work'[u], event', ref', point')
    BY DEF WorkFits
  <2>1. CASE u = w BY <2>1 DEF IInv, TypeOK
  <2>2. CASE u # w
    <3>1. work'[u] = work[u] /\ work[u] \in Work /\ (work[u].pc # "idle" => work[u].event \in Event)
      BY <2>2 DEF IInv, TypeOK, WorkIsSound, Sound
    <3> QED BY <3>1, FitsStays DEF FInv, WorkFits
  <2> QED BY <2>1, <2>2
<1>2. RefsOrdered' BY SameOrder DEF FInv
<1>3. PointsHaveRefs' BY DEF FInv, PointsHaveRefs, SameRows, SameRefs, RefThere
<1>4. IndexedHasPoint'
  <2>1. Announced' = Announced BY SameClock
  <2> QED BY <2>1 DEF FInv, IndexedHasPoint, Announced
<1> QED BY <1>1, <1>2, <1>3, <1>4 DEF FInv

LEMMA StatusSetRefs ==
  ASSUME ref \in [Versions -> Ref], NEW vs, NEW s, s # "absent", \A v \in vs : RefThere(v)
  PROVE  SameRefs(StatusSet(vs, s))
BY DEF Ref, StatusSet, SameRefs, RefThere

LEMMA ClosedEvents ==
  ASSUME event \in [Event -> EventRow], NEW e \in Event, event[e].status # "absent",
         NEW s, s # "absent"
  PROVE  SameEvents(Closed(e, s))
BY DEF EventRow, Closed, SameEvents

LEMMA UnchangedRows == SameRefs(ref) /\ SameEvents(event)
BY DEF SameRefs, SameEvents

LEMMA ExpectedThere ==
  ASSUME NEW e \in Event
  PROVE  /\ \A v \in Expected(e) : v \in Versions /\ RefThere(v)
         /\ e # Revocation => Expected(e) \subseteq {e.version}
BY EventHasVersion DEF Expected, Open, RefThere, Terminal

LEMMA IdleFits ==
  ASSUME NEW events, NEW refs, NEW points PROVE Fits(IdleWork, events, refs, points)
BY DEF Fits, IdleWork, IndexPcs, TargetPcs, Writing

------------------------------------------------------------------------------
(* The worker *)

\* The worker stops without a write.
LEMMA StopFInv ==
  ASSUME IInv, FInv, NEW w \in Workers, Stop(w), SameRows,
         \A v \in Versions : point'[v] # "absent" <=> point[v] # "absent",
         \A v \in Versions : ref'[v].status = "indexed" => ref[v].status = "indexed"
  PROVE  FInv'
BY IdleFits, FInvStep DEF Stop

\* A step that leaves references, events and points alone.
LEMMA LocalFInv ==
  ASSUME IInv, FInv, NEW w \in Workers, NEW x, work' = [work EXCEPT ![w] = x],
         UNCHANGED <<ref, event, point>>, Fits(x, event, ref, point)
  PROVE  FInv'
BY UnchangedRows, FInvStep DEF SameRows

\* What the invariants say of one working worker.
LEMMA Working ==
  ASSUME IInv, FInv, NEW w \in Workers, work[w].pc # "idle"
  PROVE  /\ work \in [Workers -> Work] /\ work[w] \in Work /\ work[w].event \in Event
         /\ Fits(work[w], event, ref, point)
         /\ ref \in [Versions -> Ref] /\ event \in [Event -> EventRow]
         /\ point \in [Versions -> {"absent", "inactive", "active"}]
         /\ event[work[w].event].status # "absent"
         /\ work[w].targets \subseteq Versions /\ work[w].writes \subseteq Versions
         /\ work[w].event = Revocation => Announced
BY DEF IInv, FInv, WorkFits, TypeOK, WorkIsSound, Sound, Fits, Work, Announced

LEMMA LocalStepsFInv ==
  ASSUME IInv, FInv, NEW w \in Workers, work[w].pc # "idle",
         Fetch(w) \/ List(w) \/ Previous(w) \/ Raise(w) \/ Crash(w)
  PROVE  FInv'
<1> USE Working
<1>1. CASE Fetch(w)
  <2>1. PICK pc \in {"fail", "list", "discard"} : work' = [work EXCEPT ![w] = [work[w] EXCEPT !.pc = pc]]
    BY <1>1 DEF Fetch, Go
  <2>2. Fits([work[w] EXCEPT !.pc = pc], event, ref, point)
    BY <1>1 DEF Fetch, Fits, Work, IndexPcs, TargetPcs, Writing
  <2> QED BY <1>1, <2>1, <2>2, LocalFInv DEF Fetch
<1>2. CASE List(w)
  <2> DEFINE e == work[w].event
             pc == IF e = Revocation THEN "delete" ELSE IF Expected(e) = {} THEN "fail" ELSE "mark"
             x == [work[w] EXCEPT !.targets = Expected(e), !.pc = pc]
  <2>1. work' = [work EXCEPT ![w] = x] BY <1>2 DEF List
  <2>2. e # Revocation /\ Expected(e) # {} => Expected(e) = {e.version} BY ExpectedThere
  <2>3. Fits(x, event, ref, point)
    BY <1>2, <2>2, ExpectedThere DEF List, Fits, Work, IndexPcs, TargetPcs, Writing, RefThere
  <2> HIDE DEF x
  <2> QED BY <1>2, <2>1, <2>3, LocalFInv DEF List
<1>3. CASE Previous(w)
  <2> DEFINE x == [work[w] EXCEPT !.old = Older(work[w].event), !.pc = "ack"]
  <2>1. work' = [work EXCEPT ![w] = x] BY <1>3 DEF Previous
  <2>2. Fits(x, event, ref, point)
    BY <1>3 DEF Previous, Fits, Work, IndexPcs, TargetPcs, Writing
  <2> HIDE DEF x
  <2> QED BY <1>3, <2>1, <2>2, LocalFInv DEF Previous
<1>4. CASE Raise(w)
  <2>1. work' = [work EXCEPT ![w] = [work[w] EXCEPT !.pc = "fail"]] BY <1>4 DEF Raise, Go
  <2>2. Fits([work[w] EXCEPT !.pc = "fail"], event, ref, point)
    BY <1>4 DEF Raise, Fits, Work, IndexPcs, TargetPcs, Writing
  <2> QED BY <1>4, <2>1, <2>2, LocalFInv DEF Raise
<1>5. CASE Crash(w) BY <1>5, IdleFits, LocalFInv DEF Crash, Stop
<1> QED BY <1>1, <1>2, <1>3, <1>4, <1>5

LEMMA ReadsFInv ==
  ASSUME IInv, FInv, NEW w \in Workers, work[w].pc # "idle",
         ReadMark(w) \/ ReadAck(w) \/ ReadDiscard(w) \/ ReadFail(w)
  PROVE  FInv'
<1> USE Working
<1> DEFINE e == work[w].event
<1>1. ASSUME NEW vs, NEW pc, Read(w, vs, pc), UNCHANGED <<ref, event, point>>,
             Fits([work[w] EXCEPT !.writes = vs, !.pc = pc], event, ref, point)
      PROVE  FInv'
  BY <1>1, IdleFits, LocalFInv DEF Read, Stop
<1>2. CASE ReadMark(w)
  <2> DEFINE vs == {v \in Expected(e) : ref[v].status # work[w].stage}
  <2>1. Fits([work[w] EXCEPT !.writes = vs, !.pc = "write_mark"], event, ref, point)
    BY <1>2, ExpectedThere DEF ReadMark, Fits, Work, IndexPcs, TargetPcs, Writing, RefThere
  <2> QED BY <1>1, <1>2, <2>1 DEF ReadMark
<1>3. CASE ReadDiscard(w)
  <2>1. Fits([work[w] EXCEPT !.writes = Expected(e), !.pc = "write_discard"], event, ref, point)
    BY <1>3, ExpectedThere DEF ReadDiscard, Fits, Work, IndexPcs, TargetPcs, Writing, RefThere
  <2> QED BY <1>1, <1>3, <2>1 DEF ReadDiscard
<1>4. CASE ReadFail(w)
  <2> DEFINE status == IF Exhausted(e) THEN "failed" ELSE "retrying"
             vs == {v \in Expected(e) : ref[v].status # "deleted" /\ ref[v].status # status}
  <2>1. Fits([work[w] EXCEPT !.writes = vs, !.pc = "write_fail"], event, ref, point)
    BY <1>4, ExpectedThere DEF ReadFail, Fits, Work, IndexPcs, TargetPcs, Writing, RefThere
  <2>2. Read(w, vs, "write_fail") BY <1>4 DEF ReadFail
  <2> QED BY <1>1, <1>4, <2>1, <2>2 DEF ReadFail
<1>5. CASE ReadAck(w)
  <2> DEFINE vs == IF e = Revocation THEN {} ELSE {v \in work[w].targets : ref[v].status # "indexed"}
  <2>1. Fits([work[w] EXCEPT !.pc = "fail"], event, ref, point)
    BY <1>5 DEF ReadAck, Fits, Work, IndexPcs, TargetPcs, Writing
  <2>2. Fits([work[w] EXCEPT !.writes = vs, !.pc = "write_ack"], event, ref, point)
    BY <1>5 DEF ReadAck, Fits, Work, IndexPcs, TargetPcs, Writing
  <2>3. CASE Go(w, "fail") BY <1>5, <2>1, <2>3, LocalFInv DEF ReadAck, Go
  <2>4. CASE Read(w, vs, "write_ack") BY <1>1, <1>5, <2>2, <2>4 DEF ReadAck
  <2> QED BY <1>5, <2>3, <2>4 DEF ReadAck
<1> QED BY <1>2, <1>3, <1>4, <1>5

LEMMA WritesFInv ==
  ASSUME IInv, FInv, NEW w \in Workers, work[w].pc # "idle",
         WriteMark(w) \/ WriteDiscard(w) \/ WriteFail(w)
  PROVE  FInv'
<1> USE Working
<1> DEFINE e == work[w].event
<1>1. ASSUME NEW s, s # "absent", work[w].pc \in Writing
      PROVE  SameRefs(StatusSet(work[w].writes, s))
  BY <1>1, StatusSetRefs DEF Fits, RefThere
<1>2. ASSUME NEW s, s # "absent" PROVE SameEvents(Closed(e, s))
  BY <1>2, ClosedEvents
<1>3. ASSUME NEW s, s # "indexed" PROVE \A v \in Versions :
             StatusSet(work[w].writes, s)[v].status = "indexed" => ref[v].status = "indexed"
  BY <1>3 DEF StatusSet, Ref
<1>4. CASE WriteMark(w)
  <2>1. work[w].stage \in {"embedding", "upserting"} BY DEF Work
  <2>2. SameRows BY <1>1, <1>4, <2>1, UnchangedRows DEF WriteMark, SameRows, Writing
  <2>3. \A v \in Versions : ref'[v].status = "indexed" => ref[v].status = "indexed"
    BY <1>3, <1>4, <2>1 DEF WriteMark
  <2>4. PICK x : work' = [work EXCEPT ![w] = x] /\ Fits(x, event, ref, point)
                 /\ x \in Work /\ x.event = e
    <3>1. CASE work[w].stage = "embedding"
      <4> DEFINE x == [work[w] EXCEPT !.stage = "upserting", !.pc = "mark"]
      <4>1. work' = [work EXCEPT ![w] = x] BY <1>4, <3>1 DEF WriteMark
      <4>2. Fits(x, event, ref, point) /\ x \in Work /\ x.event = e
        BY <1>4 DEF WriteMark, Fits, Work, IndexPcs, TargetPcs, Writing
      <4> HIDE DEF x
      <4> QED BY <4>1, <4>2
    <3>2. CASE work[w].stage = "upserting"
      <4> DEFINE x == [work[w] EXCEPT !.pc = "upsert"]
      <4>1. work' = [work EXCEPT ![w] = x] BY <1>4, <3>2 DEF WriteMark
      <4>2. Fits(x, event, ref, point) /\ x \in Work /\ x.event = e
        BY <1>4 DEF WriteMark, Fits, Work, IndexPcs, TargetPcs, Writing
      <4> HIDE DEF x
      <4> QED BY <4>1, <4>2
    <3> QED BY <2>1, <3>1, <3>2
  <2>5. Fits(x, event', ref', point') BY <1>4, <2>2, <2>4, FitsStays DEF WriteMark
  <2> QED BY <1>4, <2>2, <2>3, <2>4, <2>5, FInvStep DEF WriteMark
<1>5. CASE WriteDiscard(w)
  <2>1. SameRows BY <1>1, <1>2, <1>5, UnchangedRows DEF WriteDiscard, SameRows, Writing
  <2> QED BY <1>3, <1>5, <2>1, StopFInv DEF WriteDiscard
<1>6. CASE WriteFail(w)
  <2>1. SameRows BY <1>1, <1>2, <1>6, UnchangedRows DEF WriteFail, SameRows, Writing
  <2>2. \A v \in Versions : ref'[v].status = "indexed" => ref[v].status = "indexed"
    BY <1>3, <1>6 DEF WriteFail
  <2> QED BY <1>6, <2>1, <2>2, StopFInv DEF WriteFail
<1> QED BY <1>4, <1>5, <1>6

\* The remote calls on points.
LEMMA PointsFInv ==
  ASSUME IInv, FInv, NEW w \in Workers, work[w].pc # "idle",
         Upsert(w) \/ Delete(w) \/ Activate(w) \/ Deactivate(w)
  PROVE  FInv'
<1> USE Working
<1>1. CASE Upsert(w)
  <2> DEFINE x == [work[w] EXCEPT !.pc = "previous"]
  <2>1. work' = [work EXCEPT ![w] = x] /\ SameRows
    BY <1>1, UnchangedRows DEF Upsert, Go, SameRows
  <2>2. \A v \in Versions : /\ point[v] # "absent" => point'[v] # "absent"
                            /\ point'[v] # "absent" => point[v] # "absent" \/ RefThere(v)
                            /\ v \in work[w].targets => point'[v] # "absent"
    BY <1>1 DEF Upsert, Upserted, Fits, RefThere
  <2>3. Fits(x, event', ref', point')
    BY <1>1, <2>2 DEF Upsert, Fits, Work, IndexPcs, TargetPcs, Writing
  <2> HIDE DEF x
  <2> QED BY <1>1, <2>1, <2>2, <2>3, FInvStep DEF Upsert
<1>2. CASE Delete(w)
  <2> DEFINE x == [work[w] EXCEPT !.pc = "ack"]
  <2>1. work' = [work EXCEPT ![w] = x] /\ SameRows /\ Announced
    BY <1>2, UnchangedRows DEF Delete, Go, SameRows, Fits, Announced
  <2>2. \A v \in Versions : point'[v] # "absent" => point[v] # "absent" BY <1>2 DEF Delete
  <2>3. Fits(x, event', ref', point')
    BY <1>2 DEF Delete, Fits, Work, IndexPcs, TargetPcs, Writing
  <2> HIDE DEF x
  <2> QED BY <1>2, <2>1, <2>2, <2>3, FInvStep DEF Delete
<1>3. CASE Activate(w)
  <2> DEFINE x == [work[w] EXCEPT !.pc = "deactivate"]
  <2>1. work' = [work EXCEPT ![w] = x] /\ SameRows
    BY <1>3, UnchangedRows DEF Activate, Go, SameRows
  <2>2. \A v \in Versions : point[v] # "absent" <=> point'[v] # "absent"
    BY <1>3 DEF Activate, PointsSet
  <2>3. Fits(x, event', ref', point')
    BY <1>3 DEF Activate, Fits, Work, IndexPcs, TargetPcs, Writing
  <2> HIDE DEF x
  <2> QED BY <1>3, <2>1, <2>2, <2>3, FInvStep DEF Activate
<1>4. CASE Deactivate(w)
  <2>1. SameRows BY <1>4, UnchangedRows DEF Deactivate, SameRows
  <2>2. \A v \in Versions : point[v] # "absent" <=> point'[v] # "absent"
    BY <1>4 DEF Deactivate, PointsSet
  <2> QED BY <1>4, <2>1, <2>2, StopFInv DEF Deactivate
<1> QED BY <1>1, <1>2, <1>3, <1>4

\* The references an acknowledgement makes: indexed where it writes,
\* superseded where they are older.
AckRefs(w) ==
  [v \in Versions |->
     IF v \in work[w].writes THEN [ref[v] EXCEPT !.status = "indexed"]
     ELSE IF v \in Older(work[w].event) THEN [ref[v] EXCEPT !.status = "superseded"]
     ELSE ref[v]]

\* An acknowledgement changes references only of an indexing event.
LEMMA AckCases ==
  ASSUME NEW w \in Workers, WriteAck(w)
  PROVE  \/ /\ Stop(w) /\ UNCHANGED <<ref, point>>
            /\ event' = event \/ event' = Closed(work[w].event, "processed")
         \/ /\ work[w].event # Revocation /\ Owns(w, work[w].event)
            /\ ref' = AckRefs(w) /\ event' = Closed(work[w].event, "processed")
            /\ Go(w, "activate") /\ UNCHANGED point
BY DEF WriteAck, AckRefs

LEMMA AckRows ==
  ASSUME IInv, FInv, NEW w \in Workers, work[w].pc = "write_ack"
  PROVE  /\ SameRefs(AckRefs(w)) /\ SameEvents(Closed(work[w].event, "processed"))
         /\ \A v \in Versions : AckRefs(w)[v].status = "indexed" =>
              ref[v].status = "indexed" \/ v \in work[w].writes
<1> USE Working
<1>1. \A v \in Older(work[w].event) : RefThere(v) BY DEF Older, Open, RefThere
<1>2. \A v \in work[w].writes : RefThere(v) BY DEF Fits, Writing, RefThere
<1> QED BY <1>1, <1>2, ClosedEvents DEF AckRefs, SameRefs, Ref, RefThere

LEMMA WriteAckFInv ==
  ASSUME IInv, FInv, NEW w \in Workers, WriteAck(w)
  PROVE  FInv'
<1>1. work[w].pc = "write_ack" BY DEF WriteAck
<1> USE Working, <1>1
<1>2. CASE Stop(w) /\ UNCHANGED <<ref, point>>
  <2>1. SameRows BY <1>2, AckCases, AckRows, UnchangedRows DEF SameRows
  <2> QED BY <1>2, <2>1, StopFInv
<1>3. CASE /\ work[w].event # Revocation /\ ref' = AckRefs(w)
           /\ event' = Closed(work[w].event, "processed") /\ Go(w, "activate") /\ UNCHANGED point
  <2> DEFINE x == [work[w] EXCEPT !.pc = "activate"]
  <2>1. work' = [work EXCEPT ![w] = x] /\ SameRows BY <1>3, AckRows DEF Go, SameRows
  <2>2. Fits(x, event, ref, point) /\ x \in Work /\ x.event \in Event
    BY <1>3 DEF Fits, Work, IndexPcs, TargetPcs, Writing
  <2>3. Fits(x, event', ref', point') BY <1>3, <2>1, <2>2, FitsStays
  <2>4. work[w].writes \subseteq work[w].targets BY DEF IInv, WorkIsSound, Sound
  <2>5. \A v \in Versions : ref'[v].status = "indexed" =>
          ref[v].status = "indexed" \/ point'[v] # "absent" \/ Announced
    BY <1>3, <2>4, AckRows DEF Fits, Announced
  <2> HIDE DEF x
  <2> QED BY <1>3, <2>1, <2>3, <2>5, FInvStep
<1> QED BY <1>2, <1>3, AckCases

LEMMA ClaimFInv ==
  ASSUME IInv, FInv, NEW w \in Workers, NEW e \in Event, Claim(w, e)
  PROVE  FInv'
<1> DEFINE x == [IdleWork EXCEPT !.pc = IF e = Revocation THEN "list" ELSE "fetch", !.event = e]
<1>1. event[e].status # "absent" /\ event \in [Event -> EventRow]
  BY DEF Claim, Claimable, IInv, TypeOK
<1>2. work' = [work EXCEPT ![w] = x] /\ UNCHANGED <<ref, point>> BY DEF Claim
<1>3. event' = [event EXCEPT ![e].status = "claimed", ![e].owner = w, ![e].attempt = Attempted(e)]
  BY DEF Claim
<1>4. SameRows BY <1>1, <1>2, <1>3, UnchangedRows DEF SameRows, SameEvents, EventRow
<1>5. Fits(x, event', ref', point')
  <2>1. x.pc \in {"list", "fetch"} /\ (x.pc = "fetch" => x.event # Revocation)
        /\ x.event = e /\ x.targets = {} /\ x.writes = {}
    BY DEF IdleWork
  <2> HIDE DEF x
  <2>2. event'[e].status # "absent" BY <1>1, <1>4 DEF SameRows, SameEvents
  <2> QED BY <2>1, <2>2 DEF Fits, IndexPcs, TargetPcs, Writing
<1> HIDE DEF x
<1> QED BY <1>2, <1>4, <1>5, FInvStep

------------------------------------------------------------------------------
(* Planning, and the invariant *)

\* A new event is the latest one.
LEMMA PlannedClock ==
  ASSUME event \in [Event -> EventRow], NEW e \in Event, event[e].status = "absent",
         event' = Created(e)
  PROVE  /\ event'[e].status # "absent" /\ event'[e].created = Clock
         /\ \A d \in Event \ {e} : event'[d] = event[d]
         /\ Clock \in Nat /\ Clock' = Clock + 1
<1> DEFINE S == {x \in Event : event[x].status # "absent"}
           T == {x \in Event : event'[x].status # "absent"}
<1>1. event' = [event EXCEPT ![e].status = "pending", ![e].created = Clock] /\ e \notin S
  BY DEF Created
<1>2. event'[e].status = "pending" /\ event'[e].created = Clock
      /\ \A d \in Event \ {e} : event'[d] = event[d]
  BY <1>1 DEF EventRow
<1>3. T = S \cup {e} BY <1>1, <1>2
<1>4. S \subseteq Event OBVIOUS
<1>5. Clock = Cardinality(S) + 1 BY DEF Clock
<1>6. Clock' = Cardinality(T) + 1 BY DEF Clock
<1> HIDE DEF S, T
<1>7. IsFiniteSet(S) BY <1>4, EventsAreFinite, FS_Subset
<1>8. Cardinality(T) = Cardinality(S) + 1 /\ Cardinality(S) \in Nat
  BY <1>1, <1>3, <1>7, FS_AddElement, FS_CardinalityType
<1> QED BY <1>2, <1>5, <1>6, <1>8

\* Planning keeps what exists and leaves points and work alone.
LEMMA PlanFInv ==
  ASSUME IInv, FInv, UNCHANGED <<point, work>>, RefsOrdered',
         \A e \in Event : event[e].status # "absent" => event'[e].status # "absent",
         \A v \in Versions : RefThere(v) => RefThere(v)',
         \A v \in Versions : ref'[v].status = "indexed" => ref[v].status = "indexed"
  PROVE  FInv'
<1>1. WorkFits'
  <2> SUFFICES ASSUME NEW w \in Workers PROVE Fits(work[w], event', ref', point)
    BY DEF WorkFits
  <2>1. Fits(work[w], event, ref, point) /\ work[w] \in Work /\ Revocation \in Event
        /\ (work[w].pc # "idle" => work[w].event \in Event)
    BY DEF FInv, WorkFits, IInv, TypeOK, WorkIsSound, Sound, Event
  <2> QED BY <2>1 DEF Fits, Work, RefThere
<1>2. PointsHaveRefs' BY DEF FInv, PointsHaveRefs
<1>3. IndexedHasPoint'
  <2>1. Revocation \in Event BY DEF Event
  <2> QED BY <2>1 DEF FInv, IndexedHasPoint
<1> QED BY <1>1, <1>2, <1>3 DEF FInv

\* An event of version v is planned, and its reference with the position c.
LEMMA IndexingPlanned ==
  ASSUME IInv, FInv, NEW e \in Event, e.version \in Versions,
         event[e].status = "absent", event' = Created(e), NEW c,
         UNCHANGED <<point, work>>,
         c = IF RefThere(e.version) THEN ref[e.version].created ELSE Clock,
         ref' = [ref EXCEPT ![e.version] = [status |-> "pending", created |-> c]]
           \/ (ref' = ref /\ RefThere(e.version))
  PROVE  FInv'
<1> DEFINE n == e.version
<1>1. /\ n \in Versions /\ e # Revocation /\ Revocation \in Event
      /\ ref \in [Versions -> Ref] /\ event \in [Event -> EventRow]
  BY DEF IInv, TypeOK, Event, Revocation, Withdrawn, Versions
<1>2. /\ event'[e].status # "absent" /\ event'[e].created = Clock
      /\ \A d \in Event \ {e} : event'[d] = event[d]
      /\ Clock \in Nat /\ Clock' = Clock + 1 /\ event[e].status = "absent"
  BY <1>1, PlannedClock
<1>3. /\ \A v \in Versions \ {n} : ref'[v] = ref[v]
      /\ ref'[n].status # "absent" /\ ref'[n].created = c
      /\ \A v \in Versions : ref'[v].status = "indexed" => ref[v].status = "indexed"
  BY <1>1 DEF RefThere
<1>4. \A v \in Versions : ref[v].created \in Nat BY <1>1 DEF Ref
<1>5. RefsOrdered'
  <2>1. c <= Clock /\ c \in Nat BY <1>1, <1>2, <1>4 DEF FInv, RefsOrdered
  <2>2. \A v \in Versions : RefThere(v)' => ref'[v].created < Clock'
    BY <1>2, <1>3, <1>4, <2>1 DEF FInv, RefsOrdered, RefThere
  <2>3. \A d \in Event \ {Revocation} : event'[d].status # "absent" =>
          ref'[d.version].status # "absent" /\ ref'[d.version].created <= event'[d].created
    <3> SUFFICES ASSUME NEW d \in Event \ {Revocation}, event'[d].status # "absent"
                 PROVE  ref'[d.version].status # "absent"
                        /\ ref'[d.version].created <= event'[d].created
      OBVIOUS
    <3>1. d.version \in Versions BY EventHasVersion
    <3>2. CASE d = e BY <1>2, <1>3, <2>1, <3>2
    <3>3. CASE d # e
      <4>1. /\ event'[d] = event[d] /\ RefThere(d.version)
            /\ ref[d.version].created <= event[d].created
        BY <1>2, <3>3 DEF FInv, RefsOrdered
      <4>2. CASE d.version = n BY <1>3, <4>1, <4>2
      <4>3. CASE d.version # n BY <1>3, <3>1, <4>1, <4>3 DEF RefThere
      <4> QED BY <4>2, <4>3
    <3> QED BY <3>2, <3>3
  <2>4. \A u, v \in Versions :
          RefThere(u)' /\ RefThere(v)' /\ u # v => ref'[u].created # ref'[v].created
    <3>1. \A v \in Versions \ {n} : RefThere(v) => ref[v].created # c
      BY <1>1, <1>2, <1>4 DEF FInv, RefsOrdered
    <3> QED BY <1>3, <3>1 DEF FInv, RefsOrdered, RefThere
  <2> QED BY <2>2, <2>3, <2>4 DEF RefsOrdered, RefThere
<1>6. \A d \in Event : event[d].status # "absent" => event'[d].status # "absent" BY <1>2
<1>7. \A v \in Versions : RefThere(v) => RefThere(v)' BY <1>3 DEF RefThere
<1> QED BY <1>3, <1>5, <1>6, <1>7, PlanFInv

LEMMA PlanningFInv ==
  ASSUME IInv, FInv,
         \/ \E v \in Versions : Edit(v)
         \/ Withdraw
         \/ \E e \in Event : PlanStep(e) \/ RetryFailed(e)
         \/ Revoke
  PROVE  FInv'
<1>1. /\ ref \in [Versions -> Ref] /\ event \in [Event -> EventRow] /\ Revocation \in Event
  BY DEF IInv, TypeOK, Event
<1>2. ASSUME UNCHANGED <<point, work, ref>>, SameEvents(event') PROVE FInv'
  <2>1. SameRows BY <1>2, UnchangedRows DEF SameRows
  <2>2. RefsOrdered' BY <2>1, SameOrder DEF FInv
  <2> QED BY <1>2, <2>1, <2>2, PlanFInv DEF SameEvents, RefThere
<1>3. ASSUME NEW v \in Versions, Edit(v) PROVE FInv' BY <1>2, <1>3, UnchangedRows DEF Edit
<1>4. CASE Withdraw BY <1>2, <1>4, UnchangedRows DEF Withdraw
<1>0. ASSUME NEW e \in Event, Resolve(e) \/ CheckLineage(e) PROVE FInv'
  BY <1>0, <1>2, UnchangedRows DEF Resolve, CheckLineage
<1>5. ASSUME NEW e \in Event, Update(e) PROVE FInv'
  <2>0. event[e].status = "absent" /\ e.version \in Versions
    BY <1>5 DEF Update, IInv, RequestIsNew
  <2> DEFINE c == IF RefThere(e.version) THEN ref[e.version].created ELSE Clock
  <2>1. CASE RefThere(e.version) BY <1>5, <2>0, <2>1, IndexingPlanned DEF Update, RefThere
  <2>2. CASE ~RefThere(e.version) BY <1>5, <2>0, <2>2, IndexingPlanned DEF Update, RefThere
  <2> QED BY <2>1, <2>2
<1>6. ASSUME NEW e \in Event, Reindex(e) PROVE FInv'
  <2> DEFINE c == IF RefThere(e.version) THEN ref[e.version].created ELSE Clock
  <2>1. e.version \in Versions /\ event[e].status = "absent"
    BY <1>6 DEF Reindex, IInv, RequestIsNew
  <2>2. ref' = [ref EXCEPT ![e.version] = [status |-> "pending", created |-> c]]
    BY <1>1, <1>6, <2>1 DEF Reindex, RefThere
  <2> HIDE DEF c
  <2> QED BY <1>6, <2>1, <2>2, IndexingPlanned DEF Reindex, c
<1>7. ASSUME NEW e \in Event, RetryFailed(e) PROVE FInv'
  <2>1. SameEvents(event') BY <1>1, <1>7 DEF RetryFailed, SameEvents, EventRow
  <2> QED BY <1>2, <1>7, <2>1 DEF RetryFailed
<1>8. CASE Revoke
  <2>1. /\ event'[Revocation].status # "absent"
        /\ \A d \in Event \ {Revocation} : event'[d] = event[d]
        /\ Clock \in Nat /\ Clock' = Clock + 1
    BY <1>1, <1>8, PlannedClock DEF Revoke
  <2>2. SameRefs(ref') BY <1>1, <1>8 DEF Revoke, SameRefs, Ref
  <2>3. \A v \in Versions : ref'[v].status = "indexed" => ref[v].status = "indexed"
    BY <1>1, <1>8 DEF Revoke, Ref
  <2>4. RefsOrdered'
    <3>1. \A v \in Versions : ref[v].created \in Nat BY <1>1 DEF Ref
    <3>2. \A d \in Event \ {Revocation} : d.version \in Versions BY EventHasVersion
    <3> QED BY <2>1, <2>2, <3>1, <3>2 DEF FInv, RefsOrdered, SameRefs, RefThere
  <2>5. \A d \in Event : event[d].status # "absent" => event'[d].status # "absent" BY <2>1
  <2>6. \A v \in Versions : RefThere(v) => RefThere(v)' BY <2>2 DEF SameRefs, RefThere
  <2> QED BY <1>8, <2>3, <2>4, <2>5, <2>6, PlanFInv DEF Revoke
<1> QED BY <1>0, <1>3, <1>4, <1>5, <1>6, <1>7, <1>8 DEF PlanStep

\* Reconciliation moves points between active and inactive only.
LEMMA OtherFInv ==
  ASSUME IInv, FInv, AdminStep \/ FaultsEnd \/ UNCHANGED vars
  PROVE  FInv'
<1>1. UNCHANGED <<ref, event, work>> /\ SameRows
  BY UnchangedRows DEF AdminStep, ReadReferences, ListPoints, RepairHide, RepairShow, FaultsEnd,
         vars, SameRows
<1>2. \A v \in Versions : point'[v] # "absent" <=> point[v] # "absent"
  BY DEF AdminStep, ReadReferences, ListPoints, RepairHide, RepairShow, PointsSet, FaultsEnd, vars
<1>3. RefsOrdered' BY <1>1, SameOrder DEF FInv
<1>4. WorkFits' BY <1>1, <1>2 DEF FInv, WorkFits, Fits, IInv, TypeOK, Work
<1>5. PointsHaveRefs' /\ IndexedHasPoint'
  BY <1>1, <1>2 DEF FInv, PointsHaveRefs, IndexedHasPoint, RefThere
<1> QED BY <1>3, <1>4, <1>5 DEF FInv

LEMMA InitFInv == Init => FInv
<1> SUFFICES ASSUME Init PROVE FInv
  OBVIOUS
<1>1. WorkFits BY IdleFits DEF Init, WorkFits
<1>2. \A e \in Event : event[e].status = "absent" BY DEF Init
<1>3. \A v \in Versions : ~RefThere(v) /\ point[v] = "absent" BY DEF Init, RefThere
<1> QED BY <1>1, <1>2, <1>3 DEF FInv, RefsOrdered, PointsHaveRefs, IndexedHasPoint, RefThere

LEMMA WorkerStepCases ==
  ASSUME NEW w \in Workers, Process(w) \/ Raise(w) \/ Crash(w)
  PROVE  /\ work[w].pc # "idle"
         /\ \/ Fetch(w) \/ List(w) \/ Previous(w) \/ Raise(w) \/ Crash(w)
            \/ Upsert(w) \/ Delete(w) \/ Activate(w) \/ Deactivate(w)
            \/ ReadMark(w) \/ ReadAck(w) \/ ReadDiscard(w) \/ ReadFail(w)
            \/ WriteMark(w) \/ WriteDiscard(w) \/ WriteFail(w) \/ WriteAck(w)
BY DEF Process, Fetch, List, ReadMark, WriteMark, Upsert, Previous, Delete, ReadAck,
       WriteAck, Activate, Deactivate, ReadDiscard, WriteDiscard, ReadFail, WriteFail, Raise, Crash

LEMMA NextFInv == IInv /\ FInv /\ [Next]_vars => FInv'
<1> SUFFICES ASSUME IInv, FInv, [Next]_vars PROVE FInv'
  OBVIOUS
<1>1. ASSUME NEW w \in Workers, Process(w) \/ Raise(w) \/ Crash(w) PROVE FInv'
  BY <1>1, WorkerStepCases, LocalStepsFInv, ReadsFInv, WritesFInv, PointsFInv, WriteAckFInv
<1> QED BY <1>1, PlanningFInv, ClaimFInv, OtherFInv DEF Next

LEMMA FInvariance == Spec => [](IInv /\ FInv)
<1>1. Init => IInv /\ FInv BY InitIInv, InitFInv
<1>2. (IInv /\ FInv) /\ [Next]_vars => (IInv /\ FInv)' BY NextIInv, NextFInv
<1> QED BY <1>1, <1>2, PTL DEF Spec

\* An indexed version has its point until a withdrawal is announced, for any
\* number of workers, whose transactions overlap: points are upserted before
\* their version is indexed, and only the worker of a withdrawal deletes them.
THEOREM IndexedPointsExist == Spec => []IndexedHasPoint
<1>1. IInv /\ FInv => IndexedHasPoint BY DEF FInv
<1> QED BY <1>1, FInvariance, PTL

------------------------------------------------------------------------------
(* One worker, and the process that plans *)

OneWorker == \A u, w \in Workers : u = w

\* What the worker is about to save is still open.
WritesOpen ==
  \A w \in Workers : work[w].pc \in Writing =>
    \A v \in work[w].writes : Open(v) /\ v = work[w].event.version

\* Whatever may still be acknowledged will supersede what is indexed.
IndexedIsOldest ==
  \A u, v \in Versions :
    u # v /\ ref[v].status = "indexed" /\ Open(u) => ref[v].created < ref[u].created

\* What a reindex checked still holds.
LineageHolds ==
  \A e \in Event : request[e] = "checked" => \A v \in Versions : Open(v) => v = e.version

OneChecked ==
  \A d, e \in Event : request[d] = "checked" /\ request[e] = "checked" => d = e

BeforeWithdrawal == ~Announced => WritesOpen /\ IndexedIsOldest /\ LineageHolds

\* A worker that found its version with the source and may come to index it.
Indexing(x) ==
  /\ x.event # Revocation
  /\ x.pc \in {"list", "mark", "write_mark", "upsert", "previous", "ack", "write_ack"}

\* After a withdrawal only a version fetched before it is indexed.
AfterWithdrawal ==
  Announced =>
    /\ source = Withdrawn
    /\ AtMostOneIndexed
    /\ \A w \in Workers, v \in Versions :
         Indexing(work[w]) /\ ref[v].status = "indexed" => v = work[w].event.version

DeletedAreAnnounced == \A v \in Versions : ref[v].status = "deleted" => Announced

\* What the worker of the withdrawal found deleted, whose points it removed.
RevocationSees(x, refs, points) ==
  x.event = Revocation =>
    /\ x.pc = "write_ack" => \A v \in Versions : refs[v].status = "deleted" => v \in x.targets
    /\ x.pc \in {"ack", "write_ack"} => \A v \in x.targets : points[v] = "absent"

DeletedAreGone ==
  event[Revocation].status = "processed" =>
    /\ \A v \in Versions : ref[v].status = "deleted" => point[v] = "absent"
    /\ \A w \in Workers : ~Indexing(work[w])

SInv ==
  /\ OneChecked
  /\ BeforeWithdrawal
  /\ AfterWithdrawal
  /\ DeletedAreAnnounced
  /\ \A w \in Workers : RevocationSees(work[w], ref, point)
  /\ DeletedAreGone

\* A step of the worker, that becomes x.
LEMMA SInvStep ==
  ASSUME OneWorker, IInv, SInv, NEW w \in Workers, NEW x \in Work,
         work' = [work EXCEPT ![w] = x], UNCHANGED <<source, request>>, Announced' = Announced,
         ~Announced =>
           /\ x.pc \in Writing => \A v \in x.writes : Open(v)' /\ v = x.event.version
           /\ IndexedIsOldest'
           /\ \A v \in Versions : Open(v)' => Open(v),
         Announced => (Indexing(x) => Indexing(work[w]) /\ x.event = work[w].event),
         \A v \in Versions : ref'[v].status = "indexed" =>
           ref[v].status = "indexed" \/ (Indexing(work[w]) /\ v = work[w].event.version),
         \A v \in Versions : ref'[v].status = "deleted" => ref[v].status = "deleted",
         event'[Revocation].status = "processed" =>
           \/ event[Revocation].status = "processed"
           \/ work[w].event = Revocation /\ work[w].pc = "write_ack" /\ x.pc = "idle",
         Indexing(work[w]) \/ \A v \in Versions : point[v] = "absent" => point'[v] = "absent",
         RevocationSees(x, ref', point')
  PROVE  SInv'
<1>1. work'[w] = x /\ (\A u \in Workers : u = w) BY DEF IInv, TypeOK, OneWorker
<1>2. OneChecked' BY DEF SInv, OneChecked
<1>3. BeforeWithdrawal'
  BY <1>1 DEF SInv, BeforeWithdrawal, WritesOpen, LineageHolds
<1>4. AfterWithdrawal'
  <2> SUFFICES ASSUME Announced PROVE /\ AtMostOneIndexed'
                                      /\ \A v \in Versions : Indexing(x) /\ ref'[v].status = "indexed"
                                           => v = x.event.version
    BY <1>1 DEF SInv, AfterWithdrawal
  <2>1. AtMostOneIndexed BY DEF SInv, AfterWithdrawal
  <2>2. \A v \in Versions : Indexing(work[w]) /\ ref'[v].status = "indexed" => v = work[w].event.version
    BY DEF SInv, AfterWithdrawal
  <2> QED BY <2>1, <2>2 DEF AtMostOneIndexed
<1>5. DeletedAreAnnounced' BY DEF SInv, DeletedAreAnnounced
<1>6. \A u \in Workers : RevocationSees(work'[u], ref', point') BY <1>1 DEF RevocationSees
<1>7. DeletedAreGone'
  <2> SUFFICES ASSUME event'[Revocation].status = "processed"
               PROVE  /\ \A v \in Versions : ref'[v].status = "deleted" => point'[v] = "absent"
                      /\ ~Indexing(x)
    BY <1>1 DEF DeletedAreGone, Indexing
  <2>1. CASE event[Revocation].status = "processed"
    <3>1. ~Indexing(work[w]) /\ Announced BY <2>1 DEF SInv, DeletedAreGone, Announced
    <3> QED BY <2>1, <3>1 DEF SInv, DeletedAreGone
  <2>2. CASE work[w].event = Revocation /\ work[w].pc = "write_ack" /\ x.pc = "idle"
    BY <2>2 DEF SInv, RevocationSees, Indexing
  <2> QED BY <2>1, <2>2
<1> QED BY <1>2, <1>3, <1>4, <1>5, <1>6, <1>7 DEF SInv

\* A step that leaves the references and events alone.
LEMMA SameSInv ==
  ASSUME OneWorker, IInv, SInv, NEW w \in Workers, NEW x \in Work,
         work' = [work EXCEPT ![w] = x], UNCHANGED <<source, request, ref, event>>,
         ~Announced => (x.pc \in Writing => \A v \in x.writes : Open(v) /\ v = x.event.version),
         Announced => (Indexing(x) => Indexing(work[w]) /\ x.event = work[w].event),
         Indexing(work[w]) \/ \A v \in Versions : point[v] = "absent" => point'[v] = "absent",
         RevocationSees(x, ref', point')
  PROVE  SInv'
<1>1. Announced' = Announced BY DEF Announced
<1>2. \A v : Open(v)' = Open(v) BY DEF Open
<1>3. ~Announced => IndexedIsOldest' BY <1>2 DEF SInv, BeforeWithdrawal, IndexedIsOldest
<1> QED BY <1>1, <1>2, <1>3, SInvStep

LEMMA IdleSees == /\ ~Indexing(IdleWork) /\ RevocationSees(IdleWork, ref', point')
                  /\ IdleWork \in Work /\ IdleWork.pc \notin Writing /\ IdleWork.pc = "idle"
BY IdlesAreTyped DEF IdleWork, Indexing, RevocationSees, Writing

\* Steps of the worker between its transactions.
LEMMA QuietSInv ==
  ASSUME OneWorker, IInv, FInv, SInv, NEW w \in Workers, work[w].pc # "idle",
         \/ Fetch(w) \/ List(w) \/ Previous(w) \/ Raise(w) \/ Crash(w)
         \/ Upsert(w) \/ Delete(w) \/ Activate(w) \/ Deactivate(w)
  PROVE  SInv'
<1> USE Working
<1> DEFINE e == work[w].event
<1>1. UNCHANGED <<source, request, ref, event>>
  BY DEF Fetch, List, Previous, Raise, Crash, Upsert, Delete, Activate, Deactivate
<1>2. Indexing(work[w]) \/ \A v \in Versions : point[v] = "absent" => point'[v] = "absent"
  <2>1. CASE Upsert(w) BY <2>1 DEF Upsert, Indexing, Fits, IndexPcs
  <2>2. CASE ~Upsert(w)
    BY <2>2 DEF Fetch, List, Previous, Raise, Crash, Delete, Activate, Deactivate, PointsSet
  <2> QED BY <2>1, <2>2
<1>3. ASSUME NEW pc, pc \in {"fail", "list", "discard", "ack", "deactivate", "previous"}, Go(w, pc),
             Announced => (pc \in {"list", "ack", "previous"} /\ e # Revocation => Indexing(work[w])),
             pc = "ack" /\ e = Revocation => \A v \in work[w].targets : point'[v] = "absent"
      PROVE  SInv'
  <2> DEFINE x == [work[w] EXCEPT !.pc = pc]
  <2>1. work' = [work EXCEPT ![w] = x] BY <1>3 DEF Go
  <2>2. x.pc = pc /\ x.event = e /\ x.targets = work[w].targets BY DEF Work
  <2>3. x \in Work BY <1>3 DEF Work
  <2> HIDE DEF x
  <2>4. Announced => (Indexing(x) => Indexing(work[w]) /\ x.event = e)
    BY <1>3, <2>2 DEF Indexing
  <2>5. RevocationSees(x, ref', point') BY <1>3, <2>2 DEF RevocationSees
  <2> QED BY <1>1, <1>2, <1>3, <2>1, <2>2, <2>3, <2>4, <2>5, SameSInv DEF Writing
<1>4. CASE Stop(w) BY <1>1, <1>2, <1>4, IdleSees, SameSInv DEF Stop
<1>5. CASE Fetch(w)
  <2>1. e # Revocation BY <1>5 DEF Fetch, Fits, IndexPcs
  <2>2. Announced => source = Withdrawn BY DEF SInv, AfterWithdrawal
  <2> QED BY <1>3, <1>5, <2>1, <2>2 DEF Fetch
<1>6. CASE List(w)
  <2> DEFINE pc == IF e = Revocation THEN "delete" ELSE IF Expected(e) = {} THEN "fail" ELSE "mark"
             x == [work[w] EXCEPT !.targets = Expected(e), !.pc = pc]
  <2>1. work' = [work EXCEPT ![w] = x] BY <1>6 DEF List
  <2>2. x.pc \in {"delete", "fail", "mark"} /\ x.event = e BY DEF Work
  <2>3. x \in Work BY ExpectedAreVersions DEF Work
  <2> HIDE DEF x
  <2>4. Indexing(x) => Indexing(work[w]) /\ x.event = e BY <1>6, <2>2 DEF Indexing, List
  <2>5. RevocationSees(x, ref', point') BY <2>2 DEF RevocationSees
  <2> QED BY <1>1, <1>2, <2>1, <2>2, <2>3, <2>4, <2>5, SameSInv DEF Writing
<1>7. CASE Previous(w)
  <2> DEFINE x == [work[w] EXCEPT !.old = Older(e), !.pc = "ack"]
  <2>1. work' = [work EXCEPT ![w] = x] BY <1>7 DEF Previous
  <2>2. x.pc = "ack" /\ x.event = e BY DEF Work
  <2>3. x \in Work BY ExpectedAreVersions DEF Work
  <2>4. e # Revocation /\ Indexing(work[w]) BY <1>7 DEF Previous, Fits, IndexPcs, Indexing
  <2> HIDE DEF x
  <2>5. RevocationSees(x, ref', point') BY <2>2, <2>4 DEF RevocationSees
  <2> QED BY <1>1, <1>2, <2>1, <2>2, <2>3, <2>4, <2>5, SameSInv DEF Writing
<1>8. CASE Upsert(w)
  <2>1. Indexing(work[w]) BY <1>8 DEF Upsert, Fits, IndexPcs, Indexing
  <2> QED BY <1>3, <1>8, <2>1 DEF Upsert
<1>9. CASE Delete(w)
  <2>1. e = Revocation /\ \A v \in work[w].targets : point'[v] = "absent"
    BY <1>9 DEF Delete, Fits
  <2> QED BY <1>3, <1>9, <2>1 DEF Delete
<1>10. CASE Activate(w) BY <1>3, <1>10 DEF Activate
<1>11. CASE Raise(w) BY <1>3, <1>11 DEF Raise
<1> QED BY <1>4, <1>5, <1>6, <1>7, <1>8, <1>9, <1>10, <1>11 DEF Crash, Deactivate

LEMMA ReadsSInv ==
  ASSUME OneWorker, IInv, FInv, SInv, NEW w \in Workers, work[w].pc # "idle",
         ReadMark(w) \/ ReadAck(w) \/ ReadDiscard(w) \/ ReadFail(w)
  PROVE  SInv'
<1> USE Working
<1> DEFINE e == work[w].event
<1>1. UNCHANGED <<source, request, ref, event, point>>
  BY DEF ReadMark, ReadAck, ReadDiscard, ReadFail
<1>2. CASE Stop(w) BY <1>1, <1>2, IdleSees, SameSInv DEF Stop
<1>3. ASSUME NEW vs \in SUBSET Versions, NEW pc \in Writing, Read(w, vs, pc),
             Owns(w, e) => \A v \in vs : Open(v) /\ v = e.version,
             pc \in {"write_mark", "write_ack"} /\ e # Revocation => Indexing(work[w]),
             Owns(w, e) /\ pc = "write_ack" /\ e = Revocation =>
               /\ work[w].pc = "ack"
               /\ \A v \in Versions : ref[v].status = "deleted" => v \in work[w].targets
      PROVE  SInv'
  <2>1. CASE Owns(w, e)
    <3> DEFINE x == [work[w] EXCEPT !.writes = vs, !.pc = pc]
    <3>1. work' = [work EXCEPT ![w] = x] BY <1>3, <2>1 DEF Read
    <3>2. x.pc = pc /\ x.writes = vs /\ x.event = e /\ x.targets = work[w].targets BY DEF Work
    <3>3. x \in Work BY <1>3 DEF Work
    <3> HIDE DEF x
    <3>4. Indexing(x) => Indexing(work[w]) BY <1>3, <3>2 DEF Indexing, Writing
    <3>5. RevocationSees(x, ref', point')
      <4> SUFFICES ASSUME e = Revocation, pc = "write_ack"
                   PROVE  /\ \A v \in Versions : ref[v].status = "deleted" => v \in work[w].targets
                          /\ \A v \in work[w].targets : point[v] = "absent"
        BY <1>1, <1>3, <3>2 DEF RevocationSees, Writing
      <4> QED BY <1>3, <2>1 DEF SInv, RevocationSees
    <3> QED BY <1>1, <1>3, <2>1, <3>1, <3>2, <3>3, <3>4, <3>5, SameSInv
  <2> QED BY <1>2, <1>3, <2>1 DEF Read
<1>4. ASSUME e # Revocation PROVE \A v \in Expected(e) : Open(v) /\ v = e.version
  BY <1>4 DEF Expected
<1>5. CASE ReadMark(w)
  <2> DEFINE vs == {v \in Expected(e) : ref[v].status # work[w].stage}
  <2>1. e # Revocation /\ Indexing(work[w]) BY <1>5 DEF ReadMark, Fits, IndexPcs, Indexing
  <2>2. vs \in SUBSET Versions /\ \A v \in vs : Open(v) /\ v = e.version
    BY <1>4, <2>1, ExpectedAreVersions
  <2>3. Read(w, vs, "write_mark") /\ "write_mark" \in Writing BY <1>5 DEF ReadMark, Writing
  <2> HIDE DEF vs
  <2> QED BY <1>3, <2>1, <2>2, <2>3
<1>6. CASE ReadDiscard(w)
  <2> DEFINE vs == Expected(e)
  <2>1. e # Revocation BY <1>6 DEF ReadDiscard, Fits, IndexPcs
  <2>2. vs \in SUBSET Versions /\ \A v \in vs : Open(v) /\ v = e.version
    BY <1>4, <2>1, ExpectedAreVersions
  <2>3. Read(w, vs, "write_discard") /\ "write_discard" \in Writing BY <1>6 DEF ReadDiscard, Writing
  <2> HIDE DEF vs
  <2> QED BY <1>3, <2>2, <2>3
<1>7. CASE ReadFail(w)
  <2> DEFINE status == IF Exhausted(e) THEN "failed" ELSE "retrying"
             vs == {v \in Expected(e) : ref[v].status # "deleted" /\ ref[v].status # status}
  <2>1. \A v \in vs : Open(v) /\ v = e.version
    <3>1. CASE e = Revocation BY <3>1 DEF Expected
    <3>2. CASE e # Revocation BY <1>4, <3>2
    <3> QED BY <3>1, <3>2
  <2>2. Read(w, vs, "write_fail") /\ "write_fail" \in Writing BY <1>7 DEF ReadFail, Writing
  <2>3. vs \in SUBSET Versions BY ExpectedAreVersions
  <2> HIDE DEF vs
  <2> QED BY <1>3, <2>1, <2>2, <2>3
<1>8. CASE ReadAck(w)
  <2> DEFINE vs == IF e = Revocation THEN {} ELSE {v \in work[w].targets : ref[v].status # "indexed"}
  <2>1. CASE Go(w, "fail")
    <3> DEFINE x == [work[w] EXCEPT !.pc = "fail"]
    <3>1. work' = [work EXCEPT ![w] = x] BY <2>1 DEF Go
    <3>2. x.pc = "fail" BY DEF Work
    <3>3. x \in Work BY DEF Work
    <3> HIDE DEF x
    <3>4. ~Indexing(x) /\ RevocationSees(x, ref', point') /\ x.pc \notin Writing
      BY <3>2 DEF Indexing, RevocationSees, Writing
    <3> QED BY <1>1, <3>1, <3>3, <3>4, SameSInv
  <2>2. CASE ~(Owns(w, e) /\ ~AckMatches(w))
    <3>1. Read(w, vs, "write_ack") /\ "write_ack" \in Writing BY <1>8, <2>2 DEF ReadAck, Writing
    <3>2. vs \in SUBSET Versions OBVIOUS
    <3>3. ASSUME Owns(w, e), e # Revocation PROVE \A v \in vs : Open(v) /\ v = e.version
      <4>1. Expected(e) = work[w].targets BY <2>2, <3>3 DEF AckMatches
      <4> QED BY <1>4, <3>3, <4>1
    <3>4. ASSUME Owns(w, e), e = Revocation
          PROVE  \A v \in Versions : ref[v].status = "deleted" => v \in work[w].targets
      BY <2>2, <3>4 DEF AckMatches, Expected
    <3>5. e = Revocation => vs = {} OBVIOUS
    <3>6. work[w].pc = "ack" /\ (e # Revocation => Indexing(work[w]))
      BY <1>8 DEF ReadAck, Indexing
    <3>7. Owns(w, e) => \A v \in vs : Open(v) /\ v = e.version BY <3>3, <3>5
    <3> HIDE DEF vs
    <3> QED BY <1>3, <3>1, <3>2, <3>4, <3>6, <3>7
  <2> QED BY <1>8, <2>1, <2>2 DEF ReadAck
<1> QED BY <1>5, <1>6, <1>7, <1>8

LEMMA OldestStays ==
  ASSUME IndexedIsOldest,
         \A v \in Versions : /\ ref'[v].status = "indexed" => ref[v].status = "indexed"
                             /\ Open(v)' => Open(v)
                             /\ ref'[v].created = ref[v].created
  PROVE  IndexedIsOldest'
BY DEF IndexedIsOldest

LEMMA WritesSInv ==
  ASSUME OneWorker, IInv, FInv, SInv, NEW w \in Workers, work[w].pc # "idle",
         WriteMark(w) \/ WriteDiscard(w) \/ WriteFail(w)
  PROVE  SInv'
<1> USE Working
<1> DEFINE e == work[w].event
<1>1. work[w].pc \in Writing /\ UNCHANGED <<source, request, point>>
  BY DEF WriteMark, WriteDiscard, WriteFail, Writing
<1>2. SameEvents(event')
  <2>1. \A s : s # "absent" => SameEvents(Closed(e, s)) BY ClosedEvents
  <2> QED BY <2>1, UnchangedRows DEF WriteMark, WriteDiscard, WriteFail
<1>3. Announced' = Announced BY <1>2 DEF SameEvents, Announced, Event
<1>4. PICK s \in {"embedding", "upserting", "superseded", "failed", "retrying"} :
        ref' = StatusSet(work[w].writes, s) \/ ref' = ref
  <2>1. work[w].stage \in {"embedding", "upserting"} BY DEF Work
  <2> QED BY <2>1 DEF WriteMark, WriteDiscard, WriteFail
<1>5. \A v \in Versions : /\ ref'[v].status = "indexed" => ref[v].status = "indexed"
                          /\ ref'[v].status = "deleted" => ref[v].status = "deleted"
                          /\ ref'[v].created = ref[v].created
                          /\ ref'[v].status = ref[v].status \/ v \in work[w].writes
  BY <1>4 DEF StatusSet, Ref
<1>6. ~Announced => IndexedIsOldest' /\ \A v \in Versions : Open(v)' => Open(v)
  <2> SUFFICES ASSUME ~Announced PROVE IndexedIsOldest' /\ \A v \in Versions : Open(v)' => Open(v)
    OBVIOUS
  <2>1. IndexedIsOldest /\ \A v \in work[w].writes : Open(v)
    BY <1>1 DEF SInv, BeforeWithdrawal, WritesOpen
  <2>2. \A v \in Versions : Open(v)' => Open(v) BY <1>5, <2>1 DEF Open
  <2> QED BY <1>5, <2>1, <2>2, OldestStays
<1>7. event'[Revocation].status = "processed" => event[Revocation].status = "processed"
  <2>1. Revocation \in Event BY DEF Event
  <2>2. CASE WriteMark(w) BY <2>2 DEF WriteMark
  <2>3. CASE WriteDiscard(w)
    <3>1. e # Revocation BY <2>3 DEF WriteDiscard, Fits, IndexPcs
    <3> QED BY <2>1, <2>3, <3>1 DEF WriteDiscard, Closed, EventRow
  <2>4. CASE WriteFail(w) BY <2>1, <2>4 DEF WriteFail, Closed, EventRow
  <2> QED BY <2>2, <2>3, <2>4
<1>8. PICK x \in Work : /\ work' = [work EXCEPT ![w] = x] /\ x.pc \notin Writing
                        /\ Indexing(x) => Indexing(work[w]) /\ x.event = e
                        /\ RevocationSees(x, ref', point')
  <2>1. CASE Stop(w) BY <2>1, IdleSees DEF Stop
  <2>2. CASE WriteMark(w)
    <3>1. Indexing(work[w]) BY <2>2 DEF WriteMark, Fits, IndexPcs, Indexing
    <3>2. CASE work[w].stage = "embedding"
      <4> DEFINE x == [work[w] EXCEPT !.stage = "upserting", !.pc = "mark"]
      <4>1. work' = [work EXCEPT ![w] = x] BY <2>2, <3>2 DEF WriteMark
      <4>2. x.pc = "mark" /\ x.event = e BY DEF Work
      <4>3. x \in Work BY DEF Work
      <4> HIDE DEF x
      <4> QED BY <3>1, <4>1, <4>2, <4>3 DEF Writing, RevocationSees
    <3>3. CASE work[w].stage # "embedding"
      <4> DEFINE x == [work[w] EXCEPT !.pc = "upsert"]
      <4>1. work' = [work EXCEPT ![w] = x] BY <2>2, <3>3 DEF WriteMark
      <4>2. x.pc = "upsert" /\ x.event = e BY DEF Work
      <4>3. x \in Work BY DEF Work
      <4> HIDE DEF x
      <4> QED BY <3>1, <4>1, <4>2, <4>3 DEF Writing, RevocationSees
    <3> QED BY <3>2, <3>3
  <2> QED BY <2>1, <2>2 DEF WriteDiscard, WriteFail
<1> QED BY <1>1, <1>3, <1>5, <1>6, <1>7, <1>8, SInvStep

\* The acknowledgement of a version supersedes every other open reference that
\* is older than its event, the indexed one among them.
LEMMA AckOldest ==
  ASSUME IInv, FInv, SInv, NEW w \in Workers, work[w].pc = "write_ack", ~Announced,
         work[w].event # Revocation, ref' = AckRefs(w)
  PROVE  IndexedIsOldest' /\ \A v \in Versions : Open(v)' => Open(v)
<1> USE Working
<1> DEFINE e == work[w].event
<1>0. PICK n \in Versions : n = e.version BY EventHasVersion
<1>a. WritesOpen /\ IndexedIsOldest BY DEF SInv, BeforeWithdrawal
<1>1. /\ event[e].created \in Nat /\ \A v \in Versions : ref[v].created \in Nat
      /\ RefThere(n) /\ ref[n].created <= event[e].created
  BY <1>0 DEF EventRow, Ref, FInv, RefsOrdered
<1>2. \A v \in work[w].writes : Open(v) /\ v = n BY <1>0, <1>a DEF WritesOpen, Writing
<1>3. ASSUME NEW v \in Versions, v # n
      PROVE  /\ v \in Older(e) => ref'[v].status = "superseded"
             /\ v \notin Older(e) => ref'[v] = ref[v]
  BY <1>0, <1>2, <1>3 DEF AckRefs, Ref, Older
<1>4. \A v \in Versions : ref'[v].created = ref[v].created BY DEF AckRefs, Ref
<1>5. Open(n)' => Open(n) BY <1>0, <1>2 DEF AckRefs, Older, Open
<1>6. ASSUME NEW v \in Versions, v # n, Open(v)'
      PROVE  ref'[v] = ref[v] /\ Open(v) /\ ref[v].created > ref[n].created
  <2>1. v \notin Older(e) /\ ref'[v] = ref[v] BY <1>3, <1>6 DEF Open, Terminal
  <2>2. Open(v) BY <1>6, <2>1 DEF Open
  <2>3. ref[v].created >= event[e].created BY <1>0, <1>1, <1>6, <2>1, <2>2 DEF Older
  <2>4. ref[v].created # ref[n].created
    BY <1>1, <1>6, <2>2 DEF FInv, RefsOrdered, RefThere, Open
  <2> QED BY <1>1, <2>1, <2>2, <2>3, <2>4
<1>7. \A v \in Versions : ref'[v].status = "indexed" => Open(v)' BY DEF Open, Terminal
<1>8. ASSUME NEW u \in Versions, NEW v \in Versions, u # v, ref'[v].status = "indexed", Open(u)'
      PROVE  ref'[v].created < ref'[u].created
  <2>1. CASE v = n BY <1>1, <1>4, <1>6, <1>8, <2>1
  <2>2. CASE v # n
    <3>1. ref[v].status = "indexed" /\ ref[v].created > ref[n].created BY <1>6, <1>7, <1>8, <2>2
    <3>2. Open(u) BY <1>5, <1>6, <1>8
    <3>3. ref[v].created < ref[u].created BY <1>8, <1>a, <3>1, <3>2 DEF IndexedIsOldest
    <3> QED BY <1>4, <3>3
  <2> QED BY <2>1, <2>2
<1> QED BY <1>5, <1>6, <1>8 DEF IndexedIsOldest

LEMMA WriteAckSInv ==
  ASSUME OneWorker, IInv, FInv, SInv, NEW w \in Workers, WriteAck(w)
  PROVE  SInv'
<1>1. work[w].pc = "write_ack" /\ UNCHANGED <<source, request, point>>
  BY DEF WriteAck
<1> USE Working, <1>1
<1> DEFINE e == work[w].event
<1>2. SameEvents(event') BY AckCases, AckRows, UnchangedRows
<1>3. Announced' = Announced BY <1>2 DEF SameEvents, Announced, Event
<1>4. event' = event \/ event' = Closed(e, "processed") BY AckCases
<1>5. event'[Revocation].status = "processed" =>
        event[Revocation].status = "processed" \/ e = Revocation
  BY <1>4 DEF Closed, EventRow, Event
<1>6. CASE Stop(w) /\ UNCHANGED <<ref, point>>
  <2>1. ~Announced => IndexedIsOldest' /\ \A v \in Versions : Open(v)' => Open(v)
    BY <1>6 DEF SInv, BeforeWithdrawal, IndexedIsOldest, Open
  <2>2. work' = [work EXCEPT ![w] = IdleWork] BY <1>6 DEF Stop
  <2> QED BY <1>3, <1>5, <1>6, <2>1, <2>2, IdleSees, SInvStep
<1>7. CASE e # Revocation /\ ref' = AckRefs(w) /\ Go(w, "activate") /\ UNCHANGED point
  <2> DEFINE x == [work[w] EXCEPT !.pc = "activate"]
  <2>1. work' = [work EXCEPT ![w] = x] BY <1>7 DEF Go
  <2>2. x.pc = "activate" BY DEF Work
  <2>3. x \in Work BY DEF Work
  <2> HIDE DEF x
  <2>4. x.pc \notin Writing /\ ~Indexing(x) /\ RevocationSees(x, ref', point')
    BY <2>2 DEF Writing, Indexing, RevocationSees
  <2>5. work[w].writes \subseteq {e.version} /\ Indexing(work[w])
    BY <1>7 DEF IInv, WorkIsSound, Sound, Fits, TargetPcs, Indexing
  <2>6. \A v \in Versions : ref'[v].status = "indexed" =>
          ref[v].status = "indexed" \/ (Indexing(work[w]) /\ v = e.version)
    BY <1>7, <2>5, AckRows
  <2>7. \A v \in Versions : ref'[v].status = "deleted" => ref[v].status = "deleted"
    BY <1>7 DEF AckRefs, Ref
  <2>8. ~Announced => IndexedIsOldest' /\ \A v \in Versions : Open(v)' => Open(v)
    BY <1>7, AckOldest
  <2> QED BY <1>3, <1>5, <1>7, <2>1, <2>3, <2>4, <2>6, <2>7, <2>8, SInvStep
<1> QED BY <1>6, <1>7, AckCases

LEMMA ClaimSInv ==
  ASSUME OneWorker, IInv, FInv, SInv, NEW w \in Workers, NEW e \in Event, Claim(w, e)
  PROVE  SInv'
<1> DEFINE pc == IF e = Revocation THEN "list" ELSE "fetch"
           x == [IdleWork EXCEPT !.pc = pc, !.event = e]
<1>1. event[e].status # "absent" /\ event \in [Event -> EventRow] /\ Revocation \in Event
  BY DEF Claim, Claimable, IInv, TypeOK, Event
<1>2. work' = [work EXCEPT ![w] = x] /\ UNCHANGED <<source, request, ref, point>> BY DEF Claim
<1>3. event' = [event EXCEPT ![e].status = "claimed", ![e].owner = w, ![e].attempt = Attempted(e)]
  BY DEF Claim
<1>4. Announced' = Announced BY <1>1, <1>3 DEF Announced, EventRow
<1>5. event'[Revocation].status = "processed" => event[Revocation].status = "processed"
  BY <1>1, <1>3 DEF EventRow
<1>6. x \in Work BY IdlesAreTyped DEF Work
<1>7. x.pc \in {"list", "fetch"} /\ x.event = e /\ (x.pc = "list" => e = Revocation)
  BY DEF IdleWork
<1> HIDE DEF x
<1>8. x.pc \notin Writing /\ ~Indexing(x) /\ RevocationSees(x, ref', point')
  BY <1>7 DEF Writing, Indexing, RevocationSees
<1>9. ~Announced => IndexedIsOldest' /\ \A v \in Versions : Open(v)' => Open(v)
  BY <1>2 DEF SInv, BeforeWithdrawal, IndexedIsOldest, Open
<1> QED BY <1>2, <1>4, <1>5, <1>6, <1>8, <1>9, SInvStep

------------------------------------------------------------------------------
(* Planning beside the worker *)

\* A step that leaves the worker and the points alone.
LEMMA PlanSInv ==
  ASSUME IInv, FInv, SInv, UNCHANGED <<work, point>>, OneChecked',
         ~Announced' =>
           /\ ~Announced /\ IndexedIsOldest' /\ LineageHolds'
           /\ \A v \in Versions : Open(v) => Open(v)',
         Announced' =>
           /\ source' = Withdrawn
           /\ \A v \in Versions : ref'[v].status = "indexed" => Announced /\ ref[v].status = "indexed",
         \A v \in Versions : ref'[v].status = "deleted" => Announced',
         Announced => Announced' /\ \A v \in Versions : ref'[v].status = "deleted" => ref[v].status = "deleted",
         event'[Revocation].status = "processed" => event[Revocation].status = "processed"
  PROVE  SInv'
<1>1. BeforeWithdrawal'
  <2>1. ~Announced' => WritesOpen'
    <3> SUFFICES ASSUME ~Announced' PROVE WritesOpen'
      OBVIOUS
    <3>1. WritesOpen /\ \A w \in Workers : work[w].writes \subseteq Versions
      BY DEF SInv, BeforeWithdrawal, IInv, TypeOK, Work
    <3> QED BY <3>1 DEF WritesOpen
  <2> QED BY <2>1 DEF BeforeWithdrawal
<1>2. AfterWithdrawal'
  <2> SUFFICES ASSUME Announced' PROVE /\ AtMostOneIndexed'
                                       /\ \A w \in Workers, v \in Versions :
                                            Indexing(work[w]) /\ ref'[v].status = "indexed"
                                              => v = work[w].event.version
    BY DEF AfterWithdrawal
  <2>1. CASE Announced BY <2>1 DEF SInv, AfterWithdrawal, AtMostOneIndexed
  <2>2. CASE ~Announced BY <2>2 DEF AtMostOneIndexed
  <2> QED BY <2>1, <2>2
<1>3. DeletedAreAnnounced' BY DEF DeletedAreAnnounced
<1>4. ASSUME NEW w \in Workers PROVE RevocationSees(work'[w], ref', point')
  <2>1. RevocationSees(work[w], ref, point) BY DEF SInv
  <2>2. work[w].event = Revocation /\ work[w].pc \in {"ack", "write_ack"} => Announced
    BY DEF FInv, WorkFits, Fits, Announced
  <2> QED BY <2>1, <2>2 DEF RevocationSees
<1>5. DeletedAreGone' BY DEF SInv, DeletedAreGone, Announced
<1> QED BY <1>1, <1>2, <1>3, <1>4, <1>5 DEF SInv

LEMMA LineageStays ==
  ASSUME SInv, ref' = ref, request' = request
  PROVE  OneChecked' /\ (~Announced => LineageHolds')
BY DEF SInv, BeforeWithdrawal, OneChecked, LineageHolds, Open

LEMMA PlanningSInv ==
  ASSUME IInv, FInv, SInv,
         \/ \E v \in Versions : Edit(v)
         \/ Withdraw
         \/ \E e \in Event : PlanStep(e) \/ RetryFailed(e)
         \/ Revoke
  PROVE  SInv'
<1>1. /\ ref \in [Versions -> Ref] /\ event \in [Event -> EventRow] /\ Revocation \in Event
      /\ Withdrawn \notin Versions /\ request \in [Event -> Request]
  BY DEF IInv, TypeOK, Event, Withdrawn, Versions
<1>2. Announced => source = Withdrawn BY DEF SInv, AfterWithdrawal
\* Steps that leave the references alone.
<1>3. ASSUME UNCHANGED <<work, point, ref>>, OneChecked', ~Announced => LineageHolds',
             Announced' = Announced, Announced => source' = source,
             event'[Revocation].status = "processed" => event[Revocation].status = "processed"
      PROVE  SInv'
  <2>1. \A v : Open(v)' = Open(v) BY <1>3 DEF Open
  <2>2. ~Announced => IndexedIsOldest' BY <1>3, <2>1 DEF SInv, BeforeWithdrawal, IndexedIsOldest
  <2>3. \A v \in Versions : ref'[v].status = "deleted" => Announced'
    BY <1>3 DEF SInv, DeletedAreAnnounced
  <2> QED BY <1>2, <1>3, <2>1, <2>2, <2>3, PlanSInv
<1>4. ASSUME UNCHANGED <<work, point, ref, event, request>>, source # Withdrawn PROVE SInv'
  BY <1>2, <1>3, <1>4, LineageStays DEF Announced
<1>5. ASSUME NEW v \in Versions, Edit(v) PROVE SInv' BY <1>4, <1>5 DEF Edit
<1>6. CASE Withdraw BY <1>4, <1>6 DEF Withdraw
<1>7. ASSUME NEW e \in Event, Resolve(e) PROVE SInv'
  <2>1. \A d \in Event : request'[d] = "checked" <=> request[d] = "checked"
    BY <1>1, <1>7 DEF Resolve
  <2>2. OneChecked' /\ (~Announced => LineageHolds')
    BY <1>7, <2>1 DEF SInv, BeforeWithdrawal, OneChecked, LineageHolds, Open, Resolve
  <2> QED BY <1>3, <1>7, <2>2 DEF Resolve, Announced
<1>8. ASSUME NEW e \in Event, CheckLineage(e) PROVE SInv'
  <2>1. \A d \in Event : request'[d] = "checked" =>
          d = e /\ \A v \in Versions : Open(v) => v = e.version
    BY <1>1, <1>8 DEF CheckLineage, Locked
  <2>2. OneChecked' /\ LineageHolds'
    BY <1>8, <2>1 DEF OneChecked, LineageHolds, Open, CheckLineage
  <2> QED BY <1>3, <1>8, <2>2 DEF CheckLineage, Announced
\* A version is planned: its reference is there before, or is pending now.
<1>9. ASSUME NEW e \in Event, e.version \in Versions, event[e].status = "absent",
             event' = Created(e), UNCHANGED <<source, work, point>>,
             request' = [request EXCEPT ![e] = "none"],
             \A d \in Event : d # e => request[d] # "checked",
             \A v \in Versions \ {e.version} : ref'[v] = ref[v],
             ref' = ref \/ ref'[e.version].status = "pending",
             ~Announced => IndexedIsOldest'
      PROVE  SInv'
  <2>1. e # Revocation BY <1>1, <1>9 DEF Revocation
  <2>2. event'[Revocation] = event[Revocation] BY <1>1, <1>9, <2>1, PlannedClock
  <2>3. \A d \in Event : request'[d] # "checked" BY <1>1, <1>9
  <2>4. OneChecked' /\ LineageHolds' BY <2>3 DEF OneChecked, LineageHolds
  <2>5. \A v \in Versions : /\ ref'[v].status = "indexed" => ref[v].status = "indexed"
                            /\ ref'[v].status = "deleted" => ref[v].status = "deleted"
                            /\ Open(v) => Open(v)'
    BY <1>9 DEF Open, Terminal
  <2>6. \A v \in Versions : ref[v].status = "deleted" => Announced
    BY DEF SInv, DeletedAreAnnounced
  <2> QED BY <1>2, <1>9, <2>2, <2>4, <2>5, <2>6, PlanSInv DEF Announced
<1>10. ASSUME NEW e \in Event, Update(e) PROVE SInv'
  <2>1. e.version \in Versions /\ event[e].status = "absent"
    BY <1>10 DEF Update, IInv, RequestIsNew
  <2>2. \A d \in Event : request[d] # "checked" BY <1>10 DEF Update, Locked
  <2>3. CASE RefThere(e.version)
    <3>1. ref' = ref BY <1>10, <2>3 DEF Update, RefThere
    <3>2. ~Announced => IndexedIsOldest'
      BY <3>1 DEF SInv, BeforeWithdrawal, IndexedIsOldest, Open
    <3> QED BY <1>9, <1>10, <2>1, <2>2, <3>1, <3>2 DEF Update
  <2>4. CASE ~RefThere(e.version)
    <3>1. ref' = [ref EXCEPT ![e.version] = [status |-> "pending", created |-> Clock]]
      BY <1>10, <2>4 DEF Update, RefThere
    <3>2. \A v \in Versions \ {e.version} : ref'[v] = ref[v] BY <3>1
    <3>3. ref'[e.version].status = "pending" /\ ref'[e.version].created = Clock
      BY <1>1, <2>1, <3>1
    <3>4. \A v \in Versions : ref[v].status = "indexed" => ref[v].created < Clock
      BY DEF FInv, RefsOrdered, RefThere
    <3>5. ~Announced => IndexedIsOldest'
      BY <3>2, <3>3, <3>4 DEF SInv, BeforeWithdrawal, IndexedIsOldest, Open
    <3> QED BY <1>9, <1>10, <2>1, <2>2, <3>2, <3>3, <3>5 DEF Update
  <2> QED BY <2>3, <2>4
<1>11. ASSUME NEW e \in Event, Reindex(e) PROVE SInv'
  <2>1. e.version \in Versions /\ event[e].status = "absent"
    BY <1>11 DEF Reindex, IInv, RequestIsNew
  <2>2. \A d \in Event : d # e => request[d] # "checked"
    BY <1>11 DEF Reindex, SInv, OneChecked
  <2>3. \A v \in Versions \ {e.version} : ref'[v] = ref[v] BY <1>11 DEF Reindex
  <2>4. ref'[e.version].status = "pending" BY <1>1, <1>11, <2>1 DEF Reindex
  <2>5. ASSUME ~Announced PROVE IndexedIsOldest'
    <3>1. \A v \in Versions \ {e.version} : ~Open(v)
      BY <1>11, <2>5 DEF SInv, BeforeWithdrawal, LineageHolds, Reindex
    <3> QED BY <2>3, <2>4, <3>1 DEF IndexedIsOldest, Open, Terminal
  <2> QED BY <1>9, <1>11, <2>1, <2>2, <2>3, <2>4, <2>5 DEF Reindex
<1>12. ASSUME NEW e \in Event, RetryFailed(e) PROVE SInv'
  <2>1. /\ Announced' = Announced
        /\ event'[Revocation].status = "processed" => event[Revocation].status = "processed"
    BY <1>1, <1>12 DEF RetryFailed, Announced, EventRow
  <2> QED BY <1>3, <1>12, <2>1, LineageStays DEF RetryFailed
<1>13. CASE Revoke
  <2>1. \A v \in Versions : ref'[v].status \in {"absent", "deleted"} BY <1>1, <1>13 DEF Revoke, Ref
  <2>2. ~Announced /\ Announced' /\ event'[Revocation].status # "processed"
    BY <1>1, <1>13 DEF Revoke, Created, Announced, EventRow
  <2>3. OneChecked' BY <1>13 DEF SInv, OneChecked, Revoke
  <2> QED BY <1>13, <2>1, <2>2, <2>3, PlanSInv DEF Revoke
<1> QED BY <1>5, <1>6, <1>7, <1>8, <1>10, <1>11, <1>12, <1>13 DEF PlanStep

\* Reconciliation moves points that exist.
LEMMA OtherSInv ==
  ASSUME IInv, SInv, AdminStep \/ FaultsEnd \/ UNCHANGED vars
  PROVE  SInv'
<1>1. UNCHANGED <<source, ref, event, work, request>>
  BY DEF AdminStep, ReadReferences, ListPoints, RepairHide, RepairShow, FaultsEnd, vars
<1>2. \A v \in Versions : point[v] = "absent" => point'[v] = "absent"
  BY DEF AdminStep, ReadReferences, ListPoints, RepairHide, RepairShow, PointsSet, FaultsEnd, vars
<1>3. OneChecked' /\ BeforeWithdrawal'
  BY <1>1 DEF SInv, OneChecked, BeforeWithdrawal, WritesOpen, IndexedIsOldest, LineageHolds,
              Announced, Open
<1>4. AfterWithdrawal' /\ DeletedAreAnnounced'
  BY <1>1 DEF SInv, AfterWithdrawal, AtMostOneIndexed, DeletedAreAnnounced, Announced
<1>5. \A w \in Workers : RevocationSees(work'[w], ref', point')
  BY <1>1, <1>2 DEF SInv, RevocationSees, IInv, TypeOK, Work
<1>6. DeletedAreGone' BY <1>1, <1>2 DEF SInv, DeletedAreGone
<1> QED BY <1>3, <1>4, <1>5, <1>6 DEF SInv

LEMMA InitSInv == Init => SInv
<1> SUFFICES ASSUME Init PROVE SInv
  OBVIOUS
<1>1. ~Announced /\ event[Revocation].status = "absent"
  BY DEF Init, Announced, Event
<1>2. \A w \in Workers : work[w].pc \notin Writing /\ RevocationSees(work[w], ref, point)
  BY DEF Init, IdleWork, Writing, RevocationSees
<1>3. \A v \in Versions : ref[v].status = "absent" BY DEF Init
<1>4. \A e \in Event : request[e] # "checked" BY DEF Init
<1> QED BY <1>1, <1>2, <1>3, <1>4
        DEF SInv, OneChecked, BeforeWithdrawal, WritesOpen, IndexedIsOldest, LineageHolds,
            AfterWithdrawal, DeletedAreAnnounced, DeletedAreGone

LEMMA NextSInv ==
  ASSUME OneWorker
  PROVE  IInv /\ FInv /\ SInv /\ [Next]_vars => SInv'
<1> SUFFICES ASSUME IInv, FInv, SInv, [Next]_vars PROVE SInv'
  OBVIOUS
<1>1. ASSUME NEW w \in Workers, Process(w) \/ Raise(w) \/ Crash(w) PROVE SInv'
  BY <1>1, WorkerStepCases, QuietSInv, ReadsSInv, WritesSInv, WriteAckSInv
<1> QED BY <1>1, PlanningSInv, ClaimSInv, OtherSInv DEF Next

LEMMA SInvariance == ASSUME OneWorker PROVE Spec => [](IInv /\ FInv /\ SInv)
<1>1. Init => IInv /\ FInv /\ SInv BY InitIInv, InitFInv, InitSInv
<1>2. (IInv /\ FInv /\ SInv) /\ [Next]_vars => (IInv /\ FInv /\ SInv)'
  BY NextIInv, NextFInv, NextSInv
<1> QED BY <1>1, <1>2, PTL DEF Spec

\* With one worker two versions are never indexed at once, for any number of
\* versions and attempts, whatever is planned or reconciled while a
\* transaction of the worker is under way and also when content returns to an
\* earlier version: until a withdrawal is announced every open reference is
\* younger than the indexed one, so the event that indexes it supersedes that
\* one; afterwards only the version the worker had fetched before can be.
THEOREM OneVersionIndexed == OneWorker => (Spec => []AtMostOneIndexed)
<1> SUFFICES ASSUME OneWorker PROVE Spec => []AtMostOneIndexed
  OBVIOUS
<1>1. IInv /\ FInv /\ SInv => AtMostOneIndexed
  <2> SUFFICES ASSUME IInv, SInv, NEW u \in Versions, NEW v \in Versions, u # v,
                      ref[u].status = "indexed", ref[v].status = "indexed"
               PROVE  FALSE
    BY DEF AtMostOneIndexed
  <2>1. Open(u) /\ Open(v) BY DEF Open, Terminal
  <2>2. ref[u].created \in Nat /\ ref[v].created \in Nat BY DEF IInv, TypeOK, Ref
  <2>3. ~Announced BY DEF SInv, AfterWithdrawal, AtMostOneIndexed
  <2>4. ref[u].created < ref[v].created /\ ref[v].created < ref[u].created
    BY <2>1, <2>3 DEF SInv, BeforeWithdrawal, IndexedIsOldest
  <2> QED BY <2>2, <2>4
<1> QED BY <1>1, SInvariance, PTL

\* With one worker the references that a processed withdrawal deleted have no
\* point any more, for any number of versions and attempts, whatever is
\* planned, edited or reconciled meanwhile: their points were deleted after
\* they were, and the worker, then busy with the withdrawal, can upsert none
\* that it fetched before.
THEOREM DeletedPointsAreGone == OneWorker => (Spec => []DeletedHasNoPoint)
<1> SUFFICES ASSUME OneWorker PROVE Spec => []DeletedHasNoPoint
  OBVIOUS
<1>1. IInv /\ FInv /\ SInv => DeletedHasNoPoint
  BY DEF SInv, DeletedAreGone, DeletedHasNoPoint
<1> QED BY <1>1, SInvariance, PTL
=============================================================================
