------------------------- MODULE MonitoringProofs -------------------------
(***************************************************************************)
(* The security association projection rests on stored evidence (IInv), an *)
(* event is counted only when it is stored (CountInv), and a gap in what   *)
(* is stored of the collector's first session leaves a warning             *)
(* (StreamInv), for any number of handlers, tunnels, posts and incidents.  *)
(***************************************************************************)
EXTENDS Monitoring, SequenceTheorems, FiniteSetTheorems, TLAPS

-----------------------------------------------------------------------------
(* Operators.                                                              *)

\* What the listing and the other reports are made of.
Item == [kind : Kinds, spi : Spis]

\* A function on 1..n is a sequence of length n.
LEMMA FunctionIsSeq ==
  ASSUME NEW S, NEW n \in Nat, NEW f \in [1..n -> S]
  PROVE  f \in Seq(S) /\ Len(f) = n
<1>1. f \in Seq(S)  BY SeqDef
<1>2. DOMAIN f = 1..n  OBVIOUS
<1> QED  BY <1>1, <1>2, LenProperties, SMT

\* Reports are sequences of kinds and SPIs.
LEMMA ReportsAreSeqs == Reports \subseteq Seq(Item)
<1>1. ASSUME NEW n \in 0..MaxTunnels  PROVE Listing(n) \in Seq(Item)
  <2>1. 2 * n + 1 \in Nat  BY MonitoringAssumption
  <2>2. Listing(n) \in [1..(2 * n + 1) -> Item]
    BY MonitoringAssumption DEF Listing, Item, Kinds, SaKinds, IkeKinds,
                                ChildKinds, OtherKinds
  <2> QED  BY <2>1, <2>2, FunctionIsSeq
<1>2. ASSUME NEW item \in [kind : Lifecycle, spi : Spis]
      PROVE  <<item>> \in Seq(Item)
  BY MonitoringAssumption DEF Item
<1> QED  BY <1>1, <1>2 DEF Reports

\* A batch made of a report is a sequence of new events.
LEMMA BatchIsSeq ==
  ASSUME NEW report \in Reports, minted \in Nat, seq \in Nat, session \in Nat
  PROVE  /\ Batch(report) \in Seq(Event)
         /\ Len(Batch(report)) \in Nat
         /\ EventsOf(Batch(report)) \subseteq Event
<1>1. report \in Seq(Item) /\ Len(report) \in Nat
  BY ReportsAreSeqs, LenProperties
<1>2. ASSUME NEW i \in 1..Len(report)  PROVE report[i] \in Item
  BY <1>1, ElementOfSeq
<1>3. Batch(report) \in [1..Len(report) -> Event]
  BY <1>1, <1>2 DEF Batch, Event, Item
<1>4. Batch(report) \in Seq(Event) /\ Len(Batch(report)) = Len(report)
  BY <1>1, <1>3, FunctionIsSeq
<1> QED  BY <1>1, <1>3, <1>4 DEF EventsOf

\* A pulse is a sequence of new events, too.
LEMMA PulseIsSeq ==
  ASSUME minted \in Nat  PROVE PulseBatch \in Seq(Event)
<1>1. PulseBatch \in [1..2 -> Event]
  BY MonitoringAssumption DEF PulseBatch, Event, Kinds, SaKinds, IkeKinds, OtherKinds
<1> QED  BY <1>1, FunctionIsSeq

\* Column-wise writes keep a health row a health row.
LEMMA WrittenHealth ==
  ASSUME NEW now \in HealthRow, NEW was \in HealthRow, NEW is \in HealthRow
  PROVE  Written(now, was, is) \in HealthRow
BY DEF Written, HealthRow

\* ... and an association row one whose columns are those of now or of is.
LEMMA WrittenRow ==
  ASSUME NEW now \in SaRow, NEW was \in SaRow, NEW is \in SaRow,
         is.id = was.id, is.type = was.type, is.spi = was.spi
  PROVE  /\ Written(now, was, is) \in SaRow
         /\ Written(now, was, is).id = now.id
         /\ Written(now, was, is).type = now.type
         /\ Written(now, was, is).spi = now.spi
         /\ Written(now, was, is).state \in {now.state, is.state}
         /\ Written(now, was, is).event \in {now.event, is.event}
BY DEF Written, SaRow

\* state_map is defined for the kinds that are projected.
LEMMA StateOfType == \A k \in SaKinds : StateOf[k] \in SaStates
BY DEF SaKinds, IkeKinds, ChildKinds, StateOf, SaStates

\* Ingesting an event keeps the health row typed.
LEMMA HeardType ==
  ASSUME NEW row \in HealthRow, NEW e \in Event, NEW now \in Nat
  PROVE  Heard(row, e, now) \in HealthRow
<1>1. Quality(row, e) \subseteq Warnings  BY DEF Quality
<1>2. CASE e.synthetic = "yes"  BY <1>2 DEF Heard, HealthRow, Event
<1>3. CASE e.synthetic # "yes"
  BY <1>1, <1>3 DEF Heard, HealthRow, Event, SensorHealth
<1> QED  BY <1>2, <1>3

\* The idle request is a request.
LEMMA IdleType == Idle \in Request
BY DEF Idle, Request, Places, NoHealth, HealthRow, NoSeq, NoTime, SensorHealth

-----------------------------------------------------------------------------
(* Type correctness.                                                       *)

\* The next state of a handler that has examined an event.
LEMMA ExamineType ==
  ASSUME TypeOK, NEW h \in Handlers, Examine(h)
  PROVE  req' \in [Handlers -> Request] /\ announced' \subseteq Nat
<1> DEFINE e == Head(Left(h))
<1>1. req[h] \in Request /\ health \in HealthRow /\ req \in [Handlers -> Request]
  BY DEF TypeOK
<1>2. Left(h) \in Seq(Event) /\ Left(h) # <<>>
  BY <1>1 DEF Request, Left, Examine
<1>3. e \in Event /\ Tail(Left(h)) \in Seq(Event) /\ e.id \in Nat
  <2>1. e \in Event /\ Tail(Left(h)) \in Seq(Event)
    BY <1>2, HeadTailProperties
  <2> QED  BY <2>1 DEF Event
<1>4. WasHealth(h) \in HealthRow /\ IsHealth(h) \in HealthRow /\ req[h].now \in Nat
  BY <1>1 DEF Request, WasHealth, IsHealth
<1>5. Heard(IsHealth(h), e, req[h].now) \in HealthRow  BY <1>3, <1>4, HeardType
<1>6. Row(e, req[h].now) \in Stored  BY <1>3, <1>4 DEF Row, Stored
<1>7. ASSUME NEW pc \in Places, NEW todo \in Seq(Event)
      PROVE  Examined(h, e, pc, todo) \in Request
  BY <1>1, <1>4, <1>5, <1>6 DEF Request, Examined
<1>8. Examined(h, e, "project", Left(h)) \in Request
      /\ Examined(h, e, "examine", Tail(Left(h))) \in Request
  BY <1>2, <1>3, <1>7 DEF Places
<1>9. \/ req' = [req EXCEPT ![h] = Examined(h, e, "project", Left(h))]
         /\ announced' = announced
      \/ req' = [req EXCEPT ![h] = Examined(h, e, "examine", Tail(Left(h)))]
         /\ announced' = announced \cup {e.id}
  BY DEF Examine
<1> QED
  <2> HIDE DEF e
  <2> QED  BY <1>1, <1>3, <1>8, <1>9 DEF TypeOK

\* A row a handler holds, or begins to hold.
LEMMA HoldingProps ==
  ASSUME TypeOK, NEW h \in Handlers, NEW r \in rows
  PROVE  /\ Holding(h, r) \in [was : SaRow, is : SaRow]
         /\ \/ Holding(h, r) \in req[h].held /\ Holding(h, r).was.id = r.id
            \/ Holding(h, r) = [was |-> r, is |-> r]
         /\ (\E x \in req[h].held : x.was.id = r.id)
              => Holding(h, r) \in req[h].held
<1>1. req[h].held \subseteq [was : SaRow, is : SaRow] /\ r \in SaRow
  BY DEF TypeOK, Request
<1>2. CASE \E x \in req[h].held : x.was.id = r.id
  BY <1>1, <1>2 DEF Holding
<1>3. CASE ~ \E x \in req[h].held : x.was.id = r.id
  BY <1>1, <1>3 DEF Holding
<1> QED  BY <1>2, <1>3

\* A handler that has projected an event.
LEMMA ProjectType ==
  ASSUME TypeOK, NEW h \in Handlers, Project(h), Left(h) # <<>>,
         Head(Left(h)).kind \in SaKinds
  PROVE  req' \in [Handlers -> Request] /\ announced' \subseteq Nat
<1> DEFINE e == Head(Left(h))
<1>1. req[h] \in Request /\ rows \subseteq SaRow /\ req \in [Handlers -> Request]
  BY DEF TypeOK
<1>2. Left(h) \in Seq(Event)  BY <1>1 DEF Request, Left
<1>3. e \in Event /\ Tail(Left(h)) \in Seq(Event)  BY <1>2, HeadTailProperties
<1>4. e.id \in Nat /\ e.spi \in Spis /\ StateOf[e.kind] \in SaStates
  BY <1>3, StateOfType DEF Event
<1>5. NewRow(e) \in SaRow  BY <1>4 DEF NewRow, SaRow, TypeOf
<1>6. Inserted(h, e) \in Request
  BY <1>1, <1>3, <1>5 DEF Inserted, Request, Places
<1>7. ASSUME NEW r \in Found(e)  PROVE Updated(h, e, Holding(h, r)) \in Request
  <2> DEFINE x == Holding(h, r)
             y == [x.is EXCEPT !.state = StateOf[e.kind], !.event = e.id]
  <2>1. r \in rows  BY DEF Found
  <2>2. x \in [was : SaRow, is : SaRow]  BY <2>1, HoldingProps
  <2>3. y \in SaRow
    <3> HIDE DEF x
    <3> QED  BY <1>4, <2>2 DEF SaRow
  <2>4. [was |-> x.was, is |-> y] \in [was : SaRow, is : SaRow]
    BY <2>2, <2>3
  <2>5. Updated(h, e, x) = [req[h] EXCEPT !.held = (req[h].held \ {x}) \cup
                              {[was |-> x.was, is |-> y]},
                            !.pc = "examine", !.todo = Tail(Left(h))]
    BY DEF Updated
  <2> HIDE DEF x, y, e
  <2>6. (req[h].held \ {x}) \cup {[was |-> x.was, is |-> y]}
          \in SUBSET [was : SaRow, is : SaRow]
    BY <1>1, <2>4 DEF Request
  <2>7. Updated(h, e, x) \in Request
    BY <1>1, <1>3, <2>5, <2>6 DEF Request, Places
  <2> QED  BY <2>7 DEF x
<1>8. \/ req' = [req EXCEPT ![h] = Inserted(h, e)]
      \/ \E r \in Found(e) : req' = [req EXCEPT ![h] = Updated(h, e, Holding(h, r))]
  BY DEF Project
<1>9. announced' = announced \cup {e.id}  BY DEF Project
<1> HIDE DEF e
<1> QED  BY <1>1, <1>4, <1>6, <1>7, <1>8, <1>9 DEF TypeOK

-----------------------------------------------------------------------------
(* The inductive invariant.                                                *)

\* A row, given a set of events.
Backed(r, es) ==
  /\ \E s \in es : Supports(s, r) /\ s.event.id = r.event
  /\ \E s \in es : Supports(s, r) /\ StateOf[s.event.kind] = r.state

\* The identifier of a row is that of the event that made it.
MadeBy(r, es) == \E s \in es : Supports(s, r) /\ s.event.id = r.id

\* A row a handler has read and changed: the row it read is stored, keeps
\* its identity, and has been changed by events the handler adds.
HeldOK(x, q, st) ==
  /\ x.is.id = x.was.id /\ x.is.type = x.was.type /\ x.is.spi = x.was.spi
  /\ MadeBy(x.was, st)
  /\ Backed(x.is, q.adds)

\* A handler: rows it holds and rows it adds are backed by events it adds,
\* and so is the event it is about to project.
HandlerOK(q, st) ==
  /\ \A x \in q.held : HeldOK(x, q, st)
  /\ \A r \in q.news : MadeBy(r, q.adds) /\ Backed(r, q.adds)
  /\ q.pc = "project" =>
       /\ q.todo # <<>>
       /\ Head(q.todo).synthetic = "no" /\ Head(q.todo).kind \in SaKinds
       /\ \E s \in q.adds : s.event = Head(q.todo)

RowsOK(rs, st) == \A r \in rs : MadeBy(r, st) /\ Backed(r, st)

\* uq_monitoring_sensor_event
Unique(st) == \A s, t \in st : s.event.id = t.event.id => s = t

IInv ==
  /\ TypeOK
  /\ Unique(stored)
  /\ RowsOK(rows, stored)
  /\ \A h \in Handlers : HandlerOK(req[h], stored)

\* More events back no fewer rows.
LEMMA BackedMono ==
  ASSUME NEW r, NEW es, NEW fs, es \subseteq fs
  PROVE  /\ Backed(r, es) => Backed(r, fs)
         /\ MadeBy(r, es) => MadeBy(r, fs)
BY DEF Backed, MadeBy

\* Two rows of one association with the same columns are backed alike.
LEMMA BackedSame ==
  ASSUME NEW r, NEW q, NEW es, r.type = q.type, r.spi = q.spi,
         r.state = q.state, r.event = q.event, Backed(q, es)
  PROVE  Backed(r, es)
BY DEF Backed, Supports

\* Rows made by the same event are of the same association.
LEMMA SameMaker ==
  ASSUME NEW r, NEW q, NEW st, Unique(st), MadeBy(r, st), MadeBy(q, st),
         r.id = q.id
  PROVE  r.type = q.type /\ r.spi = q.spi
BY DEF Unique, MadeBy, Supports

\* A handler that holds nothing has nothing to show.
LEMMA FreshOK ==
  ASSUME NEW q, NEW st, q.held = {}, q.news = {}, q.pc # "project"
  PROVE  HandlerOK(q, st)
BY DEF HandlerOK

\* Handlers whose rows and added events stay the same stay in order.
LEMMA CalmHandler ==
  ASSUME NEW q, NEW p, NEW st, HandlerOK(q, st), p.held = q.held,
         p.news = q.news, p.adds = q.adds, p.pc # "project"
  PROVE  HandlerOK(p, st)
BY DEF HandlerOK, HeldOK

\* The projection of an event by a handler keeps it in order.
LEMMA ProjectHandler ==
  ASSUME IInv, NEW h \in Handlers, Project(h)
  PROVE  req' \in [Handlers -> Request] /\ HandlerOK(req'[h], stored)
<1> DEFINE e == Head(Left(h))
<1>1. req[h] \in Request /\ HandlerOK(req[h], stored)
      /\ req \in [Handlers -> Request] /\ TypeOK
  BY DEF IInv, TypeOK
<1>2. /\ Left(h) # <<>> /\ e.synthetic = "no" /\ e.kind \in SaKinds
      /\ \E s \in req[h].adds : s.event = e
  BY <1>1 DEF HandlerOK, Left, Project
<1>3. PICK s \in req[h].adds : s.event = e  BY <1>2
<1>4. req' \in [Handlers -> Request]  BY <1>1, <1>2, ProjectType
<1>5. CASE req' = [req EXCEPT ![h] = Inserted(h, e)]
  <2>1. /\ req'[h].held = req[h].held /\ req'[h].adds = req[h].adds
        /\ req'[h].news = req[h].news \cup {NewRow(e)} /\ req'[h].pc = "examine"
    BY <1>1, <1>5 DEF Inserted, Request
  <2>2. Supports(s, NewRow(e)) /\ s.event.id = NewRow(e).event
        /\ s.event.id = NewRow(e).id /\ StateOf[s.event.kind] = NewRow(e).state
    BY <1>2, <1>3 DEF Supports, NewRow
  <2>3. MadeBy(NewRow(e), req[h].adds) /\ Backed(NewRow(e), req[h].adds)
    BY <2>2 DEF MadeBy, Backed
  <2> QED  BY <1>1, <1>4, <2>1, <2>3 DEF HandlerOK, HeldOK
<1>6. ASSUME NEW r \in Found(e), req' = [req EXCEPT ![h] = Updated(h, e, Holding(h, r))]
      PROVE  HandlerOK(req'[h], stored)
  <2> DEFINE x == Holding(h, r)
             y == [x.is EXCEPT !.state = StateOf[e.kind], !.event = e.id]
             z == [was |-> x.was, is |-> y]
  <2>1. r \in rows /\ r.type = TypeOf(e.kind) /\ r.spi = e.spi /\ r \in SaRow
        /\ MadeBy(r, stored)
    BY <1>1 DEF Found, TypeOK, IInv, RowsOK
  <2>2. /\ x \in [was : SaRow, is : SaRow]
        /\ \/ x \in req[h].held /\ x.was.id = r.id
           \/ x = [was |-> r, is |-> r]
    BY <1>1, <2>1, HoldingProps
  <2>3. /\ x.was.id = r.id /\ x.was.type = r.type /\ x.was.spi = r.spi
        /\ x.is.id = r.id /\ x.is.type = r.type /\ x.is.spi = r.spi
        /\ MadeBy(x.was, stored)
    <3>1. CASE x \in req[h].held /\ x.was.id = r.id
      <4> HIDE DEF x
      <4>1. HeldOK(x, req[h], stored)  BY <1>1, <3>1 DEF HandlerOK
      <4>2. MadeBy(x.was, stored)  BY <4>1 DEF HeldOK
      <4>3. x.was.type = r.type /\ x.was.spi = r.spi
        BY <2>1, <3>1, <4>2, SameMaker DEF IInv
      <4> QED  BY <3>1, <4>1, <4>2, <4>3 DEF HeldOK
    <3>2. CASE x = [was |-> r, is |-> r]
      BY <2>1, <3>2
    <3> QED  BY <2>2, <3>1, <3>2
  <2>4. /\ y.id = r.id /\ y.type = r.type /\ y.spi = r.spi
        /\ y.state = StateOf[e.kind] /\ y.event = e.id
    <3> HIDE DEF x, e
    <3> QED  BY <2>2, <2>3 DEF SaRow
  <2>5. Backed(y, req[h].adds)
    <3> HIDE DEF y, x
    <3>1. Supports(s, y) /\ s.event.id = y.event /\ StateOf[s.event.kind] = y.state
      BY <1>2, <1>3, <2>1, <2>4 DEF Supports
    <3> QED  BY <3>1 DEF Backed
  <2>6. HeldOK(z, req[h], stored)
    <3> HIDE DEF x, y
    <3> QED  BY <2>3, <2>4, <2>5 DEF HeldOK
  <2>7. /\ req'[h].held = (req[h].held \ {x}) \cup {z}
        /\ req'[h].adds = req[h].adds /\ req'[h].news = req[h].news
        /\ req'[h].pc = "examine"
    BY <1>1, <1>6 DEF Updated, Request
  <2> HIDE DEF x, y, z
  <2> QED  BY <1>1, <2>6, <2>7 DEF HandlerOK, HeldOK
<1>7. \/ req' = [req EXCEPT ![h] = Inserted(h, e)]
      \/ \E r \in Found(e) : req' = [req EXCEPT ![h] = Updated(h, e, Holding(h, r))]
  BY DEF Project
<1> QED  BY <1>4, <1>5, <1>6, <1>7

\* So does its commit, for the tables and for the other handlers.
LEMMA CommitTables ==
  ASSUME IInv, NEW h \in Handlers, Commit(h)
  PROVE  /\ rows' \subseteq SaRow
         /\ Unique(stored') /\ RowsOK(rows', stored')
         /\ \A k \in Handlers : HandlerOK(req'[k], stored')
<1>1. /\ TypeOK /\ req[h] \in Request /\ rows \subseteq SaRow
      /\ HandlerOK(req[h], stored) /\ RowsOK(rows, stored) /\ Unique(stored)
  BY DEF IInv, TypeOK
<1>2. /\ stored' = stored \cup req[h].adds
      /\ rows' = {Saved(h, r) : r \in rows} \cup req[h].news
      /\ req' = [req EXCEPT ![h] = Idle]
  BY DEF Commit
<1>3. Unique(stored')
  BY <1>1, <1>2 DEF Unique, Commit, Clash
<1>4. ASSUME NEW r \in rows
      PROVE  Saved(h, r) \in SaRow /\ MadeBy(Saved(h, r), stored')
             /\ Backed(Saved(h, r), stored')
  <2>1. r \in SaRow /\ MadeBy(r, stored) /\ Backed(r, stored)
    BY <1>1 DEF RowsOK
  <2>2. MadeBy(r, stored') /\ Backed(r, stored')
    BY <1>2, <2>1, BackedMono
  <2>3. CASE \E x \in req[h].held : x.was.id = r.id
    <3> DEFINE x == Holding(h, r)
               w == Written(r, x.was, x.is)
    <3>1. x \in req[h].held /\ x.was.id = r.id /\ Saved(h, r) = w
      BY <2>3 DEF Holding, Saved
    <3>2. HeldOK(x, req[h], stored) /\ x.was \in SaRow /\ x.is \in SaRow
      <4> HIDE DEF x
      <4> QED  BY <1>1, <3>1 DEF HandlerOK, Request
    <3> HIDE DEF x
    <3>3. x.was.type = r.type /\ x.was.spi = r.spi
      <4>1. MadeBy(x.was, stored)  BY <3>2 DEF HeldOK
      <4> QED  BY <1>1, <2>1, <3>1, <4>1, SameMaker
    <3>4. x.is.id = x.was.id /\ x.is.type = x.was.type /\ x.is.spi = x.was.spi
      BY <3>2 DEF HeldOK
    <3>5. /\ w \in SaRow /\ w.id = r.id /\ w.type = r.type /\ w.spi = r.spi
          /\ w.state \in {r.state, x.is.state} /\ w.event \in {r.event, x.is.event}
      BY <2>1, <3>2, <3>4, WrittenRow
    <3> HIDE DEF w
    <3>6. MadeBy(w, stored')  BY <2>2, <3>5 DEF MadeBy, Supports
    <3>7. Backed(x.is, stored')
      <4>1. Backed(x.is, req[h].adds)  BY <3>2 DEF HeldOK
      <4> QED  BY <1>2, <4>1, BackedMono
    <3>8. Backed(w, stored')
      <4>1. \E s \in stored' : Supports(s, w) /\ s.event.id = w.event
        BY <2>2, <3>3, <3>4, <3>5, <3>7 DEF Backed, Supports
      <4>2. \E s \in stored' : Supports(s, w) /\ StateOf[s.event.kind] = w.state
        BY <2>2, <3>3, <3>4, <3>5, <3>7 DEF Backed, Supports
      <4> QED  BY <4>1, <4>2 DEF Backed
    <3> QED  BY <3>1, <3>5, <3>6, <3>8
  <2>4. CASE ~ \E x \in req[h].held : x.was.id = r.id
    BY <2>1, <2>2, <2>4 DEF Saved
  <2> QED  BY <2>3, <2>4
<1>5. ASSUME NEW r \in req[h].news
      PROVE  r \in SaRow /\ MadeBy(r, stored') /\ Backed(r, stored')
  <2>1. r \in SaRow /\ MadeBy(r, req[h].adds) /\ Backed(r, req[h].adds)
    BY <1>1 DEF HandlerOK, Request
  <2> QED  BY <1>2, <2>1, BackedMono
<1>6. ASSUME NEW k \in Handlers  PROVE HandlerOK(req'[k], stored')
  <2>1. CASE k = h
    <3>1. req'[k] = Idle  BY <1>2, <2>1 DEF IInv, TypeOK
    <3> QED  BY <3>1, FreshOK DEF Idle
  <2>2. CASE k # h
    <3>1. req'[k] = req[k] /\ HandlerOK(req[k], stored)
      BY <1>2, <2>2 DEF IInv, TypeOK
    <3>2. ASSUME NEW x \in req[k].held  PROVE HeldOK(x, req[k], stored')
      BY <1>2, <3>1, BackedMono DEF HandlerOK, HeldOK
    <3> QED  BY <3>1, <3>2 DEF HandlerOK
  <2> QED  BY <2>1, <2>2
<1> QED  BY <1>2, <1>3, <1>4, <1>5, <1>6 DEF RowsOK

-----------------------------------------------------------------------------
(* The steps.                                                              *)

\* One handler gets a new request record, the others keep theirs.
LEMMA OneHandler ==
  ASSUME IInv, NEW h \in Handlers, NEW q \in Request, HandlerOK(q, stored),
         req' = [req EXCEPT ![h] = q]
  PROVE  /\ req' \in [Handlers -> Request]
         /\ \A k \in Handlers : HandlerOK(req'[k], stored)
BY DEF IInv, TypeOK

\* A request that has just arrived.
LEMMA ArrivalOK ==
  ASSUME NEW batch \in Seq(Event), NEW place \in {"auth", "examine"},
         NEW now \in Nat, NEW st
  PROVE  LET q == [Idle EXCEPT !.pc = place, !.todo = batch, !.now = now]
         IN q \in Request /\ HandlerOK(q, st)
<1> DEFINE q == [Idle EXCEPT !.pc = place, !.todo = batch, !.now = now]
<1>1. q \in Request  BY IdleType DEF Request, Places
<1>2. q.held = {} /\ q.news = {} /\ q.pc # "project"  BY DEF Idle
<1> QED  BY <1>1, <1>2, FreshOK

\* What the collector does.
LEMMA CollectorStep ==
  ASSUME IInv, Poll \/ Replay \/ TimesOut \/ Restart
  PROVE  IInv'
<1>0. TypeOK /\ \A k \in Handlers : HandlerOK(req[k], stored)  BY DEF IInv
<1>1. ASSUME NEW h \in Handlers, NEW batch \in Seq(Event), Arrives(h, batch)
      PROVE  /\ req' \in [Handlers -> Request] /\ waiting' \in Handlers
             /\ \A k \in Handlers : HandlerOK(req'[k], stored)
  <2> DEFINE q == [Idle EXCEPT !.pc = "auth", !.todo = batch]
  <2>1. q \in Request  BY IdleType DEF Request, Places
  <2>2. q.held = {} /\ q.news = {} /\ q.pc # "project"  BY DEF Idle
  <2>3. HandlerOK(q, stored)  BY <2>1, <2>2, FreshOK
  <2> QED  BY <1>1, <2>1, <2>3, OneHandler DEF Arrives
<1>2. CASE Poll
  <2>1. PICK report \in Reports :
          LET b == Batch(report) IN
            /\ posted' = b /\ seq' = seq + Len(b) /\ minted' = minted + Len(b)
            /\ emitted' = emitted \cup EventsOf(b)
            /\ \/ \E h \in Handlers : Arrives(h, b)
               \/ UNCHANGED <<req, waiting>>
    BY <1>2 DEF Poll
  <2>2. /\ Batch(report) \in Seq(Event) /\ Len(Batch(report)) \in Nat
        /\ EventsOf(Batch(report)) \subseteq Event
    BY <1>0, BatchIsSeq DEF TypeOK
  <2>3. /\ req' \in [Handlers -> Request] /\ waiting' \in Handlers \cup {NoHandler}
        /\ \A k \in Handlers : HandlerOK(req'[k], stored)
    BY <1>0, <1>1, <2>1, <2>2 DEF TypeOK
  <2> QED  BY <1>0, <1>2, <2>1, <2>2, <2>3 DEF Poll, TypeOK, IInv, tables
<1>3. CASE Replay
  <2>1. /\ req' \in [Handlers -> Request] /\ waiting' \in Handlers
        /\ \A k \in Handlers : HandlerOK(req'[k], stored)
    BY <1>0, <1>1, <1>3 DEF Replay, TypeOK
  <2> QED  BY <1>0, <1>3, <2>1 DEF Replay, TypeOK, IInv, tables
<1>4. CASE TimesOut
  BY <1>0, <1>4 DEF TimesOut, TypeOK, IInv, tables
<1>5. CASE Restart
  BY <1>0, <1>5 DEF Restart, TypeOK, IInv, tables
<1> QED  BY <1>2, <1>3, <1>4, <1>5

\* What the administrator, the clock and the health page do.
LEMMA OfficeStep ==
  ASSUME IInv, RegisterGateway \/ RegisterSensor \/ RevokeSensor \/ Tick
               \/ PulseRegisters \/ ReadHealth
  PROVE  IInv'
<1>1. NoHealth \in HealthRow
  BY DEF NoHealth, HealthRow, NoSeq, NoTime, SensorHealth
<1>2. [health EXCEPT !.current = "DISABLED"] \in HealthRow
  BY DEF IInv, TypeOK, HealthRow, SensorHealth
<1>3. TypeOK'
  BY <1>1, <1>2 DEF RegisterGateway, RegisterSensor, RevokeSensor, Tick,
       PulseRegisters, ReadHealth, IInv, TypeOK, tables, collector
<1>4. UNCHANGED <<rows, stored, req>>
  BY DEF RegisterGateway, RegisterSensor, RevokeSensor, Tick,
       PulseRegisters, ReadHealth, tables
<1> QED  BY <1>3, <1>4 DEF IInv

\* Stale marks.
LEMMA MarkStep ==
  ASSUME IInv, MarkStale  PROVE IInv'
<1> DEFINE Mark(r) == IF r.state \in {"ESTABLISHED", "REKEYED"}
                      THEN [r EXCEPT !.stale = "yes"] ELSE r
<1>1. rows' = {Mark(r) : r \in rows}  BY DEF MarkStale
<1>2. ASSUME NEW r \in rows
      PROVE  Mark(r) \in SaRow /\ MadeBy(Mark(r), stored) /\ Backed(Mark(r), stored)
  <2>1. r \in SaRow /\ MadeBy(r, stored) /\ Backed(r, stored)
    BY DEF IInv, TypeOK, RowsOK
  <2>2. /\ Mark(r) \in SaRow /\ Mark(r).id = r.id /\ Mark(r).type = r.type
        /\ Mark(r).spi = r.spi /\ Mark(r).state = r.state /\ Mark(r).event = r.event
    BY <2>1 DEF SaRow
  <2> HIDE DEF Mark
  <2> QED  BY <2>1, <2>2 DEF MadeBy, Backed, Supports
<1> HIDE DEF Mark
<1>3. rows' \subseteq SaRow /\ RowsOK(rows', stored)  BY <1>1, <1>2 DEF RowsOK
<1> QED  BY <1>3 DEF MarkStale, IInv, TypeOK, collector

\* What a handler does.
LEMMA HandlerStep ==
  ASSUME IInv, NEW h \in Handlers, Handle(h)
  PROVE  IInv'
<1>0. /\ TypeOK /\ req[h] \in Request /\ HandlerOK(req[h], stored)
      /\ Answered(h) \in Handlers \cup {NoHandler}
  BY DEF IInv, TypeOK, Answered
<1>i. Idle \in Request /\ HandlerOK(Idle, stored)
  BY IdleType, FreshOK DEF Idle
<1>1. CASE Refuse(h) \/ CommitFails(h)
  <2>1. req' = [req EXCEPT ![h] = Idle] /\ waiting' = Answered(h)
    BY <1>1 DEF Refuse, CommitFails
  <2>2. /\ req' \in [Handlers -> Request]
        /\ \A k \in Handlers : HandlerOK(req'[k], stored)
    BY <1>i, <2>1, OneHandler
  <2> QED  BY <1>0, <1>1, <2>1, <2>2 DEF Refuse, CommitFails, IInv, TypeOK, tables
<1>2. CASE Authenticate(h)
  <2> DEFINE q == [req[h] EXCEPT !.pc = "examine", !.now = clock]
  <2>1. q \in Request /\ q.held = req[h].held /\ q.news = req[h].news
        /\ q.adds = req[h].adds /\ q.pc = "examine"
    BY <1>0 DEF Request, Places, TypeOK
  <2>2. HandlerOK(q, stored)  BY <1>0, <2>1, CalmHandler
  <2>3. req' = [req EXCEPT ![h] = q]  BY <1>0, <1>2 DEF Authenticate, TypeOK
  <2> HIDE DEF q
  <2>4. /\ req' \in [Handlers -> Request]
        /\ \A k \in Handlers : HandlerOK(req'[k], stored)
    BY <2>1, <2>2, <2>3, OneHandler
  <2> QED  BY <1>0, <1>2, <2>4 DEF Authenticate, IInv, TypeOK, tables, collector
<1>3. CASE Duplicate(h)
  <2> DEFINE q == [req[h] EXCEPT !.todo = Tail(Left(h))]
  <2>1. Left(h) \in Seq(Event) /\ Left(h) # <<>>
    BY <1>0, <1>3 DEF Duplicate, Left, Request
  <2>2. Tail(Left(h)) \in Seq(Event)  BY <2>1, HeadTailProperties
  <2>3. q \in Request /\ q.held = req[h].held /\ q.news = req[h].news
        /\ q.adds = req[h].adds /\ q.pc = "examine"
    BY <1>0, <1>3, <2>2 DEF Request, Duplicate
  <2>4. HandlerOK(q, stored)  BY <1>0, <2>3, CalmHandler
  <2>5. req' = [req EXCEPT ![h] = q]  BY <1>0, <1>3 DEF Duplicate, Left
  <2> HIDE DEF q
  <2>6. /\ req' \in [Handlers -> Request]
        /\ \A k \in Handlers : HandlerOK(req'[k], stored)
    BY <2>3, <2>4, <2>5, OneHandler
  <2> QED  BY <1>0, <1>3, <2>6 DEF Duplicate, IInv, TypeOK, tables, collector
<1>4. CASE Examine(h)
  <2> DEFINE e == Head(Left(h))
             s == Row(e, req[h].now)
  <2>1. req' \in [Handlers -> Request] /\ announced' \subseteq Nat
    BY <1>0, <1>4, ExamineType
  <2>2. ASSUME NEW pc, NEW todo, req' = [req EXCEPT ![h] = Examined(h, e, pc, todo)]
        PROVE  /\ req'[h].held = req[h].held /\ req'[h].news = req[h].news
               /\ req'[h].adds = req[h].adds \cup {s}
               /\ req'[h].pc = pc /\ req'[h].todo = todo
               /\ \A k \in Handlers : k # h => req'[k] = req[k]
    BY <1>0, <2>2 DEF Examined, Request, TypeOK
  <2>3. s.event = e  BY DEF Row
  <2>4. \/ /\ e.synthetic = "no" /\ e.kind \in SaKinds /\ Left(h) # <<>>
           /\ req' = [req EXCEPT ![h] = Examined(h, e, "project", Left(h))]
        \/ req' = [req EXCEPT ![h] = Examined(h, e, "examine", Tail(Left(h)))]
    BY <1>4 DEF Examine
  <2>5. req[h].adds \subseteq req[h].adds \cup {s}  OBVIOUS
  <2>6. ASSUME NEW x \in req[h].held  PROVE HeldOK(x, req[h], stored)
               /\ Backed(x.is, req[h].adds \cup {s})
    BY <1>0, <2>5, BackedMono DEF HandlerOK, HeldOK
  <2>7. ASSUME NEW r \in req[h].news
        PROVE  MadeBy(r, req[h].adds \cup {s}) /\ Backed(r, req[h].adds \cup {s})
    BY <1>0, <2>5, BackedMono DEF HandlerOK
  <2>8. HandlerOK(req'[h], stored)
    <3>1. CASE /\ e.synthetic = "no" /\ e.kind \in SaKinds /\ Left(h) # <<>>
               /\ req' = [req EXCEPT ![h] = Examined(h, e, "project", Left(h))]
      <4>1. /\ req'[h].held = req[h].held /\ req'[h].news = req[h].news
            /\ req'[h].adds = req[h].adds \cup {s}
            /\ req'[h].pc = "project" /\ req'[h].todo = Left(h)
        BY <2>2, <3>1
      <4>2. \E t \in req'[h].adds : t.event = Head(req'[h].todo)
        BY <2>3, <4>1
      <4> QED  BY <2>6, <2>7, <3>1, <4>1, <4>2 DEF HandlerOK, HeldOK
    <3>2. CASE req' = [req EXCEPT ![h] = Examined(h, e, "examine", Tail(Left(h)))]
      <4>1. /\ req'[h].held = req[h].held /\ req'[h].news = req[h].news
            /\ req'[h].adds = req[h].adds \cup {s} /\ req'[h].pc = "examine"
        BY <2>2, <3>2
      <4> QED  BY <2>6, <2>7, <4>1 DEF HandlerOK, HeldOK
    <3> QED  BY <2>4, <3>1, <3>2
  <2>9. \A k \in Handlers : HandlerOK(req'[k], stored)
    BY <2>2, <2>4, <2>8 DEF IInv
  <2> QED  BY <1>0, <1>4, <2>1, <2>9 DEF Examine, IInv, TypeOK, tables, collector
<1>5. CASE Project(h)
  <2>1. req' \in [Handlers -> Request] /\ HandlerOK(req'[h], stored)
    BY <1>5, ProjectHandler
  <2>2. Left(h) # <<>> /\ Head(Left(h)).kind \in SaKinds
    BY <1>0, <1>5 DEF Project, HandlerOK, Left
  <2>3. announced' \subseteq Nat  BY <1>0, <1>5, <2>2, ProjectType
  <2>4. \A k \in Handlers : k # h => req'[k] = req[k]
    BY <1>0, <1>5 DEF Project, TypeOK
  <2>5. \A k \in Handlers : HandlerOK(req'[k], stored)
    BY <2>1, <2>4 DEF IInv
  <2> QED  BY <1>0, <1>5, <2>1, <2>3, <2>5 DEF Project, IInv, TypeOK, tables, collector
<1>6. CASE Commit(h)
  <2>1. /\ rows' \subseteq SaRow /\ Unique(stored') /\ RowsOK(rows', stored')
        /\ \A k \in Handlers : HandlerOK(req'[k], stored')
    BY <1>6, CommitTables
  <2>2. stored' \subseteq Stored /\ req' \in [Handlers -> Request]
    BY <1>0, <1>6, <1>i DEF Commit, TypeOK, Request
  <2>3. health' \in HealthRow
    <3>1. health \in HealthRow /\ req[h].was \in HealthRow /\ req[h].is \in HealthRow
      BY <1>0 DEF TypeOK, Request
    <3> QED  BY <1>6, <3>1, WrittenHealth DEF Commit
  <2>4. base' \in Nat /\ waiting' \in Handlers \cup {NoHandler}
    BY <1>0, <1>6 DEF Commit, TypeOK
  <2> QED  BY <1>0, <1>6, <2>1, <2>2, <2>3, <2>4 DEF Commit, IInv, TypeOK
<1> QED  BY <1>1, <1>2, <1>3, <1>4, <1>5, <1>6 DEF Handle

\* The server dies, or a pulse arrives.
LEMMA CrashOrPulse ==
  ASSUME IInv, Crash \/ Pulse
  PROVE  IInv'
<1>0. TypeOK  BY DEF IInv
<1>1. CASE Crash
  <2>1. Idle \in Request /\ HandlerOK(Idle, stored)
    BY IdleType, FreshOK DEF Idle
  <2>2. /\ req' \in [Handlers -> Request]
        /\ \A k \in Handlers : HandlerOK(req'[k], stored)
    BY <1>1, <2>1 DEF Crash
  <2> QED  BY <1>0, <1>1, <2>2 DEF Crash, IInv, TypeOK, tables
<1>2. CASE Pulse
  <2>1. PICK h \in Handlers :
          req' = [req EXCEPT ![h] = [Idle EXCEPT !.pc = "examine",
                                       !.todo = PulseBatch, !.now = clock]]
    BY <1>2 DEF Pulse
  <2> DEFINE q == [Idle EXCEPT !.pc = "examine", !.todo = PulseBatch, !.now = clock]
  <2>2. q \in Request /\ HandlerOK(q, stored)
    BY <1>0, ArrivalOK, PulseIsSeq DEF TypeOK
  <2> HIDE DEF q
  <2>3. /\ req' \in [Handlers -> Request]
        /\ \A k \in Handlers : HandlerOK(req'[k], stored)
    BY <2>1, <2>2, OneHandler DEF q
  <2> QED  BY <1>0, <1>2, <2>3 DEF Pulse, IInv, TypeOK, tables, collector
<1> QED  BY <1>1, <1>2

\* IInv is inductive.
LEMMA Inductive == Spec => []IInv
<1>1. Init => IInv
  <2> SUFFICES ASSUME Init  PROVE IInv
    OBVIOUS
  <2>1. NoHealth \in HealthRow
    BY DEF NoHealth, HealthRow, NoSeq, NoTime, SensorHealth
  <2>2. TypeOK  BY <2>1, IdleType DEF Init, TypeOK
  <2>3. \A k \in Handlers : HandlerOK(req[k], stored)
    <3>1. HandlerOK(Idle, stored)  BY FreshOK DEF Idle
    <3> QED  BY <3>1 DEF Init
  <2> QED  BY <2>2, <2>3 DEF Init, IInv, Unique, RowsOK
<1>2. IInv /\ [Next]_vars => IInv'
  <2> SUFFICES ASSUME IInv, [Next]_vars  PROVE IInv'
    OBVIOUS
  <2>1. CASE UNCHANGED vars
    BY <2>1 DEF vars, tables, collector, IInv, TypeOK
  <2>2. CASE Next
    <3>1. CASE Poll \/ Replay \/ TimesOut \/ Restart  BY <3>1, CollectorStep
    <3>2. CASE RegisterGateway \/ RegisterSensor \/ RevokeSensor \/ Tick
               \/ PulseRegisters \/ ReadHealth
      BY <3>2, OfficeStep
    <3>3. CASE \E h \in Handlers : Handle(h)  BY <3>3, HandlerStep
    <3>4. CASE Crash \/ Pulse  BY <3>4, CrashOrPulse
    <3>5. CASE MarkStale  BY <3>5, MarkStep
    <3> QED  BY <2>2, <3>1, <3>2, <3>3, <3>4, <3>5 DEF Next, Step
  <2> QED  BY <2>1, <2>2
<1> QED  BY <1>1, <1>2, PTL DEF Spec

-----------------------------------------------------------------------------
(* The theorems.                                                           *)

\* The tables, handlers and collector of the monitoring subsystem are well
\* typed in every reachable state.
THEOREM TypeCorrect == Spec => []TypeOK
<1>1. IInv => TypeOK  BY DEF IInv
<1> QED  BY <1>1, Inductive, PTL

\* Whatever batches overlap, are replayed, rolled back or synthetic, and
\* however long the sensor is silent, every row that _project_sa_state made
\* cites a stored observed event and has a state that one gave.
THEOREM EvidenceBacked == Spec => []SaRestsOnEvidence
<1>1. IInv => SaRestsOnEvidence
  BY DEF IInv, RowsOK, Backed, SaRestsOnEvidence
<1> QED  BY <1>1, Inductive, PTL

\* What a step may do while the sensor is revoked.
Quiet ==
  /\ sensor' = "REVOKED" /\ Outside \subseteq Outside'
  /\ Outside = Handlers => stored' = stored /\ health'.total = health.total

LEMMA QuietStep ==
  ASSUME TypeOK, [Next]_vars, Strict, sensor = "REVOKED"
  PROVE  Quiet
<1> USE DEF Quiet, Outside
<1>1. CASE UNCHANGED vars  BY <1>1 DEF vars, tables
<1>2. ASSUME NEW h \in Handlers, NEW batch, Arrives(h, batch)
      PROVE  Outside \subseteq Outside'
  BY <1>2 DEF Arrives, TypeOK, Idle
<1>3. CASE Poll
  <2>1. Outside \subseteq Outside'
    BY <1>2, <1>3 DEF Poll
  <2> QED  BY <1>3, <2>1 DEF Poll, tables
<1>4. CASE Replay
  <2>1. Outside \subseteq Outside'
    BY <1>2, <1>4 DEF Replay
  <2> QED  BY <1>4, <2>1 DEF Replay, tables
<1>5. CASE TimesOut \/ Restart \/ Tick \/ RegisterGateway \/ ReadHealth \/ MarkStale
  BY <1>5 DEF TimesOut, Restart, Tick, RegisterGateway, ReadHealth, MarkStale,
              tables
<1>6. CASE RegisterSensor \/ Pulse \/ PulseRegisters
  BY <1>6 DEF RegisterSensor, Pulse, PulseRegisters
<1>7. CASE RevokeSensor
  BY <1>7 DEF RevokeSensor, TypeOK, HealthRow
<1>8. CASE Crash
  BY <1>8 DEF Crash, tables, Idle
<1>9. ASSUME NEW h \in Handlers, Handle(h)  PROVE Quiet
  <2>1. CASE Refuse(h)
    BY <2>1 DEF Refuse, tables, TypeOK, Idle
  <2>2. ~Authenticate(h)
    BY DEF Authenticate, LetIn, Strict
  <2>3. CASE Duplicate(h) \/ Examine(h) \/ Project(h) \/ Commit(h)
               \/ CommitFails(h)
    <3>1. req[h].pc \in {"examine", "project"} /\ sensor' = sensor
      BY <2>3 DEF Duplicate, Examine, Project, Commit, CommitFails
    <3>2. \A k \in Handlers \ {h} : req'[k] = req[k]
      BY <2>3 DEF Duplicate, Examine, Project, Commit, CommitFails, TypeOK
    <3> QED  BY <3>1, <3>2
  <2> QED  BY <1>9, <2>1, <2>2, <2>3 DEF Handle
<1> QED  BY <1>1, <1>3, <1>4, <1>5, <1>6, <1>7, <1>8, <1>9 DEF Next, Step

\* Where a token is required and no other sensor shares the gateway and the
\* scope, after revoke_sensor only the requests from before go on, and after
\* them nothing is ingested: verify_sensor_credential and the pulse's choice
\* of an active sensor keep the sensor out for good.
THEOREM RevocationFinal == Spec => RevokedIsSilent
<1>1. TypeOK /\ [Next]_vars
        => [Strict /\ sensor = "REVOKED" => Quiet]_vars
  BY QuietStep
<1>2. [Strict /\ sensor = "REVOKED" => Quiet]_vars
        => [ Strict /\ sensor = "REVOKED" =>
               /\ sensor' = "REVOKED" /\ Outside \subseteq Outside'
               /\ Outside = Handlers =>
                    stored' = stored /\ health'.total = health.total ]_vars
  BY DEF Quiet
<1> QED  BY <1>1, <1>2, TypeCorrect, PTL DEF Spec, RevokedIsSilent

-----------------------------------------------------------------------------
(* Counting.                                                               *)

Observed(es) == {s \in es : s.event.synthetic = "no"}

\* Of the first n events: the collector's are among em, a pulse's carry the
\* time.
Known(e, n, em) ==
  /\ e.id <= n
  /\ e.synthetic = "no" => e \in em
  /\ e.synthetic = "yes" => e.seq >= PulseSeq

Distinct(es) ==
  \A i, j \in 1..Len(es) : i # j => es[i].id # es[j].id

\* The events a handler still has to look at are, but for the one that is
\* being projected, not among those it adds.
Pending(q) ==
  /\ Distinct(q.todo)
  /\ \A s \in q.adds, i \in 1..Len(q.todo) :
       s.event.id = q.todo[i].id => q.pc = "project" /\ i = 1

EventsKnown(q, n, em) ==
  /\ \A i \in 1..Len(q.todo) : Known(q.todo[i], n, em)
  /\ \A s \in q.adds : Known(s.event, n, em)

\* The health row is read with the first event that is not a duplicate.
ReadOK(q) ==
  /\ q.pc \in {"idle", "auth"} => q.read = "no"
  /\ q.read = "no" => q.adds = {} /\ q.was = NoHealth /\ q.is = NoHealth
  /\ q.read = "yes" => q.is.last # NoSeq

\* A counter read is covered by the events stored then, and what is added to
\* it by the events added.
CountOK(q, st) ==
  /\ IsFiniteSet(q.adds)
  /\ q.was.total <= Cardinality(Observed(st))
  /\ q.is.total <= q.was.total + Cardinality(Observed(q.adds))

CountHandler(q, st, n, em) ==
  Pending(q) /\ EventsKnown(q, n, em) /\ ReadOK(q) /\ CountOK(q, st)

\* No sensor, no telemetry.
Unborn ==
  sensor = "none" =>
    health = NoHealth /\ posted = <<>> /\ \A h \in Handlers : req[h] = Idle

CountInv ==
  /\ IsFiniteSet(stored)
  /\ health.total <= Cardinality(Observed(stored))
  /\ Unborn /\ base <= minted
  /\ \A e \in emitted : e.synthetic = "no" /\ e.id <= minted
  /\ \A s \in stored : Known(s.event, minted, emitted)
  /\ Distinct(posted)
  /\ \A i \in 1..Len(posted) : Known(posted[i], minted, emitted)
  /\ \A h \in Handlers : CountHandler(req[h], stored, minted, emitted)

-----------------------------------------------------------------------------
(* Gap detection.                                                          *)

\* The collector has not been restarted and has not counted up to the clock.
FirstCount == session = 0 /\ seq < PulseSeq

\* The collector's identifiers and sequence numbers grow together.
InOrder(em, sq) ==
  /\ \A e \in em : e.seq <= sq
  /\ \A e, f \in em :
       e.seq <= f.seq => e.id <= f.id /\ (e.seq = f.seq => e = f)

Holds(es, e) == \E s \in es : s.event = e

\* A sequence number below the clock is that of an event of the collector.
LastFrom(last, es) ==
  last # NoSeq /\ last < PulseSeq =>
    \E s \in Observed(es) : s.event.seq = last

\* Nothing emitted after b is missing from all below the events es, or up to
\* the number last.
Gapless(es, all, em, b) ==
  \A s \in Observed(es), e \in em :
    e.id > b /\ e.seq < s.event.seq => Holds(all, e)
GaplessTo(last, all, em, b) ==
  \A e \in em :
    e.id > b /\ last < PulseSeq /\ e.seq <= last => Holds(all, e)

\* The events of a handler that has read a health row without a sequence
\* number were made before the first commit.
FirstOnes(q, row, b) ==
  q.read = "yes" /\ q.was.last = NoSeq /\ row.last # NoSeq =>
    /\ \A s \in q.adds : s.event.id <= b
    /\ \A i \in 1..Len(q.todo) : q.todo[i].id <= b

\* What a handler has read of the stream, and what it is about to write.
StreamOK(q, row, st, em, b) ==
  /\ q.was.warnings \subseteq q.is.warnings
  /\ q.was.warnings # {} => row.warnings # {}
  /\ LastFrom(q.is.last, st \cup q.adds)
  /\ q.was.last # NoSeq => row.last # NoSeq
  /\ FirstOnes(q, row, b)
  /\ q.is.warnings = {} /\ q.was.last # NoSeq =>
       /\ Gapless(q.adds, st \cup q.adds, em, b)
       /\ GaplessTo(q.is.last, st \cup q.adds, em, b)

\* What the tables say of it.
TablesOK(row, st, em, b) ==
  /\ LastFrom(row.last, st)
  /\ row.warnings = {} => Gapless(st, st, em, b)

StreamInv ==
  FirstCount =>
    /\ InOrder(emitted, seq)
    /\ TablesOK(health, stored, emitted, base)
    /\ \A h \in Handlers : StreamOK(req[h], health, stored, emitted, base)

-----------------------------------------------------------------------------
(* Lemmas on the counting of a handler.                                    *)

LEMMA KnownMono ==
  ASSUME NEW e \in Event, NEW n \in Nat, NEW m \in Nat, NEW em, NEW fm,
         n <= m, em \subseteq fm, Known(e, n, em)
  PROVE  Known(e, m, fm)
BY DEF Known, Event

LEMMA ObservedFinite ==
  ASSUME NEW es, IsFiniteSet(es)
  PROVE  IsFiniteSet(Observed(es)) /\ Cardinality(Observed(es)) \in Nat
<1>1. Observed(es) \subseteq es  BY DEF Observed
<1>2. IsFiniteSet(Observed(es))  BY <1>1, FS_Subset
<1> QED  BY <1>2, FS_CardinalityType

LEMMA ObservedMono ==
  ASSUME NEW es, NEW fs, IsFiniteSet(fs), es \subseteq fs
  PROVE  Cardinality(Observed(es)) <= Cardinality(Observed(fs))
<1>1. Observed(es) \subseteq Observed(fs)  BY DEF Observed
<1>2. IsFiniteSet(Observed(fs))  BY ObservedFinite
<1> QED  BY <1>1, <1>2, FS_Subset

\* One more observed event is one more.
LEMMA ObservedAdd ==
  ASSUME NEW es, IsFiniteSet(es), NEW s, s \notin es
  PROVE  /\ IsFiniteSet(es \cup {s})
         /\ s.event.synthetic = "no" =>
              Cardinality(Observed(es \cup {s})) = Cardinality(Observed(es)) + 1
         /\ s.event.synthetic # "no" =>
              Cardinality(Observed(es \cup {s})) = Cardinality(Observed(es))
<1>1. IsFiniteSet(es \cup {s})  BY FS_AddElement
<1>2. IsFiniteSet(Observed(es)) /\ s \notin Observed(es)
  BY ObservedFinite DEF Observed
<1>3. CASE s.event.synthetic = "no"
  <2>1. Observed(es \cup {s}) = Observed(es) \cup {s}
    BY <1>3 DEF Observed
  <2> QED  BY <1>1, <1>2, <1>3, <2>1, FS_AddElement
<1>4. CASE s.event.synthetic # "no"
  <2>1. Observed(es \cup {s}) = Observed(es)
    BY <1>4 DEF Observed
  <2> QED  BY <1>1, <1>4, <2>1
<1> QED  BY <1>3, <1>4

\* Disjoint sets of events count together.
LEMMA ObservedUnion ==
  ASSUME NEW es, NEW fs, IsFiniteSet(es), IsFiniteSet(fs), es \cap fs = {}
  PROVE  /\ IsFiniteSet(es \cup fs)
         /\ Cardinality(Observed(es \cup fs))
              = Cardinality(Observed(es)) + Cardinality(Observed(fs))
<1>1. IsFiniteSet(es \cup fs)  BY FS_Union
<1>2. /\ IsFiniteSet(Observed(es)) /\ IsFiniteSet(Observed(fs))
      /\ Cardinality(Observed(es)) \in Nat /\ Cardinality(Observed(fs)) \in Nat
  BY ObservedFinite
<1>3. /\ Observed(es \cup fs) = Observed(es) \cup Observed(fs)
      /\ Observed(es) \cap Observed(fs) = {}
  BY DEF Observed
<1>4. Cardinality(Observed(es) \cap Observed(fs)) = 0  BY <1>3, FS_EmptySet
<1> DEFINE A == Observed(es)
           B == Observed(fs)
<1>5. Cardinality(A \cup B) = Cardinality(A) + Cardinality(B)
        - Cardinality(A \cap B)
  <2> HIDE DEF A, B
  <2>1. IsFiniteSet(A) /\ IsFiniteSet(B)  BY <1>2 DEF A, B
  <2> QED  BY <2>1, FS_Union
<1>6. Observed(es \cup fs) = A \cup B /\ Cardinality(A \cap B) = 0
  BY <1>3, <1>4
<1>7. Cardinality(A) \in Nat /\ Cardinality(B) \in Nat  BY <1>2
<1>8. Cardinality(Observed(es \cup fs)) = Cardinality(A) + Cardinality(B)
  <2> HIDE DEF A, B
  <2>1. Cardinality(Observed(es \cup fs)) = Cardinality(A \cup B)
    BY <1>6, Zenon
  <2> QED  BY <1>5, <1>6, <1>7, <2>1
<1> QED  BY <1>1, <1>8

LEMMA CountMono ==
  ASSUME NEW q \in Request, NEW st, NEW tt, NEW n \in Nat, NEW m \in Nat,
         NEW em, NEW fm, st \subseteq tt, IsFiniteSet(st), IsFiniteSet(tt),
         n <= m, em \subseteq fm, CountHandler(q, st, n, em)
  PROVE  CountHandler(q, tt, m, fm)
<1>1. EventsKnown(q, m, fm)
  <2>1. \A i \in 1..Len(q.todo) : q.todo[i] \in Event
    BY ElementOfSeq DEF Request
  <2>2. \A s \in q.adds : s.event \in Event
    BY DEF Request, Stored
  <2> QED  BY <2>1, <2>2, KnownMono DEF CountHandler, EventsKnown
<1>2. CountOK(q, tt)
  <2>1. /\ Cardinality(Observed(st)) <= Cardinality(Observed(tt))
        /\ Cardinality(Observed(st)) \in Nat /\ Cardinality(Observed(tt)) \in Nat
    BY ObservedMono, ObservedFinite
  <2>2. q.was.total \in Nat  BY DEF Request, HealthRow
  <2> QED  BY <2>1, <2>2 DEF CountHandler, CountOK
<1> QED  BY <1>1, <1>2 DEF CountHandler

\* A request that has just begun.
LEMMA CountArrival ==
  ASSUME NEW q \in Request, q.read = "no", q.adds = {}, q.was = NoHealth,
         q.is = NoHealth, NEW st, IsFiniteSet(st), NEW n, NEW em,
         Distinct(q.todo), \A i \in 1..Len(q.todo) : Known(q.todo[i], n, em)
  PROVE  CountHandler(q, st, n, em)
<1>1. Cardinality(Observed(st)) \in Nat  BY ObservedFinite
<1>2. IsFiniteSet({}) /\ Cardinality(Observed({})) = 0
  BY FS_EmptySet DEF Observed
<1>3. CountOK(q, st)  BY <1>1, <1>2 DEF CountOK, NoHealth
<1> QED  BY <1>3 DEF CountHandler, Pending, EventsKnown, ReadOK

LEMMA CountIdle ==
  ASSUME NEW st, IsFiniteSet(st), NEW n, NEW em
  PROVE  CountHandler(Idle, st, n, em)
<1>1. /\ Idle.read = "no" /\ Idle.adds = {} /\ Idle.was = NoHealth
      /\ Idle.is = NoHealth /\ Idle.todo = <<>>
  BY DEF Idle
<1>2. Distinct(<<>>) /\ 1..Len(<<>>) = {}  BY DEF Distinct
<1> QED  BY <1>1, <1>2, CountArrival, IdleType

\* The rest of a sequence of distinct events.
LEMMA TailDistinct ==
  ASSUME NEW es \in Seq(Event), es # <<>>, Distinct(es)
  PROVE  /\ Distinct(Tail(es))
         /\ \A i \in 1..Len(Tail(es)) :
              i + 1 \in 1..Len(es) /\ Tail(es)[i] = es[i + 1]
<1>1. /\ Tail(es) \in Seq(Event) /\ Len(Tail(es)) = Len(es) - 1
      /\ \A i \in 1..Len(Tail(es)) : Tail(es)[i] = es[i + 1]
  BY HeadTailProperties
<1>2. Len(es) \in Nat /\ Len(Tail(es)) \in Nat  BY <1>1, LenProperties
<1>3. \A i \in 1..Len(Tail(es)) : i + 1 \in 1..Len(es)
  BY <1>1, <1>2
<1>4. \A i, j \in 1..Len(Tail(es)) :
        i # j => Tail(es)[i].id # Tail(es)[j].id
  BY <1>1, <1>3 DEF Distinct
<1> QED  BY <1>1, <1>3, <1>4 DEF Distinct

\* A handler goes on with the rest of its events, or with the same ones.
LEMMA CountShrink ==
  ASSUME NEW q \in Request, NEW p \in Request, NEW st, NEW n, NEW em,
         CountHandler(q, st, n, em),
         p.read = q.read, p.was = q.was, p.is = q.is, p.adds = q.adds,
         \/ p.todo = q.todo /\ q.pc # "project"
         \/ q.todo # <<>> /\ p.todo = Tail(q.todo),
         p.pc \in {"examine", "project"}
  PROVE  CountHandler(p, st, n, em)
<1>1. q.todo \in Seq(Event)  BY DEF Request
<1>2. CASE p.todo = q.todo /\ q.pc # "project"
  BY <1>2 DEF CountHandler, Pending, EventsKnown, ReadOK, CountOK
<1>3. CASE q.todo # <<>> /\ p.todo = Tail(q.todo)
  <2>1. /\ Distinct(p.todo)
        /\ \A i \in 1..Len(p.todo) :
             i \in Nat /\ i >= 1 /\ i + 1 \in 1..Len(q.todo)
               /\ p.todo[i] = q.todo[i + 1]
    BY <1>1, <1>3, TailDistinct DEF CountHandler, Pending
  <2>2. ASSUME NEW s \in p.adds, NEW i \in 1..Len(p.todo),
               s.event.id = p.todo[i].id
        PROVE  FALSE
    <3> DEFINE j == i + 1
    <3>1. j \in 1..Len(q.todo) /\ p.todo[i] = q.todo[j] /\ j # 1
      BY <2>1
    <3> HIDE DEF j
    <3>2. s \in q.adds /\ s.event.id = q.todo[j].id  BY <2>2, <3>1
    <3> QED  BY <3>1, <3>2 DEF CountHandler, Pending
  <2>3. \A i \in 1..Len(p.todo) : Known(p.todo[i], n, em)
    BY <2>1 DEF CountHandler, EventsKnown
  <2> QED  BY <2>1, <2>2, <2>3 DEF CountHandler, Pending, EventsKnown, ReadOK,
              CountOK
<1> QED  BY <1>2, <1>3

\* One handler gets a new request record, the events get more.
LEMMA CountOne ==
  ASSUME IInv, CountInv, NEW h \in Handlers, NEW q \in Request,
         req' = [req EXCEPT ![h] = q], stored' = stored,
         minted' \in Nat, minted <= minted', emitted \subseteq emitted',
         CountHandler(q, stored, minted', emitted')
  PROVE  \A k \in Handlers : CountHandler(req'[k], stored', minted', emitted')
<1> SUFFICES ASSUME NEW k \in Handlers
             PROVE  CountHandler(req'[k], stored, minted', emitted')
  OBVIOUS
<1>1. /\ req \in [Handlers -> Request] /\ minted \in Nat
      /\ IsFiniteSet(stored) /\ CountHandler(req[k], stored, minted, emitted)
  BY DEF IInv, TypeOK, CountInv
<1>2. CountHandler(req[k], stored, minted', emitted')
  BY <1>1, CountMono
<1> QED  BY <1>1, <1>2

\* An event is examined.  Row is the health row a query would find.
LEMMA CountExamine ==
  ASSUME NEW q \in Request, NEW p \in Request, NEW st, NEW n, NEW em,
         NEW row \in HealthRow, IsFiniteSet(st),
         row.total <= Cardinality(Observed(st)),
         CountHandler(q, st, n, em), q.pc = "examine", q.todo # <<>>,
         p.read = "yes",
         p.was = IF q.read = "yes" THEN q.was ELSE row,
         p.is = Heard(IF q.read = "yes" THEN q.is ELSE row, Head(q.todo), q.now),
         p.adds = q.adds \cup {Row(Head(q.todo), q.now)},
         \/ p.pc = "project" /\ p.todo = q.todo
         \/ p.pc = "examine" /\ p.todo = Tail(q.todo)
  PROVE  CountHandler(p, st, n, em)
<1> DEFINE e == Head(q.todo)
           r == Row(e, q.now)
           is == IF q.read = "yes" THEN q.is ELSE row
           was == IF q.read = "yes" THEN q.was ELSE row
<1>1. /\ q.todo \in Seq(Event) /\ e \in Event /\ e = q.todo[1]
      /\ Len(q.todo) \in Nat /\ 1 \in 1..Len(q.todo)
  BY HeadTailProperties, LenProperties DEF Request
<1>2. /\ Pending(q) /\ EventsKnown(q, n, em) /\ ReadOK(q) /\ CountOK(q, st)
  BY DEF CountHandler
<1>3. r.event = e  BY DEF Row
<1>4. r \notin q.adds  BY <1>1, <1>2, <1>3 DEF Pending
<1>5. /\ is \in HealthRow /\ was \in HealthRow /\ is.total \in Nat
      /\ was.total \in Nat
  BY DEF Request, HealthRow
<1>6. /\ Cardinality(Observed(st)) \in Nat
      /\ Cardinality(Observed(q.adds)) \in Nat
  BY <1>2, ObservedFinite DEF CountOK
<1>7. /\ was.total <= Cardinality(Observed(st))
      /\ is.total <= was.total + Cardinality(Observed(q.adds))
  <2>1. CASE q.read = "yes"  BY <1>2, <2>1 DEF CountOK
  <2>2. CASE q.read # "yes"  BY <1>5, <1>6, <2>2
  <2> QED  BY <2>1, <2>2
<1>8. CountOK(p, st)
  <2> HIDE DEF e, r, is, was
  <2>1. p.was = was /\ p.is = Heard(is, e, q.now) /\ p.adds = q.adds \cup {r}
    BY DEF e, r, is, was
  <2>2. IsFiniteSet(q.adds)  BY <1>2 DEF CountOK
  <2>3. IsFiniteSet(p.adds)  BY <2>1, <2>2, <1>4, ObservedAdd
  <2>4. CASE e.synthetic = "no"
    <3>1. Cardinality(Observed(p.adds)) = Cardinality(Observed(q.adds)) + 1
      BY <1>3, <1>4, <2>1, <2>2, <2>4, ObservedAdd
    <3>2. p.is.total = is.total + 1  BY <2>1, <2>4 DEF Heard
    <3> QED  BY <1>5, <1>6, <1>7, <2>1, <2>3, <3>1, <3>2 DEF CountOK
  <2>5. CASE e.synthetic # "no"
    <3>1. Cardinality(Observed(p.adds)) = Cardinality(Observed(q.adds))
      BY <1>3, <1>4, <2>1, <2>2, <2>5, ObservedAdd
    <3>2. e.synthetic = "yes"  BY <1>1, <2>5 DEF Event
    <3>3. p.is.total = is.total
      BY <1>5, <2>1, <3>2 DEF Heard, HealthRow
    <3> QED  BY <1>5, <1>6, <1>7, <2>1, <2>3, <3>1, <3>3 DEF CountOK
  <2> QED  BY <2>4, <2>5
<1>9. Pending(p)
  <2>1. CASE p.pc = "project" /\ p.todo = q.todo
    BY <1>1, <1>2, <1>3, <2>1 DEF Pending, Distinct
  <2>2. CASE p.pc = "examine" /\ p.todo = Tail(q.todo)
    <3>1. /\ Distinct(p.todo)
          /\ \A i \in 1..Len(p.todo) :
               i \in Nat /\ i >= 1 /\ i + 1 \in 1..Len(q.todo)
                 /\ p.todo[i] = q.todo[i + 1]
      BY <1>1, <1>2, <2>2, TailDistinct DEF Pending
    <3>2. ASSUME NEW s \in p.adds, NEW i \in 1..Len(p.todo),
                 s.event.id = p.todo[i].id
          PROVE  FALSE
      <4> DEFINE j == i + 1
      <4>1. j \in 1..Len(q.todo) /\ p.todo[i] = q.todo[j] /\ j # 1
        BY <3>1
      <4> HIDE DEF j, e, r
      <4>2. s \in q.adds \/ s = r  BY DEF r, e
      <4>3. CASE s \in q.adds  BY <1>2, <3>2, <4>1, <4>3 DEF Pending
      <4>4. CASE s = r
        BY <1>1, <1>2, <1>3, <3>2, <4>1, <4>4 DEF Pending, Distinct
      <4> QED  BY <4>2, <4>3, <4>4
    <3> QED  BY <3>1, <3>2 DEF Pending
  <2> QED  BY <2>1, <2>2
<1>10. EventsKnown(p, n, em)
  <2>1. Known(e, n, em)  BY <1>1, <1>2 DEF EventsKnown
  <2>2. \A s \in p.adds : Known(s.event, n, em)
    BY <1>2, <1>3, <2>1 DEF EventsKnown
  <2>3. \A i \in 1..Len(p.todo) : Known(p.todo[i], n, em)
    <3>1. CASE p.todo = q.todo  BY <1>2, <3>1 DEF EventsKnown
    <3>2. CASE p.todo = Tail(q.todo)
      BY <1>1, <1>2, <3>2, TailDistinct DEF EventsKnown, Pending
    <3> QED  BY <3>1, <3>2
  <2> QED  BY <2>2, <2>3 DEF EventsKnown
<1>11. ReadOK(p)
  <2>1. p.is.last = e.seq  BY <1>1, <1>5 DEF Heard, HealthRow
  <2> QED  BY <1>1, <2>1 DEF ReadOK, Event, NoSeq
<1> QED  BY <1>8, <1>9, <1>10, <1>11 DEF CountHandler

-----------------------------------------------------------------------------
(* What the steps of a handler do to its record.                           *)

LEMMA ExamineEffect ==
  ASSUME TypeOK, NEW h \in Handlers, Examine(h)
  PROVE  \E q \in Request :
           /\ req' = [req EXCEPT ![h] = q]
           /\ q.read = "yes" /\ q.was = WasHealth(h)
           /\ q.is = Heard(IsHealth(h), Head(req[h].todo), req[h].now)
           /\ q.adds = req[h].adds \cup {Row(Head(req[h].todo), req[h].now)}
           /\ \/ q.pc = "project" /\ q.todo = req[h].todo
              \/ q.pc = "examine" /\ q.todo = Tail(req[h].todo)
<1> DEFINE e == Head(Left(h))
<1>1. req[h] \in Request /\ req \in [Handlers -> Request]
  BY DEF TypeOK
<1>2. req'[h] \in Request  BY ExamineType
<1>3. ASSUME NEW pc, NEW todo, req' = [req EXCEPT ![h] = Examined(h, e, pc, todo)]
      PROVE  /\ req' = [req EXCEPT ![h] = req'[h]]
             /\ req'[h].read = "yes" /\ req'[h].was = WasHealth(h)
             /\ req'[h].is = Heard(IsHealth(h), e, req[h].now)
             /\ req'[h].adds = req[h].adds \cup {Row(e, req[h].now)}
             /\ req'[h].pc = pc /\ req'[h].todo = todo
  <2> DEFINE x == Examined(h, e, pc, todo)
  <2>1. /\ x.read = "yes" /\ x.was = WasHealth(h)
        /\ x.is = Heard(IsHealth(h), e, req[h].now)
        /\ x.adds = req[h].adds \cup {Row(e, req[h].now)}
        /\ x.pc = pc /\ x.todo = todo
    <3> HIDE DEF e
    <3> QED  BY <1>1 DEF Examined, Request
  <2> HIDE DEF x
  <2>2. req'[h] = x  BY <1>1, <1>3 DEF x
  <2>3. req' = [req EXCEPT ![h] = x]  BY <1>3 DEF x
  <2> QED  BY <2>1, <2>2, <2>3
<1>4. CASE req' = [req EXCEPT ![h] = Examined(h, e, "project", Left(h))]
  BY <1>2, <1>3, <1>4 DEF Left
<1>5. CASE req' = [req EXCEPT ![h] = Examined(h, e, "examine", Tail(Left(h)))]
  <2>1. Left(h) = req[h].todo  BY DEF Left
  <2>2. /\ req' = [req EXCEPT ![h] = req'[h]]
        /\ req'[h].read = "yes" /\ req'[h].was = WasHealth(h)
        /\ req'[h].is = Heard(IsHealth(h), e, req[h].now)
        /\ req'[h].adds = req[h].adds \cup {Row(e, req[h].now)}
        /\ req'[h].pc = "examine" /\ req'[h].todo = Tail(Left(h))
    BY <1>3, <1>5
  <2> QED  BY <1>2, <2>1, <2>2
<1>6. \/ req' = [req EXCEPT ![h] = Examined(h, e, "project", Left(h))]
      \/ req' = [req EXCEPT ![h] = Examined(h, e, "examine", Tail(Left(h)))]
  BY Zenon DEF Examine
<1> HIDE DEF e
<1> QED  BY <1>4, <1>5, <1>6

LEMMA ProjectEffect ==
  ASSUME IInv, NEW h \in Handlers, Project(h)
  PROVE  \E q \in Request :
           /\ req' = [req EXCEPT ![h] = q]
           /\ q.read = req[h].read /\ q.was = req[h].was /\ q.is = req[h].is
           /\ q.adds = req[h].adds /\ q.pc = "examine"
           /\ req[h].todo # <<>> /\ q.todo = Tail(req[h].todo)
<1> DEFINE e == Head(Left(h))
<1>1. /\ req[h] \in Request /\ req \in [Handlers -> Request]
      /\ req[h].todo # <<>>
  BY DEF IInv, TypeOK, HandlerOK, Project
<1>2. req'[h] \in Request  BY ProjectHandler
<1>3. \/ req' = [req EXCEPT ![h] = Inserted(h, e)]
      \/ \E r \in Found(e) : req' = [req EXCEPT ![h] = Updated(h, e, Holding(h, r))]
  BY DEF Project
<1>4. CASE req' = [req EXCEPT ![h] = Inserted(h, e)]
  BY <1>1, <1>2, <1>4 DEF Inserted, Request, Left
<1>5. ASSUME NEW x, req' = [req EXCEPT ![h] = Updated(h, e, x)]
      PROVE  /\ req' = [req EXCEPT ![h] = req'[h]]
             /\ req'[h].read = req[h].read /\ req'[h].was = req[h].was
             /\ req'[h].is = req[h].is /\ req'[h].adds = req[h].adds
             /\ req'[h].pc = "examine" /\ req'[h].todo = Tail(Left(h))
  BY <1>1, <1>5 DEF Updated, Request
<1> HIDE DEF e
<1> QED  BY <1>1, <1>2, <1>3, <1>4, <1>5 DEF Left

-----------------------------------------------------------------------------
(* The steps and the counters.                                             *)

\* A batch: new identifiers, and sequence numbers that count on.
LEMMA BatchItems ==
  ASSUME NEW report \in Reports, minted \in Nat, seq \in Nat, session \in Nat
  PROVE  /\ Len(Batch(report)) = Len(report) /\ Len(report) \in Nat
         /\ \A i \in 1..Len(report) :
              /\ Batch(report)[i].id = minted + i
              /\ Batch(report)[i].seq = seq + i
              /\ Batch(report)[i].session = session
              /\ Batch(report)[i].synthetic = "no"
<1>1. report \in Seq(Item) /\ Len(report) \in Nat
  BY ReportsAreSeqs, LenProperties
<1>2. Batch(report) \in Seq(Event) /\ Len(Batch(report)) \in Nat
  BY BatchIsSeq
<1>3. DOMAIN Batch(report) = 1..Len(report)  BY DEF Batch
<1>4. DOMAIN Batch(report) = 1..Len(Batch(report))  BY <1>2, LenProperties
<1>5. Len(Batch(report)) = Len(report)  BY <1>1, <1>2, <1>3, <1>4
<1> QED  BY <1>1, <1>5 DEF Batch

LEMMA CountPoll ==
  ASSUME IInv, CountInv, Poll  PROVE CountInv'
<1>0. /\ TypeOK /\ minted \in Nat /\ seq \in Nat /\ session \in Nat
      /\ req \in [Handlers -> Request] /\ emitted \subseteq Event
      /\ stored \subseteq Stored
  BY DEF IInv, TypeOK
<1>1. PICK report \in Reports :
        LET b == Batch(report) IN
          /\ posted' = b /\ seq' = seq + Len(b) /\ minted' = minted + Len(b)
          /\ emitted' = emitted \cup EventsOf(b)
          /\ \/ \E h \in Handlers : Arrives(h, b)
             \/ UNCHANGED <<req, waiting>>
  BY DEF Poll
<1> DEFINE b == Batch(report)
<1>2. /\ b \in Seq(Event) /\ Len(b) \in Nat
      /\ \A i \in 1..Len(b) : b[i].id = minted + i /\ b[i].synthetic = "no"
  BY <1>0, BatchIsSeq, BatchItems
<1>3. /\ minted' = minted + Len(b) /\ emitted' = emitted \cup EventsOf(b)
      /\ posted' = b
  BY <1>1
<1> HIDE DEF b
<1>4. minted' \in Nat /\ minted <= minted'  BY <1>0, <1>2, <1>3
<1>5. \A i \in 1..Len(b) : b[i] \in EventsOf(b) /\ b[i].id <= minted'
  BY <1>0, <1>2, <1>3 DEF EventsOf
<1>6. \A i \in 1..Len(b) : Known(b[i], minted', emitted')
  BY <1>2, <1>3, <1>5 DEF Known
<1>7. Distinct(b)  BY <1>0, <1>2 DEF Distinct
<1>8. \A s \in stored : Known(s.event, minted', emitted')
  BY <1>0, <1>3, <1>4, KnownMono DEF CountInv, Stored
<1>9. \A e \in emitted' : e.synthetic = "no" /\ e.id <= minted'
  <2>1. ASSUME NEW e \in emitted  PROVE e.synthetic = "no" /\ e.id <= minted'
    BY <1>0, <1>4 DEF CountInv, Event
  <2>2. ASSUME NEW e \in EventsOf(b)  PROVE e.synthetic = "no" /\ e.id <= minted'
    BY <1>2, <1>5 DEF EventsOf
  <2> QED  BY <1>3, <2>1, <2>2
<1>10. UNCHANGED <<sensor, health, stored, base>>  BY DEF Poll, tables
<1>11. \A k \in Handlers : CountHandler(req'[k], stored', minted', emitted')
  <2>1. CASE \E h \in Handlers : Arrives(h, b)
    <3>1. PICK h \in Handlers : Arrives(h, b)  BY <2>1
    <3> DEFINE q == [Idle EXCEPT !.pc = "auth", !.todo = b]
    <3>2. /\ q \in Request /\ q.read = "no" /\ q.adds = {} /\ q.was = NoHealth
          /\ q.is = NoHealth /\ q.todo = b
      BY <1>2, IdleType DEF Idle, Request, Places
    <3>3. req' = [req EXCEPT ![h] = q]  BY <3>1 DEF Arrives
    <3> HIDE DEF q
    <3>4. CountHandler(q, stored, minted', emitted')
      BY <1>6, <1>7, <3>2, CountArrival DEF CountInv
    <3> QED  BY <1>3, <1>4, <1>10, <3>2, <3>3, <3>4, CountOne
  <2>2. CASE UNCHANGED <<req, waiting>>
    BY <1>0, <1>3, <1>4, <1>10, <2>2, CountMono DEF CountInv
  <2> QED  BY <1>1, <2>1, <2>2 DEF b
<1>12. Unborn'  BY <1>10 DEF Unborn, Poll
<1>13. base' <= minted'
  BY <1>0, <1>4, <1>10 DEF CountInv, IInv, TypeOK
<1> QED  BY <1>3, <1>6, <1>7, <1>8, <1>9, <1>10, <1>11, <1>12, <1>13 DEF CountInv

LEMMA CountReplay ==
  ASSUME IInv, CountInv, Replay  PROVE CountInv'
<1>0. /\ minted \in Nat /\ posted \in Seq(Event)
      /\ req \in [Handlers -> Request]
  BY DEF IInv, TypeOK
<1>1. PICK h \in Handlers : Arrives(h, posted)  BY DEF Replay
<1>2. UNCHANGED <<sensor, health, stored, posted, emitted, minted, base>>
  BY DEF Replay, tables
<1> DEFINE q == [Idle EXCEPT !.pc = "auth", !.todo = posted]
<1>3. /\ q \in Request /\ q.read = "no" /\ q.adds = {} /\ q.was = NoHealth
      /\ q.is = NoHealth /\ q.todo = posted
  BY <1>0, IdleType DEF Idle, Request, Places
<1>4. req' = [req EXCEPT ![h] = q]  BY <1>1 DEF Arrives
<1> HIDE DEF q
<1>5. CountHandler(q, stored, minted, emitted)
  BY <1>3, CountArrival DEF CountInv
<1>6. \A k \in Handlers : CountHandler(req'[k], stored', minted', emitted')
  <2>1. /\ stored' = stored /\ minted' \in Nat /\ minted <= minted'
        /\ emitted \subseteq emitted'
    BY <1>0, <1>2
  <2>2. CountHandler(q, stored, minted', emitted')  BY <1>2, <1>5
  <2> QED  BY <1>3, <1>4, <2>1, <2>2, CountOne
<1>7. Unborn'  BY <1>2 DEF Unborn, CountInv, Replay
<1> QED  BY <1>2, <1>6, <1>7 DEF CountInv

\* What leaves the handlers' records as they are.
LEMMA CountCalm ==
  ASSUME IInv, CountInv,
         \/ TimesOut \/ Restart \/ RegisterGateway \/ RegisterSensor
         \/ RevokeSensor \/ Tick \/ PulseRegisters \/ ReadHealth \/ MarkStale
  PROVE  CountInv'
<1>1. UNCHANGED <<stored, req, emitted, minted, base>>
  BY DEF TimesOut, Restart, RegisterGateway, RegisterSensor, RevokeSensor, Tick,
         PulseRegisters, ReadHealth, MarkStale, tables, collector
<1>2. posted' \in {posted, <<>>}
  BY DEF TimesOut, Restart, RegisterGateway, RegisterSensor, RevokeSensor, Tick,
         PulseRegisters, ReadHealth, MarkStale, tables, collector
<1>3. \/ health' = NoHealth /\ sensor' = "ACTIVE"
      \/ health' = [health EXCEPT !.current = "DISABLED"] /\ sensor' = "REVOKED"
      \/ UNCHANGED <<health, sensor>>
  BY DEF TimesOut, Restart, RegisterGateway, RegisterSensor, RevokeSensor, Tick,
         PulseRegisters, ReadHealth, MarkStale, tables, collector
<1>4. health'.total <= Cardinality(Observed(stored))
  <2>1. health \in HealthRow /\ Cardinality(Observed(stored)) \in Nat
    BY ObservedFinite DEF IInv, TypeOK, CountInv
  <2>2. health'.total \in {0, health.total}
    BY <1>3, <2>1 DEF NoHealth, HealthRow
  <2> QED  BY <2>1, <2>2 DEF CountInv
<1>5. Unborn'  BY <1>1, <1>2, <1>3 DEF Unborn, CountInv
<1>6. /\ Distinct(posted')
      /\ \A i \in 1..Len(posted') : Known(posted'[i], minted', emitted')
  <2>1. CASE posted' = <<>>
    <3>1. Len(posted') = 0  BY <2>1
    <3> QED  BY <3>1 DEF Distinct
  <2>2. CASE posted' = posted  BY <1>1, <2>2 DEF CountInv
  <2> QED  BY <1>2, <2>1, <2>2
<1> QED  BY <1>1, <1>4, <1>5, <1>6 DEF CountInv

LEMMA CountCrash ==
  ASSUME IInv, CountInv, Crash  PROVE CountInv'
<1>1. /\ req' = [h \in Handlers |-> Idle]
      /\ UNCHANGED <<sensor, health, stored, posted, emitted, minted, base>>
  BY DEF Crash, tables
<1>2. \A k \in Handlers : CountHandler(req'[k], stored', minted', emitted')
  BY <1>1, CountIdle DEF CountInv
<1>3. Unborn'  BY <1>1 DEF Unborn, CountInv
<1> QED  BY <1>1, <1>2, <1>3 DEF CountInv

\* The identifiers and numbers of a pulse.
LEMMA PulseItems ==
  ASSUME minted \in Nat
  PROVE  /\ Len(PulseBatch) = 2
         /\ \A i \in 1..2 : /\ PulseBatch[i].id = minted + i
                          /\ PulseBatch[i].seq >= PulseSeq
                          /\ PulseBatch[i].synthetic = "yes"
<1>1. PulseBatch \in Seq(Event)  BY PulseIsSeq
<1>2. DOMAIN PulseBatch = 1..2  BY DEF PulseBatch
<1>3. DOMAIN PulseBatch = 1..Len(PulseBatch) /\ Len(PulseBatch) \in Nat
  BY <1>1, LenProperties
<1>4. Len(PulseBatch) = 2  BY <1>2, <1>3
<1> QED  BY <1>4, MonitoringAssumption DEF PulseBatch

LEMMA CountPulse ==
  ASSUME IInv, CountInv, Pulse  PROVE CountInv'
<1>0. /\ minted \in Nat /\ emitted \subseteq Event /\ stored \subseteq Stored
      /\ req \in [Handlers -> Request] /\ posted \in Seq(Event) /\ base \in Nat
      /\ clock \in Nat
  BY DEF IInv, TypeOK
<1> DEFINE q == [Idle EXCEPT !.pc = "examine", !.todo = PulseBatch, !.now = clock]
<1>1. /\ \E h \in Handlers : req' = [req EXCEPT ![h] = q]
      /\ minted' = minted + 2
      /\ UNCHANGED <<health, stored, posted, emitted, base>>
      /\ sensor' = "ACTIVE"
  BY DEF Pulse, tables, collector
<1>2. PICK h \in Handlers : req' = [req EXCEPT ![h] = q]  BY <1>1
<1>3. /\ q \in Request /\ q.read = "no" /\ q.adds = {} /\ q.was = NoHealth
      /\ q.is = NoHealth /\ q.todo = PulseBatch
  BY <1>0, PulseIsSeq, IdleType DEF Idle, Request, Places
<1> HIDE DEF q
<1>4. minted' \in Nat /\ minted <= minted'  BY <1>0, <1>1
<1>5. /\ Distinct(PulseBatch)
      /\ \A i \in 1..Len(PulseBatch) : Known(PulseBatch[i], minted', emitted')
  <2> DEFINE b == PulseBatch
  <2>1. Len(b) = 2
        /\ \A i \in 1..2 : /\ b[i].id = minted + i /\ b[i].seq >= PulseSeq
                          /\ b[i].synthetic = "yes"
    BY <1>0, PulseItems
  <2> HIDE DEF b
  <2>2. Distinct(b)  BY <1>0, <2>1 DEF Distinct
  <2>3. \A i \in 1..Len(b) : Known(b[i], minted', emitted')
    BY <1>0, <1>1, <2>1 DEF Known
  <2> QED  BY <2>2, <2>3 DEF b
<1>6. CountHandler(q, stored, minted', emitted')
  BY <1>3, <1>5, CountArrival DEF CountInv
<1>7. \A k \in Handlers : CountHandler(req'[k], stored', minted', emitted')
  <2>1. stored' = stored /\ emitted \subseteq emitted'  BY <1>1
  <2> QED  BY <1>2, <1>3, <1>4, <1>6, <2>1, CountOne
<1>8. /\ \A s \in stored : Known(s.event, minted', emitted')
      /\ \A i \in 1..Len(posted) : Known(posted[i], minted', emitted')
  <2>1. /\ \A s \in stored : s.event \in Event
        /\ \A i \in 1..Len(posted) : posted[i] \in Event
        /\ emitted \subseteq emitted'
    BY <1>0, <1>1, ElementOfSeq DEF Stored
  <2> QED  BY <1>0, <1>4, <2>1, KnownMono DEF CountInv
<1>9. \A e \in emitted' : e.synthetic = "no" /\ e.id <= minted'
  BY <1>0, <1>1, <1>4 DEF CountInv, Event
<1>10. base' <= minted'  BY <1>0, <1>1, <1>4 DEF CountInv
<1>11. Unborn'  BY <1>1 DEF Unborn
<1> QED  BY <1>1, <1>7, <1>8, <1>9, <1>10, <1>11 DEF CountInv

\* A handler goes on, or gives up.
LEMMA CountHandle ==
  ASSUME IInv, CountInv, NEW h \in Handlers,
         \/ Refuse(h) \/ Authenticate(h) \/ Duplicate(h) \/ Examine(h)
         \/ Project(h) \/ CommitFails(h)
  PROVE  CountInv'
<1>0. /\ TypeOK /\ minted \in Nat /\ req \in [Handlers -> Request]
      /\ req[h] \in Request /\ health \in HealthRow /\ IsFiniteSet(stored)
      /\ CountHandler(req[h], stored, minted, emitted)
  BY DEF IInv, TypeOK, CountInv
<1>1. UNCHANGED <<sensor, health, stored, posted, emitted, minted, base>>
  BY DEF Refuse, Authenticate, Duplicate, Examine, Project, CommitFails, tables,
         collector
<1>2. \E q \in Request :
        /\ req' = [req EXCEPT ![h] = q]
        /\ CountHandler(q, stored, minted, emitted)
  <2>1. CASE Refuse(h) \/ CommitFails(h)
    BY <1>0, <2>1, CountIdle, IdleType DEF Refuse, CommitFails
  <2>2. CASE Authenticate(h)
    <3> DEFINE q == [req[h] EXCEPT !.pc = "examine", !.now = clock]
    <3>1. /\ q \in Request /\ q.read = req[h].read /\ q.was = req[h].was
          /\ q.is = req[h].is /\ q.adds = req[h].adds /\ q.pc = "examine"
          /\ q.todo = req[h].todo
      BY <1>0 DEF Request, Places, TypeOK
    <3>2. req' = [req EXCEPT ![h] = q]  BY <1>0, <2>2 DEF Authenticate
    <3>3. req[h].pc # "project"  BY <2>2 DEF Authenticate
    <3> HIDE DEF q
    <3>4. CountHandler(q, stored, minted, emitted)
      BY <1>0, <3>1, <3>3, CountShrink
    <3> QED  BY <3>1, <3>2, <3>4
  <2>3. CASE Duplicate(h)
    <3> DEFINE q == [req[h] EXCEPT !.todo = Tail(req[h].todo)]
    <3>1. req[h].todo # <<>> /\ Tail(req[h].todo) \in Seq(Event)
      <4>1. req[h].todo \in Seq(Event) /\ req[h].todo # <<>>
        BY <1>0, <2>3 DEF Request, Duplicate, Left
      <4> QED  BY <4>1, HeadTailProperties
    <3>2. /\ q \in Request /\ q.read = req[h].read /\ q.was = req[h].was
          /\ q.is = req[h].is /\ q.adds = req[h].adds /\ q.pc = "examine"
          /\ q.todo = Tail(req[h].todo)
      BY <1>0, <2>3, <3>1 DEF Request, Duplicate
    <3>3. req' = [req EXCEPT ![h] = q]  BY <1>0, <2>3 DEF Duplicate
    <3> HIDE DEF q
    <3>4. CountHandler(q, stored, minted, emitted)
      BY <1>0, <3>1, <3>2, CountShrink
    <3> QED  BY <3>2, <3>3, <3>4
  <2>4. CASE Examine(h)
    <3>1. PICK q \in Request :
           /\ req' = [req EXCEPT ![h] = q]
           /\ q.read = "yes" /\ q.was = WasHealth(h)
           /\ q.is = Heard(IsHealth(h), Head(req[h].todo), req[h].now)
           /\ q.adds = req[h].adds \cup {Row(Head(req[h].todo), req[h].now)}
           /\ \/ q.pc = "project" /\ q.todo = req[h].todo
              \/ q.pc = "examine" /\ q.todo = Tail(req[h].todo)
      BY <1>0, <2>4, ExamineEffect
    <3>2. req[h].pc = "examine" /\ req[h].todo # <<>>
      BY <2>4 DEF Examine, Left
    <3>3. health.total <= Cardinality(Observed(stored))  BY DEF CountInv
    <3>4. CountHandler(q, stored, minted, emitted)
      BY <1>0, <3>1, <3>2, <3>3, CountExamine DEF WasHealth, IsHealth
    <3> QED  BY <3>1, <3>4
  <2>5. CASE Project(h)
    <3>1. PICK q \in Request :
           /\ req' = [req EXCEPT ![h] = q]
           /\ q.read = req[h].read /\ q.was = req[h].was /\ q.is = req[h].is
           /\ q.adds = req[h].adds /\ q.pc = "examine"
           /\ req[h].todo # <<>> /\ q.todo = Tail(req[h].todo)
      BY <2>5, ProjectEffect
    <3>2. CountHandler(q, stored, minted, emitted)
      BY <1>0, <3>1, CountShrink
    <3> QED  BY <3>1, <3>2
  <2> QED  BY <2>1, <2>2, <2>3, <2>4, <2>5
<1>3. PICK q \in Request :
        /\ req' = [req EXCEPT ![h] = q]
        /\ CountHandler(q, stored, minted, emitted)
  BY <1>2
<1>4. \A k \in Handlers : CountHandler(req'[k], stored', minted', emitted')
  BY <1>0, <1>1, <1>3 DEF CountInv
<1>5. Unborn'
  <2>1. sensor # "none"
    BY DEF Unborn, CountInv, Refuse, Authenticate, Duplicate, Examine, Project,
           CommitFails, Idle
  <2> QED  BY <1>1, <2>1 DEF Unborn
<1> QED  BY <1>1, <1>4, <1>5 DEF CountInv

\* The commit: the counter goes up by no more than is stored.
LEMMA CountCommit ==
  ASSUME IInv, CountInv, NEW h \in Handlers, Commit(h)
  PROVE  CountInv'
<1> DEFINE q == req[h]
<1>0. /\ TypeOK /\ minted \in Nat /\ req \in [Handlers -> Request]
      /\ q \in Request /\ health \in HealthRow /\ IsFiniteSet(stored)
      /\ base \in Nat /\ CountHandler(q, stored, minted, emitted)
  BY DEF IInv, TypeOK, CountInv
<1>1. /\ stored' = stored \cup q.adds
      /\ health' = Written(health, q.was, q.is)
      /\ req' = [req EXCEPT ![h] = Idle]
      /\ base' \in {base, minted}
      /\ UNCHANGED <<sensor, posted, emitted, minted>>
  BY DEF Commit
<1>2. stored \cap q.adds = {}  BY DEF Commit, Clash
<1>3. IsFiniteSet(q.adds)  BY <1>0 DEF CountHandler, CountOK
<1>4. /\ IsFiniteSet(stored')
      /\ Cardinality(Observed(stored'))
           = Cardinality(Observed(stored)) + Cardinality(Observed(q.adds))
      /\ Cardinality(Observed(stored)) \in Nat
      /\ Cardinality(Observed(q.adds)) \in Nat
  BY <1>0, <1>1, <1>2, <1>3, ObservedUnion, ObservedFinite
<1>5. /\ q.was \in HealthRow /\ q.is \in HealthRow
      /\ q.was.total \in Nat /\ q.is.total \in Nat /\ health.total \in Nat
  BY <1>0 DEF Request, HealthRow
<1>6. health'.total \in {health.total, q.is.total}
  BY <1>0, <1>1, <1>5 DEF Written, HealthRow
<1>7. /\ q.was.total <= Cardinality(Observed(stored))
      /\ q.is.total <= q.was.total + Cardinality(Observed(q.adds))
      /\ health.total <= Cardinality(Observed(stored))
  BY <1>0 DEF CountHandler, CountOK, CountInv
<1>8. health'.total <= Cardinality(Observed(stored'))
  <2> HIDE DEF q
  <2> QED  BY <1>4, <1>5, <1>6, <1>7
<1>9. \A s \in stored' : Known(s.event, minted, emitted)
  BY <1>0, <1>1 DEF CountInv, CountHandler, EventsKnown
<1>10. ASSUME NEW k \in Handlers
       PROVE  CountHandler(req'[k], stored', minted, emitted)
  <2>1. CASE k = h
    BY <1>0, <1>1, <1>4, <2>1, CountIdle
  <2>2. CASE k # h
    <3>1. req'[k] = req[k] /\ req[k] \in Request  BY <1>0, <1>1, <2>2
    <3>2. CountHandler(req[k], stored, minted, emitted)  BY DEF CountInv
    <3>3. stored \subseteq stored' /\ minted <= minted  BY <1>0, <1>1
    <3> HIDE DEF q
    <3>4. CountHandler(req[k], stored', minted, emitted)
      BY <1>0, <1>4, <3>1, <3>2, <3>3, CountMono
    <3> QED  BY <3>1, <3>4
  <2> QED  BY <2>1, <2>2
<1>11. base' <= minted  BY <1>0, <1>1 DEF CountInv
<1>12. Unborn'
  <2>1. sensor # "none"  BY DEF Unborn, CountInv, Commit, Idle
  <2> QED  BY <1>1, <2>1 DEF Unborn
<1> QED  BY <1>1, <1>4, <1>8, <1>9, <1>10, <1>11, <1>12 DEF CountInv

\* CountInv is inductive, on top of IInv.
LEMMA CountInductive == Spec => []CountInv
<1>1. Init => CountInv
  <2> SUFFICES ASSUME Init  PROVE CountInv
    OBVIOUS
  <2>1. IsFiniteSet({}) /\ Cardinality(Observed({})) = 0
    BY FS_EmptySet DEF Observed
  <2>2. Unborn  BY DEF Init, Unborn
  <2>3. Len(<<>>) = 0 /\ Distinct(<<>>)  BY DEF Distinct
  <2>4. \A k \in Handlers : CountHandler(req[k], stored, minted, emitted)
    BY <2>1, CountIdle DEF Init
  <2>5. health.total = 0  BY DEF Init, NoHealth
  <2> QED  BY <2>1, <2>2, <2>3, <2>4, <2>5 DEF Init, CountInv
<1>2. IInv /\ CountInv /\ [Next]_vars => CountInv'
  <2> SUFFICES ASSUME IInv, CountInv, [Next]_vars  PROVE CountInv'
    OBVIOUS
  <2>1. CASE UNCHANGED vars
    BY <2>1 DEF vars, tables, collector, CountInv, Unborn
  <2>2. CASE Poll \/ Replay \/ Crash \/ Pulse
    BY <2>2, CountPoll, CountReplay, CountCrash, CountPulse
  <2>3. CASE \/ TimesOut \/ Restart \/ RegisterGateway \/ RegisterSensor
             \/ RevokeSensor \/ Tick \/ PulseRegisters \/ ReadHealth
             \/ MarkStale
    BY <2>3, CountCalm
  <2>4. CASE \E h \in Handlers : Handle(h)
    BY <2>4, CountHandle, CountCommit DEF Handle
  <2> QED  BY <2>1, <2>2, <2>3, <2>4 DEF Next, Step
<1> QED  BY <1>1, <1>2, Inductive, PTL DEF Spec

\* Whatever is replayed, posted twice at a time, rolled back or lost with the
\* server, ingest_event_batch never counts an event of the sensor that it
\* has not stored: the counter of SensorHealthState stays within the rows.
THEOREM CountsStored == Spec => []CountedIsStored
<1>1. CountInv => CountedIsStored
  BY DEF CountInv, CountedIsStored, Observed, ObservedEvents
<1> QED  BY <1>1, CountInductive, PTL

-----------------------------------------------------------------------------
(* Lemmas on the gaps of the stream.                                       *)

\* A request that has read nothing claims nothing.
LEMMA StreamFresh ==
  ASSUME NEW q, NEW row, NEW st, NEW em, NEW b, q.read = "no",
         q.was = NoHealth, q.is = NoHealth, q.adds = {}
  PROVE  StreamOK(q, row, st, em, b)
<1>1. q.was.warnings = {} /\ q.is.last = NoSeq /\ q.was.last = NoSeq
  BY DEF NoHealth
<1> QED  BY <1>1 DEF StreamOK, LastFrom, FirstOnes

\* A handler goes on with some of its events, the health row keeps its last
\* number and its warnings.
LEMMA StreamShrink ==
  ASSUME NEW q, NEW p, NEW row, NEW now, NEW st, NEW em, NEW b,
         p.read = q.read, p.was = q.was, p.is = q.is, p.adds = q.adds,
         now.last = row.last, now.warnings = row.warnings,
         \A i \in 1..Len(p.todo) : \E j \in 1..Len(q.todo) : p.todo[i] = q.todo[j],
         StreamOK(q, row, st, em, b)
  PROVE  StreamOK(p, now, st, em, b)
<1>1. FirstOnes(p, now, b)
  <2>1. FirstOnes(q, row, b)  BY DEF StreamOK
  <2> QED  BY <2>1 DEF FirstOnes
<1> QED  BY <1>1 DEF StreamOK

\* The numbers of what is known are those counted.
LEMMA KnownSeq ==
  ASSUME NEW s, NEW n, NEW em, NEW sq, Known(s.event, n, em), InOrder(em, sq),
         s.event.synthetic = "no"
  PROVE  s.event \in em /\ s.event.seq <= sq
BY DEF Known, InOrder

\* What the collector makes next is after everything known.
LEMMA GaplessNew ==
  ASSUME NEW es, NEW all, NEW em \in SUBSET Event, NEW fm \in SUBSET Event,
         NEW sq \in Nat, NEW n, NEW b, es \subseteq Stored,
         InOrder(em, sq), \A s \in es : Known(s.event, n, em),
         \A e \in fm : e \in em \/ e.seq > sq,
         Gapless(es, all, em, b)
  PROVE  Gapless(es, all, fm, b)
<1> SUFFICES ASSUME NEW s \in Observed(es), NEW e \in fm, e.id > b,
                    e.seq < s.event.seq
             PROVE  Holds(all, e)
  BY DEF Gapless
<1>1. s \in es /\ s.event.synthetic = "no" /\ s.event \in Event
  BY DEF Observed, Stored
<1>2. s.event.seq <= sq  BY <1>1, KnownSeq
<1>3. e.seq \in Nat /\ s.event.seq \in Nat  BY <1>1 DEF Event
<1>4. e \in em  BY <1>2, <1>3
<1> QED  BY <1>4 DEF Gapless

LEMMA GaplessToNew ==
  ASSUME NEW last \in Int, NEW all, NEW em \in SUBSET Event,
         NEW fm \in SUBSET Event, NEW sq \in Nat, NEW n, NEW b,
         InOrder(em, sq), \A s \in all : Known(s.event, n, em),
         \A e \in fm : e \in em \/ e.seq > sq, all \subseteq Stored,
         LastFrom(last, all), GaplessTo(last, all, em, b)
  PROVE  GaplessTo(last, all, fm, b)
<1> SUFFICES ASSUME NEW e \in fm, e.id > b, last < PulseSeq, e.seq <= last
             PROVE  Holds(all, e)
  BY DEF GaplessTo
<1>1. e.seq \in Nat /\ last # NoSeq  BY DEF Event, NoSeq
<1>2. PICK s \in Observed(all) : s.event.seq = last  BY <1>1 DEF LastFrom
<1>3. s \in all /\ s.event.synthetic = "no" /\ s.event \in Event
  BY DEF Observed, Stored
<1>4. last <= sq  BY <1>2, <1>3, KnownSeq
<1>5. e \in em  BY <1>1, <1>4
<1> QED  BY <1>5 DEF GaplessTo

\* More is stored, and more counts as before the first commit.
LEMMA GaplessMono ==
  ASSUME NEW es, NEW all, NEW wide, NEW em \in SUBSET Event, NEW b \in Nat,
         NEW c \in Nat, all \subseteq wide, b <= c, Gapless(es, all, em, b)
  PROVE  Gapless(es, wide, em, c)
BY DEF Gapless, Holds, Event

LEMMA GaplessToMono ==
  ASSUME NEW last, NEW all, NEW wide, NEW em \in SUBSET Event, NEW b \in Nat,
         NEW c \in Nat, all \subseteq wide, b <= c, GaplessTo(last, all, em, b)
  PROVE  GaplessTo(last, wide, em, c)
BY DEF GaplessTo, Holds, Event

LEMMA LastFromMono ==
  ASSUME NEW last, NEW all, NEW wide, all \subseteq wide, LastFrom(last, all)
  PROVE  LastFrom(last, wide)
BY DEF LastFrom, Observed

\* Without a warning, the table has everything up to its last number.
LEMMA TableUpTo ==
  ASSUME NEW row \in HealthRow, NEW st \in SUBSET Stored,
         NEW em \in SUBSET Event, NEW sq \in Nat, NEW n, NEW b,
         InOrder(em, sq), \A s \in st : Known(s.event, n, em),
         TablesOK(row, st, em, b), row.warnings = {}, row.last # NoSeq
  PROVE  GaplessTo(row.last, st, em, b)
<1> SUFFICES ASSUME NEW e \in em, e.id > b, row.last < PulseSeq,
                    e.seq <= row.last
             PROVE  Holds(st, e)
  BY DEF GaplessTo
<1>1. PICK s \in Observed(st) : s.event.seq = row.last
  BY DEF TablesOK, LastFrom
<1>2. s \in st /\ s.event.synthetic = "no" /\ s.event \in Event
  BY DEF Observed, Stored
<1>3. s.event \in em  BY <1>2, KnownSeq
<1>4. CASE e.seq = row.last
  <2>1. e = s.event  BY <1>1, <1>2, <1>3, <1>4 DEF InOrder, Event
  <2> QED  BY <1>2, <2>1 DEF Holds
<1>5. CASE e.seq # row.last
  <2>1. e.seq < s.event.seq  BY <1>1, <1>2, <1>5 DEF Event, HealthRow
  <2> QED  BY <2>1 DEF TablesOK, Gapless
<1> QED  BY <1>4, <1>5

\* Examining an event adds warnings and takes over its number.
LEMMA HeardStream ==
  ASSUME NEW row \in HealthRow, NEW e \in Event, NEW now \in Nat
  PROVE  /\ Heard(row, e, now).last = e.seq
         /\ row.warnings \subseteq Heard(row, e, now).warnings
         /\ e.synthetic = "no" /\ row.last # NoSeq
              /\ Heard(row, e, now).warnings = {}
            => e.seq \in {row.last, row.last + 1}
<1>1. CASE e.synthetic = "yes"
  BY <1>1 DEF Heard, HealthRow
<1>2. CASE e.synthetic # "yes"
  <2>1. /\ Heard(row, e, now).last = e.seq
        /\ Heard(row, e, now).warnings = row.warnings \cup Quality(row, e)
    BY <1>2 DEF Heard
  <2>2. ASSUME Quality(row, e) = {}, row.last # NoSeq
        PROVE  e.seq \in {row.last, row.last + 1}
    <3>1. ~ e.seq > row.last + 1  BY <2>2 DEF Quality, Warnings
    <3>2. ~ e.seq < row.last  BY <2>2 DEF Quality, Warnings
    <3>3. e.seq \in Int /\ row.last \in Int  BY DEF Event, HealthRow
    <3> QED  BY <3>1, <3>2, <3>3
  <2> QED  BY <2>1, <2>2
<1> QED  BY <1>1, <1>2

\* An event is examined.  Row is the health row a query would find.
LEMMA StreamExamine ==
  ASSUME NEW q \in Request, NEW p \in Request, NEW st \in SUBSET Stored, NEW n,
         NEW em \in SUBSET Event, NEW row \in HealthRow, NEW b \in Nat,
         NEW sq \in Nat, sq < PulseSeq,
         InOrder(em, sq), TablesOK(row, st, em, b),
         \A s \in st : Known(s.event, n, em),
         CountHandler(q, st, n, em), StreamOK(q, row, st, em, b),
         q.todo # <<>>,
         p.read = "yes",
         p.was = IF q.read = "yes" THEN q.was ELSE row,
         p.is = Heard(IF q.read = "yes" THEN q.is ELSE row, Head(q.todo), q.now),
         p.adds = q.adds \cup {Row(Head(q.todo), q.now)},
         \/ p.todo = q.todo
         \/ p.todo = Tail(q.todo)
  PROVE  StreamOK(p, row, st, em, b)
<1> DEFINE e == Head(q.todo)
           r == Row(e, q.now)
           is == IF q.read = "yes" THEN q.is ELSE row
           was == IF q.read = "yes" THEN q.was ELSE row
<1>1. /\ q.todo \in Seq(Event) /\ e \in Event /\ e = q.todo[1]
      /\ Len(q.todo) \in Nat /\ 1 \in 1..Len(q.todo)
      /\ q.now \in Nat /\ e.seq \in Nat /\ e.synthetic \in {"yes", "no"}
  <2>1. q.todo \in Seq(Event) /\ q.now \in Nat  BY DEF Request
  <2>2. e \in Event /\ e = q.todo[1]  BY <2>1, HeadTailProperties
  <2> QED  BY <2>1, <2>2, LenProperties DEF Event
<1>2. Pending(q) /\ EventsKnown(q, n, em) /\ ReadOK(q)  BY DEF CountHandler
<1>3. r.event = e  BY DEF Row
<1>4. is \in HealthRow /\ was \in HealthRow  BY DEF Request
<1>5. Known(e, n, em)  BY <1>1, <1>2 DEF EventsKnown
<1>6. /\ p.is.last = e.seq /\ is.warnings \subseteq p.is.warnings
      /\ e.synthetic = "no" /\ is.last # NoSeq /\ p.is.warnings = {}
           => e.seq \in {is.last, is.last + 1}
  <2> HIDE DEF is, e
  <2>1. p.is = Heard(is, e, q.now)  BY DEF is, e
  <2> QED  BY <1>1, <1>4, <2>1, HeardStream
<1>7. /\ was.warnings \subseteq is.warnings
      /\ was.warnings # {} => row.warnings # {}
      /\ was.last # NoSeq => row.last # NoSeq
  BY DEF StreamOK
<1>8. LastFrom(p.is.last, st \cup p.adds)
  <2>1. CASE e.synthetic = "yes"
    <3>1. e.seq >= PulseSeq  BY <1>5, <2>1 DEF Known
    <3> QED  BY <1>1, <1>6, <3>1, MonitoringAssumption DEF LastFrom
  <2>2. CASE e.synthetic = "no"
    <3>1. r \in Observed(st \cup p.adds) /\ r.event.seq = e.seq
      BY <1>3, <2>2 DEF Observed
    <3> QED  BY <1>6, <3>1 DEF LastFrom
  <2> QED  BY <1>1, <2>1, <2>2
<1>9. FirstOnes(p, row, b)
  <2> SUFFICES ASSUME p.was.last = NoSeq, row.last # NoSeq
               PROVE  /\ \A s \in p.adds : s.event.id <= b
                      /\ \A i \in 1..Len(p.todo) : p.todo[i].id <= b
    BY DEF FirstOnes
  <2>1. q.read = "yes" /\ q.was.last = NoSeq  OBVIOUS
  <2>2. /\ \A s \in q.adds : s.event.id <= b
        /\ \A i \in 1..Len(q.todo) : q.todo[i].id <= b
    BY <2>1 DEF StreamOK, FirstOnes
  <2>3. \A s \in p.adds : s.event.id <= b  BY <1>1, <1>3, <2>2
  <2>4. \A i \in 1..Len(p.todo) : p.todo[i].id <= b
    <3>1. CASE p.todo = q.todo  BY <2>2, <3>1
    <3>2. CASE p.todo = Tail(q.todo)
      BY <1>1, <1>2, <2>2, <3>2, TailDistinct DEF Pending
    <3> QED  BY <3>1, <3>2
  <2> QED  BY <2>3, <2>4
<1>10. ASSUME p.is.warnings = {}, p.was.last # NoSeq
       PROVE  /\ Gapless(p.adds, st \cup p.adds, em, b)
              /\ GaplessTo(p.is.last, st \cup p.adds, em, b)
  <2> DEFINE all == st \cup q.adds
  <2>1. is.warnings = {} /\ was.last # NoSeq  BY <1>6, <1>10
  <2>2. /\ is.last # NoSeq /\ Gapless(q.adds, all, em, b)
        /\ GaplessTo(is.last, all, em, b)
    <3>1. CASE q.read = "yes"
      BY <1>2, <2>1, <3>1 DEF StreamOK, ReadOK
    <3>2. CASE q.read # "yes"
      <4>1. q.adds = {} /\ is = row /\ was = row
        BY <1>2, <3>2 DEF ReadOK, Request
      <4>2. GaplessTo(row.last, st, em, b)  BY <2>1, <4>1, TableUpTo
      <4>3. all = st /\ Gapless(q.adds, all, em, b)
        BY <4>1 DEF Gapless, Observed
      <4> QED  BY <2>1, <4>1, <4>2, <4>3
    <3> QED  BY <3>1, <3>2
  <2> DEFINE wide == st \cup p.adds
  <2>3. all \subseteq wide /\ r \in wide /\ p.adds = q.adds \cup {r}  OBVIOUS
  <2>4. Gapless(q.adds, wide, em, b) /\ GaplessTo(is.last, wide, em, b)
    <3> HIDE DEF all, wide, is, r
    <3> QED  BY <2>2, <2>3, GaplessMono, GaplessToMono
  <2> HIDE DEF all, wide, is, was, r, e
  <2>5. CASE e.synthetic = "yes"
    <3>1. GaplessTo(p.is.last, wide, em, b)
      <4>1. p.is.last >= PulseSeq  BY <1>5, <1>6, <2>5 DEF Known
      <4> QED  BY <1>1, <1>6, <4>1, MonitoringAssumption DEF GaplessTo
    <3>2. Observed(p.adds) = Observed(q.adds)
      BY <1>3, <2>3, <2>5 DEF Observed
    <3>3. Gapless(p.adds, wide, em, b)  BY <2>4, <3>2 DEF Gapless
    <3> QED  BY <3>1, <3>3 DEF wide
  <2>6. CASE e.synthetic = "no"
    <3>1. e \in em /\ e.seq <= sq  BY <1>5, <2>6 DEF Known, InOrder
    <3>2. e.seq \in {is.last, is.last + 1}  BY <1>6, <1>10, <2>2, <2>6
    <3>3. is.last \in Int  BY <1>4 DEF HealthRow
    <3>4. is.last < PulseSeq
      BY <1>1, <3>1, <3>2, <3>3, MonitoringAssumption
    <3>5. ASSUME NEW f \in em, f.id > b, f.seq <= e.seq  PROVE Holds(wide, f)
      <4>1. f.seq \in Nat  BY DEF Event
      <4>2. CASE f.seq <= is.last
        BY <2>4, <3>4, <3>5, <4>2 DEF GaplessTo
      <4>3. CASE ~ f.seq <= is.last
        <5>1. f.seq = e.seq  BY <1>1, <3>2, <3>3, <3>5, <4>1, <4>3
        <5>2. f = e  BY <1>1, <3>1, <4>1, <5>1 DEF InOrder
        <5> QED  BY <1>3, <2>3, <5>2 DEF Holds
      <4> QED  BY <4>2, <4>3
    <3>6. GaplessTo(p.is.last, wide, em, b)
      BY <1>6, <3>5 DEF GaplessTo
    <3>7. Gapless(p.adds, wide, em, b)
      <4> SUFFICES ASSUME NEW s \in Observed(p.adds), NEW f \in em, f.id > b,
                          f.seq < s.event.seq
                   PROVE  Holds(wide, f)
        BY DEF Gapless
      <4>1. CASE s \in q.adds
        <5>1. s \in Observed(q.adds)  BY <4>1 DEF Observed
        <5> QED  BY <2>4, <5>1 DEF Gapless
      <4>2. CASE s = r
        <5>1. f.seq < e.seq /\ f.seq \in Nat  BY <1>3, <4>2 DEF Event
        <5> QED  BY <1>1, <3>5, <5>1
      <4> QED  BY <2>3, <4>1, <4>2 DEF Observed
    <3> QED  BY <3>6, <3>7 DEF wide
  <2> QED  BY <1>1, <2>5, <2>6
<1> QED  BY <1>6, <1>7, <1>8, <1>9, <1>10 DEF StreamOK

-----------------------------------------------------------------------------
(* The steps and the gaps.                                                 *)

\* Steps that neither count on nor store.
LEMMA StreamFrame ==
  ASSUME IInv, CountInv, StreamInv,
         UNCHANGED <<seq, session, emitted, stored, base>>,
         health'.last = health.last, health'.warnings = health.warnings,
         FirstCount => \A k \in Handlers :
           StreamOK(req'[k], health, stored, emitted, base)
  PROVE  StreamInv'
<1> SUFFICES ASSUME FirstCount'
             PROVE  /\ InOrder(emitted', seq')
                    /\ TablesOK(health', stored', emitted', base')
                    /\ \A k \in Handlers :
                         StreamOK(req'[k], health', stored', emitted', base')
  BY DEF StreamInv
<1>1. FirstCount  BY DEF FirstCount
<1>2. InOrder(emitted', seq')  BY <1>1 DEF StreamInv
<1>3. TablesOK(health', stored', emitted', base')
  BY <1>1 DEF StreamInv, TablesOK
<1>4. ASSUME NEW k \in Handlers
      PROVE  StreamOK(req'[k], health', stored', emitted', base')
  <2>1. StreamOK(req'[k], health, stored, emitted, base)  BY <1>1
  <2>2. \A i \in 1..Len(req'[k].todo) : \E j \in 1..Len(req'[k].todo) :
          req'[k].todo[i] = req'[k].todo[j]
    OBVIOUS
  <2>3. StreamOK(req'[k], health', stored, emitted, base)
    BY <2>1, <2>2, StreamShrink
  <2> QED  BY <2>3
<1> QED  BY <1>2, <1>3, <1>4

LEMMA StreamReplay ==
  ASSUME IInv, CountInv, StreamInv, Replay \/ Pulse  PROVE StreamInv'
<1>1. UNCHANGED <<seq, session, emitted, stored, health, base>>
  BY DEF Replay, Pulse, tables, collector
<1>2. \E h \in Handlers, q \in {[Idle EXCEPT !.pc = "auth", !.todo = posted],
             [Idle EXCEPT !.pc = "examine", !.todo = PulseBatch, !.now = clock]} :
        req' = [req EXCEPT ![h] = q]
  BY DEF Replay, Pulse, Arrives
<1>3. PICK h \in Handlers, q \in {[Idle EXCEPT !.pc = "auth", !.todo = posted],
             [Idle EXCEPT !.pc = "examine", !.todo = PulseBatch, !.now = clock]} :
        req' = [req EXCEPT ![h] = q]
  BY <1>2
<1>4. q.read = "no" /\ q.was = NoHealth /\ q.is = NoHealth /\ q.adds = {}
  BY DEF Idle
<1>5. StreamOK(q, health, stored, emitted, base)  BY <1>4, StreamFresh
<1>6. FirstCount => \A k \in Handlers :
        StreamOK(req'[k], health, stored, emitted, base)
  BY <1>3, <1>5 DEF StreamInv, IInv, TypeOK
<1> QED  BY <1>1, <1>6, StreamFrame

LEMMA StreamCalm ==
  ASSUME IInv, CountInv, StreamInv,
         \/ TimesOut \/ RegisterGateway \/ RegisterSensor \/ RevokeSensor
         \/ Tick \/ PulseRegisters \/ ReadHealth \/ MarkStale
  PROVE  StreamInv'
<1>1. UNCHANGED <<seq, session, emitted, stored, req, base>>
  BY DEF TimesOut, RegisterGateway, RegisterSensor, RevokeSensor, Tick,
         PulseRegisters, ReadHealth, MarkStale, tables, collector
<1>2. \/ health' = NoHealth /\ sensor = "none"
      \/ health' = [health EXCEPT !.current = "DISABLED"]
      \/ health' = health
  BY DEF TimesOut, RegisterGateway, RegisterSensor, RevokeSensor, Tick,
         PulseRegisters, ReadHealth, MarkStale, tables, collector
<1>3. health'.last = health.last /\ health'.warnings = health.warnings
  <2>1. health \in HealthRow  BY DEF IInv, TypeOK
  <2>2. sensor = "none" => health = NoHealth  BY DEF CountInv, Unborn
  <2> QED  BY <1>2, <2>1, <2>2 DEF HealthRow
<1>4. FirstCount => \A k \in Handlers :
        StreamOK(req'[k], health, stored, emitted, base)
  BY <1>1 DEF StreamInv
<1> QED  BY <1>1, <1>3, <1>4, StreamFrame

LEMMA StreamCrash ==
  ASSUME IInv, CountInv, StreamInv, Crash  PROVE StreamInv'
<1>1. /\ UNCHANGED <<seq, session, emitted, stored, health, base>>
      /\ req' = [h \in Handlers |-> Idle]
  BY DEF Crash, tables
<1>2. /\ Idle.read = "no" /\ Idle.was = NoHealth /\ Idle.is = NoHealth
      /\ Idle.adds = {}
  BY DEF Idle
<1>3. StreamOK(Idle, health, stored, emitted, base)  BY <1>2, StreamFresh
<1> QED  BY <1>1, <1>3, StreamFrame

LEMMA StreamRestart ==
  ASSUME IInv, Restart  PROVE StreamInv'
<1>1. session' # 0  BY DEF IInv, TypeOK, Restart
<1> QED  BY <1>1 DEF StreamInv, FirstCount

\* A handler goes on, or gives up.
LEMMA StreamHandle ==
  ASSUME IInv, CountInv, StreamInv, NEW h \in Handlers,
         \/ Refuse(h) \/ Authenticate(h) \/ Duplicate(h) \/ Examine(h)
         \/ Project(h) \/ CommitFails(h)
  PROVE  StreamInv'
<1>0. /\ TypeOK /\ req \in [Handlers -> Request] /\ base \in Nat /\ seq \in Nat
      /\ req[h] \in Request /\ health \in HealthRow /\ minted \in Nat
      /\ stored \in SUBSET Stored /\ emitted \in SUBSET Event
      /\ CountHandler(req[h], stored, minted, emitted)
      /\ \A s \in stored : Known(s.event, minted, emitted)
  BY DEF IInv, TypeOK, CountInv
<1>1. UNCHANGED <<seq, session, emitted, stored, health, base>>
  BY DEF Refuse, Authenticate, Duplicate, Examine, Project, CommitFails, tables,
         collector
<1>2. SUFFICES ASSUME FirstCount
      PROVE  \A k \in Handlers : StreamOK(req'[k], health, stored, emitted, base)
  BY <1>1, StreamFrame
<1>3. /\ InOrder(emitted, seq) /\ TablesOK(health, stored, emitted, base)
      /\ StreamOK(req[h], health, stored, emitted, base) /\ seq < PulseSeq
  BY <1>2 DEF StreamInv, FirstCount
<1>4. \E q \in Request :
        /\ req' = [req EXCEPT ![h] = q]
        /\ StreamOK(q, health, stored, emitted, base)
  <2>1. CASE Refuse(h) \/ CommitFails(h)
    <3>1. /\ Idle.read = "no" /\ Idle.was = NoHealth /\ Idle.is = NoHealth
          /\ Idle.adds = {}
      BY DEF Idle
    <3>2. StreamOK(Idle, health, stored, emitted, base)  BY <3>1, StreamFresh
    <3> QED  BY <2>1, <3>2, IdleType DEF Refuse, CommitFails
  <2>2. CASE Authenticate(h)
    <3> DEFINE q == [req[h] EXCEPT !.pc = "examine", !.now = clock]
    <3>1. /\ q \in Request /\ q.read = req[h].read /\ q.was = req[h].was
          /\ q.is = req[h].is /\ q.adds = req[h].adds
          /\ q.todo = req[h].todo
      BY <1>0 DEF Request, Places, TypeOK
    <3>2. req' = [req EXCEPT ![h] = q]  BY <1>0, <2>2 DEF Authenticate
    <3> HIDE DEF q
    <3>3. StreamOK(q, health, stored, emitted, base)
      BY <1>3, <3>1, StreamShrink
    <3> QED  BY <3>1, <3>2, <3>3
  <2>3. CASE Duplicate(h)
    <3> DEFINE q == [req[h] EXCEPT !.todo = Tail(req[h].todo)]
    <3>1. req[h].todo # <<>> /\ req[h].todo \in Seq(Event)
      BY <1>0, <2>3 DEF Request, Duplicate, Left
    <3>2. Tail(req[h].todo) \in Seq(Event) /\ Distinct(req[h].todo)
      BY <1>0, <3>1, HeadTailProperties DEF CountHandler, Pending
    <3>3. /\ q \in Request /\ q.read = req[h].read /\ q.was = req[h].was
          /\ q.is = req[h].is /\ q.adds = req[h].adds
          /\ q.todo = Tail(req[h].todo)
      BY <1>0, <3>2 DEF Request
    <3>4. req' = [req EXCEPT ![h] = q]  BY <1>0, <2>3 DEF Duplicate
    <3> HIDE DEF q
    <3>5. \A i \in 1..Len(q.todo) : \E j \in 1..Len(req[h].todo) :
            q.todo[i] = req[h].todo[j]
      BY <3>1, <3>2, <3>3, TailDistinct
    <3>6. StreamOK(q, health, stored, emitted, base)
      BY <1>3, <3>3, <3>5, StreamShrink
    <3> QED  BY <3>3, <3>4, <3>6
  <2>4. CASE Examine(h)
    <3>1. PICK q \in Request :
           /\ req' = [req EXCEPT ![h] = q]
           /\ q.read = "yes" /\ q.was = WasHealth(h)
           /\ q.is = Heard(IsHealth(h), Head(req[h].todo), req[h].now)
           /\ q.adds = req[h].adds \cup {Row(Head(req[h].todo), req[h].now)}
           /\ \/ q.pc = "project" /\ q.todo = req[h].todo
              \/ q.pc = "examine" /\ q.todo = Tail(req[h].todo)
      BY <1>0, <2>4, ExamineEffect
    <3>2. req[h].todo # <<>>  BY <2>4 DEF Examine, Left
    <3>3. StreamOK(q, health, stored, emitted, base)
      BY <1>0, <1>3, <3>1, <3>2, StreamExamine DEF WasHealth, IsHealth
    <3> QED  BY <3>1, <3>3
  <2>5. CASE Project(h)
    <3>1. PICK q \in Request :
           /\ req' = [req EXCEPT ![h] = q]
           /\ q.read = req[h].read /\ q.was = req[h].was /\ q.is = req[h].is
           /\ q.adds = req[h].adds /\ q.pc = "examine"
           /\ req[h].todo # <<>> /\ q.todo = Tail(req[h].todo)
      BY <2>5, ProjectEffect
    <3>2. req[h].todo \in Seq(Event) /\ Distinct(req[h].todo)
      BY <1>0 DEF Request, CountHandler, Pending
    <3>3. \A i \in 1..Len(q.todo) : \E j \in 1..Len(req[h].todo) :
            q.todo[i] = req[h].todo[j]
      BY <3>1, <3>2, TailDistinct
    <3>4. StreamOK(q, health, stored, emitted, base)
      BY <1>3, <3>1, <3>3, StreamShrink
    <3> QED  BY <3>1, <3>4
  <2> QED  BY <2>1, <2>2, <2>3, <2>4, <2>5
<1> QED  BY <1>0, <1>2, <1>4 DEF StreamInv

\* New events are numbered after the old ones.
LEMMA StreamPoll ==
  ASSUME IInv, CountInv, StreamInv, Poll  PROVE StreamInv'
<1>0. /\ TypeOK /\ req \in [Handlers -> Request] /\ base \in Nat /\ seq \in Nat
      /\ minted \in Nat /\ session \in Nat /\ health \in HealthRow
      /\ stored \in SUBSET Stored /\ emitted \in SUBSET Event
      /\ \A s \in stored : Known(s.event, minted, emitted)
      /\ \A e \in emitted : e.id <= minted
  BY DEF IInv, TypeOK, CountInv
<1>1. PICK report \in Reports :
        LET b == Batch(report) IN
          /\ posted' = b /\ seq' = seq + Len(b) /\ minted' = minted + Len(b)
          /\ emitted' = emitted \cup EventsOf(b)
          /\ \/ \E h \in Handlers : Arrives(h, b)
             \/ UNCHANGED <<req, waiting>>
  BY DEF Poll
<1> DEFINE b == Batch(report)
<1>2. /\ b \in Seq(Event) /\ Len(b) \in Nat /\ EventsOf(b) \subseteq Event
      /\ \A i \in 1..Len(b) : b[i].id = minted + i /\ b[i].seq = seq + i
  BY <1>0, BatchIsSeq, BatchItems
<1>3. /\ seq' = seq + Len(b) /\ emitted' = emitted \cup EventsOf(b)
      /\ UNCHANGED <<session, health, stored, base>>
      /\ (\E h \in Handlers : Arrives(h, b)) \/ req' = req
  BY <1>1 DEF Poll, tables
<1> HIDE DEF b
<1>4. \A e \in EventsOf(b) :
        \E i \in 1..Len(b) : e = b[i] /\ e.id = minted + i /\ e.seq = seq + i
  BY <1>2 DEF EventsOf
<1>5. seq' \in Nat /\ seq <= seq' /\ \A e \in EventsOf(b) : e.seq > seq
  BY <1>0, <1>2, <1>3, <1>4
<1>6. SUFFICES ASSUME FirstCount'
             PROVE  /\ InOrder(emitted', seq')
                    /\ TablesOK(health, stored, emitted', base)
                    /\ \A k \in Handlers :
                         StreamOK(req'[k], health, stored, emitted', base)
  BY <1>3 DEF StreamInv
<1>7. FirstCount  BY <1>0, <1>3, <1>5, <1>6, MonitoringAssumption DEF FirstCount
<1>8. /\ InOrder(emitted, seq) /\ TablesOK(health, stored, emitted, base)
      /\ \A k \in Handlers : StreamOK(req[k], health, stored, emitted, base)
  BY <1>7 DEF StreamInv
<1>9. InOrder(emitted', seq')
  <2>1. ASSUME NEW e \in emitted'  PROVE e.seq <= seq'
    <3>1. CASE e \in emitted  BY <1>0, <1>5, <1>8, <3>1 DEF InOrder, Event
    <3>2. CASE e \in EventsOf(b)  BY <1>0, <1>2, <1>3, <1>4, <3>2
    <3> QED  BY <1>3, <3>1, <3>2
  <2>2. ASSUME NEW e \in emitted', NEW f \in emitted', e.seq <= f.seq
        PROVE  e.id <= f.id /\ (e.seq = f.seq => e = f)
    <3>1. CASE e \in emitted /\ f \in emitted
      BY <1>8, <2>2, <3>1 DEF InOrder
    <3>2. CASE e \in emitted /\ f \in EventsOf(b)
      <4>1. e.seq <= seq /\ e.id <= minted /\ e.seq \in Nat /\ e.id \in Nat
        BY <1>0, <1>8, <3>2 DEF InOrder, Event
      <4> QED  BY <1>0, <1>4, <3>2, <4>1
    <3>3. CASE e \in EventsOf(b) /\ f \in emitted
      <4>1. f.seq <= seq /\ f.seq \in Nat
        BY <1>0, <1>8, <3>3 DEF InOrder, Event
      <4> QED  BY <1>0, <1>4, <2>2, <3>3, <4>1
    <3>4. CASE e \in EventsOf(b) /\ f \in EventsOf(b)
      <4>1. PICK i \in 1..Len(b) : e = b[i] /\ e.id = minted + i /\ e.seq = seq + i
        BY <1>4, <3>4
      <4>2. PICK j \in 1..Len(b) : f = b[j] /\ f.id = minted + j /\ f.seq = seq + j
        BY <1>4, <3>4
      <4>3. i <= j  BY <1>0, <2>2, <4>1, <4>2
      <4>4. e.id <= f.id  BY <1>0, <4>1, <4>2, <4>3
      <4>5. e.seq = f.seq => i = j  BY <1>0, <4>1, <4>2
      <4> QED  BY <4>1, <4>2, <4>4, <4>5
    <3> QED  BY <1>3, <3>1, <3>2, <3>3, <3>4
  <2> QED  BY <2>1, <2>2 DEF InOrder
<1>10. /\ emitted' \in SUBSET Event
       /\ \A e \in emitted' : e \in emitted \/ e.seq > seq
  BY <1>0, <1>2, <1>3, <1>5
<1>11. TablesOK(health, stored, emitted', base)
  <2>1. ASSUME health.warnings = {}
        PROVE  Gapless(stored, stored, emitted', base)
    <3>1. Gapless(stored, stored, emitted, base)  BY <1>8, <2>1 DEF TablesOK
    <3> QED  BY <1>0, <1>8, <1>10, <3>1, GaplessNew
  <2> QED  BY <1>8, <2>1 DEF TablesOK
<1>12. ASSUME NEW k \in Handlers
       PROVE  StreamOK(req[k], health, stored, emitted', base)
  <2> DEFINE q == req[k]
             all == stored \cup q.adds
  <2>1. /\ q \in Request /\ StreamOK(q, health, stored, emitted, base)
        /\ EventsKnown(q, minted, emitted)
    BY <1>0, <1>8 DEF CountInv, CountHandler
  <2>2. /\ q.adds \in SUBSET Stored /\ all \in SUBSET Stored /\ q.is.last \in Int
        /\ \A s \in q.adds : Known(s.event, minted, emitted)
        /\ \A s \in all : Known(s.event, minted, emitted)
    BY <1>0, <2>1 DEF Request, HealthRow, EventsKnown
  <2> HIDE DEF q
  <2>3. ASSUME q.is.warnings = {}, q.was.last # NoSeq
        PROVE  /\ Gapless(q.adds, all, emitted', base)
               /\ GaplessTo(q.is.last, all, emitted', base)
    <3>1. /\ Gapless(q.adds, all, emitted, base)
          /\ GaplessTo(q.is.last, all, emitted, base)
          /\ LastFrom(q.is.last, all)
      BY <2>1, <2>3 DEF StreamOK
    <3> HIDE DEF all
    <3>2. Gapless(q.adds, all, emitted', base)
      BY <1>0, <1>8, <1>10, <2>2, <3>1, GaplessNew
    <3>3. GaplessTo(q.is.last, all, emitted', base)
      BY <1>0, <1>8, <1>10, <2>2, <3>1, GaplessToNew
    <3> QED  BY <3>2, <3>3
  <2>4. StreamOK(q, health, stored, emitted', base)
    BY <2>1, <2>3 DEF StreamOK
  <2> QED  BY <2>4 DEF q
<1>13. ASSUME NEW k \in Handlers
       PROVE  StreamOK(req'[k], health, stored, emitted', base)
  <2>1. CASE \E h \in Handlers : Arrives(h, b)
    <3>1. PICK h \in Handlers :
            req' = [req EXCEPT ![h] = [Idle EXCEPT !.pc = "auth", !.todo = b]]
      BY <2>1 DEF Arrives
    <3> DEFINE q == [Idle EXCEPT !.pc = "auth", !.todo = b]
    <3>2. q.read = "no" /\ q.was = NoHealth /\ q.is = NoHealth /\ q.adds = {}
      BY DEF Idle
    <3> HIDE DEF q
    <3>3. StreamOK(q, health, stored, emitted', base)  BY <3>2, StreamFresh
    <3>4. req'[k] = q \/ req'[k] = req[k]  BY <1>0, <3>1 DEF q
    <3> QED  BY <1>12, <3>3, <3>4
  <2>2. CASE req' = req  BY <1>12, <2>2
  <2> QED  BY <1>3, <2>1, <2>2
<1> QED  BY <1>9, <1>11, <1>13

\* What a commit makes of the health row.
LEMMA WrittenStream ==
  ASSUME NEW now \in HealthRow, NEW was \in HealthRow, NEW is \in HealthRow
  PROVE  LET row == Written(now, was, is) IN
           /\ row.last = IF is.last = was.last THEN now.last ELSE is.last
           /\ row.warnings = IF is.warnings = was.warnings THEN now.warnings
                             ELSE is.warnings
BY DEF Written, HealthRow

\* A commit writes over what other handlers have written: a warning stays,
\* and what is stored without one has no gap since the first commit.
LEMMA StreamCommit ==
  ASSUME IInv, CountInv, StreamInv, NEW h \in Handlers, Commit(h)
  PROVE  StreamInv'
<1> DEFINE q == req[h]
<1>0. /\ TypeOK /\ req \in [Handlers -> Request] /\ base \in Nat /\ seq \in Nat
      /\ q \in Request /\ health \in HealthRow /\ minted \in Nat
      /\ stored \in SUBSET Stored /\ emitted \in SUBSET Event
      /\ base <= minted /\ \A e \in emitted : e.id <= minted
      /\ \A s \in stored : Known(s.event, minted, emitted)
      /\ CountHandler(q, stored, minted, emitted)
      /\ q.adds \in SUBSET Stored
  BY DEF IInv, TypeOK, CountInv, Request
<1>1. /\ stored' = stored \cup q.adds
      /\ health' = Written(health, q.was, q.is)
      /\ req' = [req EXCEPT ![h] = Idle]
      /\ base' = IF health.last = NoSeq /\ health'.last # NoSeq
                 THEN minted ELSE base
      /\ UNCHANGED <<seq, session, emitted>>
  BY DEF Commit
<1>2. SUFFICES ASSUME FirstCount
      PROVE  /\ TablesOK(health', stored', emitted, base')
             /\ \A k \in Handlers :
                  StreamOK(req'[k], health', stored', emitted, base')
  BY <1>1 DEF StreamInv, FirstCount
<1>3. /\ InOrder(emitted, seq) /\ TablesOK(health, stored, emitted, base)
      /\ \A k \in Handlers : StreamOK(req[k], health, stored, emitted, base)
  BY <1>2 DEF StreamInv
<1>4. /\ q.was.warnings \subseteq q.is.warnings
      /\ q.was.warnings # {} => health.warnings # {}
      /\ LastFrom(q.is.last, stored')
      /\ q.was.last # NoSeq => health.last # NoSeq
      /\ FirstOnes(q, health, base)
      /\ q.is.warnings = {} /\ q.was.last # NoSeq =>
           Gapless(q.adds, stored', emitted, base)
  BY <1>1, <1>3 DEF StreamOK
<1>5. /\ q.read = "no" => q.adds = {} /\ q.is.last = q.was.last
      /\ q.read = "yes" => q.is.last # NoSeq
      /\ q.read \in {"yes", "no"}
      /\ \A s \in q.adds : Known(s.event, minted, emitted)
  BY <1>0 DEF CountHandler, ReadOK, EventsKnown, Request
<1>6. /\ health'.last = IF q.is.last = q.was.last THEN health.last ELSE q.is.last
      /\ health'.warnings = IF q.is.warnings = q.was.warnings
                            THEN health.warnings ELSE q.is.warnings
  <2>1. q.was \in HealthRow /\ q.is \in HealthRow  BY <1>0 DEF Request
  <2> HIDE DEF q
  <2> QED  BY <1>0, <1>1, <2>1, WrittenStream
<1> HIDE DEF q
<1>7. base' \in Nat /\ base <= base' /\ stored \subseteq stored'
  BY <1>0, <1>1
<1>8. /\ health.warnings # {} => health'.warnings # {}
      /\ health.last # NoSeq => health'.last # NoSeq /\ base' = base
  <2>1. health.warnings # {} => health'.warnings # {}
    BY <1>4, <1>6
  <2>2. health.last # NoSeq => health'.last # NoSeq  BY <1>5, <1>6
  <2> QED  BY <1>1, <2>1, <2>2
<1>9. LastFrom(health'.last, stored')
  <2>1. LastFrom(health.last, stored')
    BY <1>3, <1>7, LastFromMono DEF TablesOK
  <2> QED  BY <1>4, <1>6, <2>1
<1>10. ASSUME health'.warnings = {}
       PROVE  Gapless(stored', stored', emitted, base')
  <2>1. health.warnings = {} /\ q.was.warnings = {} /\ q.is.warnings = {}
    BY <1>4, <1>6, <1>8, <1>10
  <2>2. Gapless(stored, stored', emitted, base')
    <3>1. Gapless(stored, stored, emitted, base)  BY <1>3, <2>1 DEF TablesOK
    <3> QED  BY <1>0, <1>7, <3>1, GaplessMono
  <2>3. Gapless(q.adds, stored', emitted, base')
    <3>1. CASE q.was.last # NoSeq
      <4>1. Gapless(q.adds, stored', emitted, base)  BY <1>4, <2>1, <3>1
      <4>2. base' = base  BY <1>4, <1>8, <3>1
      <4> QED  BY <4>1, <4>2
    <3>2. CASE q.read = "no"
      <4>1. Observed(q.adds) = {}  BY <1>5, <3>2 DEF Observed
      <4> QED  BY <4>1 DEF Gapless
    <3>3. CASE q.was.last = NoSeq /\ q.read = "yes" /\ health.last # NoSeq
      <4>1. base' = base /\ \A s \in q.adds : s.event.id <= base
        BY <1>4, <1>8, <3>3 DEF FirstOnes
      <4> SUFFICES ASSUME NEW s \in Observed(q.adds), NEW e \in emitted,
                          e.id > base, e.seq < s.event.seq
                   PROVE  FALSE
        BY <4>1 DEF Gapless
      <4>2. s \in q.adds /\ s.event.synthetic = "no" /\ s.event \in Event
        BY <1>0 DEF Observed, Stored
      <4>3. s.event \in emitted /\ s.event.id <= base
        BY <1>5, <4>1, <4>2 DEF Known
      <4>4. e.id <= s.event.id
        BY <1>0, <1>3, <4>2, <4>3 DEF InOrder, Event
      <4>5. e.id \in Nat /\ s.event.id \in Nat  BY <1>0, <4>2 DEF Event
      <4> QED  BY <1>0, <4>3, <4>4, <4>5
    <3>4. CASE q.was.last = NoSeq /\ q.read = "yes" /\ health.last = NoSeq
      <4>1. base' = minted  BY <1>1, <1>5, <1>6, <3>4
      <4>2. ASSUME NEW e \in emitted  PROVE ~ e.id > base'
        BY <1>0, <4>1 DEF Event
      <4> QED  BY <4>2 DEF Gapless
    <3> QED  BY <1>5, <3>1, <3>2, <3>3, <3>4
  <2> QED  BY <1>1, <2>2, <2>3 DEF Gapless, Observed
<1>11. TablesOK(health', stored', emitted, base')
  BY <1>9, <1>10 DEF TablesOK
<1>12. ASSUME NEW k \in Handlers, k # h
       PROVE  StreamOK(req[k], health', stored', emitted, base')
  <2> DEFINE p == req[k]
             all == stored \cup p.adds
             wide == stored' \cup p.adds
  <2>1. /\ p \in Request /\ StreamOK(p, health, stored, emitted, base)
        /\ EventsKnown(p, minted, emitted)
        /\ p.todo \in Seq(Event) /\ p.adds \in SUBSET Stored
    BY <1>0, <1>3 DEF CountInv, CountHandler, Request
  <2>2. all \subseteq wide  BY <1>7
  <2> HIDE DEF p
  <2>3. LastFrom(p.is.last, wide)
    <3>1. LastFrom(p.is.last, all)  BY <2>1 DEF StreamOK
    <3> HIDE DEF all, wide
    <3> QED  BY <2>2, <3>1, LastFromMono
  <2>4. FirstOnes(p, health', base')
    <3> SUFFICES ASSUME p.read = "yes", p.was.last = NoSeq, health'.last # NoSeq
                 PROVE  /\ \A s \in p.adds : s.event.id <= base'
                        /\ \A i \in 1..Len(p.todo) : p.todo[i].id <= base'
      BY DEF FirstOnes
    <3>1. CASE health.last # NoSeq
      BY <1>8, <2>1, <3>1 DEF StreamOK, FirstOnes
    <3>2. CASE health.last = NoSeq
      <4>1. base' = minted  BY <1>1, <3>2
      <4> QED  BY <2>1, <4>1 DEF EventsKnown, Known
    <3> QED  BY <3>1, <3>2
  <2>5. ASSUME p.is.warnings = {}, p.was.last # NoSeq
        PROVE  /\ Gapless(p.adds, wide, emitted, base')
               /\ GaplessTo(p.is.last, wide, emitted, base')
    <3>1. /\ Gapless(p.adds, all, emitted, base)
          /\ GaplessTo(p.is.last, all, emitted, base)
      BY <2>1, <2>5 DEF StreamOK
    <3> HIDE DEF all, wide
    <3> QED  BY <1>0, <1>7, <2>2, <3>1, GaplessMono, GaplessToMono
  <2>6. /\ p.was.warnings \subseteq p.is.warnings
        /\ p.was.warnings # {} => health'.warnings # {}
        /\ p.was.last # NoSeq => health'.last # NoSeq
    BY <1>8, <2>1 DEF StreamOK
  <2>7. StreamOK(p, health', stored', emitted, base')
    BY <2>3, <2>4, <2>5, <2>6 DEF StreamOK
  <2> QED  BY <2>7 DEF p
<1>13. ASSUME NEW k \in Handlers
       PROVE  StreamOK(req'[k], health', stored', emitted, base')
  <2>1. /\ Idle.read = "no" /\ Idle.was = NoHealth /\ Idle.is = NoHealth
        /\ Idle.adds = {}
    BY DEF Idle
  <2>2. StreamOK(Idle, health', stored', emitted, base')  BY <2>1, StreamFresh
  <2>3. k = h => req'[k] = Idle  BY <1>0, <1>1
  <2>4. k # h => req'[k] = req[k]  BY <1>0, <1>1
  <2> QED  BY <1>12, <2>2, <2>3, <2>4
<1> QED  BY <1>11, <1>13

\* StreamInv is inductive, on top of the other two.
LEMMA StreamInductive == Spec => []StreamInv
<1>1. Init => StreamInv
  <2> SUFFICES ASSUME Init  PROVE StreamInv
    OBVIOUS
  <2>1. /\ Idle.read = "no" /\ Idle.was = NoHealth /\ Idle.is = NoHealth
        /\ Idle.adds = {}
    BY DEF Idle
  <2>2. \A k \in Handlers : StreamOK(req[k], health, stored, emitted, base)
    BY <2>1, StreamFresh DEF Init
  <2>3. health.last = NoSeq  BY DEF Init, NoHealth
  <2>4. TablesOK(health, stored, emitted, base)
    BY <2>3 DEF Init, TablesOK, LastFrom, Gapless
  <2>5. InOrder(emitted, seq)  BY DEF Init, InOrder
  <2> QED  BY <2>2, <2>4, <2>5 DEF StreamInv
<1>2. IInv /\ CountInv /\ StreamInv /\ [Next]_vars => StreamInv'
  <2> SUFFICES ASSUME IInv, CountInv, StreamInv, [Next]_vars  PROVE StreamInv'
    OBVIOUS
  <2>1. CASE UNCHANGED vars
    BY <2>1 DEF vars, tables, collector, StreamInv, FirstCount
  <2>2. CASE Poll \/ Replay \/ Restart \/ Crash \/ Pulse
    BY <2>2, StreamPoll, StreamReplay, StreamRestart, StreamCrash
  <2>3. CASE \/ TimesOut \/ RegisterGateway \/ RegisterSensor \/ RevokeSensor
             \/ Tick \/ PulseRegisters \/ ReadHealth \/ MarkStale
    BY <2>3, StreamCalm
  <2>4. CASE \E h \in Handlers : Handle(h)
    BY <2>4, StreamHandle, StreamCommit DEF Handle
  <2> QED  BY <2>1, <2>2, <2>3, <2>4 DEF Next, Step
<1> QED  BY <1>1, <1>2, Inductive, CountInductive, PTL DEF Spec

\* Gap detection finds losses: while the collector runs its first session, an
\* event it made after the first commit that is missing from the table below
\* a stored one has left a quality warning on the sensor, however its batches
\* overlap, fail, time out, are replayed or meet a pulse.
THEOREM LossFlagged == Spec => []LossIsFlagged
<1>1. CountInv /\ StreamInv => LossIsFlagged
  <2> SUFFICES ASSUME CountInv, StreamInv, session = 0, seq < PulseSeq,
                      NEW e \in emitted, e.id > base,
                      \A s \in stored : s.event.id # e.id,
                      NEW o \in ObservedEvents, o.event.seq > e.seq,
                      health.warnings = {}
               PROVE  FALSE
    BY DEF LossIsFlagged
  <2>1. Gapless(stored, stored, emitted, base)
    BY DEF StreamInv, FirstCount, TablesOK
  <2>2. o \in Observed(stored)  BY DEF ObservedEvents, Observed
  <2>3. Holds(stored, e)  BY <2>1, <2>2 DEF Gapless
  <2> QED  BY <2>3 DEF Holds
<1> QED  BY <1>1, CountInductive, StreamInductive, PTL

=============================================================================
