----------------------------- MODULE Monitoring -----------------------------
(***************************************************************************)
(* Continuous monitoring of one gateway by one sensor: the collector on    *)
(* the gateway, which posts batches of events and never waits longer than  *)
(* its timeout, the ingestion of a batch (events, sensor health, security  *)
(* associations, WebSocket feed), the demonstration pulse, the health page *)
(* and the administrator.                                                  *)
(*                                                                         *)
(* A step of a handler ends at an await whose answer it uses later.  The   *)
(* session has autoflush off, so a query does not see what the handler has *)
(* added, and the commit writes only the columns whose value the handler   *)
(* has changed.  Columns that are only displayed (counters of drops and    *)
(* gaps, endpoints, cipher suite, reasons) are left out.                   *)
(***************************************************************************)
EXTENDS Integers, Sequences, FiniteSets

CONSTANTS
  Handlers,      \* requests the server works on at a time
  NoHandler,     \* the collector is not waiting for an answer
  Spis,          \* security association identifiers
  ZeroSpi,       \* stands in for an SPI the sensor could not tell
  Lifecycle,     \* event kinds a sensor other than the collector posts
  MaxTunnels,    \* bound on the connections swanctl lists
  MaxBatchSize,  \* MonitoringEventBatchRequest.events, max_length
  MaxPosts,      \* bound on the batches a sensor makes
  Deployments,   \* the settings the server may run with
  MaxIncidents,  \* bound on the replays, restarts, crashes, pulses and
                 \* revocations, and the freshness windows that pass
  PulseSeq       \* the Unix time a pulse uses as its sequence number

IkeKinds   == {"IKE_INIT", "IKE_ESTABLISHED", "IKE_FAILED"}
ChildKinds == {"CHILD_ESTABLISHED", "CHILD_REKEYED", "CHILD_EXPIRED",
               "CHILD_DELETED"}
OtherKinds == {"HEARTBEAT", "CAPTURE_FAILED", "CAPTURE_DROPS"}
SaKinds    == IkeKinds \cup ChildKinds
Kinds      == SaKinds \cup OtherKinds

ASSUME MonitoringAssumption ==
  /\ NoHandler \notin Handlers
  /\ ZeroSpi \in Spis
  /\ Lifecycle \subseteq Kinds
  /\ MaxTunnels \in Nat /\ MaxBatchSize \in Nat /\ MaxPosts \in Nat
  /\ MaxIncidents \in Nat /\ PulseSeq \in Nat
  /\ Deployments \subseteq [local : BOOLEAN, shared : BOOLEAN]

VARIABLES
  deployed,   \* local: settings.MONITORING_ALLOW_UNAUTHENTICATED_LOCAL;
              \* shared: another active sensor has the same gateway and scope
  clock,      \* server time
  gateway,    \* status of the MonitoredGateway row
  sensor,     \* status of the MonitoredSensor row
  health,     \* the SensorHealthState row
  rows,       \* the MonitoredSAState rows
  stored,     \* the MonitoringEvent rows
  announced,  \* the events broadcast to the WebSocket subscribers
  req,        \* what each handler of POST /events is doing
  page,       \* what the handler of GET /health is doing
  seq,        \* the collector's sequence_number
  session,    \* ... its session_id
  waiting,    \* ... the handler whose answer it waits for
  posted,     \* ... the batch it has sent last
  posts,      \* ... the batches it has made
  incidents,  \* ... replays, restarts, pulses and the like so far
  minted,     \* event identifiers so far
  emitted,    \* every event the sensor has made, sent or lost
  base        \* minted, when the health row first got a sequence number

tables    == <<health, rows, stored>>
collector == <<seq, session, waiting, posted, posts, emitted>>
vars == <<deployed, clock, gateway, sensor, tables, announced, req, page, collector,
          incidents, minted, base>>

NoSeq  == -1   \* last_sequence_number is NULL
NoTime == -1   \* last_received_at is NULL

Event == [id : Nat, seq : Nat, session : Nat, kind : Kinds, spi : Spis,
          synthetic : {"yes", "no"}]

\* state_map
StateOf == [IKE_INIT |-> "INITIATING", IKE_ESTABLISHED |-> "ESTABLISHED",
            IKE_FAILED |-> "FAILED", CHILD_ESTABLISHED |-> "ESTABLISHED",
            CHILD_REKEYED |-> "REKEYED", CHILD_EXPIRED |-> "EXPIRED",
            CHILD_DELETED |-> "DELETED"]
SaStates == {"INITIATING", "ESTABLISHED", "FAILED", "REKEYED", "EXPIRED",
             "DELETED"}

TypeOf(kind) == IF kind \in IkeKinds THEN "IKE_SA" ELSE "CHILD_SA"

Warnings     == {"GAP", "RESET", "DROPS"}
SensorHealth == {"UNKNOWN", "HEALTHY", "DEGRADED", "UNAVAILABLE", "DISABLED"}
HealthRow == [total : Nat, last : Int, warnings : SUBSET Warnings,
              current : SensorHealth, received : Int]
SaRow     == [id : Nat, type : {"IKE_SA", "CHILD_SA"}, spi : Spis,
              state : SaStates, event : Nat, stale : {"yes", "no"}]

NoHealth == [total |-> 0, last |-> NoSeq, warnings |-> {},
             current |-> "UNKNOWN", received |-> NoTime]

Places    == {"idle", "auth", "examine", "project"}

\* A handler: the events left, the time it began, the health row as it read
\* and as it has changed it, the events it adds, and the rows it has read
\* and changed or adds.
Stored    == [event : Event, received : Nat]
Request   == [pc : Places, todo : Seq(Event), now : Nat, read : {"yes", "no"},
              was : HealthRow, is : HealthRow, adds : SUBSET Stored,
              held : SUBSET [was : SaRow, is : SaRow], news : SUBSET SaRow]

Idle == [pc |-> "idle", todo |-> <<>>, now |-> 0, read |-> "no",
         was |-> NoHealth, is |-> NoHealth, adds |-> {}, held |-> {},
         news |-> {}]

-----------------------------------------------------------------------------
(* The collector on the gateway.                                           *)

\* One heartbeat, and an event for the IKE SA and one for the Child SA of
\* each of n connections; their SPIs are not found in swanctl's output.
Listing(n) ==
  [i \in 1..(2 * n + 1) |->
     [kind |-> IF i = 1 THEN "HEARTBEAT"
               ELSE IF i % 2 = 0 THEN "IKE_ESTABLISHED"
               ELSE "CHILD_ESTABLISHED",
      spi |-> ZeroSpi]]

Reports == {Listing(n) : n \in 0..MaxTunnels}
             \cup {<<item>> : item \in [kind : Lifecycle, spi : Spis]}

\* The report as a batch: identifiers are new, sequence numbers count on.
Batch(report) ==
  [i \in 1..Len(report) |->
     [id |-> minted + i, seq |-> seq + i, session |-> session,
      kind |-> report[i].kind, spi |-> report[i].spi, synthetic |-> "no"]]

EventsOf(batch) == {batch[i] : i \in 1..Len(batch)}

Arrives(h, batch) ==
  /\ req[h].pc = "idle"
  /\ req' = [req EXCEPT ![h] = [Idle EXCEPT !.pc = "auth", !.todo = batch]]
  /\ waiting' = h

\* One round of the loop of a collector set up with the sensor's identity
\* and token; the request may not reach the server.
Poll ==
  /\ sensor # "none"
  /\ waiting = NoHandler /\ posts < MaxPosts
  /\ \E report \in Reports : LET b == Batch(report) IN
       /\ posted' = b
       /\ seq' = seq + Len(b)
       /\ minted' = minted + Len(b)
       /\ emitted' = emitted \cup EventsOf(b)
       /\ \/ \E h \in Handlers : Arrives(h, b)
          \/ UNCHANGED <<req, waiting>>
  /\ posts' = posts + 1
  /\ UNCHANGED <<clock, gateway, sensor, tables, announced, page, session,
                 incidents, base>>

\* A client posts the batch again (the collector itself never does).
Replay ==
  /\ waiting = NoHandler /\ posted # <<>>
  /\ \E h \in Handlers : Arrives(h, posted)
  /\ incidents < MaxIncidents /\ incidents' = incidents + 1
  /\ UNCHANGED <<clock, gateway, sensor, tables, announced, page, seq, session,
                 posted, posts, emitted, minted, base>>

\* urlopen gives up after 10 s; the server goes on.
TimesOut ==
  /\ waiting # NoHandler
  /\ waiting' = NoHandler
  /\ UNCHANGED <<clock, gateway, sensor, tables, announced, req, page, seq,
                 session, posted, posts, emitted, incidents, minted, base>>

\* A new process counts from zero under a new session identifier.
Restart ==
  /\ session' = session + 1
  /\ seq' = 0 /\ waiting' = NoHandler /\ posted' = <<>>
  /\ incidents < MaxIncidents /\ incidents' = incidents + 1
  /\ UNCHANGED <<clock, gateway, sensor, tables, announced, req, page, posts,
                 emitted, minted, base>>

-----------------------------------------------------------------------------
(* The administrator and time.                                             *)

RegisterGateway ==
  /\ gateway = "none"
  /\ gateway' = "ACTIVE"
  /\ UNCHANGED <<clock, sensor, tables, announced, req, page, collector,
                 incidents, minted, base>>

RegisterSensor ==
  /\ gateway = "ACTIVE" /\ sensor = "none"
  /\ sensor' = "ACTIVE" /\ health' = NoHealth
  /\ UNCHANGED <<clock, gateway, rows, stored, announced, req, page, collector,
                 incidents, minted, base>>


RevokeSensor ==
  /\ sensor # "none"
  /\ sensor' = "REVOKED"
  /\ health' = [health EXCEPT !.current = "DISABLED"]
  /\ incidents < MaxIncidents /\ incidents' = incidents + 1
  /\ UNCHANGED <<clock, gateway, rows, stored, announced, req, page, collector,
                 minted, base>>

\* A freshness window passes.
Tick ==
  /\ clock' = clock + 1
  /\ incidents < MaxIncidents /\ incidents' = incidents + 1
  /\ UNCHANGED <<gateway, sensor, tables, announced, req, page, collector,
                 minted, base>>
-----------------------------------------------------------------------------
(* POST /events: authentication, then ingest_event_batch.                  *)

Left(h)  == req[h].todo
Ids(es)  == {e.id : e \in es}
Answered(h) == IF waiting = h THEN NoHandler ELSE waiting

\* The sensor's own token needs an active sensor.  The token of another one
\* also does, for only the gateway and the scope of an event are compared, and
\* so does none, on the server's host, in the unauthenticated local mode.
LetIn == sensor = "ACTIVE" \/ deployed.shared \/ deployed.local

\* 422, 401 or 403: the batch is too long, or came with no token or the token
\* of a sensor that is not active.
Refuse(h) ==
  /\ req[h].pc = "auth"
  /\ \/ Len(Left(h)) > MaxBatchSize
     \/ sensor # "ACTIVE" \/ ~deployed.local
  /\ req' = [req EXCEPT ![h] = Idle]
  /\ waiting' = Answered(h)
  /\ UNCHANGED <<clock, gateway, sensor, tables, announced, page, seq, session,
                 posted, posts, emitted, incidents, minted, base>>

\* Mutant: a token is accepted whatever the sensor's status.
Authenticate_AnyStatus(h) ==
  /\ req[h].pc = "auth"
  /\ Len(Left(h)) <= MaxBatchSize
  /\ req' = [req EXCEPT ![h].pc = "examine", ![h].now = clock]
  /\ UNCHANGED <<clock, gateway, sensor, tables, announced, page, collector,
                 incidents, minted, base>>


Authenticate(h) ==
  /\ req[h].pc = "auth"
  /\ LetIn /\ Len(Left(h)) <= MaxBatchSize
  /\ req' = [req EXCEPT ![h].pc = "examine", ![h].now = clock]
  /\ UNCHANGED <<clock, gateway, sensor, tables, announced, page, collector,
                 incidents, minted, base>>

\* Mutant: one missing event is no gap.
Quality_OffByOne(row, e) ==
  {w \in Warnings :
     \/ w = "GAP"   /\ row.last # NoSeq /\ e.seq > row.last + 2
     \/ w = "RESET" /\ row.last # NoSeq /\ e.seq < row.last
     \/ w = "DROPS" /\ e.kind = "CAPTURE_DROPS"}

\* Step 5 to 7: what the event says about the quality of the stream.
Quality(row, e) ==
  {w \in Warnings :
     \/ w = "GAP"   /\ row.last # NoSeq /\ e.seq > row.last + 1
     \/ w = "RESET" /\ row.last # NoSeq /\ e.seq < row.last
     \/ w = "DROPS" /\ e.kind = "CAPTURE_DROPS"}

\* Step 9: the health row after the event, received by a handler of time now.
\* A synthetic event moves last_sequence_number, and nothing else here.
Heard(row, e, now) ==
  LET warned == row.warnings \cup Quality(row, e)
  IN IF e.synthetic = "yes" THEN [row EXCEPT !.last = e.seq]
     ELSE [total    |-> row.total + 1,
           last     |-> e.seq,
           warnings |-> warned,
           current  |-> IF e.kind = "CAPTURE_FAILED" THEN "UNAVAILABLE"
                        ELSE IF warned # {} THEN "DEGRADED" ELSE "HEALTHY",
           received |-> now]

\* The event, as the row to store.
Row(e, now) == [event |-> e, received |-> now]

\* An event that is already stored is skipped.
Duplicate(h) ==
  /\ req[h].pc = "examine" /\ Left(h) # <<>>
  /\ \E s \in stored : s.event.id = Head(Left(h)).id
  /\ req' = [req EXCEPT ![h].todo = Tail(@)]
  /\ UNCHANGED <<clock, gateway, sensor, tables, announced, page, collector,
                 incidents, minted, base>>

\* The first event that is not makes the handler read the health row.
WasHealth(h) == IF req[h].read = "yes" THEN req[h].was ELSE health
IsHealth(h)  == IF req[h].read = "yes" THEN req[h].is ELSE health

Examined(h, e, pc, todo) ==
  [req[h] EXCEPT !.read = "yes", !.was = WasHealth(h),
                 !.is = Heard(IsHealth(h), e, req[h].now),
                 !.adds = req[h].adds \cup {Row(e, req[h].now)},
                 !.pc = pc, !.todo = todo]

\* An event of no security association, or a synthetic one, is then done.
Examine(h) ==
  /\ req[h].pc = "examine" /\ Left(h) # <<>>
  /\ LET e == Head(Left(h)) IN
       /\ \A s \in stored : s.event.id # e.id
       /\ \/ /\ e.synthetic = "no" /\ e.kind \in SaKinds
             /\ req' = [req EXCEPT ![h] = Examined(h, e, "project", Left(h))]
             /\ announced' = announced
          \/ /\ ~(e.synthetic = "no" /\ e.kind \in SaKinds)
             /\ req' = [req EXCEPT ![h] = Examined(h, e, "examine", Tail(Left(h)))]
             /\ announced' = announced \cup {e.id}
  /\ UNCHANGED <<clock, gateway, sensor, tables, page, collector, incidents,
                 minted, base>>

\* What a query for the event's security association finds.
Found(e) == {r \in rows : r.type = TypeOf(e.kind) /\ r.spi = e.spi}

\* A row read before keeps the values the handler gave it.
Holding(h, r) ==
  IF \E x \in req[h].held : x.was.id = r.id
  THEN CHOOSE x \in req[h].held : x.was.id = r.id
  ELSE [was |-> r, is |-> r]

NewRow(e) == [id |-> e.id, type |-> TypeOf(e.kind), spi |-> e.spi,
              state |-> StateOf[e.kind], event |-> e.id, stale |-> "no"]

Inserted(h, e) ==
  [req[h] EXCEPT !.news = req[h].news \cup {NewRow(e)},
                 !.pc = "examine", !.todo = Tail(Left(h))]

Updated(h, e, x) ==
  [req[h] EXCEPT !.held = (req[h].held \ {x}) \cup
                   {[was |-> x.was, is |-> [x.is EXCEPT !.state = StateOf[e.kind],
                                                        !.event = e.id]]},
                 !.pc = "examine", !.todo = Tail(Left(h))]

\* _project_sa_state, and the broadcast that follows.
Project(h) ==
  /\ req[h].pc = "project"
  /\ LET e == Head(Left(h)) IN
       /\ \/ /\ Found(e) = {}
             /\ req' = [req EXCEPT ![h] = Inserted(h, e)]
          \/ \E r \in Found(e) :
               req' = [req EXCEPT ![h] = Updated(h, e, Holding(h, r))]
       /\ announced' = announced \cup {e.id}
  /\ UNCHANGED <<clock, gateway, sensor, tables, page, collector, incidents,
                 minted, base>>

-----------------------------------------------------------------------------
(* The commit.                                                             *)

\* uq_monitoring_sensor_event and uq_gateway_sa_identity.  The second does
\* not bind IKE SAs, whose child_spi_in is NULL.
Clash(h) ==
  \/ \E s \in req[h].adds, t \in stored : s.event.id = t.event.id
  \/ \E s, t \in req[h].adds : s # t /\ s.event.id = t.event.id
  \/ \E r \in req[h].news, q \in req[h].news \cup rows :
        r # q /\ r.type = "CHILD_SA" /\ q.type = "CHILD_SA" /\ r.spi = q.spi

\* The columns the handler has changed, over the row as it is now.
Written(now, was, is) ==
  [c \in DOMAIN now |-> IF is[c] = was[c] THEN now[c] ELSE is[c]]

Saved(h, r) ==
  IF \E x \in req[h].held : x.was.id = r.id
  THEN Written(r, Holding(h, r).was, Holding(h, r).is)
  ELSE r

Commit(h) ==
  /\ req[h].pc = "examine" /\ Left(h) = <<>>
  /\ ~Clash(h)
  /\ stored' = stored \cup req[h].adds
  /\ health' = Written(health, req[h].was, req[h].is)
  /\ rows'   = {Saved(h, r) : r \in rows} \cup req[h].news
  /\ base'   = IF health.last = NoSeq /\ health'.last # NoSeq
               THEN minted ELSE base
  /\ req'    = [req EXCEPT ![h] = Idle]
  /\ waiting' = Answered(h)
  /\ UNCHANGED <<clock, gateway, sensor, announced, page, seq, session, posted,
                 posts, emitted, incidents, minted>>

\* Mutant: only the inserts are rolled back.
CommitFails_KeepsHealth(h) ==
  /\ req[h].pc = "examine" /\ Left(h) = <<>>
  /\ Clash(h)
  /\ health' = Written(health, req[h].was, req[h].is)
  /\ req' = [req EXCEPT ![h] = Idle]
  /\ waiting' = Answered(h)
  /\ UNCHANGED <<clock, gateway, sensor, rows, stored, announced, page, seq,
                 session, posted, posts, emitted, incidents, minted, base>>

\* IntegrityError: the session is rolled back and the answer is a 500.
CommitFails(h) ==
  /\ req[h].pc = "examine" /\ Left(h) = <<>>
  /\ Clash(h)
  /\ req' = [req EXCEPT ![h] = Idle]
  /\ waiting' = Answered(h)
  /\ UNCHANGED <<clock, gateway, sensor, tables, announced, page, seq, session,
                 posted, posts, emitted, incidents, minted, base>>

\* The server's process dies with the requests it worked on.
Crash ==
  /\ page # "idle" \/ \E h \in Handlers : req[h].pc # "idle"
  /\ req' = [h \in Handlers |-> Idle]
  /\ page' = "idle"
  /\ waiting' = NoHandler
  /\ incidents < MaxIncidents /\ incidents' = incidents + 1
  /\ UNCHANGED <<clock, gateway, sensor, tables, announced, seq, session,
                 posted, posts, emitted, minted, base>>

-----------------------------------------------------------------------------
(* POST /pulse: a synthetic heartbeat and IKE SA for an active sensor.     *)

PulseBatch ==
  [i \in 1..2 |-> [id |-> minted + i, seq |-> PulseSeq + i - 1, session |-> 0,
                   kind |-> IF i = 1 THEN "HEARTBEAT" ELSE "IKE_ESTABLISHED",
                   spi |-> ZeroSpi, synthetic |-> "yes"]]

Pulse ==
  /\ sensor = "ACTIVE"
  /\ \E h \in Handlers :
       /\ req[h].pc = "idle"
       /\ req' = [req EXCEPT ![h] = [Idle EXCEPT !.pc = "examine",
                                                 !.todo = PulseBatch,
                                                 !.now = clock]]
  /\ minted' = minted + 2
  /\ incidents < MaxIncidents /\ incidents' = incidents + 1
  /\ UNCHANGED <<clock, gateway, sensor, tables, announced, page, collector, base>>

\* Without one, the handler registers what is missing and then fails on
\* reg.sensor: register_sensor has returned a pair.
PulseRegisters ==
  /\ sensor = "none"
  /\ gateway' = "ACTIVE" /\ sensor' = "ACTIVE" /\ health' = NoHealth
  /\ UNCHANGED <<clock, rows, stored, announced, req, page, collector, incidents,
                 minted, base>>

-----------------------------------------------------------------------------
(* GET /health.                                                            *)

\* The status shown for the sensor.
Shown ==
  IF sensor = "REVOKED" THEN "DISABLED"
  ELSE IF health.total = 0 \/ health.received = NoTime THEN "UNKNOWN"
  ELSE IF clock > health.received THEN "STALE"
  ELSE health.current

\* A stale sensor's live associations are marked, in a second transaction.
ReadHealth ==
  /\ page = "idle" /\ sensor = "ACTIVE" /\ Shown = "STALE"
  /\ page' = "mark"
  /\ UNCHANGED <<clock, gateway, sensor, tables, announced, req, collector,
                 incidents, minted, base>>

\* Mutant: silence deletes the associations.
MarkStale_Deletes ==
  /\ page = "mark"
  /\ rows' = {IF r.state \in {"ESTABLISHED", "REKEYED"}
              THEN [r EXCEPT !.state = "DELETED"] ELSE r : r \in rows}
  /\ page' = "idle"
  /\ UNCHANGED <<clock, gateway, sensor, health, stored, announced, req,
                 collector, incidents, minted, base>>

\* _mark_sensor_sas_stale
MarkStale ==
  /\ page = "mark"
  /\ rows' = {IF r.state \in {"ESTABLISHED", "REKEYED"}
              THEN [r EXCEPT !.stale = "yes"] ELSE r : r \in rows}
  /\ page' = "idle"
  /\ UNCHANGED <<clock, gateway, sensor, health, stored, announced, req,
                 collector, incidents, minted, base>>

-----------------------------------------------------------------------------
Init ==
  /\ deployed \in Deployments
  /\ clock = 0 /\ gateway = "none" /\ sensor = "none"
  /\ health = NoHealth /\ rows = {} /\ stored = {} /\ announced = {}
  /\ req = [h \in Handlers |-> Idle] /\ page = "idle"
  /\ seq = 0 /\ session = 0 /\ waiting = NoHandler /\ posted = <<>>
  /\ posts = 0 /\ incidents = 0 /\ minted = 0 /\ emitted = {} /\ base = 0

Handle(h) ==
  \/ Refuse(h) \/ Authenticate(h) \/ Duplicate(h) \/ Examine(h)
  \/ Project(h) \/ Commit(h) \/ CommitFails(h)

Step ==
  \/ Poll \/ Replay \/ TimesOut \/ Restart
  \/ RegisterGateway \/ RegisterSensor \/ RevokeSensor \/ Tick
  \/ \E h \in Handlers : Handle(h)
  \/ Crash \/ Pulse \/ PulseRegisters \/ ReadHealth \/ MarkStale

Next == Step /\ UNCHANGED deployed

Spec == Init /\ [][Next]_vars

-----------------------------------------------------------------------------
(* Properties.                                                             *)

\* Types of the tables, the handlers and the collector; deployed is constant.
TypeOK ==
  /\ clock \in Nat
  /\ gateway \in {"none", "ACTIVE"} /\ sensor \in {"none", "ACTIVE", "REVOKED"}
  /\ health \in HealthRow /\ rows \subseteq SaRow /\ stored \subseteq Stored
  /\ announced \subseteq Nat
  /\ req \in [Handlers -> Request] /\ page \in {"idle", "mark"}
  /\ seq \in Nat /\ session \in Nat /\ waiting \in Handlers \cup {NoHandler}
  /\ posted \in Seq(Event) /\ posts \in Nat /\ incidents \in Nat
  /\ minted \in Nat /\ emitted \subseteq Event /\ base \in Nat

ObservedEvents == {s \in stored : s.event.synthetic = "no"}

\* ingest_event_batch counts an event when it stores it, in one commit: the
\* sensor's counter never exceeds the events of the sensor that are stored,
\* whatever is replayed, posted twice at a time or rolled back.
CountedIsStored == health.total <= Cardinality(ObservedEvents)

\* A stored event that says something about the association of row r.
Supports(s, r) ==
  /\ s.event.synthetic = "no" /\ s.event.kind \in SaKinds
  /\ TypeOf(s.event.kind) = r.type /\ s.event.spi = r.spi

\* The projection of a security association rests on evidence: the event a
\* row cites is stored, observed and about that association, and so is an
\* event that gives the row's state.  No pulse, no rolled back batch and no
\* silence of the sensor sets the state (the SA non-deletion invariant).
SaRestsOnEvidence ==
  \A r \in rows :
    /\ \E s \in stored : Supports(s, r) /\ s.event.id = r.event
    /\ \E s \in stored : Supports(s, r) /\ StateOf[s.event.kind] = r.state

\* Gap detection finds losses: when an event of the collector is not stored
\* and a later one is, the sensor carries a quality warning, whatever is
\* lost, overlaps, fails or is replayed.  Events made before the first commit
\* are excepted, for the row had no sequence number to compare with, and so
\* is everything after a restart: the server compares the numbers of the new
\* process with those of the old one.  A pulse writes the time, which the
\* counter stays below, over the last sequence number.
LossIsFlagged ==
  session = 0 /\ seq < PulseSeq =>
    \A e \in emitted :
      ( /\ e.id > base /\ \A s \in stored : s.event.id # e.id
        /\ \E o \in ObservedEvents : o.event.seq > e.seq )
      => health.warnings # {}

\* Every batch must carry a token, and no other sensor's serves.
Strict == ~deployed.local /\ ~deployed.shared

\* The requests that are not past authentication.
Outside == {h \in Handlers : req[h].pc \in {"idle", "auth"}}

\* Where a token is required, as the settings demand of production, and no
\* other sensor shares the gateway and the scope, revocation is final: only
\* the batches authenticated before it go on, none joins them, be it new,
\* replayed or a pulse's, and when they are through the sensor's events and
\* counters stay as they are.
RevokedIsSilent ==
  [][ Strict /\ sensor = "REVOKED" =>
        /\ sensor' = "REVOKED" /\ Outside \subseteq Outside'
        /\ Outside = Handlers =>
             stored' = stored /\ health'.total = health.total ]_vars

=============================================================================
