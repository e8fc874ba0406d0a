---------------------------- MODULE Reconstruction ----------------------------
(***************************************************************************)
(* Stage 4 of an analysis (backend/app/reconstruction): the IKE sessions,  *)
(* parent SAs, Child SAs, ESP streams and flows that                       *)
(* execute_reconstruction writes for a capture.                            *)
(*                                                                         *)
(* A capture is a sequence of frames, a frame the fields the dissector     *)
(* made observations of. Frame numbers are positions in the sequence;      *)
(* packet times need not follow them, so every stage works on the frames   *)
(* ordered by time and number.                                             *)
(***************************************************************************)
EXTENDS Integers, Sequences, FiniteSets, SequencesExt

CONSTANTS
    Absent,        \* a field, an identifier or an algorithm that is None
    IdleTimeout,   \* DEFAULT_FLOW_IDLE_TIMEOUT_SEC
    KeyBits,       \* key length in a transform's name, for the names that end in one
    Aead           \* the encryption transforms with GCM in their name

\* Frame m comes before frame n: by key, and by number where the keys are equal.
Before(key, m, n) == key[m] < key[n] \/ (key[m] = key[n] /\ m < n)

\* The frames of a set in that order: the k-th has k - 1 others before it.
Sorted(key, S) ==
    [k \in 1..Cardinality(S) |->
        CHOOSE n \in S : Cardinality({m \in S : Before(key, m, n)}) = k - 1]

\* order_by(packet_time, frame_number): a set of frames in processing order.
Ordered(c, S) == Sorted([n \in DOMAIN c |-> c[n].time], S)

\* The members of a sequence in the order of their first occurrence: the keys
\* of a dict filled in that order.
Noted(acc, x) == IF Contains(acc, x) THEN acc ELSE Append(acc, x)

Distinct(s) == FoldLeft(Noted, <<>>, s)

(***************************************************************************)
(* IKE sessions: one per initiator SPI                                     *)
(***************************************************************************)
\* extract_events_from_observations: frames without an initiator SPI are dropped.
IkeEvents(c) == {n \in DOMAIN c : c[n].proto = "IKE" /\ c[n].ispi # Absent}

SessionKeys(c) ==
    LET ev == Ordered(c, IkeEvents(c)) IN Distinct([k \in DOMAIN ev |-> c[ev[k]].ispi])

SessionEvents(c, ispi) == Ordered(c, {n \in IkeEvents(c) : c[n].ispi = ispi})

\* The event whose responder SPI the session keeps: the first that has one.
FirstAnswer(c, ev) == SelectInSeq(ev, LAMBDA n : c[n].rspi)

\* An event is a retransmission if its message id, exchange and sender were seen.
Retransmissions(c, ev) ==
    Len(ev) - Cardinality({<<c[ev[j]].message_id, c[ev[j]].exchange, c[ev[j]].src>>
                             : j \in DOMAIN ev})

\* correlate_sessions, for one initiator SPI. The first event opens the session
\* and is never looked at for IKE_AUTH.
correlate_session(c, ispi) ==
    LET ev == SessionEvents(c, ispi)
        first == c[Head(ev)]
        k == FirstAnswer(c, ev)
        authenticated == \E j \in 2..Len(ev) : c[ev[j]].exchange = "IKE_AUTH"
        rekeyed == \E j \in 2..Len(ev) : /\ c[ev[j]].exchange = "CREATE_CHILD_SA"
                                         /\ \A i \in j..Len(ev) : c[ev[i]].exchange # "IKE_AUTH"
    IN  [ispi |-> ispi,
         ike_version |-> first.version,
         initiator |-> first.src,
         responder |-> IF k > 1 /\ c[ev[k]].src # first.src
                       THEN c[ev[k]].src ELSE first.dst,
         lifecycle |-> IF authenticated /\ ~(rekeyed /\ k = 0) THEN "ACTIVE_INFERRED"
                       ELSE IF k = 0 THEN "PARTIAL" ELSE "INIT_SEEN",
         is_nat_detected |-> \E j \in DOMAIN ev : c[ev[j]].natt,
         retransmissions |-> Retransmissions(c, ev),
         frames |-> ev]

(***************************************************************************)
(* The parent IKE SA of a session                                          *)
(***************************************************************************)
TransformTypes == {"ENCR", "PRF", "INTEG", "DH"}

\* Mutant: the responder SPI is not asked for.
AnyLaterInit(c, ev, n) == c[n].message_id = 0 /\ n > Head(ev)

\* Taken for an IKE_SA_INIT answer: it names the responder, has message id 0 or one
\* that cannot be read, and is not the session's first frame. Its sender and its
\* exchange are not looked at.
IsAnswer(c, ev, n) == c[n].rspi /\ c[n].message_id = 0 /\ n > Head(ev)

\* The frame whose transform of this type is the last one selected, 0 if none.
SelectedIn(c, ev, type) ==
    SelectLastInSeq(ev, LAMBDA n : IsAnswer(c, ev, n) /\ type \in DOMAIN c[n].transforms)

Selected(c, ev, type) ==
    LET k == SelectedIn(c, ev, type)
    IN  IF k = 0 THEN Absent ELSE c[ev[k]].transforms[type]

\* build_parent_ike_sa. Without a transform in any event there is no SA; with
\* proposals only, the SA has no algorithms.
build_parent_ike_sa(c, ispi) ==
    LET ev == SessionEvents(c, ispi)
    IN  IF \A k \in DOMAIN ev : DOMAIN c[ev[k]].transforms = {}
        THEN Absent
        ELSE LET encr == Selected(c, ev, "ENCR")
                 integ == Selected(c, ev, "INTEG")
             IN  [encryption_algorithm |-> encr,
                  key_length_bits |-> IF encr \in DOMAIN KeyBits THEN KeyBits[encr]
                                      ELSE Absent,
                  prf_algorithm |-> Selected(c, ev, "PRF"),
                  integrity_algorithm |-> IF integ = Absent /\ encr \in Aead
                                          THEN "NONE / NOT_APPLICABLE" ELSE integ,
                  dh_group |-> Selected(c, ev, "DH"),
                  selection_evidence_state |->
                      IF \E t \in TransformTypes : SelectedIn(c, ev, t) # 0
                      THEN "VERIFIED" ELSE "UNKNOWN"]

(***************************************************************************)
(* Child SAs: the directional SPIs of the whole capture, paired greedily,  *)
(* once for every session                                                  *)
(***************************************************************************)
EspFrames(c) == Ordered(c, {n \in DOMAIN c : c[n].proto = "ESP"})

DirKey(c, n) == [src |-> c[n].src, dst |-> c[n].dst, spi |-> c[n].spi]

DirectionalSpis(c) ==
    LET esp == EspFrames(c) IN Distinct([k \in DOMAIN esp |-> DirKey(c, esp[k])])

Opposite(a, b) == a.src = b.dst /\ a.dst = b.src

\* For each key not yet consumed, the first later one in the other direction.
Paired(keys, acc, i) ==
    LET later == {j \in (i + 1)..Len(keys) : j \notin acc.used /\ Opposite(keys[i], keys[j])}
        mate == IF later = {} THEN 0 ELSE Min(later)
    IN  IF i \in acc.used THEN acc
        ELSE [used |-> acc.used \cup {i, mate},
              pairs |-> Append(acc.pairs,
                          [inbound |-> keys[i],
                           outbound |-> IF mate = 0 THEN Absent ELSE keys[mate]])]

Indices(s) == [i \in DOMAIN s |-> i]

SpiPairs(c) ==
    LET keys == DirectionalSpis(c)
    IN  FoldLeft(LAMBDA acc, i : Paired(keys, acc, i), [used |-> {}, pairs |-> <<>>],
                 Indices(keys)).pairs

\* Mode and PFS of every Child SA built under a session (Absent: no session).
SessionMode(c, ispi) ==
    IF \E n \in ToSet(SessionEvents(c, ispi)) : c[n].transport
    THEN "TRANSPORT" ELSE "UNKNOWN"

RekeyGroup(c, ispi) ==
    LET ev == SessionEvents(c, ispi)
        k == SelectLastInSeq(ev, LAMBDA n : /\ c[n].exchange = "CREATE_CHILD_SA"
                                            /\ "DH" \in DOMAIN c[n].transforms)
    IN  IF k = 0 THEN Absent ELSE c[ev[k]].transforms["DH"]

build_child_sas(c, ispi, parent) ==
    LET pairs == SpiPairs(c)
        group == RekeyGroup(c, ispi)
        mode == SessionMode(c, ispi)
    IN  [k \in DOMAIN pairs |->
            [id |-> <<ispi, k>>,
             parent |-> IF parent = Absent THEN Absent ELSE ispi,
             inbound |-> pairs[k].inbound,
             outbound |-> pairs[k].outbound,
             mode |-> mode,
             pfs_dh_group |-> group,
             pfs_status |-> IF group = Absent THEN "UNKNOWN" ELSE "ENABLED"]]

(***************************************************************************)
(* ESP streams and flows                                                   *)
(***************************************************************************)
\* A frame extends the active stream of its direction and SPI; after a gap longer
\* than the idle timeout that one is closed and a new one takes its place.
Placed(c, acc, n) ==
    LET i == SelectInSeq(acc.active, LAMBDA s : s.key = DirKey(c, n))
        new == [key |-> DirKey(c, n), frames |-> <<n>>]
        old == acc.active[i]
    IN  IF i = 0
        THEN [closed |-> acc.closed, active |-> Append(acc.active, new)]
        ELSE IF c[n].time - c[Last(old.frames)].time > IdleTimeout
        THEN [closed |-> Append(acc.closed, old), active |-> [acc.active EXCEPT ![i] = new]]
        ELSE [closed |-> acc.closed,
              active |-> [acc.active EXCEPT
                            ![i] = [key |-> old.key, frames |-> Append(old.frames, n)]]]

build_directional_streams(c) ==
    LET all == FoldLeft(LAMBDA acc, n : Placed(c, acc, n), [closed |-> <<>>, active |-> <<>>],
                        EspFrames(c))
    IN  all.closed \o all.active

Keyed(child) ==
    IF child.outbound = Absent THEN {} ELSE {child.inbound.spi, child.outbound.spi}

\* child_sa_by_spis[(spi1, spi2)]: the last Child SA written under the pair.
ChildOf(children, spi1, spi2) ==
    SelectLastInSeq(children, LAMBDA ch : ch.outbound # Absent
                                          /\ \/ <<ch.inbound.spi, ch.outbound.spi>> = <<spi1, spi2>>
                                             \/ <<ch.outbound.spi, ch.inbound.spi>> = <<spi1, spi2>>)

KnownSpis(children) ==
    UNION {{children[k].inbound.spi} \cup Keyed(children[k]) : k \in DOMAIN children}

\* Mutant: streams that a flow already holds are offered again.
FirstOpposite(streams, children, used, i) ==
    LET candidates == {j \in (i + 1)..Len(streams) : Opposite(streams[i].key, streams[j].key)}
    IN  IF candidates = {} THEN 0 ELSE Min(candidates)

\* The stream that pair_flows joins to stream i: the first one that a Child SA
\* links to it, else the first one if neither SPI belongs to any Child SA.
PartnerOf(streams, children, used, i) ==
    LET candidates == {j \in (i + 1)..Len(streams) :
                         j \notin used /\ Opposite(streams[i].key, streams[j].key)}
        linked == {j \in candidates :
                     ChildOf(children, streams[i].key.spi, streams[j].key.spi) # 0}
        free == {j \in candidates :
                   {streams[i].key.spi, streams[j].key.spi} \cap KnownSpis(children) = {}}
    IN  IF linked # {} THEN Min(linked) ELSE IF free # {} THEN Min(free) ELSE 0

\* The flow of streams i and j, in the order of their first frames; j is 0 for none.
FlowOf(c, streams, children, i, j) ==
    LET s1 == streams[i]
        s2 == streams[j]
        inOrder == c[Head(s1.frames)].time <= c[Head(s2.frames)].time
        link == ChildOf(children, s1.key.spi, s2.key.spi)
    IN  IF j = 0
        THEN [forward |-> s1, reverse |-> Absent, child |-> Absent,
              state |-> "UNPAIRED_UNIDIRECTIONAL"]
        ELSE [forward |-> IF inOrder THEN s1 ELSE s2,
              reverse |-> IF inOrder THEN s2 ELSE s1,
              child |-> IF link = 0 THEN Absent ELSE children[link].id,
              state |-> "PAIRED_BIDIRECTIONAL"]

Joined(c, streams, children, acc, i) ==
    LET j == PartnerOf(streams, children, acc.used, i)
    IN  IF i \in acc.used THEN acc
        ELSE [used |-> acc.used \cup {i, j},
              flows |-> Append(acc.flows, FlowOf(c, streams, children, i, j))]

pair_flows(c, streams, children) ==
    FoldLeft(LAMBDA acc, i : Joined(c, streams, children, acc, i), [used |-> {}, flows |-> <<>>],
             Indices(streams)).flows

(***************************************************************************)
(* execute_reconstruction: what the tables hold afterwards. Earlier rows   *)
(* are deleted first, so the result depends on the capture alone.          *)
(***************************************************************************)
execute_reconstruction(c) ==
    LET keys == SessionKeys(c)
        sessions == [k \in DOMAIN keys |->
                       [session |-> correlate_session(c, keys[k]),
                        sa |-> build_parent_ike_sa(c, keys[k])]]
        children == IF keys = <<>> THEN build_child_sas(c, Absent, Absent)
                    ELSE FoldLeft(LAMBDA acc, s : acc \o build_child_sas(c, s.session.ispi, s.sa),
                                  <<>>, sessions)
    IN  [sessions |-> sessions,
         children |-> children,
         flows |-> pair_flows(c, build_directional_streams(c), children)]

=============================================================================
