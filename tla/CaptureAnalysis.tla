--------------------------- MODULE CaptureAnalysis ---------------------------
(***************************************************************************)
(* From the wire to the report: the captures of Assessment are what        *)
(* Normalization makes of dissected packets. Packets is the set of packets *)
(* that can be captured; Frames, of Assessment, is what they become.       *)
(***************************************************************************)
EXTENDS Assessment, Normalization

CONSTANT Packets

\* Packets differ in what the analysis keeps of them, so that a frame of the
\* capture stands for one packet.
ASSUME CaptureAssumption ==
    /\ Frames = {FrameOf(p) : p \in Packets}
    /\ Cardinality(Frames) = Cardinality(Packets)

\* An IP header is of one of two versions, the dicts met below an IKE layer are a
\* list, and tshark finds an SPI in every AH header it dissects: parse_ah_layer makes
\* no row of a header without a field, and _normalize_packets counts it.
ASSUME PacketAssumption ==
    \A p \in Packets :
        /\ p.ip \in {"IPv4", "IPv6", Absent}
        /\ p.isakmp # Absent => LET nodes == p.isakmp.nodes
                                IN  /\ Len(nodes) \in Nat
                                    /\ nodes = [k \in 1..Len(nodes) |-> nodes[k]]
        /\ p.ah # Absent => p.ah.spi # Absent

\* The packet of a frame and the observations made of it.
PacketOf == [f \in Frames |-> CHOOSE p \in Packets : FrameOf(p) = f]
ObservedIn == [f \in Frames |-> ToSet(Observations(PacketOf[f]))]

\* The dissected packets of the capture, and the rows written for them.
Dissected == [n \in DOMAIN capture |-> PacketOf[capture[n]]]
Written == Rows([n \in DOMAIN capture |-> ObservedIn[capture[n]]])

(***************************************************************************)
(* Properties                                                              *)
(***************************************************************************)
\* The summary read from the stored rows is the one the analysis returned, but for
\* the total, which then counts the frames with an observation only
\* (get_protocol_summary recomputes what _normalize_packets had counted).
SummaryReadBack ==
    LET returned == RunSummary(Dissected, Written)
        stored == get_protocol_summary(Written)
    IN  stored = [returned EXCEPT !.packet_counts.total = stored.packet_counts.total]

\* What was only offered is not taken for what was negotiated: the encryption and
\* the group reported of an SA were named in a message that knows the responder's
\* SPI, as no offer does that opens a session, also when the capture begins in
\* mid-exchange, is out of order or holds repetitions (parse_ike_layer,
\* build_parent_ike_sa). Who sent that message is not looked at.
ReportedIsSelected ==
    \A k \in DOMAIN tables.sessions :
        LET sa == tables.sessions[k].sa
            session == {capture[n] : n \in ToSet(tables.sessions[k].session.frames)}
            KnowsResponder(f) == \E o \in ObservedIn[f] :
                o.field = "ike.responder_spi" /\ o.value # "0"
            ChosenAs(type, algorithm) ==
                \E f \in {g \in session : KnowsResponder(g)} : \E o \in ObservedIn[f] :
                    /\ o.value = algorithm
                    /\ \/ o.field = "ike.transform" /\ o.type = type
                       \/ o.field = "ike.ke.dh_group" /\ type = "DH"
        IN  sa # Absent =>
                /\ sa.encryption_algorithm # Absent => ChosenAs("ENCR", sa.encryption_algorithm)
                /\ sa.dh_group # Absent => ChosenAs("DH", sa.dh_group)

=============================================================================
