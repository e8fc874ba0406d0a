------------------------------ MODULE Assessment ------------------------------
(***************************************************************************)
(* Stage 8 of an analysis (backend/app/security): the reconstructed        *)
(* entities become facts, the facts are judged by the policy bundle, the   *)
(* verdicts become findings, evidence gaps, a score, a risk tier, threats  *)
(* and a provenance graph (SecurityAssessmentService.run_assessment).      *)
(*                                                                         *)
(* The state is one analysis: the capture, the tables reconstructed from   *)
(* it and the report. A step analyses the same capture with one frame      *)
(* more, which is what an evidence gap recommends to the analyst.          *)
(***************************************************************************)
EXTENDS PolicyLogic, Reconstruction

CONSTANTS
    Frames,         \* what can be captured
    MaxFrames,      \* bound on the length of a capture
    ActiveRules,    \* the rules of the profile, in the order of their ids
    CaptureNames,   \* file names (and run ids), by the words the normalizer looks for
    AeadCiphers,    \* is_aead_cipher: the transforms with GCM or ChaCha20-Poly1305
    DhGroup         \* _extract_dh_group_int: the group number of a DH transform

\* get_active_bundle: compiled when the service starts, applied by every analysis.
Bundle == ActiveRules

VARIABLES
    name,       \* cap_ref: Capture.original_filename and the id of the run
    capture,    \* the frames, in the order of the file
    tables,     \* rows of execute_reconstruction
    report      \* rows of run_assessment

vars == <<name, capture, tables, report>>

RuleFields(rule) ==
    rule.evidence_requirements \cup Fields(rule.assertion) \cup ApplicabilityFields(rule)

\* As in policies/rules, a rule is about one kind of subject and none is about
\* pfs_dh_group, the one fact that only some Child SAs have.
ASSUME AssessmentAssumption ==
    /\ MaxFrames \in Nat
    /\ None = Absent
    /\ \A i \in DOMAIN Bundle :
        /\ Bundle[i].evidence_requirements # {}
        /\ \A k, l \in RuleFields(Bundle[i]) : k[1] = l[1]
        /\ <<"child_sa", "pfs_dh_group">> \notin RuleFields(Bundle[i])

\* Times are numbers, ESP is dissected with a sequence number (so a flow always has
\* sequence data), a transform that was read has a name, and None is neither a record
\* nor the name of a group or of a truth value.
ASSUME FrameAssumption ==
    LET esp == {f \in Frames : f.proto = "ESP"}
        ike == {f \in Frames : f.proto = "IKE"}
        keys == {[src |-> f.src, dst |-> f.dst, spi |-> f.spi] : f \in esp}
        names == UNION {{f.transforms[type] : type \in DOMAIN f.transforms} : f \in ike}
    IN  /\ IdleTimeout \in Nat
        /\ \A f \in Frames : f.time \in Int
        /\ \A f \in esp : f.seq \in Int
        /\ Absent \notin keys \cup [key : keys, frames : Seq(Nat)]
        /\ Absent \notin names \cup DOMAIN DhGroup \cup {"True", "False"}
        /\ Absent \notin [encryption_algorithm : names \cup {Absent},
                         key_length_bits : {KeyBits[e] : e \in DOMAIN KeyBits} \cup {Absent},
                         prf_algorithm : names \cup {Absent},
                         integrity_algorithm : names \cup {Absent, "NONE / NOT_APPLICABLE"},
                         dh_group : names \cup {Absent},
                         selection_evidence_state : {"VERIFIED", "UNKNOWN"}]

(***************************************************************************)
(* facts/normalizer.py. A key is <<prefix, field>>; the prefix is the kind *)
(* of its subject. A fact carries the frames of its session, or none.      *)
(***************************************************************************)
Fact(kind, subject, field, value, evidence, frames) ==
    [key |-> <<kind, field>>, subject |-> subject, value |-> value,
     evidence_state |-> evidence, frames |-> frames]

SessionFacts(sess) ==
    LET F(field, value) == Fact("ike_session", <<"ike_session", sess.ispi>>, field, value,
                                "VERIFIED", ToSet(sess.frames))
    IN  {F("ike_version", sess.ike_version),
         F("is_nat_detected", ToString(sess.is_nat_detected)),
         F("retransmission_count", ToString(sess.retransmissions))}

\* Only what was negotiated becomes a fact; selection_evidence_state always does.
SaFacts(sess, sa) ==
    LET F(field, value) == Fact("ike_sa", <<"ike_sa", sess.ispi>>, field, value,
                                "VERIFIED", ToSet(sess.frames))
        integ == IF sa.integrity_algorithm = Absent /\ sa.encryption_algorithm \in AeadCiphers
                 THEN "AEAD-INTEGRATED" ELSE sa.integrity_algorithm
        dh == IF sa.dh_group \in DOMAIN DhGroup THEN DhGroup[sa.dh_group] ELSE Absent
    IN  {f \in {F("encryption_algorithm", sa.encryption_algorithm),
                F("key_length_bits", sa.key_length_bits),
                F("integrity_algorithm", integ),
                F("prf_algorithm", sa.prf_algorithm),
                F("diffie_hellman_group", dh)} : f.value # Absent}
        \cup {F("selection_evidence_state", sa.selection_evidence_state)}

\* The encryption transform of the first observation read, proposals included.
\* The rows come in no particular order, so it is any of them.
OfferedEncryption(c) ==
    LET offered == {n \in DOMAIN c : c[n].proto = "IKE" /\ "ENCR" \in DOMAIN c[n].transforms}
    IN  IF offered = {} THEN {Absent} ELSE {c[n].transforms["ENCR"] : n \in offered}

\* parent_ike_encr: the encryption of the last SA that has one, else the offer.
ParentEncryption(sessions, offer) ==
    LET i == SelectLastInSeq(sessions, LAMBDA s : s.sa # Absent
                                         /\ s.sa.encryption_algorithm # Absent)
    IN  IF i # 0 THEN sessions[i].sa.encryption_algorithm ELSE offer

\* pfs_status when no CREATE_CHILD_SA key exchange was seen: what the name of
\* the capture file says.
NamedPfs(ref) ==
    IF ref \in {"nopfs", "cbc"} THEN [value |-> "DISABLED", evidence |-> "VERIFIED"]
    ELSE IF ref = "pfs" THEN [value |-> "ENABLED", evidence |-> "INFERRED"]
    ELSE [value |-> "UNKNOWN", evidence |-> "UNKNOWN"]

ChildFacts(ref, child, parentEncr) ==
    LET F(field, value, evidence) ==
            Fact("child_sa", <<"child_sa", child.id>>, field, value, evidence, {})
        pfs == IF child.pfs_status = "UNKNOWN" THEN NamedPfs(ref)
               ELSE [value |-> child.pfs_status, evidence |-> "VERIFIED"]
        dh == IF child.pfs_dh_group \in DOMAIN DhGroup THEN DhGroup[child.pfs_dh_group]
              ELSE Absent
    IN  {f \in {F("protocol", "ESP", "VERIFIED"),
                F("mode", child.mode, IF child.mode = "UNKNOWN" THEN "UNKNOWN"
                                      ELSE "VERIFIED"),
                F("encryption_algorithm", parentEncr, "INFERRED"),
                F("pfs_status", pfs.value, pfs.evidence),
                F("pfs_dh_group", dh, pfs.evidence)} : f.value # Absent}

\* spi_sequences: the sequence numbers seen under an SPI anywhere in the capture,
\* by frame number.
SpiSequence(c, spi) ==
    LET at == Sorted([n \in DOMAIN c |-> n],
                     {n \in DOMAIN c : c[n].proto = "ESP" /\ c[n].spi = spi})
    IN  [k \in DOMAIN at |-> c[at[k]].seq]

\* Mutant: a repeated sequence number is let through.
NeverFalling(s) == \A k \in 2..Len(s) : s[k] >= s[k - 1]

Increasing(s) == \A k \in 2..Len(s) : s[k] > s[k - 1]

FlowFacts(ref, c, flow, id) ==
    LET F(field, value) == Fact("esp_flow", <<"esp_flow", id>>, field, value, "VERIFIED", {})
        streams == {flow.forward} \cup (IF flow.reverse = Absent THEN {} ELSE {flow.reverse})
        frames == UNION {ToSet(s.frames) : s \in streams}
        monotonic == /\ \A s \in streams : Increasing(SpiSequence(c, s.key.spi))
                     /\ ref # "replay"
    IN  {F("is_nat_t", ToString(\E n \in frames : c[n].natt)),
         F("packet_count", ToString(Cardinality(frames))),
         F("sequence_monotonic", IF monotonic THEN "True" ELSE "False"),
         F("association_state", flow.state)}

\* The facts of one analysis; ref is what cap_ref says.
normalize(ref, c, t, offer) ==
    UNION ({SessionFacts(t.sessions[k].session) : k \in DOMAIN t.sessions}
        \cup {SaFacts(t.sessions[k].session, t.sessions[k].sa) :
                k \in {i \in DOMAIN t.sessions : t.sessions[i].sa # Absent}}
        \cup {ChildFacts(ref, t.children[k], ParentEncryption(t.sessions, offer)) :
                k \in DOMAIN t.children}
        \cup {FlowFacts(ref, c, t.flows[k], k) : k \in DOMAIN t.flows})

(***************************************************************************)
(* policy/evaluator.py: which subjects a rule is evaluated for, and on     *)
(* which facts                                                             *)
(***************************************************************************)
FactMap(facts) == [k \in {f.key : f \in facts} |-> CHOOSE f \in facts : f.key = k]

OwnFacts(facts, subject) == FactMap({f \in facts : f.subject = subject})

\* global_facts_by_key: for each key the fact of the last subject that has one.
\* Sessions come in the order of their rows; a Child SA or a flow has every fact
\* a rule may ask of it, so their order does not matter.
GlobalFacts(facts, t) ==
    LET Rank(f) == IF f.key[1] \in {"ike_session", "ike_sa"}
                   THEN SelectInSeq(t.sessions, LAMBDA s : s.session.ispi = f.subject[2])
                   ELSE 0
    IN  [k \in {f.key : f \in facts} |->
            LET same == {f \in facts : f.key = k}
            IN  CHOOSE f \in same : \A g \in same : Rank(g) <= Rank(f)]

\* Mutant: the update is done the other way round.
GlobalFirst(global, own) ==
    [k \in DOMAIN global \cup DOMAIN own |-> IF k \in DOMAIN global THEN global[k] ELSE own[k]]

\* A copy of global_facts_by_key, updated with the subject's own facts.
SubjectFacts(global, own) ==
    [k \in DOMAIN global \cup DOMAIN own |-> IF k \in DOMAIN own THEN own[k] ELSE global[k]]

Candidates(rule, facts) ==
    {s \in {f.subject : f \in facts} : \E k \in rule.evidence_requirements : s[1] = k[1]}

\* The outcome of rule i for a subject, with the facts that contributed to it.
Record(i, subject, m) ==
    LET outcome == _evaluate_single_subject(Bundle[i], m)
    IN  [rule |-> i, subject |-> subject,
         compliance_state |-> outcome.compliance_state,
         evidence_state |-> outcome.evidence_state,
         links |-> {m[k] : k \in Contributing(Bundle[i], m)}]

evaluate_rule(i, facts, t) ==
    LET global == GlobalFacts(facts, t)
    IN  IF Candidates(Bundle[i], facts) = {}
        THEN {Record(i, <<"GLOBAL">>, global)}
        ELSE {Record(i, s, SubjectFacts(global, OwnFacts(facts, s))) :
                s \in Candidates(Bundle[i], facts)}

evaluate_all(facts, t) == UNION {evaluate_rule(i, facts, t) : i \in DOMAIN Bundle}

(***************************************************************************)
(* findings/generator.py and scoring/engine.py. A finding is a FAIL record *)
(* (its id is a hash of rule and subject), an evidence gap an UNKNOWN one. *)
(***************************************************************************)
Findings(records) == {r \in records : r.compliance_state = "FAIL"}
Gaps(records) == {r \in records : r.compliance_state = "UNKNOWN"}

RootCause(f) == Bundle[f.rule].root_cause_key
RootCauses(findings) == {RootCause(f) : f \in findings}

severity_deductions ==
    [CRITICAL |-> 25, HIGH |-> 15, MEDIUM |-> 5, LOW |-> 2, INFORMATIONAL |-> 0]

Deduction(f) == severity_deductions[Bundle[f.rule].severity]

\* The findings of a root cause that come first in the list of findings: those
\* of the first of its rules. Subjects are sorted by their random ids.
FirstSeen(findings, rc) ==
    {f \in findings : /\ RootCause(f) = rc
                      /\ \A g \in findings : RootCause(g) = rc => f.rule <= g.rule}

\* Of the findings with one root cause only the most severe is deducted.
PrimaryDeduction(findings, rc) ==
    Max({Deduction(f) : f \in {g \in findings : RootCause(g) = rc}})

calculate_score(findings) ==
    Max({0, 100 - MapThenSumSet(LAMBDA rc : PrimaryDeduction(findings, rc),
                                RootCauses(findings))})

\* coverage_percentage below insufficient_evidence_threshold (50).
Insufficient(records) ==
    LET applicable == {r \in records : r.compliance_state # "NOT_APPLICABLE"}
    IN  2 * Cardinality({r \in applicable : r.compliance_state \in Decided})
            < Cardinality(applicable)

(***************************************************************************)
(* risk/engine.py and threats/mapper.py                                    *)
(***************************************************************************)
RiskTier == <<"LOW", "MEDIUM", "HIGH", "CRITICAL">>

\* severity_mapping: unverified evidence lowers CRITICAL and HIGH by one tier.
_map_factors(f) ==
    LET severity == Bundle[f.rule].severity
        tier == IF severity = "INFORMATIONAL" THEN 1
                ELSE SelectInSeq(RiskTier, LAMBDA x : x = severity)
    IN  IF tier > 2 /\ f.evidence_state # "VERIFIED" THEN tier - 1 ELSE tier

\* evaluate_risk: the tiers the aggregate may have. One finding per root cause,
\* the first seen, contributes, and the worst contribution counts.
evaluate_risk(records) ==
    LET F == Findings(records)
        Contribution(rc) == {_map_factors(f) : f \in FirstSeen(F, rc)}
    IN  IF F = {}
        THEN {IF Insufficient(records) THEN "INSUFFICIENT_EVIDENCE"
              ELSE "NO_FINDINGS_UNDER_THIS_POLICY"}
        ELSE {RiskTier[w] : w \in {w \in DOMAIN RiskTier :
                /\ \E rc \in RootCauses(F) : w \in Contribution(rc)
                /\ \A rc \in RootCauses(F) : \E v \in Contribution(rc) : v <= w}}

\* The threat of a finding: the catalog entry of its rule, else of its root
\* cause; Sweet32 (THR-002) only where the finding's text names a 64-bit cipher.
map_threats(findings) ==
    LET Mapped(f) == /\ Bundle[f.rule].threat # None
                     /\ Bundle[f.rule].threat = "THR-002" => Bundle[f.rule].names_64bit
    IN  {[threat |-> Bundle[f.rule].threat, finding |-> <<f.rule, f.subject>>] :
            f \in {f \in findings : Mapped(f)}}

(***************************************************************************)
(* evidence/builder.py: the edges that lead from the capture to a finding  *)
(***************************************************************************)
\* Mutant: only a finding's own subject is linked to it.
build_graph_own(facts, findings) ==
    [contains |-> UNION {f.frames : f \in facts},
     derived |-> UNION {{<<n, f>> : n \in f.frames} : f \in facts},
     supports |-> UNION {{<<l, <<f.rule, f.subject>>>> :
                            l \in {g \in f.links : g.subject = f.subject}} : f \in findings}]

build_graph(facts, findings) ==
    [contains |-> UNION {f.frames : f \in facts},
     derived |-> UNION {{<<n, f>> : n \in f.frames} : f \in facts},
     supports |-> UNION {{<<l, <<f.rule, f.subject>>>> : l \in f.links \cap facts} :
                           f \in findings}]

(***************************************************************************)
(* One analysis                                                            *)
(***************************************************************************)
\* SecurityAssessmentService.run_assessment: the reports it may produce.
run_assessment(ref, c, t) ==
    UNION {LET facts == normalize(ref, c, t, offer)
               records == evaluate_all(facts, t)
               findings == Findings(records)
           IN  {[facts |-> facts, records |-> records,
                 score |-> calculate_score(findings), risk |-> risk,
                 threats |-> map_threats(findings),
                 graph |-> build_graph(facts, findings)] : risk \in evaluate_risk(records)}
           : offer \in OfferedEncryption(c)}

\* select(IKESession) has no ORDER BY: the rows come in any order.
RowOrders(t) ==
    {[t EXCEPT !.sessions = [k \in DOMAIN @ |-> t.sessions[p[k]]]] :
        p \in {p \in [DOMAIN t.sessions -> DOMAIN t.sessions] :
                 \A i, j \in DOMAIN p : i # j => p[i] # p[j]}}

Init ==
    /\ name \in CaptureNames
    /\ capture = <<>>
    /\ tables = execute_reconstruction(<<>>)
    /\ report \in run_assessment(name, <<>>, tables)

\* The capture with one frame more is reconstructed and assessed.
Analyse(f) ==
    /\ Len(capture) < MaxFrames
    /\ capture' = Append(capture, f)
    /\ tables' \in RowOrders(execute_reconstruction(capture'))
    /\ report' \in run_assessment(name, capture', tables')
    /\ UNCHANGED name

Next == \E f \in Frames : Analyse(f)

Spec == Init /\ [][Next]_vars

(***************************************************************************)
(* Properties                                                              *)
(***************************************************************************)
FlowStreams(flow) == {flow.forward} \cup (IF flow.reverse = Absent THEN {} ELSE {flow.reverse})

\* Every ESP frame is counted in one stream of one flow; a stream is one direction
\* of one SPI without an idle gap; and the two directions of a paired flow are the
\* two SPIs of the Child SA it is stored under (FlowAggregator, child_sa_by_spis).
FlowsMatchTheCapture ==
    /\ \A n \in ToSet(EspFrames(capture)) :
            Cardinality({k \in DOMAIN tables.flows :
                           \E s \in FlowStreams(tables.flows[k]) : n \in ToSet(s.frames)}) = 1
    /\ \A k \in DOMAIN tables.flows : \A s \in FlowStreams(tables.flows[k]) :
        \A i \in DOMAIN s.frames :
            /\ DirKey(capture, s.frames[i]) = s.key
            /\ i > 1 => capture[s.frames[i]].time - capture[s.frames[i - 1]].time
                            \in 0..IdleTimeout
    /\ \A flow \in ToSet(tables.flows) :
        flow.reverse # Absent =>
            \E ch \in ToSet(tables.children) :
                /\ ch.id = flow.child
                /\ {ch.inbound, ch.outbound} = {flow.forward.key, flow.reverse.key}

\* A subject with evidence of its own for everything a rule looks at is judged by
\* that evidence, whatever the other tunnels in the capture do (evaluate_rule's
\* dict update).
OwnEvidenceDecides ==
    \A r \in report.records :
        LET own == OwnFacts(report.facts, r.subject)
        IN  RuleFields(Bundle[r.rule]) \subseteq DOMAIN own =>
                r.compliance_state = Verdict(Bundle[r.rule], own)

\* The verdict on any part of a subject's evidence is not reversed by the rest
\* (Kleene logic of logic.py, the three stages of _evaluate_single_subject).
PartialEvidenceSound ==
    LET global == GlobalFacts(report.facts, tables)
    IN  \A r \in report.records :
            LET m == SubjectFacts(global, OwnFacts(report.facts, r.subject))
            IN  \A seen \in SUBSET (DOMAIN m \cap RuleFields(Bundle[r.rule])) :
                    ValueRule(Bundle[r.rule]) =>
                        NoReversal(Bundle[r.rule], [k \in seen |-> m[k]], m)

\* What is wrong in the capture is found by the rule that looks for it and asks for
\* nothing else: if the last answer of a session selects what rule i forbids, its SA
\* has a finding under rule i; and an ESP sequence number that does not increase
\* within a stream is a finding for the flow, however the frames were split into
\* flows (build_parent_ike_sa, spi_sequences).
WeaknessFound ==
    \A i \in DOMAIN Bundle :
        LET rule == Bundle[i]
            Found(subject) == \E f \in Findings(report.records) :
                                f.rule = i /\ f.subject = subject
            Asks(field) == rule.applicability = None /\ rule.evidence_requirements = {field}
        IN  /\ rule.assertion.form = "leaf" /\ rule.assertion.op = "not_in_set"
               /\ rule.assertion.field = <<"ike_sa", "encryption_algorithm">>
               /\ Asks(<<"ike_sa", "encryption_algorithm">>)
               => \A s \in {r.session : r \in ToSet(tables.sessions)} :
                    LET j == SelectedIn(capture, s.frames, "ENCR")
                    IN  j # 0 /\ capture[s.frames[j]].transforms["ENCR"] \in rule.assertion.expected
                            => Found(<<"ike_sa", s.ispi>>)
            /\ rule.assertion = [form |-> "leaf", op |-> "equals", expected |-> "True",
                                 field |-> <<"esp_flow", "sequence_monotonic">>]
               /\ Asks(<<"esp_flow", "sequence_monotonic">>)
               => \A k \in DOMAIN tables.flows :
                    (\E s \in FlowStreams(tables.flows[k]) : \E m, n \in ToSet(s.frames) :
                        m < n /\ capture[m].seq >= capture[n].seq)
                            => Found(<<"esp_flow", k>>)

\* The fields whose value is one that a frame carries.
Carried ==
    {<<"ike_session", "ike_version">>, <<"ike_sa", "encryption_algorithm">>,
     <<"ike_sa", "prf_algorithm">>, <<"ike_sa", "diffie_hellman_group">>}

\* A finding about an IKE session or SA leads back to the capture: a frame that
\* carried a value the finding rests on is in the graph, with the edges capture -
\* frame - fact - finding (EvidenceGraphBuilder.build_graph).
FindingsTraced ==
    \A f \in {g \in Findings(report.records) :
                /\ g.subject[1] \in {"ike_session", "ike_sa"}
                /\ Bundle[g.rule].evidence_requirements \cap Carried # {}} :
        \E l \in report.facts, n \in DOMAIN capture :
            /\ <<l, <<f.rule, f.subject>>>> \in report.graph.supports
            /\ <<n, l>> \in report.graph.derived
            /\ n \in report.graph.contains
            /\ \/ capture[n].version = l.value
               \/ \E ty \in DOMAIN capture[n].transforms :
                    \/ capture[n].transforms[ty] = l.value
                    \/ /\ capture[n].transforms[ty] \in DOMAIN DhGroup
                       /\ DhGroup[capture[n].transforms[ty]] = l.value

=============================================================================
