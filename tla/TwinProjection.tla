--------------------------- MODULE TwinProjection ---------------------------
(***************************************************************************)
(* What is made of a configuration: the snapshot of the observed one, the  *)
(* templates, the projection of a proposal against the active policy, and  *)
(* the judgement of the evidence after the proposal was applied.           *)
(*                                                                         *)
(* A fact is [key, value, evidence_state]; facts are a sequence in the     *)
(* order of the normalizer. A score is identified with the set of rules    *)
(* that lower it; {} is 100.0.                                             *)
(***************************************************************************)
EXTENDS ConfigTwin

(***************************************************************************)
(* The snapshot of the observed configuration                              *)
(***************************************************************************)
FieldKey ==
    [ike_version |-> "ike_session.ike_version",
     ike_encryption |-> "ike_sa.encryption_algorithm",
     ike_key_length |-> "ike_sa.key_length_bits",
     ike_integrity |-> "ike_sa.integrity_algorithm",
     ike_prf |-> "ike_sa.prf_algorithm",
     ike_dh_group |-> "ike_sa.diffie_hellman_group",
     child_mode |-> "child_sa.mode",
     child_encryption |-> "child_sa.encryption_algorithm",
     child_integrity |-> "child_sa.integrity_algorithm",
     child_pfs_status |-> "child_sa.pfs_status",
     child_pfs_dh_group |-> "child_sa.pfs_dh_group",
     child_replay_window |-> "child_sa.replay_window_size",
     is_nat_detected |-> "ike_session.is_nat_detected"]

\* Where the facts of a key are, and the last of them.
OfKey(facts, key) == {i \in DOMAIN facts : facts[i].key = key}
LastOf(facts, key) == facts[Max(OfKey(facts, key))]

\* facts_map: the last fact of a key hides the earlier ones; None is UNKNOWN. No
\* value is itself the text "UNKNOWN", which the code would take for None too.
build_snapshot(facts) ==
    [field \in DOMAIN FieldKey |->
        LET key == FieldKey[field]
        IN  IF OfKey(facts, key) = {} \/ LastOf(facts, key).evidence_state = "UNKNOWN"
            THEN None ELSE LastOf(facts, key).value]

to_configuration_ir(s) ==
    LET ike == TransformIR(Or(s.ike_encryption, UnknownName), s.ike_key_length,
                           s.ike_integrity, s.ike_prf, s.ike_dh_group)
        esp == TransformIR(Or(s.child_encryption, UnknownName), None,
                           s.child_integrity, None, s.child_pfs_dh_group)
        child == ChildSAConfigurationIR(Or(s.child_mode, "tunnel"), <<esp>>,
                           s.child_pfs_dh_group, Or(s.child_replay_window, 64))
        version == IF s.ike_version = "IKEv1" THEN 1 ELSE 2
    IN  ConfigurationIR(
            <<ConnectionConfigurationIR(version, <<ike>>, s.is_nat_detected = TRUE, <<child>>)>>,
            1, "OBSERVED_MODEL")

(***************************************************************************)
(* templates.py. A transformer rewrites every connection, or every child   *)
(* of every connection.                                                    *)
(***************************************************************************)
Each(seq, Op(_)) == [i \in DOMAIN seq |-> Op(seq[i])]

EachConnection(ir, Op(_)) ==
    ConfigurationIR(Each(ir.connections, Op), ir.secrets, "SWANCTL")

WithChildren(c, Op(_)) ==
    ConnectionConfigurationIR(c.ike_version, c.ike_proposals, c.encap, Each(c.children, Op))
WithIke(c, Op(_)) ==
    ConnectionConfigurationIR(c.ike_version, Each(c.ike_proposals, Op), c.encap, c.children)

OrElse(proposals, default) == IF proposals = <<>> THEN <<default>> ELSE proposals

GcmIke(dh) == TransformIR(AES256GCM16, 256, None, PRFSHA256, dh)
GcmEsp(dh) == TransformIR(AES256GCM16, 256, None, None, dh)

_transform_des(ir) ==
    LET Ike(p) == IF Has(p.encryption, {"des"}) THEN GcmIke(Or(p.dh_group, 19)) ELSE p
        Child(ch) ==
            LET Esp(ep) == IF Has(ep.encryption, {"des"})
                           THEN GcmEsp(Or(Or(ep.dh_group, ch.pfs_dh_group), 19)) ELSE ep
            IN  ChildSAConfigurationIR(ch.mode, OrElse(Each(ch.esp_proposals, Esp), GcmEsp(19)),
                                       Or(ch.pfs_dh_group, 19), ch.replay_window)
        Conn(c) == ConnectionConfigurationIR(
                       c.ike_version, OrElse(Each(c.ike_proposals, Ike), GcmIke(19)),
                       c.encap, Each(c.children, Child))
    IN  EachConnection(ir, Conn)

_transform_keylen(ir) ==
    LET Ike(p) == TransformIR(AES256GCM16, 256, p.integrity, Or(p.prf, PRFSHA256),
                              Or(p.dh_group, 19))
        Conn(c) == WithIke(c, Ike)
    IN  EachConnection(ir, Conn)

_transform_integ(ir) ==
    LET Ike(p) == TransformIR(AES256, 256, SHA256, PRFSHA256, Or(p.dh_group, 19))
        Conn(c) == WithIke(c, Ike)
    IN  EachConnection(ir, Conn)

\* Mutant: the group is only filled in, not replaced.
TransformDhKeeps(ir) ==
    LET Ike(p) == TransformIR(p.encryption, Or(p.key_length, 256), p.integrity,
                              Or(p.prf, PRFSHA256), Or(p.dh_group, 19))
        Conn(c) == WithIke(c, Ike)
    IN  EachConnection(ir, Conn)

_transform_dh(ir) ==
    LET Ike(p) == TransformIR(p.encryption, Or(p.key_length, 256), p.integrity,
                              Or(p.prf, PRFSHA256), 19)
        Conn(c) == WithIke(c, Ike)
    IN  EachConnection(ir, Conn)

_transform_pfs(ir) ==
    LET Esp(ep) == TransformIR(ep.encryption, ep.key_length, ep.integrity, None, 19)
        Child(ch) == ChildSAConfigurationIR(
                         ch.mode, OrElse(Each(ch.esp_proposals, Esp),
                                         TransformIR(AES256GCM16, None, None, None, 19)),
                         19, ch.replay_window)
        Conn(c) == WithChildren(c, Child)
    IN  EachConnection(ir, Conn)

_transform_replay(ir) ==
    LET Child(ch) == ChildSAConfigurationIR(ch.mode, ch.esp_proposals, ch.pfs_dh_group, 64)
        Conn(c) == WithChildren(c, Child)
    IN  EachConnection(ir, Conn)

_transform_ikev2(ir) ==
    LET Conn(c) == ConnectionConfigurationIR(2, c.ike_proposals, c.encap, c.children)
    IN  EachConnection(ir, Conn)

_transform_null(ir) ==
    LET Esp(ep) == IF Has(ep.encryption, {"null"}) THEN GcmEsp(Or(ep.dh_group, 19)) ELSE ep
        Child(ch) == ChildSAConfigurationIR(
                         ch.mode, OrElse(Each(ch.esp_proposals, Esp), GcmEsp(19)),
                         Or(ch.pfs_dh_group, 19), ch.replay_window)
        Conn(c) == WithChildren(c, Child)
    IN  EachConnection(ir, Conn)

\* What a template promises to verify: one rule, by one fact.
Template(rule, cause, key) ==
    [rule_id |-> rule, root_cause_key |-> cause, fact_key |-> key]
TPL_NIST_001 == Template("POL-NIST-001", "CIPHER_DEPRECATED_DES", FieldKey.ike_encryption)
TPL_NIST_002 == Template("POL-NIST-002", "KEY_LENGTH_INSUFFICIENT", FieldKey.ike_key_length)
TPL_NIST_003 == Template("POL-NIST-003", "INTEGRITY_DEPRECATED_HASH", FieldKey.ike_integrity)
TPL_NIST_004 == Template("POL-NIST-004", "DH_GROUP_WEAK_LOGJAM", FieldKey.ike_dh_group)
TPL_PFS_001 == Template("POL-PFS-001", "PFS_DISABLED", FieldKey.child_pfs_status)
TPL_REPLAY_001 ==
    Template("POL-REPLAY-001", "REPLAY_SEQUENCE_NON_MONOTONIC", "esp_flow.sequence_monotonic")
TPL_RFC_7296_01 == Template("POL-RFC-7296-01", "PROTOCOL_LEGACY_IKEV1", FieldKey.ike_version)
TPL_RFC_8221_01 ==
    Template("POL-RFC-8221-01", "CIPHER_NULL_CLEARTEXT", FieldKey.child_encryption)

Templates == {TPL_NIST_001, TPL_NIST_002, TPL_NIST_003, TPL_NIST_004, TPL_PFS_001,
              TPL_REPLAY_001, TPL_RFC_7296_01, TPL_RFC_8221_01}

transformer(t, ir) ==
    CASE t = TPL_NIST_001 -> _transform_des(ir)
      [] t = TPL_NIST_002 -> _transform_keylen(ir)
      [] t = TPL_NIST_003 -> _transform_integ(ir)
      [] t = TPL_NIST_004 -> _transform_dh(ir)
      [] t = TPL_PFS_001 -> _transform_pfs(ir)
      [] t = TPL_REPLAY_001 -> _transform_replay(ir)
      [] t = TPL_RFC_7296_01 -> _transform_ikev2(ir)
      [] t = TPL_RFC_8221_01 -> _transform_null(ir)

\* By the finding's rule, else by its root cause: at most one template.
TemplateFor(rule_id) ==
    LET byRule == {t \in Templates : t.rule_id = rule_id}
    IN  IF byRule # {} THEN byRule
        ELSE {t \in Templates : t.root_cause_key = Rules[rule_id].root_cause_key}

(***************************************************************************)
(* twin.py                                                                 *)
(***************************************************************************)
\* A finding that no template is for changes nothing.
ApplyTemplate(ir, rule_id) ==
    LET tmpl == TemplateFor(rule_id)
    IN  IF tmpl = {} THEN ir ELSE transformer(CHOOSE t \in tmpl : TRUE, ir)

\* findings: the rules of the findings in the order the database returned them, once
\* each; a template applied again for another subject changes nothing more.
generate_remediation_proposal(snapshot, findings) ==
    FoldLeft(ApplyTemplate, to_configuration_ir(snapshot), findings)

Verified(key, value) == <<[key |-> key, value |-> value, evidence_state |-> "VERIFIED"]>>

IkeFacts(p) ==
    Verified(FieldKey.ike_encryption, p.encryption)
    \o Verified(FieldKey.ike_key_length, Or(p.key_length, 256))
    \o Verified(FieldKey.ike_integrity,
                Or(p.integrity, IF Has(p.encryption, {"gcm", "aesgcm"}) THEN AEAD ELSE SHA256))
    \o (IF p.dh_group = None THEN <<>> ELSE Verified(FieldKey.ike_dh_group, p.dh_group))

ChildFacts(ch) ==
    Verified(FieldKey.child_mode, ch.mode)
    \o (IF ch.esp_proposals = <<>> THEN <<>>
        ELSE Verified(FieldKey.child_encryption, ch.esp_proposals[1].encryption))
    \o Verified(FieldKey.child_pfs_status,
                IF ch.pfs_dh_group = None THEN "DISABLED" ELSE "ENABLED")
    \o (IF ch.pfs_dh_group = None THEN <<>>
        ELSE Verified(FieldKey.child_pfs_dh_group, ch.pfs_dh_group))
    \o Verified(FieldKey.child_replay_window, ch.replay_window)

VersionName(n) == IF n = 1 THEN "IKEv1" ELSE "IKEv2"

\* Only the first connection, child and proposals are projected.
synthesize_projected_facts(ir) ==
    (IF ir.connections = <<>> THEN Verified(FieldKey.ike_version, "IKEv2")
     ELSE LET c == ir.connections[1]
          IN  Verified(FieldKey.ike_version, VersionName(c.ike_version))
              \o (IF c.ike_proposals = <<>> THEN <<>> ELSE IkeFacts(c.ike_proposals[1]))
              \o (IF c.children = <<>> THEN <<>> ELSE ChildFacts(c.children[1])))
    \o Verified("esp_flow.sequence_monotonic", TRUE)

\* The rules of the bundle look at one fact each, so a subject is one fact;
\* an evaluation is known by the place of its fact.
Evaluations(rule, facts) ==
    LET field == rule.assertion.field
    IN  [i \in OfKey(facts, field) |-> _evaluate_single_subject(rule, Entry(field, facts[i]))]

Judged(facts, state) ==
    {r \in DOMAIN Rules :
        \E e \in Range(Evaluations(Rules[r], facts)) : e.compliance_state = state}

Failing(facts) == Judged(facts, "FAIL")

compute_semantic_diff(s, ir) ==
    LET conn == IF ir.connections = <<>> THEN None ELSE ir.connections[1]
        child == IF conn = None \/ conn.children = <<>> THEN None ELSE conn.children[1]
        ike == IF conn = None \/ conn.ike_proposals = <<>> THEN None ELSE conn.ike_proposals[1]
        esp == IF child = None \/ child.esp_proposals = <<>> THEN None ELSE child.esp_proposals[1]
        Change(field, proposed) == [current |-> s[field], proposed |-> proposed]
    IN  [ike_version |-> Change("ike_version",
             IF conn = None THEN None ELSE VersionName(conn.ike_version)),
         ike_encryption |-> Change("ike_encryption", IF ike = None THEN None ELSE ike.encryption),
         ike_key_length |-> Change("ike_key_length",
             IF ike = None THEN None ELSE Or(ike.key_length, 256)),
         ike_dh_group |-> Change("ike_dh_group", IF ike = None THEN None ELSE ike.dh_group),
         child_encryption |-> Change("child_encryption",
             IF esp = None THEN None ELSE esp.encryption),
         child_pfs_status |-> Change("child_pfs_status",
             IF child # None /\ child.pfs_dh_group # None THEN "ENABLED" ELSE "DISABLED"),
         child_replay_window |-> Change("child_replay_window",
             IF child = None THEN 64 ELSE child.replay_window)]

\* A unified diff is told apart by the two texts it is made of.
compute_text_diff(from, to) == [from |-> from, to |-> to]

Obligations(baseline) ==
    UNION {{[target_finding |-> r, target_rule |-> t.rule_id, fact_key |-> t.fact_key] :
                t \in TemplateFor(r)} : r \in baseline}

Blocking(rules) == \E r \in rules : Rules[r].severity \in {"CRITICAL", "HIGH"}

\* score: the baseline score, None when the analysis cannot be assessed.
run_projection(snapshot, ir, baseline, score) ==
    LET failed == Failing(synthesize_projected_facts(ir))
        text == render(ir)
    IN  [proposal_hash |-> text,
         rendered_proposed_config |-> text,
         semantic_diff |-> compute_semantic_diff(snapshot, ir),
         text_diff |-> compute_text_diff(render(to_configuration_ir(snapshot)), text),
         audit |-> [resolved |-> baseline \ failed,
                    remaining |-> baseline \cap failed,
                    new |-> failed \ baseline,
                    baseline_score |-> score,
                    projected_score |-> failed,
                    blocking |-> Blocking(failed \ baseline),
                    proof_obligations |-> Obligations(baseline)]]

(***************************************************************************)
(* proof.py and comparator.py                                              *)
(***************************************************************************)
evaluate_post_evidence(compliance, evidence, analysed) ==
    IF ~analysed THEN "VERIFICATION_FAILED"
    ELSE IF evidence = "UNKNOWN" \/ compliance = "UNKNOWN" THEN "UNKNOWN"
    ELSE IF compliance = "NOT_APPLICABLE" THEN "RESOLVED"
    ELSE IF compliance = "FAIL" THEN "NOT_RESOLVED"
    ELSE IF compliance = "PASS" THEN "RESOLVED" ELSE "UNKNOWN"

\* post_facts: what the runner found for the rule of an obligation.
PostState(failing, entry, rule) ==
    IF rule \in failing THEN "FAIL"
    ELSE IF entry.evidence_state = "UNKNOWN" /\ entry.value = None THEN "UNKNOWN" ELSE "PASS"

\* Mutant: a rule that was not found failing is taken to pass.
OutcomeUnlessFailing(o, failing, entry, analysed) ==
    evaluate_post_evidence(IF o.target_rule \in failing THEN "FAIL" ELSE "PASS",
                           "VERIFIED", analysed)

Outcome(o, failing, entry, analysed) ==
    evaluate_post_evidence(PostState(failing, entry, o.target_rule),
                           entry.evidence_state, analysed)

Overall(outcomes, regression, healthy, analysed) ==
    IF ~analysed \/ ~healthy THEN "VERIFICATION_FAILED"
    ELSE IF regression THEN "NOT_RESOLVED"
    ELSE IF outcomes = {"RESOLVED"} THEN "RESOLVED"
    ELSE IF "RESOLVED" \in outcomes THEN "PARTIALLY_VERIFIED"
    ELSE IF "NOT_RESOLVED" \in outcomes THEN "NOT_RESOLVED" ELSE "UNKNOWN"

\* entries: rule -> [value, evidence_state] of the post-analysis.
compare(obligations, baseline, failing, entries, healthy, analysed) ==
    LET claims == [o \in obligations |->
                      Outcome(o, failing, entries[o.target_rule], analysed)]
        new == failing \ baseline
    IN  [claims |-> claims,
         new_regressions |-> new,
         has_security_regression |-> Blocking(new),
         result |-> Overall(Range(claims), Blocking(new), healthy, analysed)]

=============================================================================
