------------------------ MODULE RemediationPlanning -------------------------
(***************************************************************************)
(* The configuration twins of one analysis and the requests of             *)
(* api/v1/remediation: GET /twin creates or reconciles a twin, POST        *)
(* /twin/proposals adds one for an edited text, POST /apply approves what  *)
(* the operator was shown, and the runner judges the evidence of the run.  *)
(*                                                                         *)
(* A request reads the findings, then the facts, the score and the latest  *)
(* twin, and commits last: requests and the pipeline interleave there. The *)
(* run itself, from preflight to rollback, is Remediation.                 *)
(***************************************************************************)
EXTENDS TwinProjection

CONSTANTS
    Captures,       \* what the reconstruction may find: sequences of facts
    Operators,      \* concurrent users of the API
    Texts,          \* configuration texts operators post instead of the shown one
    Unobserved,     \* keys whose facts the capture of a run may miss
    Linked,         \* is a baseline of the gateway linked to the analysis?
    Production,     \* APP_ENV == "production"
    MaxRequests,    \* bound: requests of the operators
    MaxTwins,       \* bound: twins of the analysis
    MaxRuns         \* bound: approvals

ASSUME PlanningAssumption ==
    /\ {Linked, Production} \subseteq BOOLEAN
    /\ {MaxRequests, MaxTwins, MaxRuns} \subseteq Nat

\* A rule with a template is one comparison of the template's fact, which what
\* the template puts there passes.
PassesTemplate(t, a) ==
    LET Passed(value) == evaluate_operator(a.op, value, a.expected) = "TRUE"
        Refused(words) == a.op = "not_in_set" /\ \A name \in a.expected : Has(name, words)
    IN  /\ a.form = "leaf" /\ a.field = t.fact_key
        /\ t = TPL_NIST_001 => Refused({"des"})
        /\ t = TPL_NIST_002 => Passed(256)
        /\ t = TPL_NIST_003 => Passed(SHA256)
        /\ t = TPL_NIST_004 => Passed(19)
        /\ t = TPL_PFS_001 => Passed("ENABLED")
        /\ t = TPL_REPLAY_001 => Passed(TRUE)
        /\ t = TPL_RFC_7296_01 => Passed("IKEv2")
        /\ t = TPL_RFC_8221_01 => Refused({"null"})

\* It always applies, needs its fact, and decides on every value of it.
Decisive(rule) ==
    LET a == rule.assertion
    IN  /\ rule.applicability = None
        /\ a.form = "leaf" /\ a.field \in rule.evidence_requirements
        /\ \/ a.op \in {"equals", "not_equals", "in_set", "not_in_set"}
           \/ /\ a.op \in NumericOperator /\ a.expected \in DOMAIN Number
              /\ a.field = FieldKey.ike_key_length

\* What the rules of policies/rules have in common.
ASSUME BundleAssumption ==
    /\ IsFiniteSet(DOMAIN Rules)
    /\ \A r \in DOMAIN Rules : \A t \in TemplateFor(r) : PassesTemplate(t, Rules[r].assertion)
    /\ \A t \in Templates : t.rule_id \in DOMAIN Rules => Decisive(Rules[t.rule_id])
    /\ {128, 192, 256} \subseteq DOMAIN Number

\* None is no group and no algorithm; lists are sequences, and a key length
\* that was observed is a number.
Listed(s) == Len(s) \in Nat /\ s = [i \in 1..Len(s) |-> s[i]]

ASSUME InputAssumption ==
    /\ None # 19 /\ None # SHA256
    /\ \A c \in Captures :
           /\ Listed(c)
           /\ \A i \in DOMAIN c : c[i].key = FieldKey.ike_key_length =>
                                       c[i].value \in DOMAIN Number \cup {None}
    /\ \A text \in Texts :
           /\ Listed(text)
           /\ \A i \in DOMAIN text : text[i].line = "assign" /\ text[i].key = "proposals" =>
                                          Listed(text[i].value)

VARIABLES
    capture,    \* the facts of the capture
    facts,      \* the committed facts: <<>> until the reconstruction commits
    assessed,   \* were findings and score committed?
    twins,      \* the ConfigurationTwinModel rows, oldest first
    request,    \* what each operator's request has read so far
    asked,      \* how many requests there were
    shown,      \* the response each operator looks at
    runs        \* the RemediationRunModel rows

planningVars == <<capture, facts, assessed, twins, request, asked, shown, runs>>

Idle == [at |-> "idle"]
NothingShown == [twin |-> 0]

PlanningInit ==
    /\ capture \in Captures
    /\ facts = <<>>
    /\ assessed = FALSE
    /\ twins = <<>>
    /\ request = [o \in Operators |-> Idle]
    /\ asked = 0
    /\ shown = [o \in Operators |-> NothingShown]
    /\ runs = <<>>

(***************************************************************************)
(* The pipeline commits the reconstruction first and the findings with the *)
(* score later; a twin may be asked for at any time.                       *)
(***************************************************************************)
Reconstruct ==
    /\ facts = <<>>
    /\ facts' = capture
    /\ facts' # <<>>
    /\ UNCHANGED <<capture, assessed, twins, request, asked, shown, runs>>

Assess ==
    /\ facts # <<>> /\ ~assessed
    /\ assessed' = TRUE
    /\ UNCHANGED <<capture, facts, twins, request, asked, shown, runs>>

Findings == IF assessed THEN Failing(facts) ELSE {}

\* An analysis without sessions or a linked baseline has no score at all;
\* one without a score row is taken to have 100.0.
BaselineScore == IF facts # <<>> \/ Linked THEN Findings ELSE None

(***************************************************************************)
(* _get_or_create_twin                                                     *)
(***************************************************************************)
BeginGet(o) ==
    /\ request[o].at \in {"idle", "posted"}
    /\ asked' = IF request[o] = Idle THEN asked + 1 ELSE asked
    /\ asked' <= MaxRequests
    /\ request' = [request EXCEPT ![o] =
           [at |-> "read", custom |-> None, findings |-> Findings]]
    /\ UNCHANGED <<capture, facts, assessed, twins, shown, runs>>

\* POST /twin/proposals: the operator posts the shown text or another one.
BeginPost(o) ==
    /\ request[o] = Idle
    /\ shown[o] # NothingShown
    /\ asked < MaxRequests /\ asked' = asked + 1
    /\ \E text \in {shown[o].rendered_proposed_config} \cup Texts :
           request' = [request EXCEPT ![o] =
               [at |-> "read", custom |-> text, findings |-> Findings]]
    /\ UNCHANGED <<capture, facts, assessed, twins, shown, runs>>

\* The columns that a projection fills; without an assessable configuration
\* the scores are withheld.
Projected(sim, assessable) ==
    [text_diff |-> sim.text_diff, semantic_diff |-> sim.semantic_diff,
     projected_score |-> IF assessable THEN sim.audit.projected_score ELSE None,
     audit |-> IF assessable THEN sim.audit
               ELSE [sim.audit EXCEPT !.baseline_score = None, !.projected_score = None]]

NewTwin(sim, assessable, kind) ==
    Updated([proposal_hash |-> sim.proposal_hash,
             rendered_proposed_config |-> sim.rendered_proposed_config,
             kind |-> kind], Projected(sim, assessable))

StaleDiff(twin, snapshot) ==
    \E field \in DOMAIN twin.semantic_diff :
        /\ snapshot[field] # None
        /\ snapshot[field] # twin.semantic_diff[field].current

NeedsReconcile(twin, snapshot, score, assessable) ==
    \/ twin.audit.baseline_score # score
    \/ ~assessable /\ twin.projected_score # None
    \/ StaleDiff(twin, snapshot)

\* The rest of the reads, one SELECT each in the code, and what will be written: nothing, new columns for
\* the latest twin, or a new twin. The findings are in whatever order the
\* database returned them.
ReadRest(o) ==
    LET q == request[o]
        snapshot == build_snapshot(facts)
        assessable == facts # <<>> \/ Linked
        score == BaselineScore
        Project(ir) == run_projection(snapshot, ir, q.findings, score)
        Generate(order) == Project(generate_remediation_proposal(snapshot, order))
        Plan(twin, row) == request' = [request EXCEPT ![o] =
                               [at |-> "write", twin |-> twin, row |-> row]]
    IN  /\ q.at = "read"
        /\ \/ /\ q.custom # None
              /\ Plan(0, NewTwin(Project(parse_text(q.custom)), assessable, "USER_PROPOSED"))
           \/ /\ q.custom = None /\ twins = <<>>
              /\ \E order \in SetToSeqs(q.findings) :
                     Plan(0, NewTwin(Generate(order), assessable, "POLICY_GENERATED_PROPOSED"))
           \/ /\ q.custom = None /\ twins # <<>>
              /\ IF NeedsReconcile(Last(twins), snapshot, score, assessable)
                 THEN \E order \in SetToSeqs(q.findings) :
                          Plan(Len(twins), Projected(Generate(order), assessable))
                 ELSE Plan(Len(twins), <<>>)
        /\ UNCHANGED <<capture, facts, assessed, twins, asked, shown, runs>>

\* Reconciling rewrites diff, audit and scores of the row, and leaves its
\* proposal and proposal_hash alone. A POST answers with a GET of its own.
TwinResponse(i, row) == Updated(row, [twin |-> i])

CommitTwin(o) ==
    LET q == request[o]
        i == IF q.twin = 0 THEN Len(twins) + 1 ELSE q.twin
        row == IF q.twin = 0 THEN q.row ELSE Updated(twins[i], q.row)
        posted == q.twin = 0 /\ q.row.kind = "USER_PROPOSED"
    IN  /\ q.at = "write"
        /\ q.twin = 0 => Len(twins) < MaxTwins
        /\ twins' = IF q.twin = 0 THEN Append(twins, row) ELSE [twins EXCEPT ![i] = row]
        /\ request' = [request EXCEPT ![o] = IF posted THEN [at |-> "posted"] ELSE Idle]
        /\ shown' = IF posted THEN shown ELSE [shown EXCEPT ![o] = TwinResponse(i, row)]
        /\ UNCHANGED <<capture, facts, assessed, asked, runs>>

(***************************************************************************)
(* apply_remediation: the twin and its hash must be those of the approval. *)
(***************************************************************************)
ApplyProposal(o, confirmed) ==
    LET s == shown[o]
        twin == twins[s.twin]
    IN  /\ s # NothingShown
        /\ ~Production /\ confirmed
        /\ twin.proposal_hash = s.proposal_hash
        /\ Len(runs) < MaxRuns
        /\ runs' = Append(runs,
               [twin |-> s.twin, status |-> "CREATED",
                approval |-> [approved_proposal_hash |-> s.proposal_hash,
                              diff |-> twin.text_diff, projection |-> twin.audit],
                verification |-> None])
        /\ UNCHANGED <<capture, facts, assessed, twins, request, asked, shown>>

(***************************************************************************)
(* The end of execute_closed_loop_run. What the new capture shows is the   *)
(* applied proposal or still the old configuration, and not all of it; the *)
(* assessment of the post-analysis may have been swallowed, which leaves   *)
(* no evaluation and no finding.                                           *)
(***************************************************************************)
Without(fs, keys) == Restrict(fs, {i \in DOMAIN fs : fs[i].key \notin keys})

\* The facts that are not the first of their key.
Repeated(fs) == {j \in DOMAIN fs : \E i \in DOMAIN fs : i < j /\ fs[i].key = fs[j].key}

\* The runner's post_facts: eval_by_rule keeps the last evaluation of a rule. The
\* rows come in no order: any evaluation may be the last, when the later facts of
\* its key were read before it (early). A fact's key names no observation.
PostEntries(post, judged, early) ==
    [r \in {t.rule_id : t \in Templates} |->
        LET evals == IF judged /\ r \in DOMAIN Rules THEN Evaluations(Rules[r], post) ELSE <<>>
            rest == DOMAIN evals \ early
            last == Max(rest)
        IN  IF rest = {} THEN [value |-> None, evidence_state |-> "UNKNOWN"]
            ELSE [value |-> post[last].value, evidence_state |-> evals[last].evidence_state]]

\* What the run's capture shows.
PostFacts(i, applied, keys) ==
    Without(IF applied
            THEN synthesize_projected_facts(parse_text(twins[runs[i].twin].rendered_proposed_config))
            ELSE facts, keys)

Verify(i, applied, keys, early, judged, healthy, analysed) ==
    LET run == runs[i]
        twin == twins[run.twin]
        post == PostFacts(i, applied, keys)
        failing == IF judged THEN Failing(post) ELSE {}
        result == compare(twin.audit.proof_obligations, Findings, failing,
                          PostEntries(post, judged, early), healthy, analysed)
    IN  /\ run.status = "CREATED"
        /\ runs' = [runs EXCEPT ![i] =
               IF result.has_security_regression
               THEN [run EXCEPT !.status = "ROLLED_BACK"]
               ELSE [run EXCEPT !.status = "COMPLETED",
                                !.verification = [result |-> result, post |-> post, judged |-> judged]]]
        /\ UNCHANGED <<capture, facts, assessed, twins, request, asked, shown>>

PlanningNext ==
    \/ Reconstruct \/ Assess
    \/ \E o \in Operators : BeginGet(o) \/ BeginPost(o) \/ ReadRest(o) \/ CommitTwin(o)
    \/ \E o \in Operators, confirmed \in BOOLEAN : ApplyProposal(o, confirmed)
    \/ \E i \in DOMAIN runs, keys \in SUBSET Unobserved :
           \E applied, judged, healthy, analysed \in BOOLEAN :
               \E early \in SUBSET Repeated(PostFacts(i, applied, keys)) :
                   Verify(i, applied, keys, early, judged, healthy, analysed)

PlanningSpec == PlanningInit /\ [][PlanningNext]_planningVars

(***************************************************************************)
(* Properties                                                              *)
(***************************************************************************)
\* The baseline findings a template exists for.
Targeted(twin) == {o.target_finding : o \in twin.audit.proof_obligations}

\* GeneratedFixesTargets. In whatever order the findings were read and the
\* templates applied, the projection of the generated proposal leaves no rule
\* failing that a template targets (templates.py, twin.py 113-137).
GeneratedFixesTargets ==
    \A i \in DOMAIN twins : twins[i].kind = "POLICY_GENERATED_PROPOSED" =>
        Targeted(twins[i]) \subseteq twins[i].audit.resolved

\* RenderedFixesTargets. The text that is hashed, shown and applied says what
\* was projected: read back, it passes every targeted rule, and none of them
\* only for lack of a fact. Only a row whose audit is about its own text can
\* promise that (renderer.py 20-95, ir.py 79-129, parser.py 65-260).
RenderedFixesTargets ==
    \A i \in DOMAIN twins :
        (twins[i].kind = "POLICY_GENERATED_PROPOSED" /\ twins[i].text_diff.to = twins[i].proposal_hash)
        => Targeted(twins[i]) \subseteq
               Judged(synthesize_projected_facts(parse_text(twins[i].rendered_proposed_config)),
                      "PASS")

\* VerifiedIsObserved. A run is reported as resolved only if the new capture
\* was assessed and every obligation's rule passed on observed evidence and
\* failed nowhere in it (comparator.py 119-131, proof.py 73-102).
VerifiedIsObserved ==
    \A i \in DOMAIN runs :
        LET v == runs[i].verification
        IN  (v # None /\ v.result.result = "RESOLVED") =>
                /\ v.judged
                /\ \A o \in DOMAIN v.result.claims :
                       /\ o.target_rule \in Judged(v.post, "PASS")
                       /\ o.target_rule \notin Failing(v.post)

=============================================================================
