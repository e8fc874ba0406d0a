------------------------------ MODULE Records ------------------------------
(***************************************************************************)
(* What the system tells about an analysis, and when it may be wrong:      *)
(*   - forensic replay (app/replay): the integrity check, the child run    *)
(*     and the comparison of both runs;                                    *)
(*   - reports (app/reporting): the snapshot, which is built by separate   *)
(*     SELECTs, the HTML and PDF artifacts and their hashes;               *)
(*   - the posture shown by the catalogue, the overview and the score and  *)
(*     risk endpoints (api/v1/analyses, api/v1/security).                  *)
(* All of them read rows that other requests replace: a recompute rebuilds *)
(* the evidence of a run, and two requests that both find no assessment    *)
(* both append one.                                                        *)
(*                                                                         *)
(* Abstractions: the evidence of a run is the verdict of each check on     *)
(* each reconstructed entity, so an empty function is a capture without    *)
(* IPsec; the file holds its original bytes, others, or is gone; every     *)
(* rule is a root cause of its own.  Limits: MaxChanges changes of the     *)
(* file and recomputations together.                                       *)
(***************************************************************************)
EXTENDS Integers, Sequences, FiniteSets, FiniteSetsExt, SequencesExt

CONSTANTS
    Severity,     \* the severity of each rule
    Checks,       \* <<rule, entity>>: the checks an IPsec capture allows
    Other,        \* what the changed bytes may show
    MaxChanges,
    NoValue       \* Python's None

Rules == DOMAIN Severity

Severities == <<"LOW", "MEDIUM", "HIGH", "CRITICAL">>

ASSUME RecordsConstants ==
    /\ \A c \in Checks : c[1] \in Rules
    /\ \A r \in Rules : Severity[r] \in ToSet(Severities)
    /\ IsFiniteSet(Checks) /\ IsFiniteSet(Rules)
    /\ MaxChanges \in Nat

ComplianceStates == {"PASS", "FAIL", "UNKNOWN"}
NotIpsec == <<>>
Evidence == [Checks -> ComplianceStates] \cup {NotIpsec}

ASSUME OtherConstant == Other \subseteq Evidence

Runs == {"parent", "child"}
Workers == {"w1", "w2"}

Rank(sev) == CHOOSE i \in 1..4 : Severities[i] = sev

-----------------------------------------------------------------------------
(***************************************************************************)
(* One assessment, as its rows record it.  The entities of a run have new  *)
(* ids after every reconstruction, and the ids and hashes of evaluations   *)
(* and findings are made of them and of the run's id.                      *)
(***************************************************************************)
Subject(r, g, e) == <<r, g, e>>

(* Without an entity a rule is judged once, on no subject, and nothing is  *)
(* known.                                                                  *)
Evaluations(r, g, v) ==
    IF v = NotIpsec
    THEN {[rule |-> x, subject |-> Subject("global", 0, NoValue), state |-> "UNKNOWN"] : x \in Rules}
    ELSE {[rule |-> c[1], subject |-> Subject(r, g, c[2]), state |-> v[c]] : c \in Checks}

FindingsOf(evals) ==
    {[rule |-> e.rule, subject |-> e.subject, severity |-> Severity[e.rule]] :
        e \in {x \in evals : x.state = "FAIL"}}

Count(evals, s) == Cardinality({e \in evals : e.state = s})

(* The percentage as the two counts it is made of; 100 for no evaluation.  *)
Coverage(evals) ==
    IF evals = {} THEN [evaluated |-> 1, applicable |-> 1]
    ELSE [evaluated |-> Count(evals, "PASS") + Count(evals, "FAIL"),
          applicable |-> Cardinality(evals)]

NoCoverage == [evaluated |-> 0, applicable |-> 1]

Below(coverage, percent) == 100 * coverage.evaluated < percent * coverage.applicable

deductions == [CRITICAL |-> 25, HIGH |-> 15, MEDIUM |-> 5, LOW |-> 2]

Worst(findings) ==
    IF findings = {} THEN 0 ELSE Max({Rank(f.severity) : f \in findings})

RawScore(findings) ==
    100 - MapThenSumSet(LAMBDA r : deductions[Severity[r]], {f.rule : f \in findings})

Score(findings) == Max({0, RawScore(findings)})

(* evaluate_risk: the tier of the worst finding; without one, whether the  *)
(* coverage allows to say so.                                              *)
RiskTierOf(evals) ==
    LET F == FindingsOf(evals) IN
    IF F # {} THEN Severities[Worst(F)]
    ELSE IF Below(Coverage(evals), 50) THEN "INSUFFICIENT_EVIDENCE" ELSE "NO_FINDINGS_UNDER_THIS_POLICY"

Assessed(r, g, v) ==
    LET E == Evaluations(r, g, v) IN
    [evals |-> E, findings |-> FindingsOf(E), coverage |-> Coverage(E),
     score |-> Score(FindingsOf(E)), raw |-> RawScore(FindingsOf(E)), tier |-> RiskTierOf(E)]

-----------------------------------------------------------------------------
(***************************************************************************)
(* replay/comparator.py.  Observations are keyed, entities compared by     *)
(* position in lists read without an order, evaluations looked up by the   *)
(* parent's keys only, findings by their record hashes.                    *)
(***************************************************************************)
FactsDiffer(p, c) == p.facts # c.facts

EntitiesDiffer(p, c) ==
    \/ Len(p.entities) # Len(c.entities)
    \/ \E i \in DOMAIN p.entities : p.entities[i] # c.entities[i]

EvaluationsDiffer(p, c) ==
    \E e \in p.evals :
        ~ \E d \in c.evals : d.rule = e.rule /\ d.subject = e.subject /\ d.state = e.state

FindingsDiffer(p, c) == p.findings # c.findings

ScoresDiffer(p, c) == p.score # c.score \/ p.raw # c.raw

compare_runs(p, c) ==
    IF \/ FactsDiffer(p, c) \/ EntitiesDiffer(p, c) \/ EvaluationsDiffer(p, c)
       \/ FindingsDiffer(p, c) \/ ScoresDiffer(p, c)
    THEN "DISCREPANCY_DETECTED" ELSE "EXACT_MATCH"

-----------------------------------------------------------------------------
(***************************************************************************)
(* The views.  "shown" has, for each rule, the one evaluation the view     *)
(* keeps: rows of one assessment are a few microseconds apart, so which    *)
(* subject's comes first is arbitrary.                                     *)
(***************************************************************************)
OnePerRule(evals) ==
    {S \in SUBSET evals : /\ \A e, d \in S : e.rule = d.rule => e = d
                          /\ {e.rule : e \in S} = {e.rule : e \in evals}}

Newest(rows) == IF rows = <<>> THEN NoValue ELSE Last(rows)

AllFindings(rows) == UNION {rows[i].findings : i \in DOMAIN rows}

AllEvaluations(rows) == UNION {rows[i].evals : i \in DOMAIN rows}

(* snapshot.py: when the report withholds the score.                       *)
Unassessable(shown, row) ==
    LET unknown == Count(shown, "UNKNOWN")
        decided == Count(shown, "PASS") + Count(shown, "FAIL")
    IN  IF row = NoValue THEN TRUE
        ELSE Below(row.coverage, 50) \/ unknown > decided

ReportScore(shown, row) == IF Unassessable(shown, row) THEN NoValue ELSE row.score

ComputedTier(findings) ==
    IF Worst(findings) \in {0, 1} THEN "LOW" ELSE Severities[Worst(findings)]

(* The recorded tier is shown, except when it is missing or LOW while the  *)
(* findings say more.                                                      *)
\* Mutant: an unassessable report never shows its findings' tier.
ReportTierHidesFindings(shown, row, findings, risk) ==
    IF Unassessable(shown, row) THEN "INSUFFICIENT_EVIDENCE"
    ELSE IF risk = NoValue THEN ComputedTier(findings) ELSE risk.tier

ReportTier(shown, row, findings, risk) ==
    IF Unassessable(shown, row) /\ findings = {} THEN "INSUFFICIENT_EVIDENCE"
    ELSE IF \/ risk = NoValue
            \/ risk # NoValue /\ risk.tier = "LOW" /\ Worst(findings) > 1
    THEN ComputedTier(findings) ELSE risk.tier

(* list_analyses: the score needs 60 % coverage, the tier 50 %.            *)
CatalogueScore(row) == IF row = NoValue THEN NoValue ELSE IF Below(row.coverage, 60) THEN NoValue ELSE row.score

CatalogueTier(rows, entities) ==
    LET row == Newest(rows)
        F == AllFindings(rows)
    IN  IF row = NoValue THEN "INSUFFICIENT_EVIDENCE"
        ELSE IF row.coverage.evaluated = 0
        THEN IF entities = {} THEN "NOT_IPSEC" ELSE "INSUFFICIENT_EVIDENCE"
        ELSE IF Below(row.coverage, 50) THEN "INSUFFICIENT_EVIDENCE"
        ELSE IF F # {} THEN Severities[Worst(F)]
        ELSE row.tier

(* get_security_score and get_risk_assessment.                             *)
EndpointScore(row) ==
    LET unknown == Count(row.evals, "UNKNOWN")
    IN  IF Below(row.coverage, 50) \/ unknown > Cardinality(row.evals) - unknown THEN NoValue ELSE row.score

EndpointTier(row) == IF row.coverage.evaluated = 0 /\ row.findings = {} THEN "INSUFFICIENT_EVIDENCE" ELSE row.tier

-----------------------------------------------------------------------------
VARIABLES
    truth,      \* what the original and the changed bytes show
    bytes,      \* the stored capture: "original", "changed" or "gone"
    evidence,   \* what each run's evidence was extracted from, NoValue before
    gen,        \* reconstructions of each run so far
    rows,       \* the assessments of each run, oldest first
    work,       \* assessments in progress: the run and what was computed
    replay,     \* the replay request, what it has read, and its outcome
    snap,       \* the report request and the parts of its snapshot
    report_row, \* the report row and its two artifacts
    changes     \* changes of the file and recomputations so far

recordsVars == <<truth, bytes, evidence, gen, rows, work, replay, snap, report_row, changes>>

NoWork == [pc |-> "idle", run |-> NoValue, made |-> NoValue]
NoSnap == [pc |-> "none", for |-> "report", facts |-> NoValue, shown |-> {}, findings |-> {}, row |-> NoValue, torn |-> FALSE]
NoReplay == [pc |-> "none", status |-> NoValue, read |-> NoValue, undisturbed |-> TRUE]
NoReport == [status |-> NoValue, html |-> NoValue, pdf |-> NoValue, manifest |-> NoValue]

RecordsInit ==
    /\ truth \in {[original |-> v, changed |-> o] : v \in Evidence, o \in Other}
    /\ bytes = "original"
    /\ evidence = [r \in Runs |-> IF r = "parent" THEN "original" ELSE NoValue]
    /\ gen = [r \in Runs |-> 0]
    /\ rows = [r \in Runs |-> <<>>]
    /\ work = [w \in Workers |-> NoWork]
    /\ replay = NoReplay
    /\ snap = NoSnap
    /\ report_row = NoReport
    /\ changes = 0

(* The file is overwritten, or lost. *)
Disturb(b) ==
    /\ changes < MaxChanges
    /\ bytes = "original"
    /\ bytes' = b
    /\ changes' = changes + 1
    /\ replay' = [replay EXCEPT !.undisturbed = FALSE]
    /\ UNCHANGED <<truth, evidence, gen, rows, work, snap, report_row>>

(* A recompute of the run extracts and rebuilds its evidence from the      *)
(* bytes there are now, without a look at the recorded hash; assessments   *)
(* already made stay.                                                      *)
Recompute ==
    /\ changes < MaxChanges
    /\ bytes # "gone"
    /\ changes' = changes + 1
    /\ evidence' = [evidence EXCEPT !["parent"] = bytes]
    /\ gen' = [gen EXCEPT !["parent"] = @ + 1]
    /\ replay' = [replay EXCEPT !.undisturbed = FALSE]
    /\ UNCHANGED <<truth, bytes, rows, work, snap, report_row>>

(* _ensure_assessment_executed: nothing when a score row exists, else the  *)
(* assessment of the evidence of now ...                                   *)
AssessBegin(w, r) ==
    /\ work[w].pc = "idle"
    /\ evidence[r] # NoValue
    /\ rows[r] = <<>>
    /\ work' = [work EXCEPT ![w] = [pc |-> "commit", run |-> r,
                                    made |-> Assessed(r, gen[r], truth[evidence[r]])]]
    /\ UNCHANGED <<truth, bytes, evidence, gen, rows, replay, snap, report_row, changes>>

(* ... whose rows are added later, whatever was added meanwhile.           *)
AssessCommit(w) ==
    /\ work[w].pc = "commit"
    /\ rows' = [rows EXCEPT ![work[w].run] = Append(@, work[w].made)]
    /\ work' = [work EXCEPT ![w] = [NoWork EXCEPT !.pc = "done"]]
    /\ snap' = IF snap.pc \in {"none", "done"} THEN snap ELSE [snap EXCEPT !.torn = TRUE]
    /\ UNCHANGED <<truth, bytes, evidence, gen, replay, report_row, changes>>

-----------------------------------------------------------------------------
(***************************************************************************)
(* The replay request.                                                     *)
(***************************************************************************)
verify_capture_integrity == bytes = "original"

\* Mutant: only a missing file stops the replay.
ReplayCheckExists ==
    /\ replay.pc = "none"
    /\ replay' = [replay EXCEPT !.pc = IF bytes # "gone" THEN "run" ELSE "aborted", !.read = bytes]
    /\ UNCHANGED <<truth, bytes, evidence, gen, rows, work, snap, report_row, changes>>

(* Fails closed: no child run without the recorded hash.                   *)
ReplayCheck ==
    /\ replay.pc = "none"
    /\ replay' = [replay EXCEPT !.pc = IF verify_capture_integrity THEN "run" ELSE "aborted",
                                !.read = bytes]
    /\ UNCHANGED <<truth, bytes, evidence, gen, rows, work, snap, report_row, changes>>

(* The pipeline opens the file again.  Without it the child fails and the  *)
(* request ends; a capture without IPsec is not reconstructed or assessed. *)
(* Otherwise the child is assessed in the same request, unless that fails, *)
(* which is only logged.                                                   *)
ReplayRun ==
    /\ replay.pc = "run"
    /\ IF bytes = "gone"
       THEN replay' = [replay EXCEPT !.pc = "failed"] /\ UNCHANGED <<evidence, rows>>
       ELSE /\ replay' = [replay EXCEPT !.pc = "compare"]
            /\ evidence' = [evidence EXCEPT !["child"] = bytes]
            /\ rows' \in IF truth[bytes] = NotIpsec THEN {rows}
                         ELSE {rows, [rows EXCEPT !["child"] =
                                         Append(@, Assessed("child", gen["child"], truth[bytes]))]}
    /\ UNCHANGED <<truth, bytes, gen, work, snap, report_row, changes>>

EntitiesOf(v) == {c[2] : c \in DOMAIN v}

Listings(S) == {q \in [1..Cardinality(S) -> S] : \A i, j \in DOMAIN q : q[i] = q[j] => i = j}

(* _extract_run_entities: no order for entities, and the first score row   *)
(* there is.                                                               *)
ExtractedRun(r, q, i) ==
    LET E == AllEvaluations(rows[r]) IN
    [facts |-> evidence[r], entities |-> q, evals |-> E, findings |-> FindingsOf(E),
     score |-> IF rows[r] = <<>> THEN NoValue ELSE rows[r][i].score,
     raw |-> IF rows[r] = <<>> THEN NoValue ELSE rows[r][i].raw]

Extracted(r) ==
    {ExtractedRun(r, q, i) : q \in Listings(EntitiesOf(truth[evidence[r]])),
                             i \in IF rows[r] = <<>> THEN {0} ELSE DOMAIN rows[r]}

(* The comparison is committed as a row of its own; its status is also put *)
(* into the child's provenance, in place, so that column is not written.   *)
ReplayCompare ==
    /\ replay.pc = "compare"
    /\ \E p \in Extracted("parent"), c \in Extracted("child") :
          replay' = [replay EXCEPT !.pc = "done", !.status = compare_runs(p, c)]
    /\ UNCHANGED <<truth, bytes, evidence, gen, rows, work, snap, report_row, changes>>

(* get_replay_lineage: the integrity shown beside the latest comparison.   *)
LineageStatus ==
    CASE bytes = "original" -> "VERIFIED"
      [] bytes = "gone" -> "FILE_NOT_FOUND"
      [] bytes = "changed" -> "HASH_MISMATCH"

-----------------------------------------------------------------------------
(***************************************************************************)
(* A report request, and a download of a PDF that is missing, build a      *)
(* snapshot of the parent, part by part.                                   *)
(***************************************************************************)
SnapBegin ==
    /\ \/ /\ snap.pc = "none"
          /\ snap' = [NoSnap EXCEPT !.pc = "evals", !.facts = evidence["parent"]]
       \/ /\ snap.pc = "done" /\ report_row.pdf = NoValue
          /\ snap' = [NoSnap EXCEPT !.pc = "evals", !.facts = evidence["parent"], !.for = "pdf"]
    /\ UNCHANGED <<truth, bytes, evidence, gen, rows, work, replay, report_row, changes>>

(* The newest evaluation of each rule: rows of the newest assessment.      *)
SnapEvals ==
    /\ snap.pc = "evals"
    /\ \E S \in OnePerRule(IF rows["parent"] = <<>> THEN {} ELSE Last(rows["parent"]).evals) :
          snap' = [snap EXCEPT !.pc = "findings", !.shown = S]
    /\ UNCHANGED <<truth, bytes, evidence, gen, rows, work, replay, report_row, changes>>

(* The findings of all assessments, one of each id. *)
SnapFindings ==
    /\ snap.pc = "findings"
    /\ snap' = [snap EXCEPT !.pc = "score", !.findings = AllFindings(rows["parent"])]
    /\ UNCHANGED <<truth, bytes, evidence, gen, rows, work, replay, report_row, changes>>

SnapScore ==
    /\ snap.pc = "score"
    /\ snap' = [snap EXCEPT !.pc = "risk", !.row = Newest(rows["parent"])]
    /\ UNCHANGED <<truth, bytes, evidence, gen, rows, work, replay, report_row, changes>>

(* What the artifacts say. *)
Content(s, risk) ==
    [facts |-> s.facts, findings |-> s.findings, torn |-> s.torn, newest |-> risk,
     coverage |-> IF s.row = NoValue THEN NoCoverage ELSE s.row.coverage,
     score |-> ReportScore(s.shown, s.row),
     tier |-> ReportTier(s.shown, s.row, s.findings, risk)]

(* The risk row, the artifacts and the report's row; the PDF may fail.     *)
generate_report_artifacts(content) ==
    {[status |-> "COMPLETED", html |-> content, pdf |-> content, manifest |-> content],
     [status |-> "PDF_FAILED_HTML_AVAILABLE", html |-> content, pdf |-> NoValue, manifest |-> content]}

create_report ==
    /\ snap.pc = "risk" /\ snap.for = "report"
    /\ snap' = [snap EXCEPT !.pc = "done"]
    /\ LET content == Content(snap, Newest(rows["parent"])) IN
       report_row' \in generate_report_artifacts(content)
    /\ UNCHANGED <<truth, bytes, evidence, gen, rows, work, replay, changes>>

(* The download stores the PDF of its own snapshot and completes the       *)
(* report; the row keeps the manifest of the first.                        *)
get_report_bytes ==
    /\ snap.pc = "risk" /\ snap.for = "pdf"
    /\ snap' = [snap EXCEPT !.pc = "done"]
    /\ report_row' = [report_row EXCEPT !.status = "COMPLETED", !.pdf = Content(snap, Newest(rows["parent"]))]
    /\ UNCHANGED <<truth, bytes, evidence, gen, rows, work, replay, changes>>

RecordsNext ==
    \/ \E b \in {"changed", "gone"} : Disturb(b)
    \/ Recompute
    \/ \E w \in Workers : AssessBegin(w, "parent") \/ AssessCommit(w)
    \/ ReplayCheck \/ ReplayRun \/ ReplayCompare
    \/ SnapBegin \/ SnapEvals \/ SnapFindings \/ SnapScore \/ create_report
    \/ get_report_bytes

RecordsSpec == RecordsInit /\ [][RecordsNext]_recordsVars

-----------------------------------------------------------------------------
(* What the replay promises, that the ids of rows are not compared         *)
(* (comparator.py:4-6 and docs/verification/REPLAY_AND_EVIDENCE_CHAIN.md   *)
(* 49-66): two runs over the same bytes, each assessed once, can be found  *)
(* to match, for some order at least in which their rows come.  The code   *)
(* looks evaluations up by the subject's id and compares findings by       *)
(* hashes made of such ids, and both are new in every run                  *)
(* (comparator.py:184-201).                                                *)
SameEvidenceMatches ==
    /\ replay.pc = "compare" /\ replay.undisturbed
    /\ \A r \in Runs : Len(rows[r]) = 1
    => \E p \in Extracted("parent"), c \in Extracted("child") : compare_runs(p, c) = "EXACT_MATCH"

(* A comparison, recorded with artifact_integrity VERIFIED, exists only    *)
(* for a file that had its hash, and compares the same bytes unless the    *)
(* file was changed or the run recomputed meanwhile; while the lineage     *)
(* says VERIFIED both runs rest on the recorded bytes                      *)
(* (service.py:126-191, 343-358).                                          *)
ReplayOfTheEvidence ==
    replay.pc = "done" =>
        /\ replay.read = "original"
        /\ replay.undisturbed \/ LineageStatus = "VERIFIED"
              => evidence["parent"] = "original" /\ evidence["child"] = "original"

(* No view plays a finding down: the tier of a report built while no       *)
(* assessment was committed is at least that of the worst finding of the   *)
(* newest assessment, that of the catalogue at least that of every finding *)
(* it counts, unless it says the evidence is insufficient; and no view     *)
(* shows a score below 50 % coverage (snapshot.py:353 and 412-426,         *)
(* analyses/router.py:212 and 292-311, security/router.py:567).            *)
AtLeast(tier, findings) ==
    findings = {} \/ (tier \in ToSet(Severities) /\ Rank(tier) >= Worst(findings))

FindingsNotPlayedDown ==
    /\ \A c \in {report_row.html, report_row.pdf} \ {NoValue} :
          ~c.torn /\ c.newest # NoValue => AtLeast(c.tier, c.newest.findings)
    /\ LET tier == CatalogueTier(rows["parent"], EntitiesOf(truth[evidence["parent"]])) IN
       tier \notin {"INSUFFICIENT_EVIDENCE", "NOT_IPSEC"} => AtLeast(tier, AllFindings(rows["parent"]))
    /\ \A i \in DOMAIN rows["parent"] :
          AtLeast(EndpointTier(rows["parent"][i]), rows["parent"][i].findings)
    /\ \A c \in {report_row.html, report_row.pdf} \ {NoValue} : c.score # NoValue => ~Below(c.coverage, 50)
    /\ \A r \in Runs : \A i \in DOMAIN rows[r] :
          Below(rows[r][i].coverage, 50)
              => CatalogueScore(rows[r][i]) = NoValue /\ EndpointScore(rows[r][i]) = NoValue

=============================================================================
