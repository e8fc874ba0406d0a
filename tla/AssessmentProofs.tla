--------------------------- MODULE AssessmentProofs ---------------------------
(***************************************************************************)
(* Proofs about the security assessment, for every capture, bundle and     *)
(* order of rows: what is found out about one subject is decided by its    *)
(* own evidence where it has any, and is never reversed by more evidence.  *)
(*                                                                         *)
(* First the evaluator alone: for every rule whose conditions test values, *)
(* and for all fact maps, evaluating on part of the evidence gives a       *)
(* verdict the whole evidence does not reverse.  The argument goes up the  *)
(* syntax of a rule. A leaf on less evidence is UNKNOWN or what it is on   *)
(* more (LeafLemma). So a group that is TRUE or FALSE on less evidence is  *)
(* the same on more (the three group lemmas and ConditionLemma). Required  *)
(* keys that are present stay present (MissingLemma). The verdict follows. *)
(*                                                                         *)
(* Then what is told of assessments (Records), for any number of rules,    *)
(* entities, assessments, changes of the file and recomputations: replays  *)
(* compare the recorded bytes, a match is a match of findings, and no view *)
(* plays a finding down.  RecordsInv is the invariant.                     *)
(*                                                                         *)
(* Last what is made of packets (CaptureAnalysis), for any that can be     *)
(* captured: the observations of a packet are of the protocols of its      *)
(* layers (ProtocolsLemma), so that frames counted by either are the same, *)
(* and a transform a frame has was observed in it (TransformObserved).     *)
(***************************************************************************)
EXTENDS CaptureAnalysis, Records, FiniteSetTheorems, SequenceTheorems, TLAPS

\* A leaf that does not ask for existence is UNKNOWN on part of the evidence, or
\* has the value it has on all of it (evaluate_operator: "observed is None").
LEMMA LeafLemma ==
    ASSUME NEW m1, NEW m2, PartOf(m1, m2), NEW l, l.op \notin ExistenceOperator
    PROVE  EvalLeaf(l, m1) = "UNKNOWN" \/ EvalLeaf(l, m1) = EvalLeaf(l, m2)
<1>1. CASE l.field \in DOMAIN m1
  <2>1. Observed(m1, l.field) = Observed(m2, l.field)
    BY <1>1 DEF PartOf, Observed
  <2> QED
    BY <2>1 DEF EvalLeaf
<1>2. CASE l.field \notin DOMAIN m1
  <2>1. Observed(m1, l.field) = None
    BY <1>2 DEF Observed
  <2>2. l.op # "exists" /\ l.op # "not_exists"
    BY DEF ExistenceOperator
  <2> QED
    BY <2>1, <2>2 DEF EvalLeaf, evaluate_operator
<1> QED
  BY <1>1, <1>2

\* S1 holds the values of a group's leaves on part of the evidence, S2 on all of
\* it: what is decided in S1 is in S2, and S2 has nothing new if S1 is decided.
Refines(S1, S2) ==
    /\ \A x \in S1 : x = "UNKNOWN" \/ x \in S2
    /\ "UNKNOWN" \notin S1 => S2 = S1

\* The values of the leaves of one condition are so related.
LEMMA StatesLemma ==
    ASSUME NEW m1, NEW m2, PartOf(m1, m2), NEW c,
           \A l \in Leaves(c) : l.op \notin ExistenceOperator
    PROVE  Refines(States(c, m1), States(c, m2))
<1>1. \A l \in Leaves(c) :
          EvalLeaf(l, m1) = "UNKNOWN" \/ EvalLeaf(l, m1) = EvalLeaf(l, m2)
  BY LeafLemma
<1>2. \A x \in States(c, m1) : x = "UNKNOWN" \/ x \in States(c, m2)
  BY <1>1 DEF States
<1>3. ASSUME "UNKNOWN" \notin States(c, m1)
      PROVE  States(c, m2) = States(c, m1)
  <2>1. \A l \in Leaves(c) : EvalLeaf(l, m1) = EvalLeaf(l, m2)
    BY <1>1, <1>3 DEF States
  <2> QED
    BY <2>1 DEF States
<1> QED
  BY <1>2, <1>3 DEF Refines

\* A conjunction that is decided on part of the evidence is decided the same way
\* on all of it (kleene_all).
LEMMA AllLemma ==
    ASSUME NEW S1, NEW S2, Refines(S1, S2)
    PROVE  kleene_all(S1) = "UNKNOWN" \/ kleene_all(S1) = kleene_all(S2)
BY DEF Refines, kleene_all

\* The same of a disjunction (kleene_any).
LEMMA AnyLemma ==
    ASSUME NEW S1, NEW S2, Refines(S1, S2)
    PROVE  kleene_any(S1) = "UNKNOWN" \/ kleene_any(S1) = kleene_any(S2)
BY DEF Refines, kleene_any

\* The same of a condition (_eval_assertion, _eval_applicability).
LEMMA ConditionLemma ==
    ASSUME NEW m1, NEW m2, PartOf(m1, m2), NEW c,
           \A l \in Leaves(c) : l.op \notin ExistenceOperator
    PROVE  EvalCondition(c, m1) = "UNKNOWN" \/ EvalCondition(c, m1) = EvalCondition(c, m2)
<1>1. Refines(States(c, m1), States(c, m2))
  BY StatesLemma
<1>2. \/ kleene_all(States(c, m1)) = "UNKNOWN"
      \/ kleene_all(States(c, m1)) = kleene_all(States(c, m2))
  BY <1>1, AllLemma
<1>3. \/ kleene_any(States(c, m1)) = "UNKNOWN"
      \/ kleene_any(States(c, m1)) = kleene_any(States(c, m2))
  BY <1>1, AnyLemma
<1> QED
  BY <1>2, <1>3 DEF EvalCondition, kleene_not

\* Evidence that meets a rule's requirements meets them with more beside it
\* (the loop over evidence_requirements).
LEMMA MissingLemma ==
    ASSUME NEW m1, NEW m2, PartOf(m1, m2), NEW rule, Missing(rule, m1) = {}
    PROVE  Missing(rule, m2) = {}
BY DEF PartOf, Missing

\* The verdict of a rule that tests values is not reversed by further evidence:
\* a PASS or FAIL stays what it is unless the rule turns out not to apply, and a
\* rule that does not apply still does not (_evaluate_single_subject).
THEOREM VerdictIsSound ==
    ASSUME NEW rule, ValueRule(rule), NEW m1, NEW m2, PartOf(m1, m2)
    PROVE  NoReversal(rule, m1, m2)
<1>1. \/ EvalCondition(rule.assertion, m1) = "UNKNOWN"
      \/ EvalCondition(rule.assertion, m1) = EvalCondition(rule.assertion, m2)
  BY ConditionLemma DEF ValueRule
<1>2. Applies(rule, m2) => Applies(rule, m1)
  <2>1. CASE rule.applicability = None
    BY <2>1 DEF Applies
  <2>2. CASE rule.applicability # None
    <3>1. \/ EvalCondition(rule.applicability, m1) = "UNKNOWN"
          \/ EvalCondition(rule.applicability, m1) = EvalCondition(rule.applicability, m2)
      BY <2>2, ConditionLemma DEF ValueRule
    <3> QED
      BY <2>2, <3>1 DEF Applies
  <2> QED
    BY <2>1, <2>2
<1>3. Missing(rule, m1) = {} => Missing(rule, m2) = {}
  BY MissingLemma
<1> QED
  BY <1>1, <1>2, <1>3 DEF NoReversal, Verdict, Decided

-----------------------------------------------------------------------------
\* Partial evidence gives a verdict the rest does not reverse, in every report:
\* VerdictIsSound, applied to the parts of a subject's fact map.
THEOREM PartialEvidence == Spec => []PartialEvidenceSound
<1>1. PartialEvidenceSound
  <2> SUFFICES ASSUME NEW r \in report.records, ValueRule(Bundle[r.rule]),
                      NEW m, m = SubjectFacts(GlobalFacts(report.facts, tables),
                                              OwnFacts(report.facts, r.subject)),
                      NEW seen \in SUBSET (DOMAIN m \cap RuleFields(Bundle[r.rule]))
               PROVE  NoReversal(Bundle[r.rule], [k \in seen |-> m[k]], m)
    BY DEF PartialEvidenceSound
  <2>1. PartOf([k \in seen |-> m[k]], m)
    BY DEF PartOf
  <2> QED
    BY <2>1, VerdictIsSound
<1> QED
  BY <1>1, PTL

-----------------------------------------------------------------------------
\* A verdict depends on the facts a rule looks at and on no other: a leaf.
LEMMA SameLeaf ==
    ASSUME NEW m1, NEW m2, NEW l, l.field \in DOMAIN m1, PartOf(m1, m2)
    PROVE  EvalLeaf(l, m1) = EvalLeaf(l, m2)
BY DEF EvalLeaf, Observed, PartOf

\* A condition all of whose fields are present.
LEMMA SameCondition ==
    ASSUME NEW m1, NEW m2, NEW c, Fields(c) \subseteq DOMAIN m1, PartOf(m1, m2)
    PROVE  EvalCondition(c, m1) = EvalCondition(c, m2)
<1>1. \A l \in Leaves(c) : EvalLeaf(l, m1) = EvalLeaf(l, m2)
  BY SameLeaf DEF Fields
<1>2. States(c, m1) = States(c, m2)
  BY <1>1 DEF States
<1> QED
  BY <1>2 DEF EvalCondition

\* A rule all of whose fields are present (_evaluate_single_subject).
LEMMA SameVerdict ==
    ASSUME NEW m1, NEW m2, NEW rule, RuleFields(rule) \subseteq DOMAIN m1, PartOf(m1, m2)
    PROVE  Verdict(rule, m1) = Verdict(rule, m2)
<1>1. EvalCondition(rule.assertion, m1) = EvalCondition(rule.assertion, m2)
  BY SameCondition DEF RuleFields
<1>2. Applies(rule, m1) <=> Applies(rule, m2)
  <2>1. CASE rule.applicability = None
    BY <2>1 DEF Applies
  <2>2. CASE rule.applicability # None
    <3>1. Fields(rule.applicability) \subseteq DOMAIN m1
      BY <2>2 DEF RuleFields, ApplicabilityFields
    <3> QED
      BY <3>1, SameCondition DEF Applies
  <2> QED
    BY <2>1, <2>2
<1>3. Missing(rule, m1) = Missing(rule, m2)
  BY DEF Missing, RuleFields, PartOf
<1> QED
  BY <1>1, <1>2, <1>3 DEF Verdict

-----------------------------------------------------------------------------
\* No fact is about the capture as a whole.
NoGlobalFact(facts) == \A f \in facts : f.subject # <<"GLOBAL">>

\* The normalizer attributes every fact to a session, an SA, a Child SA or a flow.
LEMMA NormalizeLemma ==
    ASSUME NEW ref, NEW c, NEW t, NEW offer
    PROVE  NoGlobalFact(normalize(ref, c, t, offer))
<1>1. \A k, x : <<k, x>> # <<"GLOBAL">>
  OBVIOUS
<1>2. \A s : NoGlobalFact(SessionFacts(s))
  BY <1>1 DEF NoGlobalFact, SessionFacts, Fact
<1>3. \A s, sa : NoGlobalFact(SaFacts(s, sa))
  BY <1>1 DEF NoGlobalFact, SaFacts, Fact
<1>4. \A ch, e : NoGlobalFact(ChildFacts(ref, ch, e))
  BY <1>1 DEF NoGlobalFact, ChildFacts, Fact
<1>5. \A fl, i : NoGlobalFact(FlowFacts(ref, c, fl, i))
  <2> SUFFICES ASSUME NEW fl, NEW i
               PROVE  NoGlobalFact(FlowFacts(ref, c, fl, i))
    OBVIOUS
  <2> DEFINE F(field, value) == Fact("esp_flow", <<"esp_flow", i>>, field, value, "VERIFIED", {})
  <2>1. \A field, value : F(field, value).subject = <<"esp_flow", i>>
    BY DEF Fact
  <2>2. \A f \in FlowFacts(ref, c, fl, i) : \E field, value : f = F(field, value)
    BY Zenon DEF FlowFacts
  <2> QED
    BY <1>1, <2>1, <2>2 DEF NoGlobalFact
<1>6. ASSUME NEW f \in normalize(ref, c, t, offer)
      PROVE  \/ \E s : f \in SessionFacts(s)
             \/ \E s, sa : f \in SaFacts(s, sa)
             \/ \E ch, e : f \in ChildFacts(ref, ch, e)
             \/ \E fl, i : f \in FlowFacts(ref, c, fl, i)
  BY <1>6 DEF normalize
<1> QED
  BY <1>2, <1>3, <1>4, <1>5, <1>6 DEF NoGlobalFact

\* The report is the evaluation of its own facts over the tables it was made from.
Consistent(rep, t) ==
    /\ rep.records = evaluate_all(rep.facts, t)
    /\ NoGlobalFact(rep.facts)

\* Whatever order the observations were read in (run_assessment).
LEMMA AssessmentLemma ==
    ASSUME NEW ref, NEW c, NEW t, NEW rep \in run_assessment(ref, c, t)
    PROVE  Consistent(rep, t)
<1>1. PICK offer \in OfferedEncryption(c) :
        /\ rep.facts = normalize(ref, c, t, offer)
        /\ rep.records = evaluate_all(normalize(ref, c, t, offer), t)
  BY DEF run_assessment
<1> QED
  BY <1>1, NormalizeLemma DEF Consistent

\* The outcome of a rule for a subject is the verdict on the facts chosen for it.
LEMMA RecordLemma ==
    ASSUME NEW facts, NEW t, NEW r \in evaluate_all(facts, t)
    PROVE  /\ r.rule \in DOMAIN Bundle
           /\ \/ r.subject = <<"GLOBAL">>
              \/ r.compliance_state =
                    Verdict(Bundle[r.rule], SubjectFacts(GlobalFacts(facts, t),
                                                         OwnFacts(facts, r.subject)))
<1>1. PICK i \in DOMAIN Bundle : r \in evaluate_rule(i, facts, t)
  BY DEF evaluate_all
<1>2. \A s, m : /\ Record(i, s, m).rule = i
                /\ Record(i, s, m).subject = s
                /\ Record(i, s, m).compliance_state = Verdict(Bundle[i], m)
  BY DEF Record, _evaluate_single_subject
<1>3. CASE Candidates(Bundle[i], facts) = {}
  BY <1>1, <1>2, <1>3 DEF evaluate_rule
<1>4. CASE Candidates(Bundle[i], facts) # {}
  <2>1. PICK s : r = Record(i, s, SubjectFacts(GlobalFacts(facts, t), OwnFacts(facts, s)))
    BY <1>1, <1>4 DEF evaluate_rule
  <2> QED
    BY <2>1, <1>2
<1> QED
  BY <1>3, <1>4

\* In a consistent report a subject with all the evidence a rule looks at is
\* judged by it, whatever the other tunnels of the capture show.
LEMMA ConsistentOwn ==
    ASSUME Consistent(report, tables)
    PROVE  OwnEvidenceDecides
<1> SUFFICES ASSUME NEW r \in report.records,
                    RuleFields(Bundle[r.rule]) \subseteq DOMAIN OwnFacts(report.facts, r.subject)
             PROVE  r.compliance_state
                      = Verdict(Bundle[r.rule], OwnFacts(report.facts, r.subject))
  BY DEF OwnEvidenceDecides
<1> DEFINE own == OwnFacts(report.facts, r.subject)
           whole == SubjectFacts(GlobalFacts(report.facts, tables), own)
<1>1. /\ r.rule \in DOMAIN Bundle
      /\ \/ r.subject = <<"GLOBAL">>
         \/ r.compliance_state = Verdict(Bundle[r.rule], whole)
  BY RecordLemma DEF Consistent
<1>2. r.subject # <<"GLOBAL">>
  <2>1. PICK k : k \in DOMAIN own
    BY <1>1, AssessmentAssumption DEF RuleFields
  <2>2. PICK f \in report.facts : f.subject = r.subject
    BY <2>1 DEF OwnFacts, FactMap
  <2> QED
    BY <2>2 DEF Consistent, NoGlobalFact
<1>3. PartOf(own, whole)
  BY DEF PartOf, SubjectFacts
<1> QED
  BY <1>1, <1>2, <1>3, SameVerdict

\* Isolation of tunnels, for every bundle and capture: in every report a subject
\* that has evidence of its own for all a rule looks at gets the verdict of that
\* evidence (evaluate_rule's update of the global facts by the subject's).
THEOREM OwnEvidence == Spec => []OwnEvidenceDecides
<1>1. Init => Consistent(report, tables)
  BY AssessmentLemma DEF Init
<1>2. Consistent(report, tables) /\ [Next]_vars => Consistent(report, tables)'
  <2> SUFFICES ASSUME Consistent(report, tables), [Next]_vars
               PROVE  Consistent(report', tables')
    OBVIOUS
  <2>1. ASSUME NEW f \in Frames, Analyse(f)
        PROVE  Consistent(report', tables')
    BY <2>1, AssessmentLemma DEF Analyse
  <2>2. CASE UNCHANGED vars
    BY <2>2 DEF vars
  <2> QED
    BY <2>1, <2>2 DEF Next
<1>3. Consistent(report, tables) => OwnEvidenceDecides
  BY ConsistentOwn
<1> QED
  BY <1>1, <1>2, <1>3, PTL DEF Spec

-----------------------------------------------------------------------------
(***************************************************************************)
(* Reconstruction.  Each stage is a fold over a sorted list: the invariant *)
(* of the fold (HasFirst, PairsMade, StreamsMade, FlowsMade) says what the *)
(* elements so far have been made into, one lemma shows that a further one *)
(* keeps it, and Folding that it then holds of the whole list.             *)
(***************************************************************************)

\* Times are numbers.
LEMMA FrameNumbers ==
    IdleTimeout \in Nat /\ \A f \in Frames : f.time \in Int
BY FrameAssumption

\* s holds the frames of S, each once, in the order of key.
InOrder(s, key, S) ==
    /\ s \in Seq(S)
    /\ \A n \in S : \E k \in DOMAIN s : s[k] = n
    /\ \A j, k \in DOMAIN s : j < k => Before(key, s[j], s[k])

\* The frames of S that come before frame n.
Earlier(key, S, n) == {m \in S : Before(key, m, n)}

\* How many frames come before a frame grows along the order.
LEMMA EarlierLemma ==
    ASSUME NEW key, NEW S \in SUBSET Nat, IsFiniteSet(S), \A n \in S : key[n] \in Int
    PROVE  /\ \A n \in S : Cardinality(Earlier(key, S, n)) \in 0..(Cardinality(S) - 1)
           /\ \A m, n \in S : Before(key, m, n) =>
                Cardinality(Earlier(key, S, m)) < Cardinality(Earlier(key, S, n))
<1>0. Cardinality(S) \in Nat
  BY FS_CardinalityType
<1>1. ASSUME NEW T \in SUBSET S, NEW U \in SUBSET T, NEW x \in T, x \notin U
      PROVE  /\ Cardinality(U) \in Nat /\ Cardinality(T) \in Nat
             /\ Cardinality(U) < Cardinality(T)
  <2>1. IsFiniteSet(T) /\ IsFiniteSet(U)
    BY FS_Subset
  <2>2. Cardinality(T) \in Nat /\ Cardinality(U) \in Nat
    BY <2>1, FS_CardinalityType
  <2>3. Cardinality(U) <= Cardinality(T) /\ Cardinality(U) # Cardinality(T)
    BY <1>1, <2>1, FS_Subset
  <2> QED  BY <2>2, <2>3
<1>2. ASSUME NEW n \in S
      PROVE  Cardinality(Earlier(key, S, n)) \in 0..(Cardinality(S) - 1)
  <2>1. Earlier(key, S, n) \in SUBSET S /\ n \notin Earlier(key, S, n)
    BY DEF Earlier, Before
  <2>2. /\ Cardinality(Earlier(key, S, n)) \in Nat
        /\ Cardinality(Earlier(key, S, n)) < Cardinality(S)
    BY <1>1, <2>1
  <2> QED  BY <1>0, <2>2
<1>3. ASSUME NEW m \in S, NEW n \in S, Before(key, m, n)
      PROVE  Cardinality(Earlier(key, S, m)) < Cardinality(Earlier(key, S, n))
  <2>1. Earlier(key, S, m) \subseteq Earlier(key, S, n)
    <3> SUFFICES ASSUME NEW x \in S, Before(key, x, m)
                 PROVE  Before(key, x, n)
      BY DEF Earlier
    <3>1. /\ key[x] \in Int /\ key[m] \in Int /\ key[n] \in Int
          /\ x \in Int /\ m \in Int /\ n \in Int
      OBVIOUS
    <3> QED  BY <1>3, <3>1 DEF Before
  <2>2. m \in Earlier(key, S, n) /\ m \notin Earlier(key, S, m)
    BY <1>3 DEF Earlier, Before
  <2>3. Earlier(key, S, n) \in SUBSET S
    BY DEF Earlier
  <2> QED  BY <1>1, <2>1, <2>2, <2>3
<1> QED  BY <1>2, <1>3

\* Sorted puts every frame of a set in its place, so nothing is lost or doubled by
\* an ORDER BY.
LEMMA SortedLemma ==
    ASSUME NEW key, NEW S \in SUBSET Nat, IsFiniteSet(S), \A n \in S : key[n] \in Int
    PROVE  InOrder(Sorted(key, S), key, S)
<1> DEFINE N == Cardinality(S)
           Place(n) == Cardinality(Earlier(key, S, n))
           f == [n \in S |-> Place(n)]
           s == Sorted(key, S)
<1>0. N \in Nat
  BY FS_CardinalityType
<1>1. \A n \in S : Place(n) \in 0..(N - 1)
  BY EarlierLemma
<1>2. \A m, n \in S : Before(key, m, n) => Place(m) < Place(n)
  BY EarlierLemma
<1>3. \A m, n \in S : m # n => Before(key, m, n) \/ Before(key, n, m)
  BY DEF Before
<1>4. \A m, n \in S : Place(m) = Place(n) => m = n
  <2>1. \A m \in S : Place(m) \in Int
    BY <1>1
  <2> HIDE DEF Place
  <2> QED  BY <1>2, <1>3, <2>1
<1>5. \A k \in 1..N : \E n \in S : Place(n) = k - 1
  <2> HIDE DEF Place
  <2>1. f \in Injection(S, 0..(N - 1))
    BY <1>1, <1>4 DEF Injection, IsInjective
  <2>2. IsFiniteSet(0..(N - 1)) /\ Cardinality(0..(N - 1)) = N
    <3>1. 0 \in Int /\ N - 1 \in Int
      BY <1>0
    <3>2. /\ IsFiniteSet(0..(N - 1))
          /\ Cardinality(0..(N - 1)) = IF 0 > N - 1 THEN 0 ELSE (N - 1) - 0 + 1
      BY <3>1, FS_Interval
    <3> QED  BY <1>0, <3>2
  <2>3. f \in Surjection(S, 0..(N - 1))
    BY <2>1, <2>2, FS_Injection
  <2>4. \A k \in 1..N : k - 1 \in 0..(N - 1)
    BY <1>0
  <2> QED  BY <2>3, <2>4 DEF Surjection
<1>6. /\ DOMAIN s = 1..N
      /\ \A k \in 1..N : s[k] = CHOOSE n \in S : Place(n) = k - 1
  BY DEF Sorted, Earlier
<1>7. \A k \in 1..N : s[k] \in S /\ Place(s[k]) = k - 1
  <2> HIDE DEF Place, s
  <2> QED  BY <1>5, <1>6
<1>8. s \in Seq(S)
  <2>1. s = [k \in 1..N |-> s[k]]
    <3>1. s = [k \in 1..N |-> CHOOSE n \in S : Place(n) = k - 1]
      BY DEF Sorted, Earlier
    <3> HIDE DEF s, Place
    <3> QED  BY <3>1
  <2> HIDE DEF Place, s, N
  <2> QED  BY <1>0, <1>7, <2>1
<1>9. ASSUME NEW n \in S PROVE \E k \in DOMAIN s : s[k] = n
  <2>1. Place(n) + 1 \in 1..N
    BY <1>0, <1>1
  <2>2. Place(s[Place(n) + 1]) = Place(n) /\ s[Place(n) + 1] \in S
    <3>1. Place(n) \in Int
      BY <1>1
    <3> HIDE DEF Place, s
    <3> QED  BY <1>7, <2>1, <3>1
  <2> HIDE DEF Place, s
  <2> QED  BY <1>4, <1>6, <2>1, <2>2
<1>10. ASSUME NEW j \in DOMAIN s, NEW k \in DOMAIN s, j < k PROVE Before(key, s[j], s[k])
  <2> HIDE DEF Place, s
  <2>1. j \in 1..N /\ k \in 1..N
    BY <1>6
  <2>2. /\ s[j] \in S /\ s[k] \in S
        /\ Place(s[j]) = j - 1 /\ Place(s[k]) = k - 1
    BY <1>7, <2>1
  <2>3. ~(Place(s[k]) < Place(s[j])) /\ s[j] # s[k]
    BY <1>10, <2>1, <2>2
  <2> QED  BY <1>2, <1>3, <2>2, <2>3
<1> HIDE DEF s
<1> QED  BY <1>8, <1>9, <1>10 DEF InOrder, s

-----------------------------------------------------------------------------
Noting == INSTANCE Folding WITH Step <- Noted

\* d has the first k members of s and no others.
HasFirst(d, s, k) ==
    /\ d \in Seq({s[j] : j \in 1..k})
    /\ \A j \in 1..k : \E i \in DOMAIN d : d[i] = s[j]

\* One element more.
LEMMA NotedStep ==
    ASSUME NEW d, NEW s, NEW k \in Nat, HasFirst(d, s, k)
    PROVE  HasFirst(Noted(d, s[k + 1]), s, k + 1)
<1> DEFINE x == s[k + 1]
           T == {s[j] : j \in 1..(k + 1)}
<1>1. d \in Seq(T) /\ x \in T /\ DOMAIN d = 1..Len(d) /\ Len(d) \in Nat
  <2>1. {s[j] : j \in 1..k} \subseteq T
    OBVIOUS
  <2>2. k + 1 \in 1..(k + 1)
    OBVIOUS
  <2>3. x \in T
    BY <2>2
  <2> DEFINE U == {s[j] : j \in 1..k}
  <2>4. d \in Seq(U)
    BY DEF HasFirst
  <2> HIDE DEF T, U
  <2>5. DOMAIN d = 1..Len(d) /\ Len(d) \in Nat /\ d \in Seq(T)
    BY <2>1, <2>4 DEF U
  <2> QED  BY <2>3, <2>5
<1>2. \A j \in 1..k : \E i \in DOMAIN d : d[i] = s[j]
  BY DEF HasFirst
<1>3. \A j \in 1..(k + 1) : j \in 1..k \/ j = k + 1
  OBVIOUS
<1>4. CASE Contains(d, x)
  <2>1. \E i \in DOMAIN d : d[i] = x
    BY <1>1, <1>4 DEF Contains
  <2>2. Noted(d, x) = d
    BY <1>4 DEF Noted
  <2> QED  BY <1>1, <1>2, <1>3, <2>1, <2>2 DEF HasFirst
<1>5. CASE ~Contains(d, x)
  <2> DEFINE e == Append(d, x)
  <2>1. Noted(d, x) = e
    BY <1>5 DEF Noted
  <2>2. /\ e \in Seq(T) /\ DOMAIN e = 1..(Len(d) + 1)
        /\ e[Len(d) + 1] = x /\ \A i \in 1..Len(d) : e[i] = d[i]
    <3> HIDE DEF T, x
    <3> QED  BY <1>1
  <2> HIDE DEF e, x
  <2>3. ASSUME NEW j \in 1..(k + 1) PROVE \E i \in DOMAIN e : e[i] = s[j]
    <3>1. CASE j = k + 1
      <4>1. Len(d) + 1 \in DOMAIN e /\ e[Len(d) + 1] = s[j]
        BY <1>1, <2>2, <3>1 DEF x
      <4> QED  BY <4>1
    <3>2. CASE j \in 1..k
      <4>1. PICK i \in DOMAIN d : d[i] = s[j]
        BY <1>2, <3>2
      <4>2. i \in DOMAIN e /\ e[i] = d[i]
        BY <1>1, <2>2
      <4> QED  BY <4>1, <4>2
    <3> QED  BY <1>3, <3>1, <3>2
  <2> QED  BY <2>1, <2>2, <2>3 DEF HasFirst, x
<1> QED  BY <1>4, <1>5

\* The keys of a dict are the values of the sequence it is filled from.
LEMMA DistinctLemma ==
    ASSUME NEW s, NEW n \in Nat, DOMAIN s = 1..n
    PROVE  HasFirst(Distinct(s), s, n)
<1>1. \E f : Noting!ByPrefix(f, <<>>, s, n) /\ Noting!Folded(<<>>, s) = f[n]
  BY Noting!FoldLeftByPrefix
<1>2. Noting!Folded(<<>>, s) = Distinct(s)
  BY DEF Distinct, Noting!Folded, FoldLeft, Noting!FoldLeft, MapThenFoldSet,
         Noting!MapThenFoldSet, Max, Noting!Max
<1>3. PICK f : /\ f[0] = <<>> /\ Distinct(s) = f[n]
               /\ \A k \in 1..n : f[k] = Noted(f[k - 1], s[k])
  BY <1>1, <1>2 DEF Noting!ByPrefix
<1> DEFINE T == {k \in Nat : k <= n => HasFirst(f[k], s, k)}
<1>4. 0 \in T
  <2>1. HasFirst(<<>>, s, 0)
    <3>1. \A U : <<>> \in Seq(U)
      OBVIOUS
    <3>2. \A j \in 1..0 : FALSE
      OBVIOUS
    <3> QED  BY <3>1, <3>2 DEF HasFirst
  <2> QED  BY <1>3, <2>1
<1>5. ASSUME NEW k \in Nat, k \in T PROVE k + 1 \in T
  <2> SUFFICES ASSUME k + 1 <= n PROVE HasFirst(f[k + 1], s, k + 1)
    OBVIOUS
  <2>1. k <= n /\ k + 1 \in 1..n /\ (k + 1) - 1 = k
    OBVIOUS
  <2>2. f[k + 1] = Noted(f[k], s[k + 1])
    BY <1>3, <2>1
  <2> QED  BY <1>5, <2>1, <2>2, NotedStep
<1> HIDE DEF T
<1>6. Nat \subseteq T
  BY <1>4, <1>5, Noting!Induction
<1> QED  BY <1>3, <1>6 DEF T

-----------------------------------------------------------------------------
\* A set of numbers that is not empty has a least one.
LEMMA LeastLemma ==
    ASSUME NEW S \in SUBSET Nat, S # {}
    PROVE  Min(S) \in S /\ \A x \in S : Min(S) <= x
<1>1. \E x \in S : \A y \in S : x <= y
  BY Noting!LeastElement
<1> QED  BY <1>1 DEF Min

\* A bounded one has a greatest.
LEMMA GreatestLemma ==
    ASSUME NEW n \in Nat, NEW S \in SUBSET (1..n), S # {}
    PROVE  Max(S) \in S /\ \A x \in S : x <= Max(S)
<1>1. Max(S) = Noting!Max(S)
  BY DEF Max, Noting!Max
<1> QED  BY <1>1, Noting!MaxOfSubset

\* The pairs made of the keys up to k: those keys are all in one.
PairsMade(keys, acc, k) ==
    /\ acc.pairs \in Seq([inbound : ToSet(keys), outbound : ToSet(keys) \cup {Absent}])
    /\ \A i \in 1..k : i \in acc.used
    /\ \A i \in DOMAIN keys : i \in acc.used =>
            \E p \in DOMAIN acc.pairs : keys[i] \in {acc.pairs[p].inbound, acc.pairs[p].outbound}

\* The next key is put in a pair too.
LEMMA PairedStep ==
    ASSUME NEW T, NEW keys \in Seq(T), NEW acc, NEW k \in Nat, k + 1 \in DOMAIN keys,
           PairsMade(keys, acc, k)
    PROVE  PairsMade(keys, Paired(keys, acc, k + 1), k + 1)
<1> DEFINE i == k + 1
           n == Len(keys)
           later == {j \in (i + 1)..n : j \notin acc.used /\ Opposite(keys[i], keys[j])}
           mate == IF later = {} THEN 0 ELSE Min(later)
           P == [inbound : ToSet(keys), outbound : ToSet(keys) \cup {Absent}]
           pair == [inbound |-> keys[i], outbound |-> IF mate = 0 THEN Absent ELSE keys[mate]]
           new == Paired(keys, acc, i)
<1>0. n \in Nat /\ DOMAIN keys = 1..n /\ i \in Nat /\ i \in 1..n
  OBVIOUS
<1>1. \A j \in 1..i : j \in 1..k \/ j = i
  OBVIOUS
<1>2. CASE i \in acc.used
  <2>1. new = acc
    BY <1>2 DEF Paired
  <2> HIDE DEF new
  <2> QED  BY <1>1, <1>2, <2>1 DEF PairsMade, new
<1>3. CASE i \notin acc.used
  <2>1. new = [used |-> acc.used \cup {i, mate}, pairs |-> Append(acc.pairs, pair)]
    BY <1>3 DEF Paired
  <2>2. mate = 0 \/ mate \in 1..n
    <3>1. CASE later = {}
      BY <3>1
    <3>2. CASE later # {}
      <4>1. later \in SUBSET Nat /\ \A j \in later : j \in 1..n
        BY <1>0
      <4>2. Min(later) \in later
        BY <3>2, <4>1, LeastLemma
      <4> QED  BY <3>2, <4>1, <4>2
    <3> QED  BY <3>1, <3>2
  <2>3. mate \in DOMAIN keys => mate # 0
    <3>1. 0 \notin DOMAIN keys
      BY <1>0
    <3> HIDE DEF mate
    <3> QED  BY <3>1
  <2> HIDE DEF mate
  <2>4. pair \in P
    BY <1>0, <2>2 DEF ToSet
  <2>5. /\ pair.inbound = keys[i]
        /\ mate \in DOMAIN keys => pair.outbound = keys[mate]
    BY <2>3
  <2> HIDE DEF pair, P
  <2>6. acc.pairs \in Seq(P)
    BY DEF PairsMade, P
  <2> DEFINE m == Len(acc.pairs)
             e == Append(acc.pairs, pair)
  <2>7. /\ e \in Seq(P) /\ m \in Nat /\ DOMAIN e = 1..(m + 1) /\ DOMAIN acc.pairs = 1..m
        /\ e[m + 1] = pair /\ m + 1 \in DOMAIN e
        /\ \A p \in 1..m : p \in DOMAIN e /\ e[p] = acc.pairs[p]
    BY <2>4, <2>6
  <2> HIDE DEF e, m
  <2>8. new.pairs = e /\ new.used = acc.used \cup {i, mate}
    BY <2>1 DEF e
  <2>9. ASSUME NEW j \in DOMAIN keys, j \in new.used
        PROVE  \E p \in DOMAIN e : keys[j] \in {e[p].inbound, e[p].outbound}
    <3>1. CASE j \in acc.used
      <4>1. PICK p \in DOMAIN acc.pairs : keys[j] \in {acc.pairs[p].inbound, acc.pairs[p].outbound}
        BY <3>1 DEF PairsMade
      <4> QED  BY <2>7, <4>1
    <3>2. CASE j = i \/ j = mate
      BY <2>5, <2>7, <3>2
    <3> HIDE DEF new, i
    <3> QED  BY <2>8, <2>9, <3>1, <3>2
  <2>10. \A j \in 1..i : j \in new.used
    <3> HIDE DEF new
    <3>1. \A j \in 1..k : j \in acc.used
      BY DEF PairsMade
    <3> QED  BY <1>1, <2>8, <3>1
  <2> HIDE DEF new
  <2> QED  BY <2>7, <2>8, <2>9, <2>10 DEF PairsMade, P, new
<1> QED  BY <1>2, <1>3

Pairing == INSTANCE Folding WITH Step <- LAMBDA acc, i : Paired(DirectionalSpis(capture), acc, i)

\* Every directional SPI of the capture is in a pair.
LEMMA SpiPairsLemma ==
    ASSUME NEW T, DirectionalSpis(capture) \in Seq(T)
    PROVE  LET keys == DirectionalSpis(capture)
               pairs == SpiPairs(capture)
           IN  /\ pairs \in Seq([inbound : ToSet(keys), outbound : ToSet(keys) \cup {Absent}])
               /\ \A key \in ToSet(keys) : \E p \in DOMAIN pairs :
                    key \in {pairs[p].inbound, pairs[p].outbound}
<1> DEFINE keys == DirectionalSpis(capture)
           n == Len(keys)
           s == Indices(keys)
           base == [used |-> {}, pairs |-> <<>>]
           all == Pairing!Folded(base, s)
<1>0. n \in Nat /\ DOMAIN keys = 1..n /\ DOMAIN s = 1..n /\ \A k \in 1..n : s[k] = k
  BY DEF Indices
<1>1. \E f : Pairing!ByPrefix(f, base, s, n) /\ all = f[n]
  <2> HIDE DEF s, base, n, keys
  <2> QED  BY <1>0, Pairing!FoldLeftByPrefix
<1>2. all.pairs = SpiPairs(capture)
  BY DEF SpiPairs, Pairing!Folded, FoldLeft, Pairing!FoldLeft, MapThenFoldSet,
         Pairing!MapThenFoldSet, Max, Pairing!Max
<1>3. PICK f : /\ f[0] = base /\ all = f[n]
               /\ \A k \in 1..n : f[k] = Paired(keys, f[k - 1], s[k])
  BY <1>1 DEF Pairing!ByPrefix
<1> DEFINE U == {k \in Nat : k <= n => PairsMade(keys, f[k], k)}
<1>4. 0 \in U
  <2>1. base.pairs = <<>> /\ base.used = {}
    OBVIOUS
  <2> HIDE DEF base
  <2>2. PairsMade(keys, base, 0)
    BY <2>1 DEF PairsMade
  <2> QED  BY <1>3, <2>2
<1> HIDE DEF s, base, keys, all
<1>5. ASSUME NEW k \in Nat, k \in U PROVE k + 1 \in U
  <2> SUFFICES ASSUME k + 1 <= n PROVE PairsMade(keys, f[k + 1], k + 1)
    OBVIOUS
  <2>1. k <= n /\ k + 1 \in 1..n /\ (k + 1) - 1 = k
    BY <1>0
  <2>2. f[k + 1] = Paired(keys, f[k], k + 1)
    BY <1>0, <1>3, <2>1
  <2>3. keys \in Seq(T) /\ k + 1 \in DOMAIN keys
    BY <1>0, <2>1 DEF keys
  <2>4. PairsMade(keys, f[k], k)
    BY <1>5, <2>1
  <2> QED  BY <2>2, <2>3, <2>4, PairedStep
<1> HIDE DEF U
<1>6. Nat \subseteq U
  BY <1>4, <1>5, Noting!Induction
<1>7. PairsMade(keys, all, n)
  BY <1>0, <1>3, <1>6 DEF U
<1>8. /\ all.pairs \in Seq([inbound : ToSet(keys), outbound : ToSet(keys) \cup {Absent}])
      /\ \A i \in DOMAIN keys : \E p \in DOMAIN all.pairs :
            keys[i] \in {all.pairs[p].inbound, all.pairs[p].outbound}
  BY <1>0, <1>7 DEF PairsMade
<1>9. ASSUME NEW key \in ToSet(keys)
      PROVE  \E p \in DOMAIN all.pairs : key \in {all.pairs[p].inbound, all.pairs[p].outbound}
  BY <1>8, <1>9 DEF ToSet
<1> QED  BY <1>2, <1>8, <1>9 DEF keys

-----------------------------------------------------------------------------
\* A capture is a sequence of frames that can be captured.
CaptureOK == capture \in Seq(Frames)

Times == [n \in DOMAIN capture |-> capture[n].time]

\* Frames in processing order are the frames of the set, each once.
LEMMA OrderedLemma ==
    ASSUME CaptureOK, NEW S \in SUBSET DOMAIN capture
    PROVE  LET s == Ordered(capture, S)
           IN  /\ InOrder(s, Times, S)
               /\ s \in Seq(Nat) /\ DOMAIN s = 1..Len(s) /\ Len(s) \in Nat
<1>1. DOMAIN capture = 1..Len(capture) /\ Len(capture) \in Nat
  BY DEF CaptureOK
<1>2. IsFiniteSet(S) /\ S \in SUBSET Nat
  <2>1. IsFiniteSet(1..Len(capture))
    BY <1>1, FS_Interval
  <2> QED  BY <1>1, <2>1, FS_Subset
<1>3. \A n \in S : Times[n] \in Int
  BY FrameNumbers DEF Times, CaptureOK
<1> DEFINE s == Ordered(capture, S)
<1>4. s = Sorted(Times, S)
  BY DEF Ordered, Times
<1>5. InOrder(s, Times, S)
  BY <1>2, <1>3, <1>4, SortedLemma
<1> HIDE DEF s
<1>6. s \in Seq(S)
  BY <1>5 DEF InOrder
<1>7. s \in Seq(Nat) /\ DOMAIN s = 1..Len(s) /\ Len(s) \in Nat
  BY <1>2, <1>6
<1> QED  BY <1>5, <1>7 DEF s

\* The directional SPIs are those of the ESP frames, and of no others.
LEMMA DirectionalLemma ==
    ASSUME CaptureOK
    PROVE  LET keys == DirectionalSpis(capture)
               esp == {n \in DOMAIN capture : capture[n].proto = "ESP"}
           IN  /\ keys \in Seq({DirKey(capture, n) : n \in esp})
               /\ \A n \in esp : DirKey(capture, n) \in ToSet(keys)
<1> DEFINE E == {n \in DOMAIN capture : capture[n].proto = "ESP"}
           esp == EspFrames(capture)
           s == [k \in DOMAIN esp |-> DirKey(capture, esp[k])]
           keys == DirectionalSpis(capture)
           K == {DirKey(capture, n) : n \in E}
<1>1. /\ InOrder(esp, Times, E) /\ DOMAIN esp = 1..Len(esp) /\ Len(esp) \in Nat
  <2>1. E \in SUBSET DOMAIN capture /\ esp = Ordered(capture, E)
    BY DEF EspFrames
  <2> HIDE DEF E, esp
  <2> QED  BY <2>1, OrderedLemma
<1>2. DOMAIN s = 1..Len(esp)
  BY <1>1
<1>3. HasFirst(keys, s, Len(esp))
  <2>1. keys = Distinct(s)
    BY DEF DirectionalSpis
  <2> HIDE DEF s, esp, keys
  <2> QED  BY <1>1, <1>2, <2>1, DistinctLemma
<1>4. \A k \in 1..Len(esp) : s[k] = DirKey(capture, esp[k]) /\ esp[k] \in E
  <2>1. esp \in Seq(E)
    BY <1>1 DEF InOrder
  <2> HIDE DEF E, esp
  <2> QED  BY <1>1, <2>1
<1> HIDE DEF s, esp, keys
<1>5. keys \in Seq(K)
  <2>1. {s[j] : j \in 1..Len(esp)} \subseteq K
    BY <1>4
  <2> HIDE DEF K
  <2> QED  BY <1>3, <2>1 DEF HasFirst
<1>6. ASSUME NEW n \in E PROVE DirKey(capture, n) \in ToSet(keys)
  <2> HIDE DEF E
  <2>1. PICK k \in DOMAIN esp : esp[k] = n
    BY <1>1 DEF InOrder
  <2>2. s[k] = DirKey(capture, n) /\ k \in 1..Len(esp)
    BY <1>1, <1>4, <2>1
  <2>3. PICK i \in DOMAIN keys : keys[i] = s[k]
    BY <1>3, <2>2 DEF HasFirst
  <2> QED  BY <2>2, <2>3 DEF ToSet
<1> QED  BY <1>5, <1>6 DEF keys

-----------------------------------------------------------------------------
\* Every session has an event.
LEMMA SessionKeysLemma ==
    ASSUME CaptureOK
    PROVE  LET keys == SessionKeys(capture)
           IN  /\ keys \in Seq(ToSet(keys))
               /\ DOMAIN keys = 1..Len(keys) /\ Len(keys) \in Nat
               /\ \A k \in DOMAIN keys : \E n \in IkeEvents(capture) : capture[n].ispi = keys[k]
<1> DEFINE E == IkeEvents(capture)
           ev == Ordered(capture, E)
           s == [k \in DOMAIN ev |-> capture[ev[k]].ispi]
           keys == SessionKeys(capture)
<1>1. /\ InOrder(ev, Times, E) /\ DOMAIN ev = 1..Len(ev) /\ Len(ev) \in Nat
  <2>1. E \in SUBSET DOMAIN capture
    BY DEF IkeEvents
  <2> HIDE DEF E
  <2> QED  BY <2>1, OrderedLemma
<1>2. DOMAIN s = 1..Len(ev) /\ \A k \in 1..Len(ev) : s[k] = capture[ev[k]].ispi
  BY <1>1
<1>3. keys = Distinct(s)
  BY DEF SessionKeys
<1> HIDE DEF s, keys
<1>4. HasFirst(keys, s, Len(ev))
  BY <1>1, <1>2, <1>3, DistinctLemma
<1> HIDE DEF ev
<1>5. keys \in Seq({s[j] : j \in 1..Len(ev)})
  BY <1>4 DEF HasFirst
<1>6. ASSUME NEW k \in DOMAIN keys PROVE \E n \in E : capture[n].ispi = keys[k]
  <2>1. PICK j \in 1..Len(ev) : keys[k] = s[j]
    BY <1>5
  <2>2. ev[j] \in E
    BY <1>1 DEF InOrder
  <2> QED  BY <1>2, <2>1, <2>2
<1>7. keys \in Seq(ToSet(keys))
  BY <1>5 DEF ToSet
<1> QED  BY <1>5, <1>6, <1>7 DEF keys

\* The rows of the sessions: session and SA of an initiator SPI that has events.
IsSessionRow(row, c) ==
    \E ispi : /\ row.session = correlate_session(c, ispi)
              /\ row.sa = build_parent_ike_sa(c, ispi)
              /\ \E n \in IkeEvents(c) : c[n].ispi = ispi

\* The reconstruction makes a row for each initiator SPI.
LEMMA SessionRowsLemma ==
    ASSUME CaptureOK
    PROVE  LET sessions == execute_reconstruction(capture).sessions
           IN  /\ DOMAIN sessions = DOMAIN SessionKeys(capture)
               /\ \A k \in DOMAIN sessions : IsSessionRow(sessions[k], capture)
<1> DEFINE keys == SessionKeys(capture)
           Row(k) == [session |-> correlate_session(capture, keys[k]),
                      sa |-> build_parent_ike_sa(capture, keys[k])]
           sessions == [k \in DOMAIN keys |-> Row(k)]
<1>1. execute_reconstruction(capture).sessions = sessions
  BY DEF execute_reconstruction
<1>2. ASSUME NEW k \in DOMAIN keys PROVE IsSessionRow(Row(k), capture)
  <2>1. \E n \in IkeEvents(capture) : capture[n].ispi = keys[k]
    BY SessionKeysLemma
  <2>2. /\ Row(k).session = correlate_session(capture, keys[k])
        /\ Row(k).sa = build_parent_ike_sa(capture, keys[k])
    OBVIOUS
  <2> HIDE DEF Row
  <2> QED  BY <2>1, <2>2 DEF IsSessionRow
<1> HIDE DEF Row
<1> QED  BY <1>1, <1>2

\* The children of the list are those of the pairs, and every pair has one.
OfPairs(children, pairs) ==
    \A k \in DOMAIN children : \E p \in DOMAIN pairs :
        /\ children[k].inbound = pairs[p].inbound
        /\ children[k].outbound = pairs[p].outbound

AllPairs(children, pairs) ==
    \A p \in DOMAIN pairs : \E k \in DOMAIN children :
        /\ children[k].inbound = pairs[p].inbound
        /\ children[k].outbound = pairs[p].outbound

\* One session's Child SAs are those of the pairs.
LEMMA BuiltLemma ==
    ASSUME NEW P, SpiPairs(capture) \in Seq(P), NEW ispi, NEW parent
    PROVE  LET b == build_child_sas(capture, ispi, parent)
           IN  /\ b \in Seq(ToSet(b))
               /\ OfPairs(b, SpiPairs(capture))
               /\ AllPairs(b, SpiPairs(capture))
<1> DEFINE pairs == SpiPairs(capture)
           b == build_child_sas(capture, ispi, parent)
<1>1. DOMAIN pairs = 1..Len(pairs) /\ Len(pairs) \in Nat
  OBVIOUS
<1>2. DOMAIN b = DOMAIN pairs /\ b = [k \in DOMAIN pairs |-> b[k]]
  BY DEF build_child_sas
<1>3. \A k \in DOMAIN pairs : /\ b[k].inbound = pairs[k].inbound
                              /\ b[k].outbound = pairs[k].outbound
  BY DEF build_child_sas
<1> HIDE DEF b, pairs
<1>4. b \in Seq(ToSet(b))
  BY <1>1, <1>2 DEF ToSet
<1>5. OfPairs(b, pairs) /\ AllPairs(b, pairs)
  BY <1>2, <1>3 DEF OfPairs, AllPairs
<1> QED  BY <1>4, <1>5 DEF b, pairs

\* Two lists of Child SAs of the pairs, one after the other.
LEMMA JoinedLists ==
    ASSUME NEW U, NEW a \in Seq(U), NEW b \in Seq(U), NEW pairs,
           OfPairs(a, pairs), OfPairs(b, pairs)
    PROVE  /\ a \o b \in Seq(U)
           /\ OfPairs(a \o b, pairs)
           /\ AllPairs(b, pairs) => AllPairs(a \o b, pairs)
<1> DEFINE d == a \o b
           m == Len(a)
           n == Len(b)
<1>1. /\ d \in Seq(U) /\ m \in Nat /\ n \in Nat
      /\ DOMAIN a = 1..m /\ DOMAIN b = 1..n /\ DOMAIN d = 1..(m + n)
      /\ \A k \in 1..(m + n) : d[k] = IF k <= m THEN a[k] ELSE b[k - m]
  OBVIOUS
<1> HIDE DEF d, m, n
<1>2. ASSUME NEW k \in DOMAIN d
      PROVE  \E p \in DOMAIN pairs :
                d[k].inbound = pairs[p].inbound /\ d[k].outbound = pairs[p].outbound
  <2>1. CASE k <= m
    <3>1. k \in DOMAIN a /\ d[k] = a[k]
      BY <1>1, <2>1
    <3> QED  BY <3>1 DEF OfPairs
  <2>2. CASE ~(k <= m)
    <3>1. k - m \in DOMAIN b /\ d[k] = b[k - m]
      BY <1>1, <2>2
    <3> QED  BY <3>1 DEF OfPairs
  <2> QED  BY <2>1, <2>2
<1>3. ASSUME AllPairs(b, pairs), NEW p \in DOMAIN pairs
      PROVE  \E k \in DOMAIN d :
                d[k].inbound = pairs[p].inbound /\ d[k].outbound = pairs[p].outbound
  <2>1. PICK k \in DOMAIN b : b[k].inbound = pairs[p].inbound /\ b[k].outbound = pairs[p].outbound
    BY <1>3 DEF AllPairs
  <2>2. m + k \in DOMAIN d /\ d[m + k] = b[k]
    BY <1>1
  <2> QED  BY <2>1, <2>2
<1> QED  BY <1>1, <1>2, <1>3 DEF OfPairs, AllPairs, d

Listing == INSTANCE Folding
             WITH Step <- LAMBDA acc, s : acc \o build_child_sas(capture, s.session.ispi, s.sa)

\* The Child SAs of all sessions, or of none, are those of the pairs.
LEMMA ChildrenLemma ==
    ASSUME CaptureOK
    PROVE  LET children == execute_reconstruction(capture).children
           IN  /\ DOMAIN children = 1..Len(children) /\ Len(children) \in Nat
               /\ OfPairs(children, SpiPairs(capture))
               /\ AllPairs(children, SpiPairs(capture))
<1> DEFINE keys == SessionKeys(capture)
           n == Len(keys)
           table == execute_reconstruction(capture).sessions
           children == execute_reconstruction(capture).children
           pairs == SpiPairs(capture)
           Built(s) == build_child_sas(capture, s.session.ispi, s.sa)
<1>0. /\ n \in Nat /\ DOMAIN keys = 1..n /\ DOMAIN table = 1..n
      /\ keys = <<>> <=> n = 0
  <2>1. DOMAIN keys = 1..Len(keys) /\ Len(keys) \in Nat
    BY SessionKeysLemma
  <2>2. DOMAIN table = DOMAIN keys
    BY SessionRowsLemma
  <2>3. keys \in Seq(ToSet(keys))
    BY SessionKeysLemma
  <2> HIDE DEF keys, table
  <2> QED  BY <2>1, <2>2, <2>3
<1>1. PICK P : pairs \in Seq(P)
  <2>1. DirectionalSpis(capture)
          \in Seq({DirKey(capture, m) : m \in {m \in DOMAIN capture : capture[m].proto = "ESP"}})
    BY DirectionalLemma
  <2> QED  BY <2>1, SpiPairsLemma
<1>2. CASE n = 0
  <2>1. children = build_child_sas(capture, Absent, Absent)
    BY <1>0, <1>2 DEF execute_reconstruction
  <2> HIDE DEF children, pairs
  <2>2. /\ children \in Seq(ToSet(children))
        /\ OfPairs(children, pairs) /\ AllPairs(children, pairs)
    BY <1>1, <2>1, BuiltLemma DEF pairs
  <2> QED  BY <2>2 DEF children, pairs
<1>3. CASE n # 0
  <2>1. children = FoldLeft(LAMBDA acc, s : acc \o Built(s), <<>>, table)
    BY <1>0, <1>3 DEF execute_reconstruction
  <2>2. children = Listing!Folded(<<>>, table)
    BY <2>1 DEF Listing!Folded, FoldLeft, Listing!FoldLeft, MapThenFoldSet,
                Listing!MapThenFoldSet, Max, Listing!Max
  <2> HIDE DEF children, table
  <2>3. \E f : Listing!ByPrefix(f, <<>>, table, n) /\ children = f[n]
    BY <1>0, <2>2, Listing!FoldLeftByPrefix
  <2>4. PICK f : /\ f[0] = <<>> /\ children = f[n]
                 /\ \A k \in 1..n : f[k] = f[k - 1] \o Built(table[k])
    BY <2>3 DEF Listing!ByPrefix
  <2> DEFINE U == UNION {ToSet(Built(table[k])) : k \in 1..n}
             Good(k) == /\ f[k] \in Seq(U) /\ OfPairs(f[k], pairs)
                        /\ k > 0 => AllPairs(f[k], pairs)
             S == {k \in Nat : k <= n => Good(k)}
  <2>5. ASSUME NEW k \in 1..n
        PROVE  /\ Built(table[k]) \in Seq(U)
               /\ OfPairs(Built(table[k]), pairs) /\ AllPairs(Built(table[k]), pairs)
    <3> DEFINE b == Built(table[k])
    <3>1. b \in Seq(ToSet(b)) /\ OfPairs(b, pairs) /\ AllPairs(b, pairs)
      BY <1>1, BuiltLemma
    <3>2. ToSet(b) \subseteq U
      OBVIOUS
    <3> HIDE DEF b, U, pairs
    <3> QED  BY <3>1, <3>2 DEF b
  <2> HIDE DEF U, Built, pairs, keys, n
  <2>6. 0 \in S
    <3>1. <<>> \in Seq(U) /\ OfPairs(<<>>, pairs)
      BY DEF OfPairs
    <3>2. f[0] \in Seq(U) /\ OfPairs(f[0], pairs)
      BY <2>4, <3>1
    <3>3. ~(0 > 0)
      OBVIOUS
    <3>4. Good(0)
      BY <3>2, <3>3
    <3> HIDE DEF Good
    <3> QED  BY <3>4
  <2>7. ASSUME NEW k \in Nat, k \in S PROVE k + 1 \in S
    <3> SUFFICES ASSUME k + 1 <= n PROVE Good(k + 1)
      OBVIOUS
    <3>1. k <= n /\ k + 1 \in 1..n /\ (k + 1) - 1 = k
      BY <1>0
    <3>2. f[k + 1] = f[k] \o Built(table[k + 1])
      BY <2>4, <3>1
    <3>3. f[k] \in Seq(U) /\ OfPairs(f[k], pairs)
      BY <2>7, <3>1
    <3> QED  BY <2>5, <3>1, <3>2, <3>3, JoinedLists
  <2> HIDE DEF Good
  <2>8. Nat \subseteq S
    <3> HIDE DEF S
    <3> QED  BY <2>6, <2>7, Noting!Induction
  <2>9. Good(n)
    BY <1>0, <2>8
  <2>10. children \in Seq(U) /\ OfPairs(children, pairs) /\ AllPairs(children, pairs)
    BY <1>0, <1>3, <2>4, <2>9 DEF Good
  <2> QED  BY <2>10 DEF children, pairs
<1> QED  BY <1>2, <1>3

-----------------------------------------------------------------------------
\* Lists of streams: what a frame belongs to.
Held(a, n) == \E i \in DOMAIN a : n \in ToSet(a[i].frames)

Apart(a) ==
    \A i, j \in DOMAIN a : \A n \in ToSet(a[i].frames) : n \in ToSet(a[j].frames) => i = j

ApartFrom(a, b) == \A i \in DOMAIN a : \A n \in ToSet(a[i].frames) : ~Held(b, n)

\* One direction of one SPI without an idle gap.
Run(c, s) ==
    /\ s.frames # <<>>
    /\ \A i \in DOMAIN s.frames :
        /\ DirKey(c, s.frames[i]) = s.key
        /\ i > 1 => c[s.frames[i]].time - c[s.frames[i - 1]].time \in 0..IdleTimeout

AllRuns(c, a) == \A i \in DOMAIN a : Run(c, a[i])

\* A list with one element more.
LEMMA AppendedLemma ==
    ASSUME NEW T, NEW a \in Seq(T), NEW x \in T
    PROVE  LET b == Append(a, x)
           IN  /\ b \in Seq(T)
               /\ Len(a) + 1 \in DOMAIN b /\ b[Len(a) + 1] = x /\ Len(a) + 1 \notin DOMAIN a
               /\ \A i \in DOMAIN a : i \in DOMAIN b /\ b[i] = a[i]
               /\ \A i \in DOMAIN b : i \in DOMAIN a \/ i = Len(a) + 1
OBVIOUS

\* A new stream is apart from those there are if it has frames of its own.
LEMMA AppendedStream ==
    ASSUME NEW T, NEW a \in Seq(T), NEW x \in T, Apart(a),
           \A n \in ToSet(x.frames) : ~Held(a, n)
    PROVE  LET b == Append(a, x)
           IN  /\ b \in Seq(T) /\ Apart(b)
               /\ \A n : Held(b, n) <=> Held(a, n) \/ n \in ToSet(x.frames)
               /\ \A c : AllRuns(c, a) /\ Run(c, x) => AllRuns(c, b)
<1> DEFINE b == Append(a, x)
           l == Len(a) + 1
<1>1. /\ b \in Seq(T) /\ l \in DOMAIN b /\ b[l] = x /\ l \notin DOMAIN a
      /\ \A i \in DOMAIN a : i \in DOMAIN b /\ b[i] = a[i]
      /\ \A i \in DOMAIN b : i \in DOMAIN a \/ i = l
  BY AppendedLemma
<1> HIDE DEF b, l
<1>2. ASSUME NEW n PROVE Held(b, n) <=> Held(a, n) \/ n \in ToSet(x.frames)
  BY <1>1 DEF Held
<1>3. ASSUME NEW c, AllRuns(c, a), Run(c, x) PROVE AllRuns(c, b)
  BY <1>1, <1>3 DEF AllRuns
<1>4. Apart(b)
  <2> SUFFICES ASSUME NEW i \in DOMAIN b, NEW j \in DOMAIN b, NEW n \in ToSet(b[i].frames),
                      n \in ToSet(b[j].frames)
               PROVE  i = j
    BY DEF Apart
  <2>1. CASE i \in DOMAIN a /\ j \in DOMAIN a
    BY <1>1, <2>1 DEF Apart
  <2>2. CASE i \in DOMAIN a /\ j = l
    BY <1>1, <2>2 DEF Held
  <2>3. CASE i = l /\ j \in DOMAIN a
    BY <1>1, <2>3 DEF Held
  <2> QED  BY <1>1, <2>1, <2>2, <2>3
<1> QED  BY <1>1, <1>2, <1>3, <1>4 DEF b

\* A stream may be replaced by one that takes no frame from another.
LEMMA ReplacedStream ==
    ASSUME NEW T, NEW a \in Seq(T), NEW i \in DOMAIN a, NEW x \in T, Apart(a),
           \A n \in ToSet(x.frames) : Held(a, n) => n \in ToSet(a[i].frames)
    PROVE  LET b == [a EXCEPT ![i] = x]
           IN  /\ b \in Seq(T) /\ Apart(b)
               /\ \A n : Held(b, n) <=> \/ Held(a, n) /\ n \notin ToSet(a[i].frames)
                                        \/ n \in ToSet(x.frames)
               /\ \A c : AllRuns(c, a) /\ Run(c, x) => AllRuns(c, b)
<1> DEFINE b == [a EXCEPT ![i] = x]
<1>1. /\ b \in Seq(T) /\ DOMAIN b = DOMAIN a /\ b[i] = x
      /\ \A j \in DOMAIN a : j # i => b[j] = a[j]
  OBVIOUS
<1> HIDE DEF b
<1>2. ASSUME NEW n
      PROVE  Held(b, n) <=> \/ Held(a, n) /\ n \notin ToSet(a[i].frames)
                            \/ n \in ToSet(x.frames)
  <2>1. ASSUME NEW j \in DOMAIN b, n \in ToSet(b[j].frames), n \notin ToSet(x.frames)
        PROVE  Held(a, n) /\ n \notin ToSet(a[i].frames)
    <3>1. j # i /\ n \in ToSet(a[j].frames)
      BY <1>1, <2>1
    <3> QED  BY <1>1, <3>1 DEF Held, Apart
  <2>2. ASSUME NEW j \in DOMAIN a, n \in ToSet(a[j].frames), n \notin ToSet(a[i].frames)
        PROVE  Held(b, n)
    <3>1. j # i
      BY <2>2
    <3> QED  BY <1>1, <2>2, <3>1 DEF Held
  <2>3. n \in ToSet(x.frames) => Held(b, n)
    BY <1>1 DEF Held
  <2> QED  BY <2>1, <2>2, <2>3 DEF Held
<1>3. ASSUME NEW c, AllRuns(c, a), Run(c, x) PROVE AllRuns(c, b)
  BY <1>1, <1>3 DEF AllRuns
<1>4. Apart(b)
  <2> SUFFICES ASSUME NEW j \in DOMAIN b, NEW k \in DOMAIN b, NEW n \in ToSet(b[j].frames),
                      n \in ToSet(b[k].frames)
               PROVE  j = k
    BY DEF Apart
  <2>1. CASE j # i /\ k # i
    BY <1>1, <2>1 DEF Apart
  <2>2. CASE j # i /\ k = i
    <3>1. n \in ToSet(a[j].frames) /\ n \in ToSet(x.frames)
      BY <1>1, <2>2
    <3>2. n \in ToSet(a[i].frames)
      BY <1>1, <3>1 DEF Held
    <3> QED  BY <1>1, <2>2, <3>1, <3>2 DEF Apart
  <2>3. CASE j = i /\ k # i
    <3>1. n \in ToSet(a[k].frames) /\ n \in ToSet(x.frames)
      BY <1>1, <2>3
    <3>2. n \in ToSet(a[i].frames)
      BY <1>1, <3>1 DEF Held
    <3> QED  BY <1>1, <2>3, <3>1, <3>2 DEF Apart
  <2> QED  BY <2>1, <2>2, <2>3
<1> QED  BY <1>1, <1>2, <1>3, <1>4 DEF b

\* The streams made of the first k of the frames E, in their order.
StreamsOver(c, E) == [key : {DirKey(c, n) : n \in E}, frames : Seq(E)]

StreamsMade(c, E, esp, acc, k) ==
    /\ acc.closed \in Seq(StreamsOver(c, E)) /\ acc.active \in Seq(StreamsOver(c, E))
    /\ AllRuns(c, acc.closed) /\ AllRuns(c, acc.active)
    /\ Apart(acc.closed) /\ Apart(acc.active) /\ ApartFrom(acc.closed, acc.active)
    /\ \A n : Held(acc.closed, n) \/ Held(acc.active, n) <=> \E j \in 1..k : esp[j] = n

\* The stream that is looked up by its key has that key.
LEMMA FoundStream ==
    ASSUME NEW T, NEW a \in Seq(T), NEW key
    PROVE  LET i == SelectInSeq(a, LAMBDA s : s.key = key)
           IN  i # 0 => i \in DOMAIN a /\ a[i].key = key
<1> DEFINE I == {i \in 1..Len(a) : a[i].key = key}
           i == SelectInSeq(a, LAMBDA s : s.key = key)
<1>1. i = IF I # {} THEN Min(I) ELSE 0
  BY DEF SelectInSeq
<1>2. I \in SUBSET Nat
  OBVIOUS
<1> HIDE DEF i
<1>3. i # 0 => i \in I
  <2> HIDE DEF I
  <2> QED  BY <1>1, <1>2, LeastLemma
<1> QED  BY <1>3 DEF i

\* A stream of one frame.
LEMMA FirstOfStream ==
    ASSUME NEW c, NEW E, NEW n \in E
    PROVE  LET s == [key |-> DirKey(c, n), frames |-> <<n>>]
           IN  s \in StreamsOver(c, E) /\ Run(c, s) /\ ToSet(s.frames) = {n}
<1> DEFINE s == [key |-> DirKey(c, n), frames |-> <<n>>]
<1>1. s.key = DirKey(c, n) /\ s.frames = <<n>>
  OBVIOUS
<1>2. s \in StreamsOver(c, E)
  BY DEF StreamsOver
<1> HIDE DEF s
<1>3. \A i \in DOMAIN s.frames : i = 1 /\ s.frames[i] = n
  BY <1>1
<1>4. DOMAIN s.frames = {1} /\ s.frames # <<>> /\ ~(1 > 1)
  BY <1>1
<1>5. Run(c, s)
  BY <1>1, <1>3, <1>4 DEF Run
<1>6. ToSet(s.frames) = {n}
  BY <1>3, <1>4 DEF ToSet
<1> QED  BY <1>2, <1>5, <1>6 DEF s

\* A stream that goes on with frame n.
Timed(c, E) == \A m \in E : c[m].time \in Int

GoesOn(c, old, n) ==
    /\ old.key = DirKey(c, n)
    /\ c[Last(old.frames)].time <= c[n].time
    /\ ~(c[n].time - c[Last(old.frames)].time > IdleTimeout)

Extended(old, n) == [key |-> old.key, frames |-> Append(old.frames, n)]

\* A frame that goes on with a stream keeps it a stream.
LEMMA NextOfStream ==
    ASSUME NEW c, NEW E, Timed(c, E),
           NEW old \in StreamsOver(c, E), Run(c, old), NEW n \in E, GoesOn(c, old, n)
    PROVE  LET s == Extended(old, n)
           IN  s \in StreamsOver(c, E) /\ Run(c, s) /\ ToSet(s.frames) = ToSet(old.frames) \cup {n}
<1> DEFINE g == old.frames
           b == Append(g, n)
           l == Len(g)
           s == Extended(old, n)
<1>1. /\ g \in Seq(E) /\ b \in Seq(E) /\ l \in Nat /\ l # 0
      /\ DOMAIN g = 1..l /\ DOMAIN b = 1..(l + 1) /\ b[l + 1] = n
      /\ \A i \in 1..l : b[i] = g[i]
  BY DEF StreamsOver, Run
<1>2. Last(g) = g[l] /\ g[l] \in E
  BY <1>1 DEF Last
<1>3. s.key = old.key /\ s.frames = b /\ s \in StreamsOver(c, E)
  BY <1>1 DEF StreamsOver, Extended
<1> HIDE DEF s, b, l
<1>4. ASSUME NEW i \in DOMAIN b
      PROVE  /\ DirKey(c, b[i]) = old.key
             /\ i > 1 => c[b[i]].time - c[b[i - 1]].time \in 0..IdleTimeout
  <2>1. CASE i \in 1..l
    <3>1. i \in DOMAIN g /\ b[i] = g[i] /\ (i > 1 => b[i - 1] = g[i - 1])
      BY <1>1, <2>1
    <3> QED  BY <3>1 DEF Run
  <2>2. CASE i = l + 1
    <3>1. b[i] = n /\ b[i - 1] = g[l]
      BY <1>1, <2>2
    <3>2. c[n].time \in Int /\ c[g[l]].time \in Int
      BY <1>2 DEF Timed
    <3>3. c[g[l]].time <= c[n].time /\ ~(c[n].time - c[g[l]].time > IdleTimeout)
      BY <1>2 DEF GoesOn
    <3>4. c[n].time - c[g[l]].time \in 0..IdleTimeout
      BY <3>2, <3>3, FrameNumbers
    <3> QED  BY <3>1, <3>4 DEF GoesOn
  <2> QED  BY <1>1, <2>1, <2>2
<1>5. b # <<>>
  BY <1>1
<1>6. Run(c, s)
  BY <1>3, <1>4, <1>5 DEF Run
<1>7. ToSet(b) = ToSet(g) \cup {n}
  <2>1. ASSUME NEW x \in ToSet(b) PROVE x \in ToSet(g) \cup {n}
    <3>1. PICK i \in DOMAIN b : b[i] = x
      BY <2>1 DEF ToSet
    <3>2. i \in 1..l \/ i = l + 1
      BY <1>1
    <3> QED  BY <1>1, <3>1, <3>2 DEF ToSet
  <2>2. ASSUME NEW x \in ToSet(g) PROVE x \in ToSet(b)
    <3>1. PICK i \in DOMAIN g : g[i] = x
      BY <2>2 DEF ToSet
    <3>2. i \in DOMAIN b /\ b[i] = x
      BY <1>1, <3>1
    <3> QED  BY <3>2 DEF ToSet
  <2>3. n \in ToSet(b)
    <3>1. l + 1 \in DOMAIN b /\ b[l + 1] = n
      BY <1>1
    <3> QED  BY <3>1 DEF ToSet
  <2> QED  BY <2>1, <2>2, <2>3
<1> QED  BY <1>3, <1>6, <1>7 DEF s, b

\* Placing one frame more keeps what was made of the frames before it.
LEMMA PlacedStep ==
    ASSUME NEW c, NEW E, Timed(c, E), NEW esp \in Seq(E),
           NEW acc, NEW k \in Nat, k + 1 \in DOMAIN esp, StreamsMade(c, E, esp, acc, k),
           \A j \in 1..k : esp[j] # esp[k + 1] /\ c[esp[j]].time <= c[esp[k + 1]].time
    PROVE  StreamsMade(c, E, esp, Placed(c, acc, esp[k + 1]), k + 1)
<1> DEFINE n == esp[k + 1]
           T == StreamsOver(c, E)
           i == SelectInSeq(acc.active, LAMBDA s : s.key = DirKey(c, n))
           new == [key |-> DirKey(c, n), frames |-> <<n>>]
           old == acc.active[i]
           ext == Extended(old, n)
           next == Placed(c, acc, n)
           Seen(m) == Held(acc.closed, m) \/ Held(acc.active, m)
<1>1. n \in E
  OBVIOUS
<1>2. new \in T /\ Run(c, new) /\ ToSet(new.frames) = {n}
  BY <1>1, FirstOfStream
<1>3. acc.active \in Seq(T) /\ acc.closed \in Seq(T)
  BY DEF StreamsMade
<1>4. i # 0 => i \in DOMAIN acc.active /\ old.key = DirKey(c, n)
  BY <1>3, FoundStream
<1>5. next = IF i = 0
             THEN [closed |-> acc.closed, active |-> Append(acc.active, new)]
             ELSE IF c[n].time - c[Last(old.frames)].time > IdleTimeout
             THEN [closed |-> Append(acc.closed, old), active |-> [acc.active EXCEPT ![i] = new]]
             ELSE [closed |-> acc.closed, active |-> [acc.active EXCEPT ![i] = ext]]
  BY DEF Placed, Extended
<1>6. \A m : Seen(m) <=> \E j \in 1..k : esp[j] = m
  BY DEF StreamsMade
<1>7. \A j : j \in 1..(k + 1) <=> j \in 1..k \/ j = k + 1
  OBVIOUS
<1> HIDE DEF i, new, next, Seen
<1>8. ~Seen(n) /\ \A m : Seen(m) => c[m].time <= c[n].time
  BY <1>6
<1>9. \A m : (\E j \in 1..(k + 1) : esp[j] = m) <=> Seen(m) \/ m = n
  BY <1>6, <1>7
<1> HIDE DEF n, T
<1>10. /\ AllRuns(c, acc.closed) /\ AllRuns(c, acc.active)
       /\ Apart(acc.closed) /\ Apart(acc.active) /\ ApartFrom(acc.closed, acc.active)
  BY DEF StreamsMade
<1>11. SUFFICES /\ next.closed \in Seq(T) /\ next.active \in Seq(T)
                /\ AllRuns(c, next.closed) /\ AllRuns(c, next.active)
                /\ Apart(next.closed) /\ Apart(next.active) /\ ApartFrom(next.closed, next.active)
                /\ \A m : Held(next.closed, m) \/ Held(next.active, m) <=> Seen(m) \/ m = n
  BY <1>9 DEF StreamsMade, T, next, n
<1>12. CASE i = 0
  <2> DEFINE b == Append(acc.active, new)
  <2>1. /\ b \in Seq(T) /\ Apart(b) /\ AllRuns(c, b)
        /\ \A m : Held(b, m) <=> Held(acc.active, m) \/ m = n
    <3>1. \A m \in ToSet(new.frames) : ~Held(acc.active, m)
      BY <1>2, <1>8 DEF Seen
    <3> QED  BY <1>2, <1>3, <1>10, <3>1, AppendedStream
  <2>2. next.closed = acc.closed /\ next.active = b
    BY <1>5, <1>12
  <2> HIDE DEF b
  <2>3. ApartFrom(acc.closed, b)
    BY <1>8, <1>10, <2>1 DEF ApartFrom, Seen, Held
  <2> QED  BY <1>3, <1>10, <2>1, <2>2, <2>3 DEF Seen
<1>13. CASE i # 0 /\ c[n].time - c[Last(old.frames)].time > IdleTimeout
  <2> DEFINE b == [acc.active EXCEPT ![i] = new]
             a == Append(acc.closed, old)
  <2>0. i \in DOMAIN acc.active /\ old \in T /\ Run(c, old)
    BY <1>3, <1>4, <1>10, <1>13 DEF AllRuns
  <2>1. /\ b \in Seq(T) /\ Apart(b) /\ AllRuns(c, b)
        /\ \A m : Held(b, m) <=> \/ Held(acc.active, m) /\ m \notin ToSet(old.frames)
                                 \/ m = n
    <3>1. \A m \in ToSet(new.frames) : Held(acc.active, m) => m \in ToSet(acc.active[i].frames)
      BY <1>2, <1>8 DEF Seen
    <3> QED  BY <1>2, <1>3, <1>10, <2>0, <3>1, ReplacedStream
  <2>2. /\ a \in Seq(T) /\ Apart(a) /\ AllRuns(c, a)
        /\ \A m : Held(a, m) <=> Held(acc.closed, m) \/ m \in ToSet(old.frames)
    <3>1. \A m \in ToSet(old.frames) : ~Held(acc.closed, m)
      BY <1>10, <2>0 DEF ApartFrom, Held
    <3> HIDE DEF old
    <3> QED  BY <1>3, <1>10, <2>0, <3>1, AppendedStream
  <2>3. next.closed = a /\ next.active = b
    BY <1>5, <1>13
  <2>4. \A m \in ToSet(old.frames) : Held(acc.active, m) /\ m # n
    BY <1>8, <2>0 DEF Held, Seen
  <2> HIDE DEF a, b, old
  <2>5. \A m : Held(a, m) => ~Held(b, m)
    <3>1. \A m : Held(acc.closed, m) => ~Held(acc.active, m)
      BY <1>10 DEF ApartFrom, Held
    <3> QED  BY <1>8, <2>1, <2>2, <2>4, <3>1 DEF Seen
  <2>6. ApartFrom(a, b)
    BY <2>5 DEF ApartFrom, Held
  <2>7. \A m : Held(a, m) \/ Held(b, m) <=> Seen(m) \/ m = n
    BY <2>1, <2>2, <2>4 DEF Seen
  <2> QED  BY <2>1, <2>2, <2>3, <2>6, <2>7
<1>14. CASE i # 0 /\ ~(c[n].time - c[Last(old.frames)].time > IdleTimeout)
  <2> DEFINE b == [acc.active EXCEPT ![i] = ext]
  <2>0. i \in DOMAIN acc.active /\ old \in T /\ Run(c, old) /\ old.key = DirKey(c, n)
    BY <1>3, <1>4, <1>10, <1>14 DEF AllRuns
  <2>1. next.closed = acc.closed /\ next.active = b
    BY <1>5, <1>14
  <2>2. \A m \in ToSet(old.frames) : Held(acc.active, m)
    BY <2>0 DEF Held
  <2>3. c[Last(old.frames)].time <= c[n].time
    <3>1. old.frames \in Seq(E) /\ old.frames # <<>>
      BY <2>0 DEF Run, T, StreamsOver
    <3>2. Last(old.frames) \in ToSet(old.frames)
      <4> DEFINE g == old.frames
      <4> HIDE DEF g
      <4>1. Len(g) \in DOMAIN g
        BY <3>1 DEF g
      <4>2. Last(g) \in ToSet(g)
        BY <4>1 DEF Last, ToSet
      <4> QED  BY <4>2 DEF g
    <3> QED  BY <1>8, <2>2, <3>2 DEF Seen
  <2>4. ext \in T /\ Run(c, ext) /\ ToSet(ext.frames) = ToSet(old.frames) \cup {n}
    <3>1. old \in StreamsOver(c, E) /\ GoesOn(c, old, n) /\ Run(c, old)
      BY <1>14, <2>0, <2>3 DEF T, GoesOn
    <3> HIDE DEF old
    <3>2. /\ ext \in StreamsOver(c, E) /\ Run(c, ext)
          /\ ToSet(ext.frames) = ToSet(old.frames) \cup {n}
      BY <1>1, <3>1, NextOfStream
    <3> QED  BY <3>2 DEF T
  <2> HIDE DEF ext
  <2>5. /\ b \in Seq(T) /\ Apart(b) /\ AllRuns(c, b)
        /\ \A m : Held(b, m) <=> \/ Held(acc.active, m) /\ m \notin ToSet(old.frames)
                                 \/ m \in ToSet(old.frames) \/ m = n
    <3>1. \A m \in ToSet(ext.frames) : Held(acc.active, m) => m \in ToSet(acc.active[i].frames)
      BY <1>8, <2>4 DEF Seen
    <3>2. /\ b \in Seq(T) /\ Apart(b) /\ AllRuns(c, b)
          /\ \A m : Held(b, m) <=> \/ Held(acc.active, m) /\ m \notin ToSet(acc.active[i].frames)
                                   \/ m \in ToSet(ext.frames)
      <4> HIDE DEF old
      <4> QED  BY <1>3, <1>10, <2>0, <2>4, <3>1, ReplacedStream
    <3> HIDE DEF b
    <3> QED  BY <2>4, <3>2
  <2> HIDE DEF b, old
  <2>6. \A m : Held(b, m) <=> Held(acc.active, m) \/ m = n
    BY <2>2, <2>5
  <2>7. ApartFrom(acc.closed, b)
    BY <1>8, <1>10, <2>6 DEF ApartFrom, Seen, Held
  <2> QED  BY <1>3, <1>10, <2>1, <2>5, <2>6, <2>7 DEF Seen
<1> QED  BY <1>12, <1>13, <1>14

\* Closed and active streams together.
LEMMA JoinedStreams ==
    ASSUME NEW T, NEW a \in Seq(T), NEW b \in Seq(T), Apart(a), Apart(b), ApartFrom(a, b)
    PROVE  LET d == a \o b
           IN  /\ d \in Seq(T) /\ Apart(d)
               /\ \A n : Held(d, n) <=> Held(a, n) \/ Held(b, n)
               /\ \A c : AllRuns(c, a) /\ AllRuns(c, b) => AllRuns(c, d)
<1> DEFINE d == a \o b
           m == Len(a)
           l == Len(b)
<1>1. /\ d \in Seq(T) /\ m \in Nat /\ l \in Nat
      /\ DOMAIN a = 1..m /\ DOMAIN b = 1..l /\ DOMAIN d = 1..(m + l)
      /\ \A k \in 1..(m + l) : d[k] = IF k <= m THEN a[k] ELSE b[k - m]
  OBVIOUS
<1> HIDE DEF d, m, l
<1>2. \A k \in DOMAIN d : \/ k \in DOMAIN a /\ d[k] = a[k]
                          \/ k - m \in DOMAIN b /\ d[k] = b[k - m]
  BY <1>1
<1>3. /\ \A k \in DOMAIN a : k \in DOMAIN d /\ d[k] = a[k]
      /\ \A k \in DOMAIN b : m + k \in DOMAIN d /\ d[m + k] = b[k]
  BY <1>1
<1>4. ASSUME NEW n PROVE Held(d, n) <=> Held(a, n) \/ Held(b, n)
  BY <1>2, <1>3 DEF Held
<1>5. ASSUME NEW c, AllRuns(c, a), AllRuns(c, b) PROVE AllRuns(c, d)
  BY <1>2, <1>5 DEF AllRuns
<1>6. Apart(d)
  <2> SUFFICES ASSUME NEW i \in DOMAIN d, NEW j \in DOMAIN d, NEW n \in ToSet(d[i].frames),
                      n \in ToSet(d[j].frames)
               PROVE  i = j
    BY DEF Apart
  <2>1. CASE i \in DOMAIN a /\ d[i] = a[i] /\ j \in DOMAIN a /\ d[j] = a[j]
    BY <2>1 DEF Apart
  <2>2. CASE i - m \in DOMAIN b /\ d[i] = b[i - m] /\ j - m \in DOMAIN b /\ d[j] = b[j - m]
    <3>1. i - m = j - m
      BY <2>2 DEF Apart
    <3>2. i \in Int /\ j \in Int /\ m \in Int
      BY <1>1
    <3> QED  BY <3>1, <3>2
  <2>3. CASE i \in DOMAIN a /\ d[i] = a[i] /\ j - m \in DOMAIN b /\ d[j] = b[j - m]
    BY <2>3 DEF ApartFrom, Held
  <2>4. CASE j \in DOMAIN a /\ d[j] = a[j] /\ i - m \in DOMAIN b /\ d[i] = b[i - m]
    BY <2>4 DEF ApartFrom, Held
  <2> QED  BY <1>2, <2>1, <2>2, <2>3, <2>4
<1> QED  BY <1>1, <1>4, <1>5, <1>6 DEF d

Streaming == INSTANCE Folding WITH Step <- LAMBDA acc, n : Placed(capture, acc, n)

\* Every ESP frame is in exactly one stream, and no other frame is in any.
LEMMA StreamsLemma ==
    ASSUME CaptureOK
    PROVE  LET streams == build_directional_streams(capture)
               E == {n \in DOMAIN capture : capture[n].proto = "ESP"}
           IN  /\ streams \in Seq(StreamsOver(capture, E))
               /\ AllRuns(capture, streams) /\ Apart(streams)
               /\ \A n : Held(streams, n) <=> n \in E
<1> DEFINE E == {n \in DOMAIN capture : capture[n].proto = "ESP"}
           esp == EspFrames(capture)
           N == Len(esp)
           base == [closed |-> <<>>, active |-> <<>>]
           all == Streaming!Folded(base, esp)
<1>1. /\ InOrder(esp, Times, E) /\ DOMAIN esp = 1..N /\ N \in Nat
  <2>1. E \in SUBSET DOMAIN capture /\ esp = Ordered(capture, E)
    BY DEF EspFrames
  <2> HIDE DEF E, esp
  <2> QED  BY <2>1, OrderedLemma
<1>2. build_directional_streams(capture) = all.closed \o all.active
  BY DEF build_directional_streams, Streaming!Folded, FoldLeft, Streaming!FoldLeft, MapThenFoldSet,
         Streaming!MapThenFoldSet, Max, Streaming!Max
<1>3. Timed(capture, E) /\ \A n \in E : Times[n] = capture[n].time /\ n \in Int
  BY FrameNumbers DEF Timed, Times, CaptureOK
<1> HIDE DEF esp, E
<1>4. esp \in Seq(E)
  BY <1>1 DEF InOrder
<1>5. \A j, k \in 1..N : j < k => /\ esp[j] # esp[k]
                                  /\ capture[esp[j]].time <= capture[esp[k]].time
  <2> SUFFICES ASSUME NEW j \in 1..N, NEW k \in 1..N, j < k
               PROVE  /\ esp[j] # esp[k]
                      /\ capture[esp[j]].time <= capture[esp[k]].time
    OBVIOUS
  <2>1. Before(Times, esp[j], esp[k])
    BY <1>1 DEF InOrder
  <2>2. esp[j] \in E /\ esp[k] \in E
    BY <1>1, <1>4
  <2> QED  BY <1>3, <2>1, <2>2 DEF Before, Timed
<1> HIDE DEF base
<1>6. \E f : Streaming!ByPrefix(f, base, esp, N) /\ all = f[N]
  BY <1>1, Streaming!FoldLeftByPrefix
<1> HIDE DEF all
<1>7. PICK f : /\ f[0] = base /\ all = f[N]
               /\ \A k \in 1..N : f[k] = Placed(capture, f[k - 1], esp[k])
  BY <1>6 DEF Streaming!ByPrefix
<1> DEFINE Good(k) == StreamsMade(capture, E, esp, f[k], k)
           S == {k \in Nat : k <= N => Good(k)}
<1>8. 0 \in S
  <2>1. StreamsMade(capture, E, esp, base, 0)
    <3>1. base.closed = <<>> /\ base.active = <<>>
      BY DEF base
    <3>2. DOMAIN <<>> = {} /\ <<>> \in Seq(StreamsOver(capture, E))
      OBVIOUS
    <3>3. \A j \in 1..0 : FALSE
      OBVIOUS
    <3> QED  BY <3>1, <3>2, <3>3 DEF StreamsMade, AllRuns, Apart, ApartFrom, Held
  <2> QED  BY <1>7, <2>1
<1>9. ASSUME NEW k \in Nat, k \in S PROVE k + 1 \in S
  <2> SUFFICES ASSUME k + 1 <= N PROVE Good(k + 1)
    OBVIOUS
  <2>1. /\ k <= N /\ k + 1 \in 1..N /\ (k + 1) - 1 = k
        /\ \A j \in 1..k : j \in 1..N /\ j < k + 1
    BY <1>1
  <2>2. f[k + 1] = Placed(capture, f[k], esp[k + 1])
    BY <1>7, <2>1
  <2>3. \A j \in 1..k : /\ esp[j] # esp[k + 1]
                        /\ capture[esp[j]].time <= capture[esp[k + 1]].time
    BY <1>5, <2>1
  <2>4. k + 1 \in DOMAIN esp /\ Good(k)
    BY <1>1, <1>9, <2>1
  <2> QED  BY <1>3, <1>4, <2>2, <2>3, <2>4, PlacedStep
<1> HIDE DEF S, Good
<1>10. Nat \subseteq S
  BY <1>8, <1>9, Noting!Induction
<1>11. StreamsMade(capture, E, esp, all, N)
  <2>1. Good(N)
    BY <1>1, <1>10 DEF S
  <2> QED  BY <1>7, <2>1 DEF Good
<1> DEFINE streams == build_directional_streams(capture)
<1> HIDE DEF streams
<1>12. /\ streams \in Seq(StreamsOver(capture, E))
       /\ AllRuns(capture, streams) /\ Apart(streams)
       /\ \A n : Held(streams, n) <=> Held(all.closed, n) \/ Held(all.active, n)
  BY <1>2, <1>11, JoinedStreams DEF StreamsMade, streams
<1>13. \A n : Held(streams, n) <=> n \in E
  <2>1. \A n : (\E j \in 1..N : esp[j] = n) <=> n \in E
    BY <1>1, <1>4 DEF InOrder
  <2> QED  BY <1>11, <1>12, <2>1 DEF StreamsMade
<1> QED  BY <1>12, <1>13 DEF streams, E

-----------------------------------------------------------------------------
\* The Child SA of two SPIs, in whichever direction.
Joins(ch, spi1, spi2) ==
    /\ ch.outbound # Absent
    /\ \/ ch.inbound.spi = spi1 /\ ch.outbound.spi = spi2
       \/ ch.inbound.spi = spi2 /\ ch.outbound.spi = spi1

\* A Child SA that is found under two SPIs joins them.
LEMMA ChildOfLemma ==
    ASSUME NEW children, Len(children) \in Nat, NEW spi1, NEW spi2
    PROVE  LET l == ChildOf(children, spi1, spi2)
           IN  l # 0 => l \in 1..Len(children) /\ Joins(children[l], spi1, spi2)
<1> DEFINE I == {i \in 1..Len(children) :
                   /\ children[i].outbound # Absent
                   /\ \/ <<children[i].inbound.spi, children[i].outbound.spi>> = <<spi1, spi2>>
                      \/ <<children[i].outbound.spi, children[i].inbound.spi>> = <<spi1, spi2>>}
           l == ChildOf(children, spi1, spi2)
<1>1. l = IF I # {} THEN Max(I) ELSE 0
  BY DEF ChildOf, SelectLastInSeq
<1>2. I \in SUBSET (1..Len(children))
  OBVIOUS
<1>3. \A i \in I : i \in 1..Len(children) /\ Joins(children[i], spi1, spi2)
  BY DEF Joins
<1> HIDE DEF l, I
<1>4. l # 0 => l \in I
  BY <1>1, <1>2, GreatestLemma
<1> QED  BY <1>3, <1>4 DEF l

\* The SPIs of all streams belong to Child SAs.
AllKnown(streams, children) == \A i \in DOMAIN streams : streams[i].key.spi \in KnownSpis(children)

\* As every SPI belongs to a Child SA, streams are joined only under one.
LEMMA PartnerLemma ==
    ASSUME NEW T, NEW streams \in Seq(T), NEW children, AllKnown(streams, children),
           NEW used, NEW i \in DOMAIN streams
    PROVE  LET j == PartnerOf(streams, children, used, i)
           IN  j # 0 => /\ j \in DOMAIN streams /\ j \notin used /\ j # i
                        /\ Opposite(streams[i].key, streams[j].key)
                        /\ ChildOf(children, streams[i].key.spi, streams[j].key.spi) # 0
<1> DEFINE n == Len(streams)
           j == PartnerOf(streams, children, used, i)
           candidates == {m \in (i + 1)..n : m \notin used /\ Opposite(streams[i].key, streams[m].key)}
           linked == {m \in candidates :
                        ChildOf(children, streams[i].key.spi, streams[m].key.spi) # 0}
           free == {m \in candidates :
                      {streams[i].key.spi, streams[m].key.spi} \cap KnownSpis(children) = {}}
<1>1. n \in Nat /\ DOMAIN streams = 1..n /\ i \in 1..n
  OBVIOUS
<1>2. \A m \in candidates : m \in 1..n /\ m # i
  BY <1>1
<1>3. free = {}
  BY DEF AllKnown
<1>4. j = IF linked # {} THEN Min(linked) ELSE IF free # {} THEN Min(free) ELSE 0
  BY DEF PartnerOf
<1>5. linked \in SUBSET Nat
  BY <1>2
<1> HIDE DEF j
<1>6. j # 0 => j \in linked
  <2> HIDE DEF linked, free
  <2> QED  BY <1>3, <1>4, <1>5, LeastLemma
<1> QED  BY <1>1, <1>2, <1>6 DEF j

\* A flow of streams, paired as a Child SA has its SPIs.
IsFlow(flow, streams, children) ==
    \E i \in DOMAIN streams :
        \/ flow.reverse = Absent /\ FlowStreams(flow) = {streams[i]}
        \/ \E j \in DOMAIN streams, ch \in ToSet(children) :
            /\ FlowStreams(flow) = {streams[i], streams[j]}
            /\ {flow.forward, flow.reverse} = {streams[i], streams[j]}
            /\ flow.child = ch.id
            /\ Opposite(streams[i].key, streams[j].key)
            /\ Joins(ch, streams[i].key.spi, streams[j].key.spi)

\* The flow of a stream and its partner.
LEMMA FlowOfLemma ==
    ASSUME NEW T, Absent \notin T, NEW streams \in Seq(T),
           NEW children, DOMAIN children = 1..Len(children), Len(children) \in Nat,
           AllKnown(streams, children), NEW c, NEW used, NEW i \in DOMAIN streams
    PROVE  LET j == PartnerOf(streams, children, used, i)
               flow == FlowOf(c, streams, children, i, j)
           IN  /\ j = 0 => FlowStreams(flow) = {streams[i]}
               /\ j # 0 => FlowStreams(flow) = {streams[i], streams[j]}
               /\ IsFlow(flow, streams, children)
<1> DEFINE j == PartnerOf(streams, children, used, i)
           flow == FlowOf(c, streams, children, i, j)
           l == ChildOf(children, streams[i].key.spi, streams[j].key.spi)
<1>1. j # 0 => /\ j \in DOMAIN streams
               /\ Opposite(streams[i].key, streams[j].key) /\ l # 0
  BY PartnerLemma
<1>2. \A m \in DOMAIN streams : streams[m] # Absent
  OBVIOUS
<1>3. l # 0 => children[l] \in ToSet(children)
               /\ Joins(children[l], streams[i].key.spi, streams[j].key.spi)
  <2> HIDE DEF j
  <2> QED  BY ChildOfLemma DEF ToSet
<1> HIDE DEF j
<1>4. j = 0 => flow.forward = streams[i] /\ flow.reverse = Absent
  BY DEF FlowOf
<1>5. j # 0 => /\ \/ flow.forward = streams[i] /\ flow.reverse = streams[j]
                  \/ flow.forward = streams[j] /\ flow.reverse = streams[i]
               /\ l # 0 => flow.child = children[l].id
  BY DEF FlowOf
<1> HIDE DEF flow, l
<1>6. CASE j = 0
  <2>1. FlowStreams(flow) = {streams[i]}
    BY <1>4, <1>6 DEF FlowStreams
  <2> QED  BY <1>4, <1>6, <2>1 DEF IsFlow, flow, j
<1>7. CASE j # 0
  <2>1. FlowStreams(flow) = {streams[i], streams[j]}
    BY <1>1, <1>2, <1>5, <1>7 DEF FlowStreams
  <2>2. {flow.forward, flow.reverse} = {streams[i], streams[j]}
    BY <1>5, <1>7
  <2>3. IsFlow(flow, streams, children)
    BY <1>1, <1>3, <1>5, <1>7, <2>1, <2>2 DEF IsFlow
  <2> QED  BY <1>7, <2>1, <2>3 DEF flow, j
<1> QED  BY <1>6, <1>7

FlowsOver(c, streams, children) ==
    UNION {{FlowOf(c, streams, children, i, j) : j \in 0..Len(streams)} : i \in DOMAIN streams}

\* No two streams are the same, so a stream's flow is told by the stream.
AllDifferent(streams) == \A i, j \in DOMAIN streams : streams[i] = streams[j] => i = j

FlowsMade(c, streams, children, acc, k) ==
    /\ acc.flows \in Seq(FlowsOver(c, streams, children))
    /\ \A i \in 1..k : i \in acc.used
    /\ \A i \in DOMAIN streams :
            i \in acc.used <=> \E f \in DOMAIN acc.flows : streams[i] \in FlowStreams(acc.flows[f])
    /\ \A f \in DOMAIN acc.flows : IsFlow(acc.flows[f], streams, children)
    /\ \A f, g \in DOMAIN acc.flows : \A s \in FlowStreams(acc.flows[f]) :
            s \in FlowStreams(acc.flows[g]) => f = g

\* The next stream is put in a flow too.
LEMMA JoinedStep ==
    ASSUME NEW T, Absent \notin T, NEW streams \in Seq(T), AllDifferent(streams),
           NEW children, DOMAIN children = 1..Len(children), Len(children) \in Nat,
           AllKnown(streams, children), NEW c, NEW acc, NEW k \in Nat, k + 1 \in DOMAIN streams,
           FlowsMade(c, streams, children, acc, k)
    PROVE  FlowsMade(c, streams, children, Joined(c, streams, children, acc, k + 1), k + 1)
<1> DEFINE i == k + 1
           j == PartnerOf(streams, children, acc.used, i)
           flow == FlowOf(c, streams, children, i, j)
           next == Joined(c, streams, children, acc, i)
<1>1. \A m \in 1..i : m \in 1..k \/ m = i
  OBVIOUS
<1>2. CASE i \in acc.used
  <2>1. next = acc
    BY <1>2 DEF Joined
  <2> HIDE DEF next
  <2> QED  BY <1>1, <1>2, <2>1 DEF FlowsMade, next
<1>3. CASE i \notin acc.used
  <2>1. next.used = acc.used \cup {i, j} /\ next.flows = Append(acc.flows, flow)
    BY <1>3 DEF Joined
  <2>2. /\ j = 0 => FlowStreams(flow) = {streams[i]}
        /\ j # 0 => FlowStreams(flow) = {streams[i], streams[j]}
        /\ IsFlow(flow, streams, children)
    BY FlowOfLemma
  <2>3. j # 0 => j \in DOMAIN streams /\ j \notin acc.used
    BY PartnerLemma
  <2>4. flow \in FlowsOver(c, streams, children)
    <3>1. j \in 0..Len(streams)
      <4>1. DOMAIN streams = 1..Len(streams) /\ Len(streams) \in Nat
        OBVIOUS
      <4> HIDE DEF j
      <4> QED  BY <2>3, <4>1
    <3> HIDE DEF j
    <3>2. flow \in {FlowOf(c, streams, children, i, m) : m \in 0..Len(streams)}
      BY <3>1
    <3> QED  BY <3>2 DEF FlowsOver
  <2> DEFINE b == Append(acc.flows, flow)
             l == Len(acc.flows) + 1
  <2>5. /\ b \in Seq(FlowsOver(c, streams, children)) /\ l \in DOMAIN b /\ b[l] = flow
        /\ l \notin DOMAIN acc.flows
        /\ \A f \in DOMAIN acc.flows : f \in DOMAIN b /\ b[f] = acc.flows[f]
        /\ \A f \in DOMAIN b : f \in DOMAIN acc.flows \/ f = l
    <3>1. acc.flows \in Seq(FlowsOver(c, streams, children))
      BY DEF FlowsMade
    <3> HIDE DEF flow
    <3> QED  BY <2>4, <3>1, AppendedLemma
  <2> HIDE DEF b, l, next, flow
  <2>6. \A m \in 1..i : m \in next.used
    <3>1. \A m \in 1..k : m \in acc.used
      BY DEF FlowsMade
    <3> QED  BY <1>1, <2>1, <3>1
  <2>7. \A m \in DOMAIN streams : streams[m] \in FlowStreams(flow) <=> m = i \/ m = j
    <3>1. 0 \notin DOMAIN streams
      <4>1. DOMAIN streams = 1..Len(streams)
        OBVIOUS
      <4> QED  BY <4>1
    <3> HIDE DEF j, i
    <3>2. i \in DOMAIN streams
      BY DEF i
    <3>3. CASE j = 0
      BY <2>2, <3>1, <3>2, <3>3 DEF AllDifferent
    <3>4. CASE j # 0
      BY <2>2, <2>3, <3>2, <3>4 DEF AllDifferent
    <3> QED  BY <3>3, <3>4
  <2>8. \A m \in DOMAIN streams :
            m \in acc.used <=> \E f \in DOMAIN acc.flows : streams[m] \in FlowStreams(acc.flows[f])
    BY DEF FlowsMade
  <2>9. ASSUME NEW m \in DOMAIN streams
        PROVE  m \in next.used <=> \E f \in DOMAIN b : streams[m] \in FlowStreams(b[f])
    <3>1. m \in next.used <=> m \in acc.used \/ m = i \/ m = j
      BY <2>1
    <3> HIDE DEF i, j
    <3>2. ASSUME m \in acc.used PROVE \E f \in DOMAIN b : streams[m] \in FlowStreams(b[f])
      BY <2>5, <2>8, <3>2
    <3>3. ASSUME m = i \/ m = j PROVE \E f \in DOMAIN b : streams[m] \in FlowStreams(b[f])
      BY <2>5, <2>7, <3>3
    <3>4. ASSUME NEW f \in DOMAIN b, streams[m] \in FlowStreams(b[f])
          PROVE  m \in acc.used \/ m = i \/ m = j
      BY <2>5, <2>7, <2>8, <3>4
    <3> QED  BY <3>1, <3>2, <3>3, <3>4
  <2>10. \A f \in DOMAIN b : IsFlow(b[f], streams, children)
    <3>1. \A f \in DOMAIN acc.flows : IsFlow(acc.flows[f], streams, children)
      BY DEF FlowsMade
    <3> QED  BY <2>2, <2>5, <3>1
  <2>11. \A s \in FlowStreams(flow) : \A f \in DOMAIN acc.flows : s \notin FlowStreams(acc.flows[f])
    <3>1. \A s \in FlowStreams(flow) : \E m \in DOMAIN streams : s = streams[m]
      BY <2>2, <2>3
    <3> SUFFICES ASSUME NEW m \in DOMAIN streams, streams[m] \in FlowStreams(flow)
                 PROVE  \A f \in DOMAIN acc.flows : streams[m] \notin FlowStreams(acc.flows[f])
      BY <3>1
    <3>2. m = i \/ m = j
      BY <2>7
    <3>3. j \in DOMAIN streams => j \notin acc.used
      <4>1. DOMAIN streams = 1..Len(streams)
        OBVIOUS
      <4>2. 0 \notin DOMAIN streams
        BY <4>1
      <4> HIDE DEF j
      <4> QED  BY <2>3, <4>2
    <3>4. m \notin acc.used
      <4> HIDE DEF i, j
      <4> QED  BY <1>3, <3>2, <3>3
    <3> QED  BY <2>8, <3>4
  <2>12. ASSUME NEW f \in DOMAIN b, NEW g \in DOMAIN b, NEW s \in FlowStreams(b[f]),
                s \in FlowStreams(b[g])
         PROVE  f = g
    <3>1. CASE f \in DOMAIN acc.flows /\ g \in DOMAIN acc.flows
      BY <2>5, <2>12, <3>1 DEF FlowsMade
    <3>2. CASE f = l /\ g \in DOMAIN acc.flows
      BY <2>5, <2>11, <2>12, <3>2
    <3>3. CASE g = l /\ f \in DOMAIN acc.flows
      BY <2>5, <2>11, <2>12, <3>3
    <3> QED  BY <2>5, <3>1, <3>2, <3>3
  <2>13. next.flows = b
    BY <2>1 DEF b
  <2>14. FlowsMade(c, streams, children, next, i)
    <3> HIDE DEF i, j
    <3> QED  BY <2>5, <2>6, <2>9, <2>10, <2>12, <2>13 DEF FlowsMade
  <2> QED  BY <2>14 DEF next
<1> QED  BY <1>2, <1>3

Joining == INSTANCE Folding
             WITH Step <- LAMBDA acc, i : Joined(capture, build_directional_streams(capture),
                                                 execute_reconstruction(capture).children, acc, i)

EspNumbers == {n \in DOMAIN capture : capture[n].proto = "ESP"}

\* None is neither a directional SPI nor a stream.
LEMMA KeysAreRecords ==
    ASSUME CaptureOK
    PROVE  /\ \A n \in EspNumbers : DirKey(capture, n) # Absent
           /\ Absent \notin StreamsOver(capture, EspNumbers)
<1> DEFINE K == {[src |-> f.src, dst |-> f.dst, spi |-> f.spi] :
                       f \in {f \in Frames : f.proto = "ESP"}}
<1>1. \A n \in EspNumbers : DirKey(capture, n) \in K
  BY DEF EspNumbers, CaptureOK, DirKey
<1>2. EspNumbers \subseteq Nat
  BY DEF EspNumbers, CaptureOK
<1>3. Absent \notin K /\ Absent \notin [key : K, frames : Seq(Nat)]
  BY FrameAssumption
<1> HIDE DEF K
<1>4. StreamsOver(capture, EspNumbers) \subseteq [key : K, frames : Seq(Nat)]
  <2>1. {DirKey(capture, n) : n \in EspNumbers} \subseteq K
    BY <1>1
  <2>2. Seq(EspNumbers) \subseteq Seq(Nat)
    <3> SUFFICES ASSUME NEW s \in Seq(EspNumbers) PROVE s \in Seq(Nat)
      OBVIOUS
    <3>1. /\ Len(s) \in Nat /\ s = [i \in 1..Len(s) |-> s[i]]
          /\ \A i \in 1..Len(s) : s[i] \in EspNumbers
      OBVIOUS
    <3>2. \A i \in 1..Len(s) : s[i] \in Nat
      BY <1>2, <3>1
    <3> QED  BY <3>1, <3>2
  <2> QED  BY <2>1, <2>2 DEF StreamsOver
<1> QED  BY <1>1, <1>3, <1>4

\* Every stream is one of an ESP frame, so its SPI belongs to a Child SA.
LEMMA AllKnownLemma ==
    ASSUME CaptureOK
    PROVE  AllKnown(build_directional_streams(capture), execute_reconstruction(capture).children)
<1> DEFINE streams == build_directional_streams(capture)
           children == execute_reconstruction(capture).children
           pairs == SpiPairs(capture)
           keys == DirectionalSpis(capture)
<1> SUFFICES ASSUME NEW i \in DOMAIN streams
             PROVE  streams[i].key.spi \in KnownSpis(children)
  BY DEF AllKnown
<1>1. PICK n \in EspNumbers : streams[i].key = DirKey(capture, n)
  <2>1. streams \in Seq(StreamsOver(capture, EspNumbers))
    BY StreamsLemma DEF EspNumbers
  <2>2. streams[i] \in StreamsOver(capture, EspNumbers)
    <3> HIDE DEF streams
    <3> QED  BY <2>1
  <2> QED  BY <2>2 DEF StreamsOver
<1> DEFINE key == streams[i].key
<1>2. key # Absent
  BY <1>1, KeysAreRecords
<1>3. key \in ToSet(keys)
  BY <1>1, DirectionalLemma DEF EspNumbers
<1>4. PICK p \in DOMAIN pairs : key = pairs[p].inbound \/ key = pairs[p].outbound
  <2>1. PICK T : keys \in Seq(T)
    BY DirectionalLemma
  <2> QED  BY <1>3, <2>1, SpiPairsLemma
<1>5. PICK k \in DOMAIN children : /\ children[k].inbound = pairs[p].inbound
                                   /\ children[k].outbound = pairs[p].outbound
  BY ChildrenLemma DEF AllPairs
<1> HIDE DEF children, pairs, streams
<1>6. key.spi \in {children[k].inbound.spi} \cup Keyed(children[k])
  BY <1>2, <1>4, <1>5 DEF Keyed
<1>7. key.spi \in KnownSpis(children)
  <2> HIDE DEF key
  <2> QED  BY <1>6 DEF KnownSpis
<1> QED  BY <1>7 DEF children, streams

\* Every stream of the capture is in one flow, and the flows have no others.
LEMMA FlowsLemma ==
    ASSUME CaptureOK
    PROVE  LET streams == build_directional_streams(capture)
               children == execute_reconstruction(capture).children
               flows == execute_reconstruction(capture).flows
           IN  /\ \A f \in DOMAIN flows : IsFlow(flows[f], streams, children)
               /\ \A i \in DOMAIN streams :
                    \E f \in DOMAIN flows : streams[i] \in FlowStreams(flows[f])
               /\ \A f, g \in DOMAIN flows : \A s \in FlowStreams(flows[f]) :
                    s \in FlowStreams(flows[g]) => f = g
<1> DEFINE streams == build_directional_streams(capture)
           children == execute_reconstruction(capture).children
           flows == execute_reconstruction(capture).flows
           T == StreamsOver(capture, EspNumbers)
           n == Len(streams)
           s == Indices(streams)
           base == [used |-> {}, flows |-> <<>>]
           all == Joining!Folded(base, s)
<1>1. flows = pair_flows(capture, streams, children)
  BY DEF execute_reconstruction
<1>2. all.flows = pair_flows(capture, streams, children)
  BY DEF pair_flows, Joining!Folded, FoldLeft, Joining!FoldLeft, MapThenFoldSet,
         Joining!MapThenFoldSet, Max, Joining!Max
<1>3. /\ streams \in Seq(T) /\ AllRuns(capture, streams) /\ Apart(streams)
  BY StreamsLemma DEF EspNumbers
<1>4. AllKnown(streams, children)
  BY AllKnownLemma
<1>5. DOMAIN children = 1..Len(children) /\ Len(children) \in Nat
  BY ChildrenLemma
<1>6. Absent \notin T
  BY KeysAreRecords
<1> HIDE DEF flows, children, streams, T, all
<1>7. n \in Nat /\ DOMAIN streams = 1..n /\ DOMAIN s = 1..n /\ \A k \in 1..n : s[k] = k
  BY <1>3 DEF Indices
<1>8. AllDifferent(streams)
  <2> SUFFICES ASSUME NEW i \in DOMAIN streams, NEW j \in DOMAIN streams, streams[i] = streams[j]
               PROVE  i = j
    BY DEF AllDifferent
  <2>1. streams[i].frames # <<>> /\ streams[i].frames \in Seq(EspNumbers)
    <3>1. streams[i] \in T /\ Run(capture, streams[i])
      BY <1>3 DEF AllRuns
    <3> QED  BY <3>1 DEF Run, T, StreamsOver
  <2>2. streams[i].frames[1] \in ToSet(streams[i].frames)
    <3> DEFINE g == streams[i].frames
    <3> HIDE DEF g
    <3>1. 1 \in DOMAIN g
      BY <2>1 DEF g
    <3>2. g[1] \in ToSet(g)
      BY <3>1 DEF ToSet
    <3> QED  BY <3>2 DEF g
  <2> QED  BY <1>3, <2>2 DEF Apart
<1> HIDE DEF n
<1>9. \E f : Joining!ByPrefix(f, base, s, n) /\ all = f[n]
  <2> HIDE DEF base, s
  <2> QED  BY <1>7, Joining!FoldLeftByPrefix DEF all
<1>10. PICK f : /\ f[0] = base /\ all = f[n]
                /\ \A k \in 1..n : f[k] = Joined(capture, streams, children, f[k - 1], s[k])
  BY <1>9 DEF Joining!ByPrefix, streams, children
<1> DEFINE Good(k) == FlowsMade(capture, streams, children, f[k], k)
           S == {k \in Nat : k <= n => Good(k)}
<1>11. 0 \in S
  <2>1. base.used = {} /\ base.flows = <<>>
    OBVIOUS
  <2> HIDE DEF base
  <2>2. FlowsMade(capture, streams, children, base, 0)
    <3>1. <<>> \in Seq(FlowsOver(capture, streams, children)) /\ DOMAIN <<>> = {}
      OBVIOUS
    <3>2. \A j \in 1..0 : FALSE
      OBVIOUS
    <3> QED  BY <2>1, <3>1, <3>2 DEF FlowsMade
  <2> QED  BY <1>10, <2>2
<1> HIDE DEF base, s
<1>12. ASSUME NEW k \in Nat, k \in S PROVE k + 1 \in S
  <2> SUFFICES ASSUME k + 1 <= n PROVE Good(k + 1)
    OBVIOUS
  <2>1. k <= n /\ k + 1 \in 1..n /\ (k + 1) - 1 = k
    BY <1>7
  <2>2. f[k + 1] = Joined(capture, streams, children, f[k], k + 1)
    BY <1>7, <1>10, <2>1
  <2>3. k + 1 \in DOMAIN streams /\ Good(k)
    BY <1>7, <1>12, <2>1
  <2> QED  BY <1>3, <1>4, <1>5, <1>6, <1>8, <2>2, <2>3, JoinedStep
<1> HIDE DEF S, Good
<1>13. Nat \subseteq S
  BY <1>11, <1>12, Noting!Induction
<1>14. FlowsMade(capture, streams, children, all, n)
  <2>1. Good(n)
    BY <1>7, <1>13 DEF S
  <2> QED  BY <1>10, <2>1 DEF Good
<1>15. /\ \A g \in DOMAIN flows : IsFlow(flows[g], streams, children)
       /\ \A i \in DOMAIN streams :
            \E g \in DOMAIN flows : streams[i] \in FlowStreams(flows[g])
       /\ \A g, h \in DOMAIN flows : \A t \in FlowStreams(flows[g]) :
            t \in FlowStreams(flows[h]) => g = h
  BY <1>1, <1>2, <1>7, <1>14 DEF FlowsMade
<1> QED  BY <1>15 DEF flows, streams, children

\* An SPI is used in one direction of one pair of hosts only: those who receive
\* under it choose it, and choose it at random.
SpiTellsDirection ==
    \A f, g \in Frames :
        f.proto = "ESP" /\ g.proto = "ESP" /\ f.spi = g.spi => f.src = g.src /\ f.dst = g.dst

\* The tables are those of the capture.
TablesOK ==
    /\ CaptureOK
    /\ tables.flows = execute_reconstruction(capture).flows
    /\ tables.children = execute_reconstruction(capture).children
    /\ \A k \in DOMAIN tables.sessions : IsSessionRow(tables.sessions[k], capture)

\* What the tables say of the flows, from what the stages make.
LEMMA FlowsOfTables ==
    ASSUME TablesOK, SpiTellsDirection
    PROVE  FlowsMatchTheCapture
<1> DEFINE streams == build_directional_streams(capture)
           children == tables.children
           flows == tables.flows
<1>1. /\ streams \in Seq(StreamsOver(capture, EspNumbers))
      /\ AllRuns(capture, streams) /\ Apart(streams)
      /\ \A n : Held(streams, n) <=> n \in EspNumbers
  BY StreamsLemma DEF EspNumbers, TablesOK
<1>2. /\ \A f \in DOMAIN flows : IsFlow(flows[f], streams, children)
      /\ \A i \in DOMAIN streams : \E f \in DOMAIN flows : streams[i] \in FlowStreams(flows[f])
      /\ \A f, g \in DOMAIN flows : \A s \in FlowStreams(flows[f]) :
            s \in FlowStreams(flows[g]) => f = g
  BY FlowsLemma DEF TablesOK
<1>3. /\ \A k \in DOMAIN children : /\ children[k].inbound \in ToSet(DirectionalSpis(capture))
                                    /\ \/ children[k].outbound = Absent
                                       \/ children[k].outbound \in ToSet(DirectionalSpis(capture))
  <2>1. PICK T : DirectionalSpis(capture) \in Seq(T)
    BY DirectionalLemma DEF TablesOK
  <2> DEFINE K == ToSet(DirectionalSpis(capture))
             pairs == SpiPairs(capture)
  <2>2. pairs \in Seq([inbound : K, outbound : K \cup {Absent}])
    BY <2>1, SpiPairsLemma
  <2>3. OfPairs(children, pairs)
    BY ChildrenLemma DEF TablesOK
  <2> HIDE DEF K, pairs
  <2>4. \A p \in DOMAIN pairs : pairs[p].inbound \in K /\ pairs[p].outbound \in K \cup {Absent}
    <3> SUFFICES ASSUME NEW p \in DOMAIN pairs
                 PROVE  pairs[p].inbound \in K /\ pairs[p].outbound \in K \cup {Absent}
      OBVIOUS
    <3> DEFINE X == [inbound : K, outbound : K \cup {Absent}]
    <3>1. pairs \in Seq(X)
      BY <2>2
    <3> HIDE DEF X
    <3>2. pairs[p] \in X
      BY <3>1
    <3> QED  BY <3>2 DEF X
  <2>5. \A k \in DOMAIN children : /\ children[k].inbound \in K
                                   /\ children[k].outbound \in K \cup {Absent}
    BY <2>3, <2>4 DEF OfPairs
  <2> QED  BY <2>5 DEF K
<1>4. \A key \in ToSet(DirectionalSpis(capture)) : \E n \in EspNumbers : key = DirKey(capture, n)
  <2> DEFINE keys == DirectionalSpis(capture)
  <2>1. keys \in Seq({DirKey(capture, n) : n \in EspNumbers})
    BY DirectionalLemma DEF EspNumbers, TablesOK
  <2> HIDE DEF keys
  <2>2. \A key \in ToSet(keys) : \E n \in EspNumbers : key = DirKey(capture, n)
    BY <2>1 DEF ToSet
  <2> QED  BY <2>2 DEF keys
<1>5. \A m, n \in EspNumbers :
        capture[m].spi = capture[n].spi => DirKey(capture, m) = DirKey(capture, n)
  BY DEF SpiTellsDirection, EspNumbers, TablesOK, CaptureOK, DirKey
<1> HIDE DEF streams
<1>6. \A i \in DOMAIN streams : \E n \in EspNumbers : streams[i].key = DirKey(capture, n)
  <2> SUFFICES ASSUME NEW i \in DOMAIN streams
               PROVE  \E n \in EspNumbers : streams[i].key = DirKey(capture, n)
    OBVIOUS
  <2>1. streams[i] \in StreamsOver(capture, EspNumbers)
    BY <1>1
  <2> QED  BY <2>1 DEF StreamsOver
<1>7. ToSet(EspFrames(capture)) = EspNumbers
  <2> DEFINE esp == EspFrames(capture)
  <2>1. EspNumbers \in SUBSET DOMAIN capture /\ esp = Ordered(capture, EspNumbers)
    BY DEF EspFrames, EspNumbers
  <2> HIDE DEF esp
  <2>2. InOrder(esp, Times, EspNumbers)
    BY <2>1, OrderedLemma DEF TablesOK
  <2>3. ToSet(esp) = EspNumbers
    BY <2>2 DEF InOrder, ToSet
  <2> QED  BY <2>3 DEF esp
<1>8. \A f \in DOMAIN flows : \A s \in FlowStreams(flows[f]) :
        \E i \in DOMAIN streams : s = streams[i]
  <2> SUFFICES ASSUME NEW f \in DOMAIN flows, NEW s \in FlowStreams(flows[f])
               PROVE  \E i \in DOMAIN streams : s = streams[i]
    OBVIOUS
  <2>1. IsFlow(flows[f], streams, children)
    BY <1>2
  <2> HIDE DEF flows
  <2> QED  BY <2>1 DEF IsFlow
<1>9. ASSUME NEW n \in ToSet(EspFrames(capture))
      PROVE  Cardinality({k \in DOMAIN flows :
                            \E s \in FlowStreams(flows[k]) : n \in ToSet(s.frames)}) = 1
  <2>1. PICK i \in DOMAIN streams : n \in ToSet(streams[i].frames)
    BY <1>1, <1>7 DEF Held
  <2>2. PICK f \in DOMAIN flows : streams[i] \in FlowStreams(flows[f])
    BY <1>2
  <2>3. ASSUME NEW g \in DOMAIN flows, NEW s \in FlowStreams(flows[g]), n \in ToSet(s.frames)
        PROVE  g = f
    <3>1. PICK j \in DOMAIN streams : s = streams[j]
      BY <1>8
    <3>2. j = i
      BY <1>1, <2>1, <2>3, <3>1 DEF Apart
    <3> QED  BY <1>2, <2>2, <3>1, <3>2
  <2>4. {k \in DOMAIN flows : \E s \in FlowStreams(flows[k]) : n \in ToSet(s.frames)} = {f}
    BY <2>1, <2>2, <2>3
  <2> QED  BY <2>4, FS_Singleton
<1>10. ASSUME NEW k \in DOMAIN flows, NEW s \in FlowStreams(flows[k]), NEW i \in DOMAIN s.frames
       PROVE  /\ DirKey(capture, s.frames[i]) = s.key
              /\ i > 1 => capture[s.frames[i]].time - capture[s.frames[i - 1]].time
                              \in 0..IdleTimeout
  <2>1. PICK j \in DOMAIN streams : s = streams[j]
    BY <1>8
  <2>2. Run(capture, s)
    BY <1>1, <2>1 DEF AllRuns
  <2> QED  BY <2>2 DEF Run
<1>11. ASSUME NEW flow \in ToSet(flows), flow.reverse # Absent
       PROVE  \E ch \in ToSet(children) :
                /\ ch.id = flow.child
                /\ {ch.inbound, ch.outbound} = {flow.forward.key, flow.reverse.key}
  <2>1. IsFlow(flow, streams, children)
    BY <1>2 DEF ToSet
  <2>2. PICK i \in DOMAIN streams, j \in DOMAIN streams, ch \in ToSet(children) :
            /\ {flow.forward, flow.reverse} = {streams[i], streams[j]}
            /\ flow.child = ch.id
            /\ Joins(ch, streams[i].key.spi, streams[j].key.spi)
    BY <1>11, <2>1 DEF IsFlow
  <2>3. PICK a \in EspNumbers, b \in EspNumbers :
            streams[i].key = DirKey(capture, a) /\ streams[j].key = DirKey(capture, b)
    BY <1>6
  <2>4. PICK x \in EspNumbers, y \in EspNumbers :
            ch.inbound = DirKey(capture, x) /\ ch.outbound = DirKey(capture, y)
    <3>1. ch.outbound # Absent
      BY <2>2 DEF Joins
    <3>2. /\ ch.inbound \in ToSet(DirectionalSpis(capture))
          /\ ch.outbound \in ToSet(DirectionalSpis(capture))
      BY <1>3, <3>1 DEF ToSet
    <3> QED  BY <1>4, <3>2
  <2>5. \A m \in EspNumbers : DirKey(capture, m).spi = capture[m].spi
    BY DEF DirKey
  <2>6. \/ DirKey(capture, x) = DirKey(capture, a) /\ DirKey(capture, y) = DirKey(capture, b)
        \/ DirKey(capture, x) = DirKey(capture, b) /\ DirKey(capture, y) = DirKey(capture, a)
    BY <1>5, <2>2, <2>3, <2>4, <2>5 DEF Joins
  <2>7. {ch.inbound, ch.outbound} = {streams[i].key, streams[j].key}
    BY <2>3, <2>4, <2>6
  <2>8. {flow.forward.key, flow.reverse.key} = {streams[i].key, streams[j].key}
    BY <2>2
  <2> QED  BY <2>2, <2>7, <2>8
<1> QED  BY <1>9, <1>10, <1>11 DEF FlowsMatchTheCapture

-----------------------------------------------------------------------------
\* The tables are the reconstruction of the capture, the sessions in any order.
Listed(s) == s = [k \in DOMAIN s |-> s[k]]

TablesInv ==
    LET t == execute_reconstruction(capture)
    IN  /\ CaptureOK
        /\ tables.flows = t.flows /\ tables.children = t.children
        /\ Listed(tables.sessions) /\ DOMAIN tables.sessions = DOMAIN t.sessions
        /\ \A k \in DOMAIN tables.sessions : \E j \in DOMAIN t.sessions :
                tables.sessions[k] = t.sessions[j]

\* Another order of the session rows changes neither the rows nor the rest.
LEMMA RowOrdersLemma ==
    ASSUME NEW c, NEW t, t = execute_reconstruction(c), NEW u \in RowOrders(t)
    PROVE  /\ u.flows = t.flows /\ u.children = t.children
           /\ Listed(u.sessions) /\ DOMAIN u.sessions = DOMAIN t.sessions
           /\ \A k \in DOMAIN u.sessions : \E j \in DOMAIN t.sessions :
                u.sessions[k] = t.sessions[j]
<1>1. t = [sessions |-> t.sessions, children |-> t.children, flows |-> t.flows]
  <2>1. \A a, b, d : LET r == [sessions |-> a, children |-> b, flows |-> d]
                     IN  r.sessions = a /\ r.children = b /\ r.flows = d
    OBVIOUS
  <2>2. \E a, b, d : t = [sessions |-> a, children |-> b, flows |-> d]
    BY DEF execute_reconstruction
  <2> QED  BY <2>1, <2>2
<1>2. PICK p \in [DOMAIN t.sessions -> DOMAIN t.sessions] :
        u = [t EXCEPT !.sessions = [k \in DOMAIN @ |-> t.sessions[p[k]]]]
  BY DEF RowOrders
<1> DEFINE table == [k \in DOMAIN t.sessions |-> t.sessions[p[k]]]
<1>3. u = [sessions |-> table, children |-> t.children, flows |-> t.flows]
  <2>1. u = [t EXCEPT !.sessions = table]
    BY <1>2
  <2> HIDE DEF table
  <2> QED  BY <1>1, <2>1
<1>4. u.sessions = table /\ u.children = t.children /\ u.flows = t.flows
  <2> HIDE DEF table
  <2> QED  BY <1>3
<1>5. Listed(table)
  BY DEF Listed
<1> QED  BY <1>4, <1>5

\* Without a frame.
LEMMA TablesInvInit == Init => TablesInv
<1> SUFFICES ASSUME Init PROVE TablesInv
  OBVIOUS
<1>1. capture = <<>> /\ tables = execute_reconstruction(<<>>)
  BY DEF Init
<1>2. capture \in Seq(Frames) /\ tables = execute_reconstruction(capture)
  BY <1>1
<1>3. Listed(execute_reconstruction(capture).sessions)
  <2> DEFINE keys == SessionKeys(capture)
             Row(k) == [session |-> correlate_session(capture, keys[k]),
                        sa |-> build_parent_ike_sa(capture, keys[k])]
  <2>1. execute_reconstruction(capture).sessions = [k \in DOMAIN keys |-> Row(k)]
    BY DEF execute_reconstruction
  <2> HIDE DEF keys, Row
  <2> QED  BY <2>1 DEF Listed
<1> QED  BY <1>2, <1>3 DEF TablesInv, CaptureOK

\* With one frame more.
LEMMA TablesInvStep == TablesInv /\ [Next]_vars => TablesInv'
<1> SUFFICES ASSUME TablesInv, [Next]_vars PROVE TablesInv'
  OBVIOUS
<1>1. ASSUME NEW f \in Frames, Analyse(f) PROVE TablesInv'
  <2>1. capture' \in Seq(Frames)
    BY <1>1 DEF Analyse, TablesInv, CaptureOK
  <2>2. tables' \in RowOrders(execute_reconstruction(capture'))
    BY <1>1 DEF Analyse
  <2>3. LET t == execute_reconstruction(capture')
        IN  /\ tables'.flows = t.flows /\ tables'.children = t.children
            /\ Listed(tables'.sessions) /\ DOMAIN tables'.sessions = DOMAIN t.sessions
            /\ \A k \in DOMAIN tables'.sessions : \E j \in DOMAIN t.sessions :
                 tables'.sessions[k] = t.sessions[j]
    BY <2>2, RowOrdersLemma
  <2> QED  BY <2>1, <2>3 DEF TablesInv, CaptureOK, Listed
<1>2. CASE UNCHANGED vars
  BY <1>2 DEF vars, TablesInv, CaptureOK, Listed
<1> QED  BY <1>1, <1>2 DEF Next

\* In every state.
LEMMA TablesInvariant == Spec => []TablesInv
BY TablesInvInit, TablesInvStep, PTL DEF Spec

\* So the rows are those of the sessions of the capture, and can be counted.
LEMMA TablesOfCapture ==
    ASSUME TablesInv
    PROVE  TablesOK /\ Len(tables.sessions) \in Nat
<1>1. CaptureOK
  BY DEF TablesInv
<1> DEFINE sessions == execute_reconstruction(capture).sessions
<1>2. \A j \in DOMAIN sessions : IsSessionRow(sessions[j], capture)
  BY <1>1, SessionRowsLemma
<1>3. \A k \in DOMAIN tables.sessions : \E j \in DOMAIN sessions :
          tables.sessions[k] = sessions[j]
  BY DEF TablesInv
<1>4. \A k \in DOMAIN tables.sessions : IsSessionRow(tables.sessions[k], capture)
  <2> HIDE DEF sessions
  <2> QED  BY <1>2, <1>3
<1>5. Len(tables.sessions) \in Nat
  <2> DEFINE table == tables.sessions
             keys == SessionKeys(capture)
  <2>1. DOMAIN table = DOMAIN keys
    BY <1>1, SessionRowsLemma DEF TablesInv
  <2>2. DOMAIN keys = 1..Len(keys) /\ Len(keys) \in Nat
    BY <1>1, SessionKeysLemma
  <2>3. Listed(table)
    BY DEF TablesInv
  <2> HIDE DEF table, keys
  <2>4. table \in Seq({table[k] : k \in DOMAIN table})
    BY <2>1, <2>2, <2>3 DEF Listed
  <2> QED  BY <2>4 DEF table
<1> QED  BY <1>1, <1>4, <1>5 DEF TablesInv, TablesOK

\* Every ESP frame is in one stream of one flow, a stream is one direction of one
\* SPI without an idle gap, and a flow paired under a Child SA is of its two SPIs,
\* for every capture in which an SPI tells the direction (FlowAggregator).
THEOREM FlowsMatch ==
    ASSUME SpiTellsDirection
    PROVE  Spec => []FlowsMatchTheCapture
<1>1. TablesInv => FlowsMatchTheCapture
  BY TablesOfCapture, FlowsOfTables
<1> QED  BY <1>1, TablesInvariant, PTL

-----------------------------------------------------------------------------
\* The events of a session are the frames with its initiator SPI, and there are some.
LEMMA SessionEventsLemma ==
    ASSUME CaptureOK, NEW ispi, \E n \in IkeEvents(capture) : capture[n].ispi = ispi
    PROVE  LET ev == SessionEvents(capture, ispi)
           IN  /\ Len(ev) \in Nat /\ Len(ev) > 0 /\ DOMAIN ev = 1..Len(ev)
               /\ Head(ev) = ev[1]
               /\ \A k \in DOMAIN ev : ev[k] \in DOMAIN capture /\ capture[ev[k]].proto = "IKE"
<1> DEFINE E == {n \in IkeEvents(capture) : capture[n].ispi = ispi}
           ev == SessionEvents(capture, ispi)
<1>1. /\ InOrder(ev, Times, E) /\ DOMAIN ev = 1..Len(ev) /\ Len(ev) \in Nat /\ ev \in Seq(Nat)
  <2>1. E \in SUBSET DOMAIN capture /\ ev = Ordered(capture, E)
    BY DEF IkeEvents, SessionEvents
  <2> HIDE DEF E, ev
  <2> QED  BY <2>1, OrderedLemma
<1>2. \A n \in E : n \in DOMAIN capture /\ capture[n].proto = "IKE"
  BY DEF IkeEvents
<1>3. PICK n : n \in E
  OBVIOUS
<1> HIDE DEF ev, E
<1>4. \A k \in DOMAIN ev : ev[k] \in E
  BY <1>1 DEF InOrder
<1>5. PICK k \in DOMAIN ev : ev[k] = n
  BY <1>1, <1>3 DEF InOrder
<1>6. Len(ev) > 0 /\ Head(ev) = ev[1]
  BY <1>1, <1>5
<1> QED  BY <1>1, <1>2, <1>4, <1>6 DEF ev

\* The names of the transforms that can be captured.
TransformNames ==
    UNION {{f.transforms[type] : type \in DOMAIN f.transforms} :
             f \in {f \in Frames : f.proto = "IKE"}}

\* What an SA selected is a transform of one of the session's frames.
LEMMA SelectedLemma ==
    ASSUME CaptureOK, NEW ispi, \E n \in IkeEvents(capture) : capture[n].ispi = ispi, NEW type
    PROVE  LET ev == SessionEvents(capture, ispi)
               j == SelectedIn(capture, ev, type)
           IN  /\ j = 0 => Selected(capture, ev, type) = Absent
               /\ j # 0 => /\ j \in DOMAIN ev /\ type \in DOMAIN capture[ev[j]].transforms
                           /\ Selected(capture, ev, type) = capture[ev[j]].transforms[type]
                           /\ Selected(capture, ev, type) \in TransformNames
<1> DEFINE ev == SessionEvents(capture, ispi)
           n == Len(ev)
           I == {i \in 1..n : /\ IsAnswer(capture, ev, ev[i])
                              /\ type \in DOMAIN capture[ev[i]].transforms}
           j == SelectedIn(capture, ev, type)
<1>1. j = IF I # {} THEN Max(I) ELSE 0
  BY DEF SelectedIn, SelectLastInSeq
<1>2. /\ n \in Nat /\ DOMAIN ev = 1..n
      /\ \A k \in DOMAIN ev : ev[k] \in DOMAIN capture /\ capture[ev[k]].proto = "IKE"
  BY SessionEventsLemma
<1>3. I \in SUBSET (1..n) /\ \A i \in I : type \in DOMAIN capture[ev[i]].transforms
  OBVIOUS
<1>4. Selected(capture, ev, type) = IF j = 0 THEN Absent ELSE capture[ev[j]].transforms[type]
  BY DEF Selected
<1> HIDE DEF I, j, n, ev
<1>5. j # 0 => j \in I
  BY <1>1, <1>2, <1>3, GreatestLemma
<1>6. ASSUME j # 0 PROVE capture[ev[j]].transforms[type] \in TransformNames
  <2>1. ev[j] \in DOMAIN capture /\ capture[ev[j]].proto = "IKE"
    BY <1>2, <1>3, <1>5, <1>6
  <2>2. capture[ev[j]] \in Frames
    BY <2>1 DEF CaptureOK
  <2>3. type \in DOMAIN capture[ev[j]].transforms
    BY <1>3, <1>5, <1>6
  <2> QED  BY <2>1, <2>2, <2>3 DEF TransformNames
<1> QED  BY <1>2, <1>3, <1>4, <1>5, <1>6 DEF j, ev

\* What may be in an SA, if there is one.
Chosen(sa, c, ispi) ==
    LET ev == SessionEvents(c, ispi)
    IN  /\ sa.encryption_algorithm = Selected(c, ev, "ENCR")
        /\ sa.prf_algorithm = Selected(c, ev, "PRF")
        /\ sa.dh_group = Selected(c, ev, "DH")

\* A session with a selected transform has an SA, and an SA has what was selected.
LEMMA ParentLemma ==
    ASSUME CaptureOK, NEW ispi, \E n \in IkeEvents(capture) : capture[n].ispi = ispi
    PROVE  LET sa == build_parent_ike_sa(capture, ispi)
               ev == SessionEvents(capture, ispi)
           IN  /\ sa # Absent => Chosen(sa, capture, ispi)
               /\ \A type : SelectedIn(capture, ev, type) # 0 => sa # Absent
<1> DEFINE ev == SessionEvents(capture, ispi)
           encr == Selected(capture, ev, "ENCR")
           integ == Selected(capture, ev, "INTEG")
           bits == IF encr \in DOMAIN KeyBits THEN KeyBits[encr] ELSE Absent
           whole == IF integ = Absent /\ encr \in Aead THEN "NONE / NOT_APPLICABLE" ELSE integ
           state == IF \E t \in TransformTypes : SelectedIn(capture, ev, t) # 0
                    THEN "VERIFIED" ELSE "UNKNOWN"
           prf == Selected(capture, ev, "PRF")
           dh == Selected(capture, ev, "DH")
           row == [encryption_algorithm |-> encr, key_length_bits |-> bits,
                   prf_algorithm |-> prf, integrity_algorithm |-> whole,
                   dh_group |-> dh, selection_evidence_state |-> state]
           none == \A k \in DOMAIN ev : DOMAIN capture[ev[k]].transforms = {}
           sa == build_parent_ike_sa(capture, ispi)
           N == TransformNames
           B == {KeyBits[e] : e \in DOMAIN KeyBits} \cup {Absent}
           W == N \cup {Absent, "NONE / NOT_APPLICABLE"}
           O == N \cup {Absent}
           V == {"VERIFIED", "UNKNOWN"}
<1>1. sa = IF none THEN Absent ELSE row
  BY DEF build_parent_ike_sa
<1>2. encr \in O /\ integ \in O /\ prf \in O /\ dh \in O
  BY SelectedLemma
<1>3. bits \in B
  OBVIOUS
<1>4. whole \in W
  BY <1>2
<1>5. state \in V
  OBVIOUS
<1>6. Absent \notin [encryption_algorithm : O, key_length_bits : B, prf_algorithm : O,
                     integrity_algorithm : W, dh_group : O, selection_evidence_state : V]
  BY FrameAssumption DEF TransformNames
<1>7. \A type : SelectedIn(capture, ev, type) # 0 => ~none
  BY SelectedLemma
<1>8. Chosen(row, capture, ispi)
  BY DEF Chosen
<1> HIDE DEF none, bits, whole, state, encr, integ, prf, dh, N, B, W, O, V
<1>9. row # Absent
  BY <1>2, <1>3, <1>4, <1>5, <1>6
<1> HIDE DEF row, sa, ev
<1> QED  BY <1>1, <1>7, <1>8, <1>9 DEF sa, ev

-----------------------------------------------------------------------------
\* Facts: fields, subjects, values.
LEMMA FactLemma ==
    ASSUME NEW kind, NEW subject, NEW field, NEW value, NEW state, NEW frames
    PROVE  LET f == Fact(kind, subject, field, value, state, frames)
           IN  /\ f.key = <<kind, field>> /\ f.key[1] = kind /\ f.key[2] = field
               /\ f.subject = subject /\ f.value = value
               /\ f.evidence_state = state /\ f.frames = frames
BY DEF Fact

\* What an SA's facts say.
IsSaFact(f, sess, sa) ==
    \E field, value :
        /\ f = Fact("ike_sa", <<"ike_sa", sess.ispi>>, field, value, "VERIFIED", ToSet(sess.frames))
        /\ field = "encryption_algorithm" => value = sa.encryption_algorithm /\ value # Absent
        /\ field = "prf_algorithm" => value = sa.prf_algorithm /\ value # Absent
        /\ field = "diffie_hellman_group" =>
                sa.dh_group \in DOMAIN DhGroup /\ value = DhGroup[sa.dh_group]

IsSessionFact(f, sess) ==
    \E field, value :
        /\ f = Fact("ike_session", <<"ike_session", sess.ispi>>, field, value, "VERIFIED",
                    ToSet(sess.frames))
        /\ field = "ike_version" => value = sess.ike_version

\* The facts _normalize_ike_sas makes.
LEMMA SaFactsLemma ==
    ASSUME NEW sess, NEW sa, NEW f \in SaFacts(sess, sa)
    PROVE  IsSaFact(f, sess, sa)
<1> DEFINE F(field, value) == Fact("ike_sa", <<"ike_sa", sess.ispi>>, field, value,
                                   "VERIFIED", ToSet(sess.frames))
           integ == IF sa.integrity_algorithm = Absent /\ sa.encryption_algorithm \in AeadCiphers
                    THEN "AEAD-INTEGRATED" ELSE sa.integrity_algorithm
           dh == IF sa.dh_group \in DOMAIN DhGroup THEN DhGroup[sa.dh_group] ELSE Absent
<1>1. \/ /\ f.value # Absent
         /\ \/ f = F("encryption_algorithm", sa.encryption_algorithm)
            \/ f = F("key_length_bits", sa.key_length_bits)
            \/ f = F("integrity_algorithm", integ)
            \/ f = F("prf_algorithm", sa.prf_algorithm)
            \/ f = F("diffie_hellman_group", dh)
      \/ f = F("selection_evidence_state", sa.selection_evidence_state)
  BY DEF SaFacts
<1>2. \A field, value : F(field, value).value = value
  BY FactLemma
<1>3. dh # Absent => sa.dh_group \in DOMAIN DhGroup /\ dh = DhGroup[sa.dh_group]
  OBVIOUS
<1> DEFINE Ok(field, value) ==
              /\ field = "encryption_algorithm" => value = sa.encryption_algorithm /\ value # Absent
              /\ field = "prf_algorithm" => value = sa.prf_algorithm /\ value # Absent
              /\ field = "diffie_hellman_group" =>
                      sa.dh_group \in DOMAIN DhGroup /\ value = DhGroup[sa.dh_group]
<1> HIDE DEF integ, dh, F
<1>4. /\ sa.encryption_algorithm # Absent => Ok("encryption_algorithm", sa.encryption_algorithm)
      /\ sa.prf_algorithm # Absent => Ok("prf_algorithm", sa.prf_algorithm)
      /\ dh # Absent => Ok("diffie_hellman_group", dh)
      /\ Ok("key_length_bits", sa.key_length_bits)
      /\ Ok("integrity_algorithm", integ)
      /\ Ok("selection_evidence_state", sa.selection_evidence_state)
  BY <1>3
<1> HIDE DEF Ok
<1>5. \E field, value : f = F(field, value) /\ Ok(field, value)
  BY <1>1, <1>2, <1>4
<1> QED  BY <1>5 DEF IsSaFact, F, Ok

\* The facts made of a session.
LEMMA SessionFactsLemma ==
    ASSUME NEW sess, NEW f \in SessionFacts(sess)
    PROVE  IsSessionFact(f, sess)
<1> DEFINE F(field, value) == Fact("ike_session", <<"ike_session", sess.ispi>>, field, value,
                                   "VERIFIED", ToSet(sess.frames))
           natt == ToString(sess.is_nat_detected)
           count == ToString(sess.retransmissions)
<1>1. \/ f = F("ike_version", sess.ike_version)
      \/ f = F("is_nat_detected", natt)
      \/ f = F("retransmission_count", count)
  BY DEF SessionFacts
<1> HIDE DEF natt, count, F
<1>2. \E field, value : f = F(field, value) /\ (field = "ike_version" => value = sess.ike_version)
  BY <1>1
<1> QED  BY <1>2 DEF IsSessionFact, F

\* Child SAs and flows have facts of other kinds.
LEMMA OtherFactsLemma ==
    /\ \A ref, ch, e : \A f \in ChildFacts(ref, ch, e) : f.key[1] = "child_sa"
    /\ \A ref, c, fl, i : \A f \in FlowFacts(ref, c, fl, i) :
            f.key[1] = "esp_flow" /\ f.subject = <<"esp_flow", i>>
<1>1. ASSUME NEW ref, NEW ch, NEW e, NEW f \in ChildFacts(ref, ch, e)
      PROVE  f.key[1] = "child_sa"
  <2> DEFINE F(field, value, state) ==
                Fact("child_sa", <<"child_sa", ch.id>>, field, value, state, {})
  <2>1. \E field, value, state : f = F(field, value, state)
    BY Zenon DEF ChildFacts
  <2> QED  BY <2>1, FactLemma
<1>2. ASSUME NEW ref, NEW c, NEW fl, NEW i, NEW f \in FlowFacts(ref, c, fl, i)
      PROVE  f.key[1] = "esp_flow" /\ f.subject = <<"esp_flow", i>>
  <2> DEFINE F(field, value) == Fact("esp_flow", <<"esp_flow", i>>, field, value, "VERIFIED", {})
  <2>1. \E field, value : f = F(field, value)
    BY Zenon DEF FlowFacts
  <2> QED  BY <2>1, FactLemma
<1> QED  BY <1>1, <1>2

\* A fact of the capture is one of a session, an SA, a Child SA or a flow.
LEMMA FactsOf ==
    ASSUME NEW ref, NEW c, NEW t, NEW offer, NEW f \in normalize(ref, c, t, offer)
    PROVE  \/ \E k \in DOMAIN t.sessions :
                \/ IsSessionFact(f, t.sessions[k].session)
                \/ t.sessions[k].sa # Absent /\ IsSaFact(f, t.sessions[k].session, t.sessions[k].sa)
           \/ f.key[1] = "child_sa"
           \/ \E k \in DOMAIN t.flows : f \in FlowFacts(ref, c, t.flows[k], k)
<1>1. \/ \E k \in DOMAIN t.sessions : f \in SessionFacts(t.sessions[k].session)
      \/ \E k \in {i \in DOMAIN t.sessions : t.sessions[i].sa # Absent} :
            f \in SaFacts(t.sessions[k].session, t.sessions[k].sa)
      \/ \E k \in DOMAIN t.children :
            f \in ChildFacts(ref, t.children[k], ParentEncryption(t.sessions, offer))
      \/ \E k \in DOMAIN t.flows : f \in FlowFacts(ref, c, t.flows[k], k)
  BY Zenon DEF normalize
<1> QED  BY <1>1, SessionFactsLemma, SaFactsLemma, OtherFactsLemma

-----------------------------------------------------------------------------
\* All that is known of one field of a subject is one observed value.
Known(facts, subject, key, value) ==
    /\ \E f \in facts : f.subject = subject /\ f.key = key
    /\ \A f \in facts : f.subject = subject /\ f.key = key =>
            f.value = value /\ f.evidence_state = "VERIFIED"

\* Rule i asks for one field and compares it.
OneLeaf(rule, key) ==
    /\ rule.applicability = None /\ rule.evidence_requirements = {key}
    /\ rule.assertion.form = "leaf" /\ rule.assertion.field = key

\* An observed value that is among the forbidden ones (evaluate_operator).
LEMMA ForbiddenLemma ==
    ASSUME NEW value, value # None, NEW expected, value \in expected
    PROVE  evaluate_operator("not_in_set", value, expected) = "FALSE"
BY DEF evaluate_operator, Truth

\* A value that rule i forbids is a finding for the subject that has it.
LEMMA FailRecorded ==
    ASSUME NEW facts, NEW t, NEW i \in DOMAIN Bundle, NEW subject, NEW key, NEW value,
           Known(facts, subject, key, value), value # None, subject[1] = key[1],
           OneLeaf(Bundle[i], key),
           evaluate_operator(Bundle[i].assertion.op, value, Bundle[i].assertion.expected) = "FALSE"
    PROVE  \E r \in Findings(evaluate_all(facts, t)) : r.rule = i /\ r.subject = subject
<1> DEFINE rule == Bundle[i]
           own == OwnFacts(facts, subject)
           m == SubjectFacts(GlobalFacts(facts, t), own)
           r == Record(i, subject, m)
<1>1. key \in DOMAIN own /\ own[key].value = value /\ own[key].evidence_state = "VERIFIED"
  <2> DEFINE mine == {f \in facts : f.subject = subject}
             x == CHOOSE f \in mine : f.key = key
  <2>1. PICK f \in mine : f.key = key
    BY DEF Known
  <2>2. x \in mine /\ x.key = key
    BY <2>1
  <2>3. key \in DOMAIN own /\ own[key] = x
    <3> HIDE DEF mine
    <3> QED  BY <2>1 DEF OwnFacts, FactMap, mine
  <2> QED  BY <2>2, <2>3 DEF Known
<1>2. key \in DOMAIN m /\ m[key] = own[key]
  <2> HIDE DEF own
  <2> QED  BY <1>1 DEF SubjectFacts
<1> HIDE DEF m, own
<1>3. Applies(rule, m)
  BY DEF Applies, OneLeaf
<1>4. Missing(rule, m) = {}
  <2>1. "VERIFIED" # "UNKNOWN"
    OBVIOUS
  <2> QED  BY <1>1, <1>2, <2>1 DEF Missing, OneLeaf
<1>5. EvalCondition(rule.assertion, m) = "FALSE"
  <2>1. EvalLeaf(rule.assertion, m) = "FALSE"
    BY <1>1, <1>2 DEF EvalLeaf, Observed, OneLeaf
  <2>2. States(rule.assertion, m) = {"FALSE"}
    BY <2>1 DEF States, Leaves, OneLeaf
  <2> QED  BY <2>2 DEF EvalCondition, kleene_all, OneLeaf
<1>6. Verdict(rule, m) = "FAIL"
  BY <1>3, <1>4, <1>5 DEF Verdict
<1>7. r.rule = i /\ r.subject = subject /\ r.compliance_state = "FAIL"
  BY <1>6 DEF Record, _evaluate_single_subject
<1>8. r \in evaluate_rule(i, facts, t)
  <2>1. subject \in Candidates(rule, facts)
    BY DEF Candidates, Known, OneLeaf
  <2> HIDE DEF r
  <2>2. r \in {Record(i, s, SubjectFacts(GlobalFacts(facts, t), OwnFacts(facts, s))) :
                s \in Candidates(rule, facts)}
    BY <2>1 DEF r, m, own
  <2> QED  BY <2>1, <2>2 DEF evaluate_rule
<1>9. r \in evaluate_all(facts, t)
  BY <1>8 DEF evaluate_all
<1> HIDE DEF r
<1> QED  BY <1>7, <1>9 DEF Findings

\* The facts of every SA and flow are among those of the capture.
LEMMA FactsMade ==
    ASSUME NEW ref, NEW c, NEW t, NEW offer
    PROVE  /\ \A k \in DOMAIN t.sessions : t.sessions[k].sa # Absent =>
                SaFacts(t.sessions[k].session, t.sessions[k].sa)
                  \subseteq normalize(ref, c, t, offer)
           /\ \A k \in DOMAIN t.flows :
                FlowFacts(ref, c, t.flows[k], k) \subseteq normalize(ref, c, t, offer)
<1> DEFINE A == {SessionFacts(t.sessions[k].session) : k \in DOMAIN t.sessions}
           I == {i \in DOMAIN t.sessions : t.sessions[i].sa # Absent}
           B == {SaFacts(t.sessions[k].session, t.sessions[k].sa) : k \in I}
           C == {ChildFacts(ref, t.children[k], ParentEncryption(t.sessions, offer)) :
                   k \in DOMAIN t.children}
           D == {FlowFacts(ref, c, t.flows[k], k) : k \in DOMAIN t.flows}
<1>1. normalize(ref, c, t, offer) = UNION (A \cup B \cup C \cup D)
  BY DEF normalize
<1>2. \A k \in DOMAIN t.sessions : t.sessions[k].sa # Absent =>
          SaFacts(t.sessions[k].session, t.sessions[k].sa) \in B
  OBVIOUS
<1>3. \A k \in DOMAIN t.flows : FlowFacts(ref, c, t.flows[k], k) \in D
  OBVIOUS
<1> HIDE DEF A, B, C, D
<1> QED  BY <1>1, <1>2, <1>3

\* A row holds the session of its initiator SPI and what is known of its SA.
LEMMA RowLemma ==
    ASSUME CaptureOK, NEW row, IsSessionRow(row, capture)
    PROVE  LET s == row.session
           IN  /\ row.sa = build_parent_ike_sa(capture, s.ispi)
               /\ s.frames = SessionEvents(capture, s.ispi)
               /\ s.ike_version = capture[Head(s.frames)].version
               /\ \E n \in IkeEvents(capture) : capture[n].ispi = s.ispi
<1>1. PICK ispi : /\ row.session = correlate_session(capture, ispi)
                  /\ row.sa = build_parent_ike_sa(capture, ispi)
                  /\ \E n \in IkeEvents(capture) : capture[n].ispi = ispi
  BY DEF IsSessionRow
<1>2. LET s == correlate_session(capture, ispi)
      IN  /\ s.ispi = ispi /\ s.frames = SessionEvents(capture, ispi)
          /\ s.ike_version = capture[Head(SessionEvents(capture, ispi))].version
  BY DEF correlate_session
<1> QED  BY <1>1, <1>2

\* The selected encryption is what the facts say of the SA.
LEMMA SelectedKnown ==
    ASSUME TablesOK, NEW offer, NEW k \in DOMAIN tables.sessions,
           SelectedIn(capture, tables.sessions[k].session.frames, "ENCR") # 0
    PROVE  LET s == tables.sessions[k].session
               value == capture[s.frames[SelectedIn(capture, s.frames, "ENCR")]].transforms["ENCR"]
           IN  /\ Known(normalize(name, capture, tables, offer), <<"ike_sa", s.ispi>>,
                        <<"ike_sa", "encryption_algorithm">>, value)
               /\ value # None
<1> DEFINE row == tables.sessions[k]
           s == row.session
           ev == SessionEvents(capture, s.ispi)
           value == Selected(capture, ev, "ENCR")
           facts == normalize(name, capture, tables, offer)
           subject == <<"ike_sa", s.ispi>>
           key == <<"ike_sa", "encryption_algorithm">>
           own == Fact("ike_sa", subject, "encryption_algorithm", value, "VERIFIED", ToSet(s.frames))
<1>0. CaptureOK /\ IsSessionRow(row, capture)
  BY DEF TablesOK
<1>1. /\ row.sa = build_parent_ike_sa(capture, s.ispi) /\ s.frames = ev
      /\ \E n \in IkeEvents(capture) : capture[n].ispi = s.ispi
  BY <1>0, RowLemma
<1>2. /\ SelectedIn(capture, ev, "ENCR") # 0
      /\ value = capture[ev[SelectedIn(capture, ev, "ENCR")]].transforms["ENCR"]
      /\ value \in TransformNames
  <2>1. SelectedIn(capture, ev, "ENCR") # 0
    BY <1>1
  <2> HIDE DEF row
  <2> QED  BY <1>0, <1>1, <2>1, SelectedLemma
<1>3. row.sa # Absent /\ row.sa.encryption_algorithm = value
  <2> DEFINE sa == build_parent_ike_sa(capture, s.ispi)
  <2> HIDE DEF row
  <2>1. sa # Absent /\ Chosen(sa, capture, s.ispi)
    BY <1>0, <1>1, <1>2, ParentLemma
  <2> HIDE DEF sa
  <2>2. sa.encryption_algorithm = value
    BY <2>1 DEF Chosen
  <2> QED  BY <1>1, <2>1, <2>2 DEF sa
<1>4. value # Absent /\ value # None
  BY <1>2, FrameAssumption, AssessmentAssumption DEF TransformNames
<1>5. own \in facts
  <2>1. own.value = value
    BY FactLemma
  <2>2. own \in SaFacts(s, row.sa)
    BY <1>3, <1>4, <2>1 DEF SaFacts
  <2>3. SaFacts(s, row.sa) \subseteq facts
    BY <1>3, FactsMade
  <2> HIDE DEF own, facts
  <2> QED  BY <2>2, <2>3
<1>6. own.subject = subject /\ own.key = key
  <2> HIDE DEF subject, value
  <2> QED  BY DEF Fact
<1>7. ASSUME NEW f \in facts, f.subject = subject, f.key = key
      PROVE  f.value = value /\ f.evidence_state = "VERIFIED"
  <2>1. f.key[1] = "ike_sa" /\ f.key[2] = "encryption_algorithm"
    BY <1>7
  <2>2. PICK l \in DOMAIN tables.sessions :
            \/ IsSessionFact(f, tables.sessions[l].session)
            \/ tables.sessions[l].sa # Absent
               /\ IsSaFact(f, tables.sessions[l].session, tables.sessions[l].sa)
    BY <2>1, FactsOf, OtherFactsLemma
  <2>3. ~IsSessionFact(f, tables.sessions[l].session)
    BY <2>1, FactLemma DEF IsSessionFact
  <2>4. PICK field, v :
          /\ f = Fact("ike_sa", <<"ike_sa", tables.sessions[l].session.ispi>>, field, v, "VERIFIED",
                      ToSet(tables.sessions[l].session.frames))
          /\ field = "encryption_algorithm" => v = tables.sessions[l].sa.encryption_algorithm
    BY <2>2, <2>3 DEF IsSaFact
  <2>5. /\ f.value = v /\ f.evidence_state = "VERIFIED" /\ f.key[2] = field
        /\ f.subject = <<"ike_sa", tables.sessions[l].session.ispi>>
    BY <2>4 DEF Fact
  <2>6. tables.sessions[l].session.ispi = s.ispi
    BY <1>7, <2>5
  <2>7. tables.sessions[l].sa = row.sa
    BY <1>1, <2>6, RowLemma DEF TablesOK
  <2> QED  BY <1>3, <2>1, <2>4, <2>5, <2>7
<1>8. Known(facts, subject, key, value)
  <2> HIDE DEF own, facts, subject, key, value
  <2> QED  BY <1>5, <1>6, <1>7 DEF Known
<1> QED  BY <1>1, <1>2, <1>4, <1>8

-----------------------------------------------------------------------------
\* Numbers that increase from each to the next increase.
LEMMA IncreasingLemma ==
    ASSUME NEW s \in Seq(Int), Increasing(s), NEW a \in DOMAIN s, NEW b \in DOMAIN s, a < b
    PROVE  s[a] < s[b]
<1> DEFINE n == Len(s)
           T == {d \in Nat : \A x \in 1..n : x + d + 1 <= n => s[x] < s[x + d + 1]}
<1>1. n \in Nat /\ DOMAIN s = 1..n /\ \A x \in 1..n : s[x] \in Int
  OBVIOUS
<1>2. \A x \in 1..n : x + 1 <= n => s[x] < s[x + 1]
  <2> SUFFICES ASSUME NEW x \in 1..n, x + 1 <= n PROVE s[x] < s[x + 1]
    OBVIOUS
  <2>1. x + 1 \in 2..Len(s) /\ (x + 1) - 1 = x
    BY <1>1
  <2>2. s[x + 1] > s[(x + 1) - 1]
    BY <2>1 DEF Increasing
  <2>3. s[x] \in Int /\ s[x + 1] \in Int
    BY <1>1, <2>1
  <2> QED  BY <2>1, <2>2, <2>3
<1> HIDE DEF n
<1>3. 0 \in T
  BY <1>1, <1>2
<1>4. ASSUME NEW d \in Nat, d \in T PROVE d + 1 \in T
  <2> SUFFICES ASSUME NEW x \in 1..n, x + (d + 1) + 1 <= n PROVE s[x] < s[x + (d + 1) + 1]
    OBVIOUS
  <2>1. x + d + 1 \in 1..n /\ (x + d + 1) + 1 = x + (d + 1) + 1 /\ x + d + 1 <= n
    BY <1>1
  <2>2. s[x] < s[x + d + 1] /\ s[x + d + 1] < s[(x + d + 1) + 1]
    BY <1>2, <1>4, <2>1
  <2>3. (x + d + 1) + 1 \in 1..n
    BY <1>1, <2>1
  <2>4. s[x] \in Int /\ s[x + d + 1] \in Int /\ s[(x + d + 1) + 1] \in Int
    BY <1>1, <2>1, <2>3
  <2> QED  BY <2>1, <2>2, <2>4
<1>5. b - a - 1 \in Nat /\ a + (b - a - 1) + 1 = b /\ a \in 1..n /\ b <= n
  BY <1>1
<1>6. b - a - 1 \in T
  <2> HIDE DEF T
  <2>1. Nat \subseteq T
    BY <1>3, <1>4, Noting!Induction
  <2> QED  BY <1>5, <2>1
<1> QED  BY <1>5, <1>6

\* If the numbers under an SPI increase, an earlier frame has the smaller number.
LEMMA SequenceLemma ==
    ASSUME CaptureOK, NEW spi, NEW m \in EspNumbers, NEW n \in EspNumbers, m < n,
           capture[m].spi = spi, capture[n].spi = spi, Increasing(SpiSequence(capture, spi))
    PROVE  capture[m].seq < capture[n].seq
<1> DEFINE S == {i \in DOMAIN capture : capture[i].proto = "ESP" /\ capture[i].spi = spi}
           number == [i \in DOMAIN capture |-> i]
           at == Sorted(number, S)
           s == [k \in DOMAIN at |-> capture[at[k]].seq]
<1>1. DOMAIN capture = 1..Len(capture) /\ Len(capture) \in Nat
  BY DEF CaptureOK
<1>2. IsFiniteSet(S) /\ S \in SUBSET Nat /\ \A i \in S : number[i] \in Int /\ number[i] = i
  <2>1. IsFiniteSet(1..Len(capture))
    BY <1>1, FS_Interval
  <2>2. S \subseteq 1..Len(capture)
    BY <1>1
  <2>3. \A i \in S : i \in DOMAIN capture /\ i \in Int
    BY <1>1
  <2> QED  BY <2>1, <2>2, <2>3, FS_Subset
<1>3. \A i \in S : capture[i].seq \in Int
  <2> SUFFICES ASSUME NEW i \in S PROVE capture[i].seq \in Int
    OBVIOUS
  <2>1. capture[i] \in {f \in Frames : f.proto = "ESP"}
    BY DEF CaptureOK
  <2> QED  BY <2>1, FrameAssumption
<1>4. m \in S /\ n \in S /\ m \in Int /\ n \in Int
  BY <1>1 DEF EspNumbers
<1>5. SpiSequence(capture, spi) = s
  BY DEF SpiSequence
<1> HIDE DEF S, number
<1>6. InOrder(at, number, S)
  BY <1>2, SortedLemma
<1>7. DOMAIN at = 1..Len(at) /\ Len(at) \in Nat /\ \A k \in DOMAIN at : at[k] \in S
  <2> HIDE DEF at
  <2> QED  BY <1>6 DEF InOrder
<1> HIDE DEF at
<1>8. s \in Seq(Int)
  BY <1>3, <1>7
<1>9. PICK a \in DOMAIN at, b \in DOMAIN at : at[a] = m /\ at[b] = n
  BY <1>4, <1>6 DEF InOrder
<1>10. a < b
  <2>1. a # b
    BY <1>4, <1>9
  <2>2. ~(b < a)
    <3> SUFFICES ASSUME b < a PROVE FALSE
      OBVIOUS
    <3>1. Before(number, n, m)
      BY <1>6, <1>9 DEF InOrder
    <3> QED  BY <1>2, <1>4, <3>1 DEF Before
  <2> QED  BY <1>7, <2>1, <2>2
<1>11. DOMAIN s = DOMAIN at /\ s[a] = capture[m].seq /\ s[b] = capture[n].seq
  BY <1>9
<1> HIDE DEF s
<1>12. s[a] < s[b]
  BY <1>5, <1>8, <1>10, <1>11, IncreasingLemma
<1> QED  BY <1>11, <1>12

\* The streams of a flow: ESP frames of one SPI.
LEMMA StreamsOfTables ==
    ASSUME TablesOK, NEW k \in DOMAIN tables.flows, NEW s \in FlowStreams(tables.flows[k]),
           NEW n \in ToSet(s.frames)
    PROVE  n \in EspNumbers /\ capture[n].spi = s.key.spi
<1> DEFINE streams == build_directional_streams(capture)
           flows == tables.flows
<1>1. streams \in Seq(StreamsOver(capture, EspNumbers)) /\ AllRuns(capture, streams)
  BY StreamsLemma DEF EspNumbers, TablesOK
<1>2. IsFlow(flows[k], streams, tables.children)
  BY FlowsLemma DEF TablesOK
<1> HIDE DEF streams, flows
<1>3. PICK i \in DOMAIN streams : s = streams[i]
  BY <1>2 DEF IsFlow, flows
<1>4. streams[i] \in StreamsOver(capture, EspNumbers) /\ Run(capture, streams[i])
  BY <1>1 DEF AllRuns
<1>5. s.frames \in Seq(EspNumbers) /\ Run(capture, s)
  BY <1>3, <1>4 DEF StreamsOver
<1>6. PICK j \in DOMAIN s.frames : n = s.frames[j]
  BY DEF ToSet
<1>7. n \in EspNumbers
  <2> DEFINE g == s.frames
  <2>1. g \in Seq(EspNumbers) /\ j \in DOMAIN g /\ n = g[j]
    BY <1>5, <1>6
  <2> HIDE DEF g
  <2> QED  BY <2>1
<1>8. DirKey(capture, n) = s.key
  BY <1>5, <1>6 DEF Run
<1> QED  BY <1>7, <1>8 DEF DirKey

\* A sequence number that does not increase within a stream is told of its flow.
LEMMA FallingKnown ==
    ASSUME TablesOK, NEW offer, NEW k \in DOMAIN tables.flows,
           NEW s \in FlowStreams(tables.flows[k]),
           NEW m \in ToSet(s.frames), NEW n \in ToSet(s.frames),
           m < n, capture[m].seq >= capture[n].seq
    PROVE  Known(normalize(name, capture, tables, offer), <<"esp_flow", k>>,
                 <<"esp_flow", "sequence_monotonic">>, "False")
<1> DEFINE flow == tables.flows[k]
           F(field, value) == Fact("esp_flow", <<"esp_flow", k>>, field, value, "VERIFIED", {})
           facts == normalize(name, capture, tables, offer)
           key == <<"esp_flow", "sequence_monotonic">>
<1>1. ~Increasing(SpiSequence(capture, s.key.spi))
  <2>1. /\ m \in EspNumbers /\ capture[m].spi = s.key.spi
        /\ n \in EspNumbers /\ capture[n].spi = s.key.spi
    BY StreamsOfTables
  <2>2. capture[m].seq \in Int /\ capture[n].seq \in Int
    <3>1. {capture[m], capture[n]} \subseteq {f \in Frames : f.proto = "ESP"}
      BY <2>1 DEF EspNumbers, TablesOK, CaptureOK
    <3> QED  BY <3>1, FrameAssumption
  <2> QED  BY <2>1, <2>2, SequenceLemma DEF TablesOK
<1>2. \A l \in DOMAIN tables.flows : \A f \in FlowFacts(name, capture, tables.flows[l], l) :
          f.subject = <<"esp_flow", k>> => l = k
  BY OtherFactsLemma
<1>3. /\ F("sequence_monotonic", "False") \in FlowFacts(name, capture, flow, k)
      /\ \A f \in FlowFacts(name, capture, flow, k) :
            f.key = key => f = F("sequence_monotonic", "False")
  <2> DEFINE streams == {flow.forward} \cup (IF flow.reverse = Absent THEN {} ELSE {flow.reverse})
             frames == UNION {ToSet(x.frames) : x \in streams}
             natt == ToString(\E x \in frames : capture[x].natt)
             count == ToString(Cardinality(frames))
             monotonic == /\ \A x \in streams : Increasing(SpiSequence(capture, x.key.spi))
                          /\ name # "replay"
             told == IF monotonic THEN "True" ELSE "False"
  <2>1. FlowFacts(name, capture, flow, k) = {F("is_nat_t", natt), F("packet_count", count),
                                       F("sequence_monotonic", told),
                                       F("association_state", flow.state)}
    BY DEF FlowFacts
  <2>2. told = "False"
    BY <1>1 DEF FlowStreams
  <2>3. \A field, value : F(field, value).key[2] = field
    BY FactLemma
  <2> HIDE DEF F, natt, count, told
  <2> QED  BY <2>1, <2>2, <2>3
<1>4. ASSUME NEW f \in facts, f.subject = <<"esp_flow", k>>, f.key = key
      PROVE  f \in FlowFacts(name, capture, flow, k)
  <2>1. f.key[1] = "esp_flow"
    BY <1>4
  <2>2. \A l \in DOMAIN tables.sessions :
          /\ ~IsSessionFact(f, tables.sessions[l].session)
          /\ ~IsSaFact(f, tables.sessions[l].session, tables.sessions[l].sa)
    BY <2>1, FactLemma DEF IsSessionFact, IsSaFact
  <2>3. PICK l \in DOMAIN tables.flows : f \in FlowFacts(name, capture, tables.flows[l], l)
    BY <2>1, <2>2, FactsOf
  <2> QED  BY <1>2, <1>4, <2>3
<1>5. F("sequence_monotonic", "False") \in facts
  <2>1. FlowFacts(name, capture, flow, k) \subseteq facts
    BY FactsMade
  <2> HIDE DEF F, facts
  <2> QED  BY <1>3, <2>1
<1>6. LET f == F("sequence_monotonic", "False")
      IN  f.subject = <<"esp_flow", k>> /\ f.key = key /\ f.value = "False"
          /\ f.evidence_state = "VERIFIED"
  BY FactLemma
<1> HIDE DEF F, facts
<1> QED  BY <1>3, <1>4, <1>5, <1>6 DEF Known, facts

-----------------------------------------------------------------------------
\* The report is one that the assessment of the tables may produce.
Made(rep, ref, c, t) ==
    \E offer \in OfferedEncryption(c) :
        /\ rep.facts = normalize(ref, c, t, offer)
        /\ rep.records = evaluate_all(rep.facts, t)
        /\ rep.graph = build_graph(rep.facts, Findings(rep.records))

\* Whatever order the observations were read in and risk tier was chosen.
LEMMA MadeLemma ==
    ASSUME NEW ref, NEW c, NEW t, NEW rep \in run_assessment(ref, c, t)
    PROVE  Made(rep, ref, c, t)
<1>1. PICK offer \in OfferedEncryption(c) :
        /\ rep.facts = normalize(ref, c, t, offer)
        /\ rep.records = evaluate_all(normalize(ref, c, t, offer), t)
        /\ rep.graph = build_graph(normalize(ref, c, t, offer),
                                   Findings(evaluate_all(normalize(ref, c, t, offer), t)))
  BY DEF run_assessment
<1> QED  BY <1>1 DEF Made

ReportMade == Made(report, name, capture, tables)

\* In every state the report is of the tables and the tables are of the capture.
LEMMA ReportInvariant == Spec => [](TablesInv /\ ReportMade)
<1>1. Init => ReportMade
  BY MadeLemma DEF Init, ReportMade
<1>2. ReportMade /\ [Next]_vars => ReportMade'
  <2> SUFFICES ASSUME ReportMade, [Next]_vars PROVE ReportMade'
    OBVIOUS
  <2>1. ASSUME NEW f \in Frames, Analyse(f) PROVE ReportMade'
    BY <2>1, MadeLemma DEF Analyse, ReportMade
  <2>2. CASE UNCHANGED vars
    BY <2>2 DEF vars, ReportMade
  <2> QED  BY <2>1, <2>2 DEF Next
<1> QED  BY <1>1, <1>2, TablesInvariant, PTL DEF Spec

\* What the rules forbid and the capture shows is found: an encryption algorithm
\* selected by the last answer that has one, and a sequence number that does not
\* increase within a stream, for every capture and bundle (build_parent_ike_sa,
\* spi_sequences, evaluate_rule).
THEOREM WeaknessIsFound == Spec => []WeaknessFound
<1> SUFFICES ASSUME TablesInv, ReportMade PROVE WeaknessFound
  BY ReportInvariant, PTL
<1>1. TablesOK
  BY TablesOfCapture
<1>2. PICK offer : /\ report.facts = normalize(name, capture, tables, offer)
                   /\ report.records = evaluate_all(report.facts, tables)
  BY DEF ReportMade, Made
<1>3. ASSUME NEW i \in DOMAIN Bundle,
             Bundle[i].assertion.form = "leaf", Bundle[i].assertion.op = "not_in_set",
             OneLeaf(Bundle[i], <<"ike_sa", "encryption_algorithm">>),
             NEW k \in DOMAIN tables.sessions,
             SelectedIn(capture, tables.sessions[k].session.frames, "ENCR") # 0,
             capture[tables.sessions[k].session.frames[
                 SelectedIn(capture, tables.sessions[k].session.frames, "ENCR")]].transforms["ENCR"]
               \in Bundle[i].assertion.expected
      PROVE  \E f \in Findings(report.records) :
                f.rule = i /\ f.subject = <<"ike_sa", tables.sessions[k].session.ispi>>
  <2> DEFINE s == tables.sessions[k].session
             value == capture[s.frames[SelectedIn(capture, s.frames, "ENCR")]].transforms["ENCR"]
             key == <<"ike_sa", "encryption_algorithm">>
             subject == <<"ike_sa", s.ispi>>
  <2>1. Known(report.facts, subject, key, value) /\ value # None
    BY <1>1, <1>2, <1>3, SelectedKnown
  <2>2. subject[1] = key[1]
    OBVIOUS
  <2> HIDE DEF value
  <2>3. evaluate_operator(Bundle[i].assertion.op, value, Bundle[i].assertion.expected) = "FALSE"
    <3>1. value \in Bundle[i].assertion.expected /\ Bundle[i].assertion.op = "not_in_set"
      BY <1>3 DEF value
    <3> QED  BY <2>1, <3>1, ForbiddenLemma
  <2>4. OneLeaf(Bundle[i], key)
    BY <1>3
  <2> HIDE DEF key, subject
  <2>5. \E r \in Findings(evaluate_all(report.facts, tables)) : r.rule = i /\ r.subject = subject
    BY <2>1, <2>2, <2>3, <2>4, FailRecorded
  <2> QED  BY <1>2, <2>5 DEF subject
<1>4. ASSUME NEW i \in DOMAIN Bundle,
             Bundle[i].assertion.op = "equals", Bundle[i].assertion.expected = "True",
             OneLeaf(Bundle[i], <<"esp_flow", "sequence_monotonic">>),
             NEW k \in DOMAIN tables.flows, NEW s \in FlowStreams(tables.flows[k]),
             NEW m \in ToSet(s.frames), NEW n \in ToSet(s.frames),
             m < n, capture[m].seq >= capture[n].seq
      PROVE  \E f \in Findings(report.records) : f.rule = i /\ f.subject = <<"esp_flow", k>>
  <2> DEFINE key == <<"esp_flow", "sequence_monotonic">>
             subject == <<"esp_flow", k>>
  <2>1. Known(report.facts, subject, key, "False")
    BY <1>1, <1>2, <1>4, FallingKnown
  <2>2. subject[1] = key[1] /\ "False" # None
    BY FrameAssumption, AssessmentAssumption
  <2>3. evaluate_operator(Bundle[i].assertion.op, "False", Bundle[i].assertion.expected) = "FALSE"
    BY <1>4, <2>2 DEF evaluate_operator, Truth
  <2>4. OneLeaf(Bundle[i], key)
    BY <1>4
  <2> HIDE DEF key, subject
  <2>5. \E r \in Findings(evaluate_all(report.facts, tables)) : r.rule = i /\ r.subject = subject
    BY <2>1, <2>2, <2>3, <2>4, FailRecorded
  <2> QED  BY <1>2, <2>5 DEF subject
<1>5. ASSUME NEW i \in DOMAIN Bundle,
             Bundle[i].assertion.form = "leaf", Bundle[i].assertion.op = "not_in_set",
             Bundle[i].assertion.field = <<"ike_sa", "encryption_algorithm">>,
             Bundle[i].applicability = None,
             Bundle[i].evidence_requirements = {<<"ike_sa", "encryption_algorithm">>},
             NEW s \in {r.session : r \in ToSet(tables.sessions)},
             SelectedIn(capture, s.frames, "ENCR") # 0,
             capture[s.frames[SelectedIn(capture, s.frames, "ENCR")]].transforms["ENCR"]
               \in Bundle[i].assertion.expected
      PROVE  \E f \in Findings(report.records) : f.rule = i /\ f.subject = <<"ike_sa", s.ispi>>
  <2>1. PICK k \in DOMAIN tables.sessions : s = tables.sessions[k].session
    BY DEF ToSet
  <2>2. OneLeaf(Bundle[i], <<"ike_sa", "encryption_algorithm">>)
    BY <1>5 DEF OneLeaf
  <2>3. LET u == tables.sessions[k].session
            j == SelectedIn(capture, u.frames, "ENCR")
        IN  j # 0 /\ capture[u.frames[j]].transforms["ENCR"] \in Bundle[i].assertion.expected
    BY <1>5, <2>1
  <2>4. \E f \in Findings(report.records) :
           f.rule = i /\ f.subject = <<"ike_sa", tables.sessions[k].session.ispi>>
    <3>1. Bundle[i].assertion.form = "leaf" /\ Bundle[i].assertion.op = "not_in_set"
      BY <1>5
    <3> QED  BY <1>3, <2>2, <2>3, <3>1
  <2> QED  BY <2>1, <2>4
<1>6. ASSUME NEW i \in DOMAIN Bundle,
             Bundle[i].assertion = [form |-> "leaf", op |-> "equals", expected |-> "True",
                                    field |-> <<"esp_flow", "sequence_monotonic">>],
             Bundle[i].applicability = None,
             Bundle[i].evidence_requirements = {<<"esp_flow", "sequence_monotonic">>},
             NEW k \in DOMAIN tables.flows, NEW s \in FlowStreams(tables.flows[k]),
             NEW m \in ToSet(s.frames), NEW n \in ToSet(s.frames),
             m < n, capture[m].seq >= capture[n].seq
      PROVE  \E f \in Findings(report.records) : f.rule = i /\ f.subject = <<"esp_flow", k>>
  <2> DEFINE a == Bundle[i].assertion
  <2>1. /\ a.form = "leaf" /\ a.op = "equals" /\ a.expected = "True"
        /\ a.field = <<"esp_flow", "sequence_monotonic">>
    <3>1. a = [form |-> "leaf", op |-> "equals", expected |-> "True",
               field |-> <<"esp_flow", "sequence_monotonic">>]
      BY <1>6
    <3> HIDE DEF a
    <3> QED  BY <3>1
  <2>2. OneLeaf(Bundle[i], <<"esp_flow", "sequence_monotonic">>)
    BY <1>6, <2>1, Zenon DEF OneLeaf
  <2> QED  BY <1>4, <1>6, <2>1, <2>2
<1> QED  BY <1>5, <1>6 DEF WeaknessFound

-----------------------------------------------------------------------------
\* Every key of a fact is one of the capture's.
LEMMA GlobalKeys ==
    ASSUME NEW facts, NEW t
    PROVE  DOMAIN GlobalFacts(facts, t) = {f.key : f \in facts}
BY DEF GlobalFacts

\* A map takes the key of every fact to one of the facts that have it.
Represents(m, facts) == \A l \in facts : m[l.key] \in facts /\ m[l.key].key = l.key

\* For each key there is a fact of the last session that has one.
LEMMA GlobalLemma ==
    ASSUME NEW facts, NEW t, Len(t.sessions) \in Nat
    PROVE  Represents(GlobalFacts(facts, t), facts)
<1> SUFFICES ASSUME NEW l \in facts
             PROVE  /\ GlobalFacts(facts, t)[l.key] \in facts
                    /\ GlobalFacts(facts, t)[l.key].key = l.key
  BY DEF Represents
<1> DEFINE n == Len(t.sessions)
           At(f) == {i \in 1..n : t.sessions[i].session.ispi = f.subject[2]}
           Place(f) == IF f.key[1] \in {"ike_session", "ike_sa"}
                       THEN IF At(f) # {} THEN Min(At(f)) ELSE 0
                       ELSE 0
           same == {f \in facts : f.key = l.key}
           x == CHOOSE f \in same : \A g \in same : Place(g) <= Place(f)
           T == {Place(f) + 1 : f \in same}
<1>1. ASSUME NEW f PROVE Place(f) \in 0..n
  <2> DEFINE I == At(f)
  <2>1. I \in SUBSET (1..n)
    OBVIOUS
  <2> HIDE DEF I
  <2>2. I # {} => Min(I) \in 1..n
    <3> SUFFICES ASSUME I # {} PROVE Min(I) \in 1..n
      OBVIOUS
    <3>1. I \in SUBSET Nat
      BY <2>1
    <3> QED  BY <2>1, <3>1, LeastLemma
  <2>3. Place(f) = 0 \/ (I # {} /\ Place(f) = Min(I))
    BY DEF I
  <2> HIDE DEF Place
  <2> QED  BY <2>2, <2>3
<1>2. /\ DOMAIN GlobalFacts(facts, t) = {f.key : f \in facts}
      /\ GlobalFacts(facts, t)[l.key] = x
  BY DEF GlobalFacts, SelectInSeq
<1>3. l \in same
  OBVIOUS
<1> HIDE DEF Place
<1>4. \E f \in same : \A g \in same : Place(g) <= Place(f)
  <2>1. T \in SUBSET (1..(n + 1)) /\ T # {} /\ n + 1 \in Nat
    BY <1>1, <1>3
  <2>2. Max(T) \in T /\ \A y \in T : y <= Max(T)
    <3> HIDE DEF T
    <3> QED  BY <2>1, GreatestLemma
  <2>3. PICK f \in same : Place(f) + 1 = Max(T)
    BY <2>2
  <2>4. ASSUME NEW g \in same PROVE Place(g) <= Place(f)
    <3>1. Place(g) + 1 <= Place(f) + 1
      BY <2>2, <2>3
    <3>2. Place(g) \in 0..n /\ Place(f) \in 0..n
      BY <1>1
    <3> QED  BY <3>1, <3>2
  <2> QED  BY <2>4
<1>5. x \in same
  <2> HIDE DEF same
  <2> QED  BY <1>4
<1> HIDE DEF x
<1> QED  BY <1>2, <1>5

\* A failed rule rests on an observed value of every field it asks for.
LEMMA FailRests ==
    ASSUME NEW facts, NEW t, Len(t.sessions) \in Nat, NEW r \in Findings(evaluate_all(facts, t)),
           r.subject # <<"GLOBAL">>, NEW k \in Bundle[r.rule].evidence_requirements
    PROVE  \E l \in r.links \cap facts : l.key = k /\ l.value # None
<1>0. Represents(GlobalFacts(facts, t), facts)
  BY GlobalLemma
<1>1. PICK i \in DOMAIN Bundle : r \in evaluate_rule(i, facts, t)
  BY DEF evaluate_all, Findings
<1> DEFINE M(s) == SubjectFacts(GlobalFacts(facts, t), OwnFacts(facts, s))
<1>2. \A s, m : /\ Record(i, s, m).rule = i /\ Record(i, s, m).subject = s
                /\ Record(i, s, m).compliance_state = Verdict(Bundle[i], m)
                /\ Record(i, s, m).links = {m[x] : x \in Contributing(Bundle[i], m)}
  BY DEF Record, _evaluate_single_subject
<1>3. PICK s : r = Record(i, s, M(s))
  <2>1. CASE Candidates(Bundle[i], facts) = {}
    <3>1. r = Record(i, <<"GLOBAL">>, GlobalFacts(facts, t))
      BY <1>1, <2>1 DEF evaluate_rule
    <3> QED  BY <1>2, <3>1
  <2>2. CASE Candidates(Bundle[i], facts) # {}
    BY <1>1, <2>2 DEF evaluate_rule
  <2> QED  BY <2>1, <2>2
<1> DEFINE m == M(s)
           rule == Bundle[i]
           l == m[k]
<1>4. r.rule = i /\ Verdict(rule, m) = "FAIL" /\ r.links = {m[x] : x \in Contributing(rule, m)}
  BY <1>2, <1>3 DEF Findings
<1> HIDE DEF M, m
<1>5. Applies(rule, m) /\ Missing(rule, m) = {}
  BY <1>4 DEF Verdict
<1>6. k \in DOMAIN m /\ l.value # None
  BY <1>4, <1>5 DEF Missing
<1>7. k \in Contributing(rule, m)
  BY <1>4, <1>5, <1>6 DEF Contributing
<1>8. l \in r.links
  BY <1>4, <1>7
<1>9. l \in facts /\ l.key = k
  <2> DEFINE own == OwnFacts(facts, s)
             global == GlobalFacts(facts, t)
             mine == {f \in facts : f.subject = s}
  <2>1. /\ DOMAIN m = DOMAIN global \cup DOMAIN own
        /\ m[k] = IF k \in DOMAIN own THEN own[k] ELSE global[k]
    <3> HIDE DEF own, global
    <3> QED  BY <1>6 DEF SubjectFacts, M, m, own, global
  <2>2. CASE k \in DOMAIN own
    <3>1. PICK f \in mine : f.key = k
      BY <2>2 DEF OwnFacts, FactMap
    <3>2. own[k] = CHOOSE g \in mine : g.key = k
      <4> HIDE DEF mine
      <4> QED  BY <3>1 DEF OwnFacts, FactMap, mine
    <3>3. own[k] \in mine /\ own[k].key = k
      <4> HIDE DEF mine, own
      <4> QED  BY <3>1, <3>2
    <3> HIDE DEF own
    <3> QED  BY <2>1, <2>2, <3>3
  <2>3. CASE k \notin DOMAIN own
    <3> HIDE DEF own, global
    <3>1. k \in DOMAIN global
      BY <1>6, <2>1, <2>3
    <3>2. facts # {}
      <4>1. DOMAIN global = {f.key : f \in facts}
        BY GlobalKeys DEF global
      <4> QED  BY <3>1, <4>1
    <3>3. PICK f \in facts : f.key = k
      <4>1. DOMAIN global = {g.key : g \in facts}
        BY GlobalKeys DEF global
      <4> QED  BY <3>1, <4>1
    <3>4. /\ GlobalFacts(facts, t)[f.key] \in facts
          /\ GlobalFacts(facts, t)[f.key].key = f.key
      BY <1>0 DEF Represents
    <3>5. global[k] \in facts /\ global[k].key = k
      BY <3>3, <3>4 DEF global
    <3> QED  BY <2>1, <2>3, <3>5
  <2> QED  BY <2>2, <2>3
<1> QED  BY <1>6, <1>8, <1>9

\* A value that a frame carries, in a fact, is in a frame the fact derives from.
CarriedBy(c, n, value) ==
    \/ c[n].version = value
    \/ \E ty \in DOMAIN c[n].transforms :
        \/ c[n].transforms[ty] = value
        \/ c[n].transforms[ty] \in DOMAIN DhGroup /\ DhGroup[c[n].transforms[ty]] = value

\* A fact with such a value derives from a frame that carried it.
LEMMA CarriedLemma ==
    ASSUME TablesOK, NEW offer, NEW l \in normalize(name, capture, tables, offer), l.key \in Carried
    PROVE  \E n \in DOMAIN capture : n \in l.frames /\ CarriedBy(capture, n, l.value)
<1>1. l.key[1] \in {"ike_session", "ike_sa"}
  BY DEF Carried
<1>2. PICK k \in DOMAIN tables.sessions :
        \/ IsSessionFact(l, tables.sessions[k].session)
        \/ tables.sessions[k].sa # Absent
           /\ IsSaFact(l, tables.sessions[k].session, tables.sessions[k].sa)
  BY <1>1, FactsOf, OtherFactsLemma
<1> DEFINE row == tables.sessions[k]
           s == row.session
           ev == s.frames
<1>3. /\ row.sa = build_parent_ike_sa(capture, s.ispi) /\ ev = SessionEvents(capture, s.ispi)
      /\ s.ike_version = capture[Head(ev)].version
      /\ \E n \in IkeEvents(capture) : capture[n].ispi = s.ispi
  <2>1. CaptureOK /\ IsSessionRow(row, capture)
    BY DEF TablesOK
  <2> HIDE DEF row
  <2> QED  BY <2>1, RowLemma
<1>4. /\ 1 \in DOMAIN ev /\ Head(ev) = ev[1]
      /\ \A j \in DOMAIN ev : ev[j] \in DOMAIN capture /\ ev[j] \in ToSet(ev)
  <2>1. /\ Len(ev) \in Nat /\ Len(ev) > 0 /\ DOMAIN ev = 1..Len(ev) /\ Head(ev) = ev[1]
        /\ \A j \in DOMAIN ev : ev[j] \in DOMAIN capture
    BY <1>3, SessionEventsLemma DEF TablesOK
  <2> HIDE DEF ev
  <2> QED  BY <2>1 DEF ToSet
<1>5. CASE IsSessionFact(l, s)
  <2>1. PICK field, value :
          /\ l = Fact("ike_session", <<"ike_session", s.ispi>>, field, value, "VERIFIED", ToSet(ev))
          /\ field = "ike_version" => value = s.ike_version
    BY <1>5 DEF IsSessionFact
  <2>2. l.key = <<"ike_session", field>> /\ l.value = value /\ l.frames = ToSet(ev)
    <3> HIDE DEF ev
    <3> QED  BY <2>1 DEF Fact
  <2>3. field = "ike_version"
    BY <2>2 DEF Carried
  <2> HIDE DEF ev
  <2> QED  BY <1>3, <1>4, <2>1, <2>2, <2>3 DEF CarriedBy
<1>6. CASE row.sa # Absent /\ IsSaFact(l, s, row.sa)
  <2>1. PICK field, value :
          /\ l = Fact("ike_sa", <<"ike_sa", s.ispi>>, field, value, "VERIFIED", ToSet(ev))
          /\ field = "encryption_algorithm" => value = row.sa.encryption_algorithm /\ value # Absent
          /\ field = "prf_algorithm" => value = row.sa.prf_algorithm /\ value # Absent
          /\ field = "diffie_hellman_group" =>
                row.sa.dh_group \in DOMAIN DhGroup /\ value = DhGroup[row.sa.dh_group]
    BY <1>6 DEF IsSaFact
  <2>2. l.key = <<"ike_sa", field>> /\ l.value = value /\ l.frames = ToSet(ev)
    <3> HIDE DEF ev
    <3> QED  BY <2>1 DEF Fact
  <2>3. field \in {"encryption_algorithm", "prf_algorithm", "diffie_hellman_group"}
    BY <2>2 DEF Carried
  <2>4. /\ row.sa.encryption_algorithm = Selected(capture, ev, "ENCR")
        /\ row.sa.prf_algorithm = Selected(capture, ev, "PRF")
        /\ row.sa.dh_group = Selected(capture, ev, "DH")
    BY <1>3, <1>6, ParentLemma DEF TablesOK, Chosen
  <2>5. ASSUME NEW type, Selected(capture, ev, type) # Absent
        PROVE  \E n \in ToSet(ev) : /\ n \in DOMAIN capture /\ type \in DOMAIN capture[n].transforms
                                    /\ capture[n].transforms[type] = Selected(capture, ev, type)
    <3> DEFINE j == SelectedIn(capture, ev, type)
    <3>1. /\ j \in DOMAIN ev /\ type \in DOMAIN capture[ev[j]].transforms
          /\ Selected(capture, ev, type) = capture[ev[j]].transforms[type]
      <4> DEFINE e == SessionEvents(capture, s.ispi)
      <4>1. CaptureOK /\ Selected(capture, e, type) # Absent
        BY <1>3, <2>5 DEF TablesOK
      <4> HIDE DEF row
      <4>2. LET i == SelectedIn(capture, e, type)
            IN  /\ i \in DOMAIN e /\ type \in DOMAIN capture[e[i]].transforms
                /\ Selected(capture, e, type) = capture[e[i]].transforms[type]
        BY <1>3, <4>1, SelectedLemma
      <4> QED  BY <1>3, <4>2 DEF row
    <3> HIDE DEF ev, j
    <3> QED  BY <1>4, <3>1
  <2>6. Absent \notin DOMAIN DhGroup
    BY FrameAssumption
  <2> HIDE DEF ev, row
  <2>7. \/ Selected(capture, ev, "ENCR") # Absent /\ value = Selected(capture, ev, "ENCR")
        \/ Selected(capture, ev, "PRF") # Absent /\ value = Selected(capture, ev, "PRF")
        \/ /\ Selected(capture, ev, "DH") # Absent /\ Selected(capture, ev, "DH") \in DOMAIN DhGroup
           /\ value = DhGroup[Selected(capture, ev, "DH")]
    BY <2>1, <2>3, <2>4, <2>6
  <2>8. \E n \in ToSet(ev) : n \in DOMAIN capture /\ CarriedBy(capture, n, value)
    BY <2>5, <2>7 DEF CarriedBy
  <2> QED  BY <2>2, <2>8
<1> QED  BY <1>2, <1>5, <1>6

\* Findings about sessions and SAs lead back to a frame that carried a value they
\* rest on, for every capture and bundle (EvidenceGraphBuilder.build_graph).
THEOREM FindingsAreTraced == Spec => []FindingsTraced
<1> SUFFICES ASSUME TablesInv, ReportMade PROVE FindingsTraced
  BY ReportInvariant, PTL
<1>1. TablesOK /\ Len(tables.sessions) \in Nat
  BY TablesOfCapture
<1>2. PICK offer : /\ report.facts = normalize(name, capture, tables, offer)
                   /\ report.records = evaluate_all(report.facts, tables)
                   /\ report.graph = build_graph(report.facts, Findings(report.records))
  BY DEF ReportMade, Made
<1>3. ASSUME NEW f \in Findings(report.records), f.subject[1] \in {"ike_session", "ike_sa"},
             Bundle[f.rule].evidence_requirements \cap Carried # {}
      PROVE  \E l \in report.facts, n \in DOMAIN capture :
                /\ <<l, <<f.rule, f.subject>>>> \in report.graph.supports
                /\ <<n, l>> \in report.graph.derived
                /\ n \in report.graph.contains
                /\ CarriedBy(capture, n, l.value)
  <2>1. PICK k \in Bundle[f.rule].evidence_requirements : k \in Carried
    BY <1>3
  <2>2. f.subject # <<"GLOBAL">>
    BY <1>3
  <2>3. PICK l \in f.links \cap report.facts : l.key = k /\ l.value # None
    BY <1>1, <1>2, <2>2, FailRests
  <2>4. PICK n \in DOMAIN capture : n \in l.frames /\ CarriedBy(capture, n, l.value)
    BY <1>1, <1>2, <2>1, <2>3, CarriedLemma
  <2>5. <<l, <<f.rule, f.subject>>>> \in report.graph.supports
    <3> DEFINE facts == report.facts
               F == Findings(report.records)
    <3> HIDE DEF facts, F
    <3>1. <<l, <<f.rule, f.subject>>>> \in {<<x, <<f.rule, f.subject>>>> : x \in f.links \cap facts}
      BY <2>3 DEF facts
    <3>2. f \in F /\ report.graph = build_graph(facts, F)
      BY <1>2, <1>3 DEF facts, F
    <3>3. report.graph.supports =
            UNION {{<<x, <<g.rule, g.subject>>>> : x \in g.links \cap facts} : g \in F}
      BY <3>2 DEF build_graph
    <3> QED  BY <3>1, <3>2, <3>3
  <2>6. /\ report.graph.contains = UNION {x.frames : x \in report.facts}
        /\ report.graph.derived = UNION {{<<y, x>> : y \in x.frames} : x \in report.facts}
    BY <1>2 DEF build_graph
  <2>7. <<n, l>> \in report.graph.derived /\ n \in report.graph.contains
    BY <2>3, <2>4, <2>6
  <2> QED  BY <2>3, <2>4, <2>5, <2>7
<1> QED  BY <1>3 DEF FindingsTraced, CarriedBy

-----------------------------------------------------------------------------
(***************************************************************************)
(* Records.  First what a severity is worth: ranks, the worst of a set of  *)
(* findings, and the tier that names it.                                   *)
(***************************************************************************)

\* The four severities are ranked from LOW to CRITICAL.
LEMMA RankLemma ==
    /\ \A i \in 1..4 : Severities[i] \in ToSet(Severities) /\ Rank(Severities[i]) = i
    /\ \A s \in ToSet(Severities) : Rank(s) \in 1..4
<1>1. DOMAIN Severities = 1..4
  BY DEF Severities
<1>2. \A i, j \in 1..4 : Severities[i] = Severities[j] => i = j
  BY DEF Severities
<1>3. \A i \in 1..4 : Rank(Severities[i]) = i
  BY <1>2 DEF Rank
<1>4. \A s \in ToSet(Severities) : \E i \in 1..4 : s = Severities[i]
  BY <1>1 DEF ToSet
<1>5. \A i \in 1..4 : Severities[i] \in ToSet(Severities)
  BY <1>1 DEF ToSet
<1> QED
  BY <1>3, <1>4, <1>5

\* A set of ranks that is not empty has a greatest one.
LEMMA MaxLemma ==
    ASSUME NEW S \in SUBSET (1..4), S # {}
    PROVE  Max(S) \in S /\ \A y \in S : Max(S) >= y
<1>1. \E x \in S : \A y \in S : x >= y
  <2>1. CASE 4 \in S
    BY <2>1
  <2>2. CASE 4 \notin S /\ 3 \in S
    BY <2>2
  <2>3. CASE 4 \notin S /\ 3 \notin S /\ 2 \in S
    BY <2>3
  <2>4. CASE 4 \notin S /\ 3 \notin S /\ 2 \notin S
    <3>1. \A x \in S : x >= 1 /\ x <= 1
      BY <2>4
    <3>2. PICK x \in S : TRUE
      OBVIOUS
    <3>3. \A y \in S : x >= y
      BY <3>1, <3>2
    <3> QED
      BY <3>3
  <2> QED
    BY <2>1, <2>2, <2>3, <2>4
<1> QED
  BY <1>1 DEF Max

\* Findings as the generator makes them: their severity is one of the four.
Graded(F) == \A f \in F : f.severity \in ToSet(Severities)

\* The worst of some findings is the rank of one of them and not below any.
LEMMA WorstLemma ==
    ASSUME NEW F, Graded(F), F # {}
    PROVE  /\ Worst(F) \in 1..4
           /\ \A f \in F : Rank(f.severity) <= Worst(F)
           /\ \E f \in F : Rank(f.severity) = Worst(F)
<1> DEFINE S == {Rank(f.severity) : f \in F}
<1>1. S \in SUBSET (1..4) /\ S # {}
  BY RankLemma DEF Graded
<1>2. Max(S) \in S /\ \A y \in S : Max(S) >= y
  BY <1>1, MaxLemma
<1>3. Worst(F) = Max(S)
  BY DEF Worst
<1> HIDE DEF S
<1>4. Worst(F) \in S /\ \A y \in S : y <= Worst(F)
  BY <1>1, <1>2, <1>3
<1> QED
  BY <1>1, <1>4 DEF S

\* More findings are not less grave.
LEMMA WorstGrows ==
    ASSUME NEW F, NEW G, Graded(G), F \subseteq G
    PROVE  Worst(F) \in 0..4 /\ Worst(G) \in 0..4 /\ Worst(F) <= Worst(G)
<1>1. Graded(F)
  BY DEF Graded
<1>2. CASE F = {}
  <2>1. Worst(F) = 0
    BY <1>2 DEF Worst
  <2>2. Worst(G) \in 0..4
    <3>1. CASE G = {}
      BY <3>1 DEF Worst
    <3>2. CASE G # {}
      BY <3>2, WorstLemma
    <3> QED
      BY <3>1, <3>2
  <2> QED
    BY <2>1, <2>2
<1>3. CASE F # {}
  <2>1. G # {}
    BY <1>3
  <2>2. Worst(F) \in 1..4 /\ Worst(G) \in 1..4
    BY <1>1, <1>3, <2>1, WorstLemma
  <2>3. PICK f \in F : Rank(f.severity) = Worst(F)
    BY <1>1, <1>3, WorstLemma
  <2>4. Rank(f.severity) <= Worst(G)
    BY <2>1, WorstLemma
  <2> QED
    BY <2>2, <2>3, <2>4
<1> QED
  BY <1>2, <1>3

\* The severity that names the worst finding is at least that of them all.
LEMMA WorstTier ==
    ASSUME NEW F, NEW G, Graded(G), F \subseteq G, G # {}
    PROVE  AtLeast(Severities[Worst(G)], F)
<1>1. Worst(F) <= Worst(G)
  BY WorstGrows
<1>2. Worst(G) \in 1..4
  BY WorstLemma
<1>3. Severities[Worst(G)] \in ToSet(Severities) /\ Rank(Severities[Worst(G)]) = Worst(G)
  BY <1>2, RankLemma
<1> QED
  BY <1>1, <1>2, <1>3, WorstGrows DEF AtLeast

\* The assessments there can be.
AssessedRows == {Assessed(r, g, v) : r \in Runs, g \in Nat, v \in Evidence}

\* There are finitely many evaluations, and each is of a rule.
LEMMA EvaluationsLemma ==
    ASSUME NEW r, NEW g, NEW v \in Evidence
    PROVE  /\ IsFiniteSet(Evaluations(r, g, v))
           /\ \A e \in Evaluations(r, g, v) : e.rule \in Rules
<1> DEFINE E == Evaluations(r, g, v)
<1>1. CASE v = NotIpsec
  <2> DEFINE f == [x \in Rules |->
                 [rule |-> x, subject |-> Subject("global", 0, NoValue), state |-> "UNKNOWN"]]
  <2>1. E = {f[x] : x \in Rules}
    BY <1>1 DEF Evaluations
  <2>2. f \in Surjection(Rules, E)
    BY <2>1 DEF Surjection
  <2>3. IsFiniteSet(E)
    BY <2>2, FS_Surjection, RecordsConstants
  <2>4. \A e \in E : e.rule \in Rules
    BY <2>1
  <2> QED
    BY <2>3, <2>4
<1>2. CASE v # NotIpsec
  <2> DEFINE f == [c \in Checks |->
                 [rule |-> c[1], subject |-> Subject(r, g, c[2]), state |-> v[c]]]
  <2>1. E = {f[c] : c \in Checks}
    BY <1>2 DEF Evaluations
  <2>2. f \in Surjection(Checks, E)
    BY <2>1 DEF Surjection
  <2>3. IsFiniteSet(E)
    BY <2>2, FS_Surjection, RecordsConstants
  <2>4. \A e \in E : e.rule \in Rules
    BY <2>1, RecordsConstants
  <2> QED
    BY <2>3, <2>4
<1> QED
  BY <1>1, <1>2

\* What the views rely on in a row: its findings are graded, its tier is that of
\* the worst of them, and its coverage is made of two counts.
SoundRow(a) ==
    /\ Graded(a.findings)
    /\ a.findings # {} => a.tier = Severities[Worst(a.findings)]
    /\ a.coverage.evaluated \in Nat /\ a.coverage.applicable \in Nat

LEMMA AssessedSound == \A a \in AssessedRows : SoundRow(a)
<1> SUFFICES ASSUME NEW r \in Runs, NEW g \in Nat, NEW v \in Evidence
             PROVE  SoundRow(Assessed(r, g, v))
  BY DEF AssessedRows
<1> DEFINE E == Evaluations(r, g, v)
           a == Assessed(r, g, v)
<1>1. IsFiniteSet(E) /\ \A e \in E : e.rule \in Rules
  BY EvaluationsLemma
<1>2. /\ a.findings = FindingsOf(E)
      /\ a.coverage = Coverage(E)
      /\ a.tier = RiskTierOf(E)
  BY DEF Assessed
<1> HIDE DEF E, a
<1>3. Graded(FindingsOf(E))
  BY <1>1, RecordsConstants DEF Graded, FindingsOf
<1>4. ASSUME NEW s
      PROVE  Count(E, s) \in Nat
  <2> DEFINE T == {e \in E : e.state = s}
  <2>1. T \in SUBSET E
    OBVIOUS
  <2> HIDE DEF T
  <2>2. Cardinality(T) \in Nat
    BY <1>1, <2>1, FS_Subset, FS_CardinalityType
  <2> QED
    BY <2>2 DEF Count, T
<1>5. Cardinality(E) \in Nat
  BY <1>1, FS_CardinalityType
<1>6. Coverage(E).evaluated \in Nat /\ Coverage(E).applicable \in Nat
  BY <1>4, <1>5 DEF Coverage
<1>7. FindingsOf(E) # {} => RiskTierOf(E) = Severities[Worst(FindingsOf(E))]
  BY DEF RiskTierOf
<1>8. SoundRow(a)
  BY <1>2, <1>3, <1>6, <1>7 DEF SoundRow
<1> QED
  BY <1>8 DEF a

\* Less than half is less than three fifths.
LEMMA BelowLemma ==
    ASSUME NEW c, c.evaluated \in Nat, c.applicable \in Nat, Below(c, 50)
    PROVE  Below(c, 60)
<1> DEFINE e == c.evaluated
           n == c.applicable
<1>1. 100 * e < 50 * n
  BY DEF Below
<1> HIDE DEF e, n
<1>2. 100 * e < 60 * n
  BY <1>1 DEF e, n
<1> QED
  BY <1>2 DEF Below, e, n

\* The findings of sound rows are graded, whichever assessment they are of.
LEMMA AllGraded ==
    ASSUME NEW q \in Seq(AssessedRows)
    PROVE  Graded(AllFindings(q))
<1>1. \A i \in DOMAIN q : q[i] \in AssessedRows
  BY ElementOfSeq
<1>2. \A i \in DOMAIN q : Graded(q[i].findings)
  BY <1>1, AssessedSound DEF SoundRow
<1> QED
  BY <1>2 DEF AllFindings, Graded

\* The newest row is one of the rows, and its findings are among all of them.
LEMMA NewestLemma ==
    ASSUME NEW q \in Seq(AssessedRows), Newest(q) # NoValue
    PROVE  /\ Newest(q) \in AssessedRows
           /\ Newest(q).findings \subseteq AllFindings(q)
<1>1. q # <<>> /\ Newest(q) = q[Len(q)]
  BY DEF Newest, Last
<1>2. Len(q) \in DOMAIN q
  BY <1>1, EmptySeq
<1> QED
  BY <1>1, <1>2, ElementOfSeq DEF AllFindings

(***************************************************************************)
(* The invariant.  RowsInv: rows only ever come out of an assessment.      *)
(* ReplayInv: nothing leads back to the original bytes, so a replay that   *)
(* was not disturbed still has them, and while they are there nothing was  *)
(* extracted from others.  SnapInv: until another assessment is committed  *)
(* the findings of a snapshot are those of the run.  ReportInv: what the   *)
(* artifacts say is sound by itself, since the rows move on.               *)
(***************************************************************************)
RowsInv ==
    /\ truth \in [{"original", "changed"} -> Evidence]
    /\ evidence \in [Runs -> {"original", "changed", NoValue}]
    /\ gen \in [Runs -> Nat]
    /\ rows \in [Runs -> Seq(AssessedRows)]
    /\ work \in [Workers -> [pc : {"idle", "commit", "done"}, run : {"parent", NoValue},
                             made : AssessedRows \cup {NoValue}]]
    /\ \A w \in Workers : work[w].pc = "commit" =>
            work[w].run = "parent" /\ work[w].made \in AssessedRows

ReplayInv ==
    /\ bytes \in {"original", "changed", "gone"}
    /\ replay \in [pc : {"none", "run", "compare", "done", "aborted", "failed"},
                   status : {"EXACT_MATCH", "DISCREPANCY_DETECTED", NoValue},
                   read : {"original", "changed", "gone", NoValue}, undisturbed : BOOLEAN]
    /\ replay.pc \in {"run", "compare", "done"} => replay.read = "original"
    /\ replay.undisturbed => bytes = "original"
    /\ bytes = "original" => evidence["parent"] = "original"
    /\ bytes = "original" /\ replay.pc \in {"compare", "done"} => evidence["child"] = "original"

SnapFields == {"pc", "for", "facts", "shown", "findings", "row", "torn"}

SnapInv ==
    /\ DOMAIN snap = SnapFields
    /\ snap.pc \in {"none", "evals", "findings", "score", "risk", "done"}
    /\ snap.row \in AssessedRows \cup {NoValue}
    /\ snap.torn \in BOOLEAN
    /\ ~snap.torn /\ snap.pc \in {"score", "risk"} => snap.findings = AllFindings(rows["parent"])

\* What an artifact says does not play the newest findings down, nor score thin evidence.
Sound(c) ==
    /\ ~c.torn /\ c.newest # NoValue => AtLeast(c.tier, c.newest.findings)
    /\ c.score # NoValue => ~Below(c.coverage, 50)

ReportInv ==
    /\ DOMAIN report_row = {"status", "html", "pdf", "manifest"}
    /\ report_row.html # NoValue => Sound(report_row.html)
    /\ report_row.pdf # NoValue => Sound(report_row.pdf)

RecordsInv == RowsInv /\ ReplayInv /\ SnapInv /\ ReportInv

\* The contents of a snapshot of one assessment are sound: the recorded tier is
\* used unless the findings ask for more
\* (snapshot.py 411-426).
LEMMA ContentSound ==
    ASSUME RowsInv, SnapInv, snap.pc = "risk"
    PROVE  Sound(Content(snap, Newest(rows["parent"])))
<1> DEFINE q == rows["parent"]
           risk == Newest(q)
           F == snap.findings
           c == Content(snap, risk)
<1>1. q \in Seq(AssessedRows)
  BY DEF RowsInv, Runs
<1>2. /\ c.torn = snap.torn
      /\ c.newest = risk
      /\ c.tier = ReportTier(snap.shown, snap.row, F, risk)
      /\ c.score = ReportScore(snap.shown, snap.row)
      /\ c.coverage = IF snap.row = NoValue THEN NoCoverage ELSE snap.row.coverage
  BY DEF Content
<1> HIDE DEF c, q, F, risk
<1>3. ASSUME ~c.torn, c.newest # NoValue
      PROVE  AtLeast(c.tier, c.newest.findings)
  <2>1. F = AllFindings(q) /\ Graded(F)
    BY <1>1, <1>2, <1>3, AllGraded DEF SnapInv, q, F
  <2>2. risk \in AssessedRows /\ risk.findings \subseteq F
    BY <1>1, <1>2, <1>3, <2>1, NewestLemma DEF risk
  <2>3. SoundRow(risk)
    BY <2>2, AssessedSound
  <2>4. CASE risk.findings = {}
    BY <1>2, <2>4 DEF AtLeast
  <2>5. CASE risk.findings # {}
    <3>1. F # {}
      BY <2>2, <2>5
    <3>2. CASE risk.tier = "LOW" /\ Worst(F) > 1
      <4>1. c.tier = ComputedTier(F)
        BY <1>2, <3>1, <3>2 DEF ReportTier
      <4>2. ComputedTier(F) = Severities[Worst(F)]
        <5>1. Worst(F) \notin {0, 1}
          BY <3>2
        <5> QED
          BY <5>1 DEF ComputedTier
      <4>3. AtLeast(Severities[Worst(F)], risk.findings)
        BY <2>1, <2>2, <3>1, WorstTier
      <4> QED
        BY <1>2, <4>1, <4>2, <4>3
    <3>3. CASE ~(risk.tier = "LOW" /\ Worst(F) > 1)
      <4>1. c.tier = risk.tier
        BY <1>2, <1>3, <3>1, <3>3 DEF ReportTier
      <4>2. AtLeast(Severities[Worst(risk.findings)], risk.findings)
        BY <2>3, <2>5, WorstTier DEF SoundRow
      <4> QED
        BY <1>2, <2>3, <2>5, <4>1, <4>2 DEF SoundRow
    <3> QED
      BY <3>2, <3>3
  <2> QED
    BY <2>4, <2>5
<1>4. ASSUME c.score # NoValue
      PROVE  ~Below(c.coverage, 50)
  <2>1. ~Unassessable(snap.shown, snap.row)
    BY <1>2, <1>4 DEF ReportScore
  <2>2. snap.row # NoValue /\ ~Below(snap.row.coverage, 50)
    BY <2>1 DEF Unassessable
  <2> QED
    BY <1>2, <2>2
<1>5. Sound(c)
  BY <1>3, <1>4 DEF Sound
<1> QED
  BY <1>5 DEF c, risk, q

\* The invariant holds in the initial states.
LEMMA RecordsInvInit == RecordsInit => RecordsInv
<1> SUFFICES ASSUME RecordsInit PROVE RecordsInv
  OBVIOUS
<1> USE DEF RecordsInit
<1>1. RowsInv
  <2>1. truth \in [{"original", "changed"} -> Evidence]
    BY OtherConstant
  <2>2. rows \in [Runs -> Seq(AssessedRows)]
    <3>1. <<>> \in Seq(AssessedRows)
      BY EmptySeq
    <3> QED
      BY <3>1
  <2>3. gen \in [Runs -> Nat] /\ evidence \in [Runs -> {"original", "changed", NoValue}]
    BY DEF Runs
  <2>4. \A w \in Workers : work[w] = NoWork
    OBVIOUS
  <2>5. work \in [Workers -> [pc : {"idle", "commit", "done"}, run : {"parent", NoValue},
                             made : AssessedRows \cup {NoValue}]]
    BY DEF NoWork
  <2> QED
    BY <2>1, <2>2, <2>3, <2>4, <2>5 DEF RowsInv, NoWork
<1>2. ReplayInv
  BY DEF ReplayInv, NoReplay, Runs
<1>3. SnapInv
  BY DEF SnapInv, NoSnap, SnapFields
<1>4. ReportInv
  BY DEF ReportInv, NoReport
<1> QED
  BY <1>1, <1>2, <1>3, <1>4 DEF RecordsInv

\* Rows stay outcomes of assessments, in every step.
LEMMA RowsInvStep ==
    ASSUME RecordsInv, [RecordsNext]_recordsVars
    PROVE  RowsInv'
<1> USE DEF RecordsInv
<1>1. ASSUME UNCHANGED truth, UNCHANGED evidence, UNCHANGED gen, UNCHANGED rows, UNCHANGED work
      PROVE  RowsInv'
  BY <1>1 DEF RowsInv
<1>2. ASSUME Recompute
      PROVE  RowsInv'
  <2>1. evidence' \in [Runs -> {"original", "changed", NoValue}]
    BY <1>2 DEF Recompute, RowsInv, ReplayInv, Runs
  <2>2. gen' \in [Runs -> Nat]
    BY <1>2 DEF Recompute, RowsInv, Runs
  <2>3. UNCHANGED truth /\ UNCHANGED rows /\ UNCHANGED work
    BY <1>2 DEF Recompute
  <2> QED
    BY <2>1, <2>2, <2>3 DEF RowsInv
<1>3. ASSUME NEW w \in Workers, AssessBegin(w, "parent")
      PROVE  RowsInv'
  <2> DEFINE made == Assessed("parent", gen["parent"], truth[evidence["parent"]])
  <2>1. gen["parent"] \in Nat /\ truth[evidence["parent"]] \in Evidence
    BY <1>3 DEF AssessBegin, RowsInv, Runs
  <2>2. made \in AssessedRows
    BY <2>1 DEF AssessedRows, Runs
  <2>3. work' = [work EXCEPT ![w] = [pc |-> "commit", run |-> "parent", made |-> made]]
    BY <1>3 DEF AssessBegin
  <2> HIDE DEF made
  <2>4. /\ work'[w] = [pc |-> "commit", run |-> "parent", made |-> made]
        /\ \A v \in Workers \ {w} : work'[v] = work[v]
        /\ DOMAIN work' = Workers
    BY <2>3 DEF RowsInv
  <2>5. work' \in [Workers -> [pc : {"idle", "commit", "done"}, run : {"parent", NoValue},
                             made : AssessedRows \cup {NoValue}]]
    BY <2>2, <2>3 DEF RowsInv
  <2>6. \A v \in Workers : work'[v].pc = "commit" =>
            work'[v].run = "parent" /\ work'[v].made \in AssessedRows
    <3> TAKE v \in Workers
    <3>1. CASE v = w
      BY <2>2, <2>4, <3>1
    <3>2. CASE v # w
      BY <2>4, <3>2 DEF RowsInv
    <3> QED
      BY <3>1, <3>2
  <2>7. UNCHANGED truth /\ UNCHANGED evidence /\ UNCHANGED gen /\ UNCHANGED rows
    BY <1>3 DEF AssessBegin
  <2> QED
    BY <2>5, <2>6, <2>7 DEF RowsInv
<1>4. ASSUME NEW w \in Workers, AssessCommit(w)
      PROVE  RowsInv'
  <2>1. work[w].run = "parent" /\ work[w].made \in AssessedRows
    BY <1>4 DEF AssessCommit, RowsInv
  <2>2. rows["parent"] \in Seq(AssessedRows)
    BY DEF RowsInv, Runs
  <2>3. Append(rows["parent"], work[w].made) \in Seq(AssessedRows)
    BY <2>1, <2>2, AppendProperties
  <2>4. rows' = [rows EXCEPT !["parent"] = Append(rows["parent"], work[w].made)]
    BY <1>4, <2>1 DEF AssessCommit
  <2>5. rows' \in [Runs -> Seq(AssessedRows)]
    BY <2>3, <2>4 DEF RowsInv
  <2>6. work' = [work EXCEPT ![w] = [NoWork EXCEPT !.pc = "done"]]
    BY <1>4 DEF AssessCommit
  <2>7. [NoWork EXCEPT !.pc = "done"] = [pc |-> "done", run |-> NoValue, made |-> NoValue]
    BY DEF NoWork
  <2>8. work' = [work EXCEPT ![w] = [pc |-> "done", run |-> NoValue, made |-> NoValue]]
    BY <2>6, <2>7
  <2>9. work' \in [Workers -> [pc : {"idle", "commit", "done"}, run : {"parent", NoValue},
                             made : AssessedRows \cup {NoValue}]]
    BY <2>8 DEF RowsInv
  <2>10. \A v \in Workers : work'[v].pc = "commit" =>
            work'[v].run = "parent" /\ work'[v].made \in AssessedRows
    BY <2>8 DEF RowsInv
  <2>11. UNCHANGED truth /\ UNCHANGED evidence /\ UNCHANGED gen
    BY <1>4 DEF AssessCommit
  <2> QED
    BY <2>5, <2>9, <2>10, <2>11 DEF RowsInv
<1>5. ASSUME ReplayRun
      PROVE  RowsInv'
  <2>1. UNCHANGED truth /\ UNCHANGED gen /\ UNCHANGED work
    BY <1>5 DEF ReplayRun
  <2>2. CASE bytes = "gone"
    <3>1. UNCHANGED evidence /\ UNCHANGED rows
      BY <1>5, <2>2 DEF ReplayRun
    <3> QED
      BY <1>1, <2>1, <3>1
  <2>3. CASE bytes # "gone"
    <3>1. bytes \in {"original", "changed"}
      BY <2>3 DEF ReplayInv
    <3>2. evidence' \in [Runs -> {"original", "changed", NoValue}]
      BY <1>5, <2>3, <3>1 DEF ReplayRun, RowsInv
    <3> DEFINE made == Assessed("child", gen["child"], truth[bytes])
    <3>3. gen["child"] \in Nat /\ truth[bytes] \in Evidence
      BY <3>1 DEF RowsInv, Runs
    <3>4. made \in AssessedRows
      BY <3>3 DEF AssessedRows, Runs
    <3>5. rows' = rows \/ rows' = [rows EXCEPT !["child"] = Append(rows["child"], made)]
      BY <1>5, <2>3 DEF ReplayRun
    <3> HIDE DEF made
    <3>6. Append(rows["child"], made) \in Seq(AssessedRows)
      BY <3>4, AppendProperties DEF RowsInv, Runs
    <3>7. rows' \in [Runs -> Seq(AssessedRows)]
      BY <3>5, <3>6 DEF RowsInv
    <3> QED
      BY <2>1, <3>2, <3>7 DEF RowsInv
  <2> QED
    BY <2>2, <2>3
<1>6. ASSUME NEW b \in {"changed", "gone"}, Disturb(b)
      PROVE  RowsInv'
  BY <1>1, <1>6 DEF Disturb
<1>7. ASSUME ReplayCheck \/ ReplayCompare
      PROVE  RowsInv'
  BY <1>1, <1>7 DEF ReplayCheck, ReplayCompare
<1>8. ASSUME SnapBegin \/ SnapEvals \/ SnapFindings \/ SnapScore
      PROVE  RowsInv'
  BY <1>1, <1>8 DEF SnapBegin, SnapEvals, SnapFindings, SnapScore
<1>9. ASSUME create_report \/ get_report_bytes
      PROVE  RowsInv'
  BY <1>1, <1>9 DEF create_report, get_report_bytes
<1>10. CASE UNCHANGED recordsVars
  BY <1>1, <1>10 DEF recordsVars
<1> QED
  BY <1>2, <1>3, <1>4, <1>5, <1>6, <1>7, <1>8, <1>9, <1>10 DEF RecordsNext

\* A step that leaves the file, the evidence and the replay alone keeps ReplayInv.
LEMMA ReplayInvStays ==
    ASSUME ReplayInv, UNCHANGED bytes, UNCHANGED evidence, UNCHANGED replay
    PROVE  ReplayInv'
BY DEF ReplayInv

\* The bytes of a replay, in every step.
LEMMA ReplayInvStep ==
    ASSUME RecordsInv, [RecordsNext]_recordsVars
    PROVE  ReplayInv'
<1> USE DEF RecordsInv
<1>1. ASSUME NEW b \in {"changed", "gone"}, Disturb(b)
      PROVE  ReplayInv'
  BY <1>1 DEF Disturb, ReplayInv
<1>2. ASSUME Recompute
      PROVE  ReplayInv'
  <2>1. evidence'["parent"] = bytes /\ evidence'["child"] = evidence["child"]
    BY <1>2 DEF Recompute, RowsInv, Runs
  <2> QED
    BY <1>2, <2>1 DEF Recompute, ReplayInv
<1>3. ASSUME ReplayCheck
      PROVE  ReplayInv'
  BY <1>3 DEF ReplayCheck, ReplayInv, verify_capture_integrity
<1>4. ASSUME ReplayRun
      PROVE  ReplayInv'
  <2>1. CASE bytes = "gone"
    BY <1>4, <2>1 DEF ReplayRun, ReplayInv
  <2>2. CASE bytes # "gone"
    <3>1. evidence'["child"] = bytes /\ evidence'["parent"] = evidence["parent"]
      BY <1>4, <2>2 DEF ReplayRun, RowsInv, Runs
    <3> QED
      BY <1>4, <2>2, <3>1 DEF ReplayRun, ReplayInv
  <2> QED
    BY <2>1, <2>2
<1>5. ASSUME ReplayCompare
      PROVE  ReplayInv'
  <2>1. PICK s \in {"EXACT_MATCH", "DISCREPANCY_DETECTED"} :
            replay' = [replay EXCEPT !.pc = "done", !.status = s]
    BY <1>5 DEF ReplayCompare, compare_runs
  <2> QED
    BY <1>5, <2>1 DEF ReplayCompare, ReplayInv
<1>6. ASSUME NEW w \in Workers, AssessBegin(w, "parent") \/ AssessCommit(w)
      PROVE  ReplayInv'
  BY <1>6, ReplayInvStays DEF AssessBegin, AssessCommit
<1>7. ASSUME SnapBegin \/ SnapEvals \/ SnapFindings \/ SnapScore
      PROVE  ReplayInv'
  BY <1>7, ReplayInvStays DEF SnapBegin, SnapEvals, SnapFindings, SnapScore
<1>8. ASSUME create_report \/ get_report_bytes
      PROVE  ReplayInv'
  BY <1>8, ReplayInvStays DEF create_report, get_report_bytes
<1>9. CASE UNCHANGED recordsVars
  BY <1>9, ReplayInvStays DEF recordsVars
<1> QED
  BY <1>1, <1>2, <1>3, <1>4, <1>5, <1>6, <1>7, <1>8, <1>9 DEF RecordsNext

\* A step that leaves snapshot and rows alone keeps SnapInv.
LEMMA SnapInvStays ==
    ASSUME SnapInv, UNCHANGED snap, rows'["parent"] = rows["parent"]
    PROVE  SnapInv'
BY DEF SnapInv

\* The parts of a snapshot, in every step.
LEMMA SnapInvStep ==
    ASSUME RecordsInv, [RecordsNext]_recordsVars
    PROVE  SnapInv'
<1> USE DEF RecordsInv
<1>1. ASSUME NEW w \in Workers, AssessCommit(w)
      PROVE  SnapInv'
  <2>1. CASE snap.pc \in {"none", "done"}
    BY <1>1, <2>1 DEF AssessCommit, SnapInv
  <2>2. CASE snap.pc \notin {"none", "done"}
    <3>1. snap' = [snap EXCEPT !.torn = TRUE]
      BY <1>1, <2>2 DEF AssessCommit
    <3> QED
      BY <3>1 DEF SnapInv, SnapFields
  <2> QED
    BY <2>1, <2>2
<1>2. ASSUME ReplayRun
      PROVE  SnapInv'
  <2>1. rows'["parent"] = rows["parent"]
    BY <1>2 DEF ReplayRun, RowsInv, Runs
  <2> QED
    BY <1>2, <2>1, SnapInvStays DEF ReplayRun
<1>3. ASSUME SnapBegin
      PROVE  SnapInv'
  BY <1>3 DEF SnapBegin, SnapInv, SnapFields, NoSnap
<1>4. ASSUME SnapEvals
      PROVE  SnapInv'
  <2>1. PICK S : snap' = [snap EXCEPT !.pc = "findings", !.shown = S]
    BY <1>4 DEF SnapEvals
  <2> QED
    BY <2>1 DEF SnapInv, SnapFields
<1>5. ASSUME SnapFindings
      PROVE  SnapInv'
  BY <1>5 DEF SnapFindings, SnapInv, SnapFields
<1>6. ASSUME SnapScore
      PROVE  SnapInv'
  <2> DEFINE row == Newest(rows["parent"])
  <2>1. rows["parent"] \in Seq(AssessedRows)
    BY DEF RowsInv, Runs
  <2>2. row \in AssessedRows \cup {NoValue}
    BY <2>1, NewestLemma
  <2>3. snap.pc = "score" /\ snap' = [snap EXCEPT !.pc = "risk", !.row = row] /\ UNCHANGED rows
    BY <1>6 DEF SnapScore
  <2> HIDE DEF row
  <2>4. /\ DOMAIN snap' = SnapFields
        /\ snap'.pc = "risk" /\ snap'.row = row
        /\ snap'.torn = snap.torn /\ snap'.findings = snap.findings
    BY <2>3 DEF SnapInv, SnapFields
  <2> QED
    BY <2>2, <2>3, <2>4 DEF SnapInv
<1>7. ASSUME create_report \/ get_report_bytes
      PROVE  SnapInv'
  BY <1>7 DEF create_report, get_report_bytes, SnapInv, SnapFields
<1>8. ASSUME NEW b \in {"changed", "gone"}, Disturb(b)
      PROVE  SnapInv'
  BY <1>8, SnapInvStays DEF Disturb
<1>9. ASSUME NEW w \in Workers, AssessBegin(w, "parent")
      PROVE  SnapInv'
  BY <1>9, SnapInvStays DEF AssessBegin
<1>10. ASSUME Recompute \/ ReplayCheck \/ ReplayCompare
       PROVE  SnapInv'
  BY <1>10, SnapInvStays DEF Recompute, ReplayCheck, ReplayCompare
<1>11. CASE UNCHANGED recordsVars
  BY <1>11, SnapInvStays DEF recordsVars
<1> QED
  BY <1>1, <1>2, <1>3, <1>4, <1>5, <1>6, <1>7, <1>8, <1>9, <1>10, <1>11 DEF RecordsNext

\* The artifacts, in every step.
LEMMA ReportInvStep ==
    ASSUME RecordsInv, [RecordsNext]_recordsVars
    PROVE  ReportInv'
<1> USE DEF RecordsInv
<1> DEFINE content == Content(snap, Newest(rows["parent"]))
<1>1. ASSUME create_report
      PROVE  ReportInv'
  <2>1. Sound(content)
    BY <1>1, ContentSound DEF create_report
  <2>2. report_row' \in generate_report_artifacts(content)
    BY <1>1 DEF create_report
  <2> HIDE DEF content
  <2> QED
    BY <2>1, <2>2 DEF generate_report_artifacts, ReportInv
<1>2. ASSUME get_report_bytes
      PROVE  ReportInv'
  <2>1. Sound(content)
    BY <1>2, ContentSound DEF get_report_bytes
  <2>2. report_row' = [report_row EXCEPT !.status = "COMPLETED", !.pdf = content]
    BY <1>2 DEF get_report_bytes
  <2> HIDE DEF content
  <2> QED
    BY <2>1, <2>2 DEF ReportInv
<1>3. ASSUME UNCHANGED report_row
      PROVE  ReportInv'
  BY <1>3 DEF ReportInv
<1>4. ASSUME NEW b \in {"changed", "gone"}, Disturb(b)
      PROVE  ReportInv'
  BY <1>3, <1>4 DEF Disturb
<1>5. ASSUME NEW w \in Workers, AssessBegin(w, "parent") \/ AssessCommit(w)
      PROVE  ReportInv'
  BY <1>3, <1>5 DEF AssessBegin, AssessCommit
<1>6. ASSUME Recompute \/ ReplayCheck \/ ReplayRun \/ ReplayCompare
      PROVE  ReportInv'
  BY <1>3, <1>6 DEF Recompute, ReplayCheck, ReplayRun, ReplayCompare
<1>7. ASSUME SnapBegin \/ SnapEvals \/ SnapFindings \/ SnapScore
      PROVE  ReportInv'
  BY <1>3, <1>7 DEF SnapBegin, SnapEvals, SnapFindings, SnapScore
<1>8. CASE UNCHANGED recordsVars
  BY <1>3, <1>8 DEF recordsVars
<1> QED
  BY <1>1, <1>2, <1>4, <1>5, <1>6, <1>7, <1>8 DEF RecordsNext

\* RecordsInv is an invariant.
LEMMA RecordsInvariant == RecordsSpec => []RecordsInv
<1>1. RecordsInv /\ [RecordsNext]_recordsVars => RecordsInv'
  BY RowsInvStep, ReplayInvStep, SnapInvStep, ReportInvStep DEF RecordsInv
<1> QED
  BY RecordsInvInit, <1>1, PTL DEF RecordsSpec

\* A recorded comparison is of the bytes whose hash was recorded, unless file or
\* run were touched meanwhile, and the lineage says VERIFIED only of such a one
\* (service.py 126-191 and 343-358): for any number of changes.
THEOREM ReplayIsOfTheEvidence == RecordsSpec => []ReplayOfTheEvidence
<1>1. RecordsInv => ReplayOfTheEvidence
  <2> SUFFICES ASSUME RecordsInv, replay.pc = "done"
               PROVE  /\ replay.read = "original"
                      /\ replay.undisturbed \/ LineageStatus = "VERIFIED"
                            => evidence["parent"] = "original" /\ evidence["child"] = "original"
    BY DEF ReplayOfTheEvidence
  <2>1. ReplayInv
    BY DEF RecordsInv
  <2>2. LineageStatus = "VERIFIED" => bytes = "original"
    <3>1. CASE bytes = "gone"
      BY <3>1 DEF LineageStatus
    <3>2. CASE bytes = "changed"
      BY <3>2 DEF LineageStatus
    <3> QED
      BY <2>1, <3>1, <3>2 DEF ReplayInv
  <2> QED
    BY <2>1, <2>2 DEF ReplayInv
<1> QED
  BY <1>1, RecordsInvariant, PTL

\* No view of an analysis plays a finding down or scores thin evidence, however
\* many findings, rules and entities there are and whatever is committed between
\* the SELECTs of a snapshot (snapshot.py 343-439, router.py 197-346 and 520-669).
THEOREM NoFindingPlayedDown == RecordsSpec => []FindingsNotPlayedDown
<1>1. RecordsInv => FindingsNotPlayedDown
  <2> SUFFICES ASSUME RecordsInv PROVE FindingsNotPlayedDown
    OBVIOUS
  <2> DEFINE q == rows["parent"]
             tier == CatalogueTier(q, EntitiesOf(truth[evidence["parent"]]))
  <2>1. \A r \in Runs : rows[r] \in Seq(AssessedRows)
    BY DEF RecordsInv, RowsInv
  <2>2. q \in Seq(AssessedRows)
    BY <2>1 DEF Runs
  <2>3. \A r \in Runs : \A i \in DOMAIN rows[r] : SoundRow(rows[r][i])
    BY <2>1, AssessedSound, ElementOfSeq
  <2>4. \A c \in {report_row.html, report_row.pdf} \ {NoValue} : Sound(c)
    BY DEF RecordsInv, ReportInv
  <2>5. tier \notin {"INSUFFICIENT_EVIDENCE", "NOT_IPSEC"} => AtLeast(tier, AllFindings(q))
    <3>1. CASE AllFindings(q) = {}
      BY <3>1 DEF AtLeast
    <3>2. CASE AllFindings(q) # {}
      <4>1. tier \notin {"INSUFFICIENT_EVIDENCE", "NOT_IPSEC"}
               => tier = Severities[Worst(AllFindings(q))]
        BY <3>2 DEF CatalogueTier
      <4>2. AtLeast(Severities[Worst(AllFindings(q))], AllFindings(q))
        BY <2>2, <3>2, AllGraded, WorstTier
      <4> HIDE DEF tier
      <4> QED
        BY <4>1, <4>2
    <3> QED
      BY <3>1, <3>2
  <2>6. ASSUME NEW i \in DOMAIN q
        PROVE  AtLeast(EndpointTier(q[i]), q[i].findings)
    <3>1. SoundRow(q[i])
      BY <2>3, <2>6 DEF Runs
    <3>2. CASE q[i].findings = {}
      BY <3>2 DEF AtLeast
    <3>3. CASE q[i].findings # {}
      <4>1. EndpointTier(q[i]) = Severities[Worst(q[i].findings)]
        BY <3>1, <3>3 DEF EndpointTier, SoundRow
      <4>2. AtLeast(Severities[Worst(q[i].findings)], q[i].findings)
        BY <3>1, <3>3, WorstTier DEF SoundRow
      <4> QED
        BY <4>1, <4>2
    <3> QED
      BY <3>2, <3>3
  <2>7. ASSUME NEW r \in Runs, NEW i \in DOMAIN rows[r], Below(rows[r][i].coverage, 50)
        PROVE  CatalogueScore(rows[r][i]) = NoValue /\ EndpointScore(rows[r][i]) = NoValue
    <3>1. Below(rows[r][i].coverage, 60)
      BY <2>3, <2>7, BelowLemma DEF SoundRow
    <3> QED
      BY <2>7, <3>1 DEF CatalogueScore, EndpointScore
  <2> HIDE DEF tier
  <2>8. \A c \in {report_row.html, report_row.pdf} \ {NoValue} :
            /\ ~c.torn /\ c.newest # NoValue => AtLeast(c.tier, c.newest.findings)
            /\ c.score # NoValue => ~Below(c.coverage, 50)
    BY <2>4 DEF Sound
  <2> QED
    BY <2>5, <2>6, <2>7, <2>8 DEF FindingsNotPlayedDown, tier
<1> QED
  BY <1>1, RecordsInvariant, PTL

-----------------------------------------------------------------------------
\* A list, and two of them joined.
List(s) == Len(s) \in Nat /\ s = [k \in 1..Len(s) |-> s[k]]

LEMMA ListLemma ==
    ASSUME NEW s, List(s)
    PROVE  s \in Seq(ToSet(s)) /\ ToSet(s) = {s[k] : k \in 1..Len(s)}
<1> DEFINE n == Len(s)
<1>1. DOMAIN s = 1..n
  BY DEF List
<1>2. ToSet(s) = {s[k] : k \in 1..n}
  BY <1>1 DEF ToSet
<1>3. \A k \in 1..n : s[k] \in ToSet(s)
  BY <1>2
<1>4. n \in Nat /\ s = [k \in 1..n |-> s[k]]
  BY DEF List
<1> HIDE DEF n
<1>5. s \in Seq(ToSet(s))
  <2>1. s \in [1..n -> ToSet(s)]
    BY <1>3, <1>4
  <2> QED  BY <1>4, <2>1, SeqDef
<1> QED  BY <1>2, <1>5 DEF n

LEMMA ListJoined ==
    ASSUME NEW s, NEW t, List(s), List(t)
    PROVE  List(s \o t) /\ ToSet(s \o t) = ToSet(s) \cup ToSet(t)
<1> DEFINE S == ToSet(s) \cup ToSet(t)
           u == s \o t
<1>1. s \in Seq(S) /\ t \in Seq(S)
  <2>1. s \in Seq(ToSet(s)) /\ t \in Seq(ToSet(t))
    BY ListLemma
  <2>2. \A A, B : A \subseteq B => Seq(A) \subseteq Seq(B)
    BY SeqMonotonic
  <2> QED  BY <2>1, <2>2
<1> HIDE DEF S
<1>2. /\ u \in Seq(S) /\ Len(u) = Len(s) + Len(t)
      /\ \A k \in 1..Len(u) : u[k] = IF k <= Len(s) THEN s[k] ELSE t[k - Len(s)]
  BY <1>1, ConcatProperties
<1>3. List(u)
  <2> HIDE DEF u
  <2>1. Len(u) \in Nat /\ DOMAIN u = 1..Len(u) /\ u = [k \in DOMAIN u |-> u[k]]
    BY <1>2
  <2> QED  BY <2>1 DEF List
<1>4. ToSet(u) = {u[k] : k \in 1..Len(u)} /\ ToSet(s) = {s[k] : k \in 1..Len(s)}
      /\ ToSet(t) = {t[k] : k \in 1..Len(t)}
  BY <1>3, ListLemma
<1>5. Len(s) \in Nat /\ Len(t) \in Nat
  BY DEF List
<1> HIDE DEF u
<1>6. ASSUME NEW x PROVE x \in ToSet(u) <=> x \in ToSet(s) \/ x \in ToSet(t)
  <2>1. ASSUME NEW k \in 1..Len(s) PROVE s[k] \in ToSet(u)
    <3>1. k \in 1..Len(u) /\ u[k] = s[k]
      BY <1>2, <1>5
    <3> QED  BY <1>4, <3>1
  <2>2. ASSUME NEW k \in 1..Len(t) PROVE t[k] \in ToSet(u)
    <3>1. k + Len(s) \in 1..Len(u) /\ ~ (k + Len(s) <= Len(s)) /\ (k + Len(s)) - Len(s) = k
      BY <1>2, <1>5
    <3>2. u[k + Len(s)] = t[k]
      BY <1>2, <3>1
    <3> QED  BY <1>4, <3>1, <3>2
  <2>3. ASSUME NEW k \in 1..Len(u) PROVE u[k] \in ToSet(s) \/ u[k] \in ToSet(t)
    <3>1. CASE k <= Len(s)
      <4>1. k \in 1..Len(s) /\ u[k] = s[k]
        BY <1>2, <1>5, <3>1
      <4> QED  BY <1>4, <4>1
    <3>2. CASE ~(k <= Len(s))
      <4>1. k - Len(s) \in 1..Len(t) /\ u[k] = t[k - Len(s)]
        BY <1>2, <1>5, <3>2
      <4> QED  BY <1>4, <4>1
    <3> QED  BY <3>1, <3>2
  <2> QED  BY <1>4, <2>1, <2>2, <2>3
<1>7. ToSet(u) = ToSet(s) \cup ToSet(t)
  BY <1>6
<1> QED  BY <1>3, <1>7 DEF u

\* g joins the first k lists of a list of lists.
IsFlat(g, seqs, k) ==
    g = [i \in 1..k |-> IF i = 1 THEN seqs[i] ELSE g[i - 1] \o seqs[i]]

LEMMA FlatExists ==
    ASSUME NEW seqs
    PROVE  \A k \in Nat : \E g : IsFlat(g, seqs, k)
<1> DEFINE T == {k \in Nat : \E g : IsFlat(g, seqs, k)}
<1>1. 0 \in T
  <2>1. IsFlat(<<>>, seqs, 0)
    BY DEF IsFlat
  <2> QED  BY <2>1
<1>2. ASSUME NEW k \in Nat, k \in T PROVE k + 1 \in T
  <2>1. PICK g : IsFlat(g, seqs, k)
    BY <1>2
  <2> DEFINE new == IF k + 1 = 1 THEN seqs[k + 1] ELSE g[k] \o seqs[k + 1]
             h == [i \in 1..(k + 1) |-> IF i = k + 1 THEN new ELSE g[i]]
  <2>2. ASSUME NEW i \in 1..(k + 1)
        PROVE  h[i] = IF i = 1 THEN seqs[i] ELSE h[i - 1] \o seqs[i]
    <3>1. CASE i = k + 1
      <4>1. i # 1 => i - 1 = k /\ k # k + 1 /\ k \in 1..(k + 1)
        BY <3>1
      <4>2. i # 1 => h[i - 1] = g[k]
        BY <4>1
      <4>3. h[i] = new
        BY <3>1
      <4> QED  BY <3>1, <4>2, <4>3
    <3>2. CASE i # k + 1
      <4>1. i \in 1..k /\ (i # 1 => i - 1 \in 1..(k + 1) /\ i - 1 # k + 1)
        BY <3>2
      <4>2. h[i] = g[i] /\ (i # 1 => h[i - 1] = g[i - 1])
        BY <3>2, <4>1
      <4>3. g[i] = IF i = 1 THEN seqs[i] ELSE g[i - 1] \o seqs[i]
        BY <2>1, <4>1 DEF IsFlat
      <4> QED  BY <4>2, <4>3
    <3> QED  BY <3>1, <3>2
  <2>3. h = [i \in 1..(k + 1) |-> h[i]]
    OBVIOUS
  <2> HIDE DEF h
  <2>4. IsFlat(h, seqs, k + 1)
    BY <2>2, <2>3 DEF IsFlat
  <2> QED  BY <2>4
<1> HIDE DEF T
<1>3. Nat \subseteq T
  BY <1>1, <1>2, Noting!Induction
<1> QED  BY <1>3 DEF T

\* FlattenSeq has what its lists have.
LEMMA FlattenLemma ==
    ASSUME NEW seqs, List(seqs), \A k \in 1..Len(seqs) : List(seqs[k])
    PROVE  /\ List(FlattenSeq(seqs))
           /\ ToSet(FlattenSeq(seqs)) = UNION {ToSet(seqs[k]) : k \in 1..Len(seqs)}
<1> DEFINE n == Len(seqs)
           Upto(i) == UNION {ToSet(seqs[k]) : k \in 1..i}
<1>0. n \in Nat
  BY DEF List
<1>1. CASE n = 0
  <2>1. FlattenSeq(seqs) = seqs
    BY <1>1 DEF FlattenSeq
  <2>2. ToSet(seqs) = {seqs[k] : k \in 1..n} /\ 1..n = {}
    BY <1>1, ListLemma
  <2> QED  BY <2>1, <2>2
<1>2. CASE n # 0
  <2> DEFINE g == CHOOSE f : IsFlat(f, seqs, n)
  <2>1. IsFlat(g, seqs, n)
    BY <1>0, FlatExists
  <2>2. FlattenSeq(seqs) = g[n]
    BY <1>2, Zenon DEF FlattenSeq, IsFlat
  <2> HIDE DEF g
  <2> DEFINE T == {k \in Nat : k \in 1..n => List(g[k]) /\ ToSet(g[k]) = Upto(k)}
  <2>3. 0 \in T
    OBVIOUS
  <2>4. ASSUME NEW k \in Nat, k \in T PROVE k + 1 \in T
    <3> SUFFICES ASSUME k + 1 \in 1..n PROVE List(g[k + 1]) /\ ToSet(g[k + 1]) = Upto(k + 1)
      OBVIOUS
    <3>1. CASE k = 0
      <4>1. g[k + 1] = seqs[1] /\ List(seqs[1])
        BY <2>1, <3>1 DEF IsFlat
      <4>2. 1..(k + 1) = {1}
        BY <3>1
      <4>3. Upto(k + 1) = ToSet(seqs[1])
        BY <4>2
      <4> QED  BY <4>1, <4>3
    <3>2. CASE k # 0
      <4>1. k \in 1..n /\ k + 1 # 1 /\ (k + 1) - 1 = k
        BY <1>0, <3>2
      <4>2. g[k + 1] = g[k] \o seqs[k + 1]
        BY <2>1, <4>1 DEF IsFlat
      <4>3. List(g[k]) /\ ToSet(g[k]) = Upto(k)
        BY <2>4, <4>1
      <4>4. List(g[k + 1]) /\ ToSet(g[k + 1]) = Upto(k) \cup ToSet(seqs[k + 1])
        BY <4>2, <4>3, ListJoined
      <4>5. 1..(k + 1) = (1..k) \cup {k + 1}
        OBVIOUS
      <4>6. Upto(k + 1) = Upto(k) \cup ToSet(seqs[k + 1])
        BY <4>5
      <4> QED  BY <4>4, <4>6
    <3> QED  BY <3>1, <3>2
  <2> HIDE DEF T
  <2>5. n \in T
    BY <1>0, <2>3, <2>4, Noting!Induction
  <2>6. n \in 1..n
    BY <1>0, <1>2
  <2> QED  BY <2>2, <2>5, <2>6 DEF T
<1> QED  BY <1>1, <1>2

-----------------------------------------------------------------------------
\* A list of observations of one protocol.
OfProtocol(s, protocol) == List(s) /\ \A o \in ToSet(s) : o.protocol = protocol

LEMMA SmallLists ==
    /\ List(<<>>) /\ ToSet(<<>>) = {}
    /\ \A o : List(<<o>>) /\ ToSet(<<o>>) = {o}
<1>1. List(<<>>) /\ ToSet(<<>>) = {}
  BY DEF List, ToSet
<1>2. ASSUME NEW o PROVE List(<<o>>) /\ ToSet(<<o>>) = {o}
  BY DEF List, ToSet
<1> QED  BY <1>1, <1>2

LEMMA OfJoined ==
    ASSUME NEW protocol, NEW s, NEW t, OfProtocol(s, protocol), OfProtocol(t, protocol)
    PROVE  OfProtocol(s \o t, protocol) /\ ToSet(s \o t) = ToSet(s) \cup ToSet(t)
BY ListJoined DEF OfProtocol

LEMMA InJoined ==
    ASSUME NEW s, NEW t, List(s), List(t), NEW x, x \in ToSet(s) \/ x \in ToSet(t)
    PROVE  x \in ToSet(s \o t)
BY ListJoined

LEMMA OfWhen ==
    ASSUME NEW protocol, NEW o, o.protocol = protocol
    PROVE  /\ OfProtocol(<<o>>, protocol) /\ ToSet(<<o>>) = {o}
           /\ \A c \in BOOLEAN : OfProtocol(When(c, <<o>>), protocol)
<1>1. OfProtocol(<<o>>, protocol) /\ OfProtocol(<<>>, protocol) /\ ToSet(<<o>>) = {o}
  BY SmallLists DEF OfProtocol
<1> QED  BY <1>1 DEF When

\* The observations of an IKE layer are of its version, and there is one.
LEMMA IkeObservations ==
    ASSUME NEW ike, List(ike.nodes)
    PROVE  /\ OfProtocol(parse_ike_layer(ike), IkeVersion(ike))
           /\ \E o \in ToSet(parse_ike_layer(ike)) : TRUE
<1> DEFINE v == IkeVersion(ike)
           nodes == ike.nodes
           lists == [k \in DOMAIN nodes |->
                       KeyExchangeObservation(v, nodes[k].dh_group)
                       \o NotifyObservation(v, nodes[k].notify)
                       \o TransformObservation(v, nodes[k])]
<1>1. \A field, value, id : NormalizedObservation(v, field, value, id).protocol = v
  BY DEF NormalizedObservation
<1> HIDE DEF v
<1>2. ASSUME NEW k \in DOMAIN nodes PROVE OfProtocol(lists[k], v)
  <2>0. \A raw, bases : Reads(raw, bases) \in BOOLEAN
    BY DEF Reads
  <2>1. OfProtocol(KeyExchangeObservation(v, nodes[k].dh_group), v)
    <3> DEFINE raw == nodes[k].dh_group
               o == NormalizedObservation(v, "ike.ke.dh_group",
                                          Named(DH_TRANSFORMS, raw.n, "UNKNOWN_DH_"), raw.n)
    <3>1. o.protocol = v
      BY <1>1
    <3>2. KeyExchangeObservation(v, raw) = When(Reads(raw, {10}), <<o>>)
      BY DEF KeyExchangeObservation
    <3> HIDE DEF o, raw
    <3>3. OfProtocol(When(Reads(raw, {10}), <<o>>), v)
      BY <2>0, <3>1, OfWhen
    <3> QED  BY <3>2, <3>3 DEF raw
  <2>2. OfProtocol(NotifyObservation(v, nodes[k].notify), v)
    <3> DEFINE raw == nodes[k].notify
               o == NormalizedObservation(v, "ike.notify.type",
                                          Named(NOTIFY_TYPES, raw.n, "NOTIFY_"), raw.n)
    <3>1. o.protocol = v
      BY <1>1
    <3>2. NotifyObservation(v, raw) = When(Reads(raw, {10}), <<o>>)
      BY DEF NotifyObservation
    <3> HIDE DEF o, raw
    <3>3. OfProtocol(When(Reads(raw, {10}), <<o>>), v)
      BY <2>0, <3>1, OfWhen
    <3> QED  BY <3>2, <3>3 DEF raw
  <2>3. OfProtocol(TransformObservation(v, nodes[k]), v)
    <3> DEFINE node == nodes[k]
               type == Named(TRANSFORM_TYPES, node.tf_type.n, "UNKNOWN_TYPE_")
               bits == IF node.tf_field = "encr" /\ Reads(node.key_length, {10})
                       THEN node.key_length.n ELSE Absent
               read == Reads(node.tf_type, {10}) /\ Reads(node.tf_id, {10})
               o == [NormalizedObservation(v, "ike.transform",
                                      normalize_transform(type, node.tf_id.n, bits), node.tf_id.n)
                     EXCEPT !.type = type, !.bits = bits]
    <3>1. o.protocol = v
      <4>1. \A field, value, id, t, b :
              [NormalizedObservation(v, field, value, id) EXCEPT !.type = t, !.bits = b].protocol = v
        BY <1>1 DEF NormalizedObservation
      <4> QED  BY <4>1
    <3>2. TransformObservation(v, node) = When(read, <<o>>)
      BY DEF TransformObservation
    <3>3. read \in BOOLEAN
      OBVIOUS
    <3> HIDE DEF o, read, node
    <3>4. OfProtocol(When(read, <<o>>), v)
      BY <3>1, <3>3, OfWhen
    <3> QED  BY <3>2, <3>4 DEF node
  <2> QED  BY <2>1, <2>2, <2>3, OfJoined
<1>3. OfProtocol(_extract_ike_payloads(v, nodes), v)
  <2> HIDE DEF lists
  <2>1. DOMAIN nodes = 1..Len(nodes) /\ Len(nodes) \in Nat
    BY DEF List
  <2>2. List(lists) /\ Len(lists) = Len(nodes)
    <3> DEFINE N == Len(nodes)
    <3>1. DOMAIN lists = DOMAIN nodes /\ lists = [k \in DOMAIN nodes |-> lists[k]]
      BY DEF lists
    <3>2. DOMAIN lists = 1..N /\ lists = [k \in 1..N |-> lists[k]] /\ N \in Nat
      BY <2>1, <3>1
    <3> HIDE DEF N
    <3>3. Len(lists) = N
      BY <3>2
    <3> QED  BY <3>2, <3>3 DEF List, N
  <2>3. /\ List(FlattenSeq(lists))
        /\ ToSet(FlattenSeq(lists)) = UNION {ToSet(lists[k]) : k \in 1..Len(lists)}
    BY <1>2, <2>1, <2>2, FlattenLemma DEF OfProtocol
  <2>4. \A o \in ToSet(FlattenSeq(lists)) : o.protocol = v
    BY <1>2, <2>1, <2>2, <2>3 DEF OfProtocol
  <2>5. _extract_ike_payloads(v, nodes) = FlattenSeq(lists)
    BY DEF _extract_ike_payloads, lists
  <2> QED  BY <2>3, <2>4, <2>5 DEF OfProtocol
<1>4. \A raw, field : OfProtocol(SpiObservation(v, field, raw), v)
  BY <1>1, OfWhen DEF SpiObservation
<1>5. \A raw : OfProtocol(ExchangeObservation(v, raw), v)
  BY <1>1, OfWhen DEF ExchangeObservation
<1>6. \A raw : OfProtocol(MessageIdObservation(v, raw), v)
  BY <1>1, OfWhen DEF MessageIdObservation
<1>7. \A r : OfProtocol(RoleObservation(v, r), v)
  BY <1>1, OfWhen DEF RoleObservation
<1> DEFINE first == NormalizedObservation(v, "ike.version", v, Absent)
<1>8. OfProtocol(<<first>>, v) /\ first \in ToSet(<<first>>)
  BY <1>1, OfWhen
<1> HIDE DEF first, nodes
<1>9. parse_ike_layer(ike) =
        <<first>> \o SpiObservation(v, "ike.initiator_spi", ike.ispi)
        \o SpiObservation(v, "ike.responder_spi", ike.rspi)
        \o ExchangeObservation(v, ike.exchange)
        \o MessageIdObservation(v, ike.message_id)
        \o RoleObservation(v, ike.response)
        \o _extract_ike_payloads(v, nodes)
  BY DEF parse_ike_layer, first, v, nodes
<1> DEFINE t1 == SpiObservation(v, "ike.initiator_spi", ike.ispi)
           t2 == SpiObservation(v, "ike.responder_spi", ike.rspi)
           t3 == ExchangeObservation(v, ike.exchange)
           t4 == MessageIdObservation(v, ike.message_id)
           t5 == RoleObservation(v, ike.response)
           t6 == _extract_ike_payloads(v, nodes)
           Good(s) == OfProtocol(s, v) /\ first \in ToSet(s)
<1>10. ASSUME NEW s, NEW t, Good(s), OfProtocol(t, v) PROVE Good(s \o t)
  <2> DEFINE u == s \o t
  <2>1. OfProtocol(u, v)
    BY <1>10, OfJoined
  <2>2. first \in ToSet(u)
    BY <1>10, InJoined DEF OfProtocol
  <2> HIDE DEF u
  <2> QED  BY <1>10, <2>1, <2>2 DEF u
<1>11. /\ OfProtocol(t1, v) /\ OfProtocol(t2, v) /\ OfProtocol(t3, v)
       /\ OfProtocol(t4, v) /\ OfProtocol(t5, v) /\ OfProtocol(t6, v)
  BY <1>3, <1>4, <1>5, <1>6, <1>7
<1>12. Good(<<first>>)
  BY <1>8
<1>13. parse_ike_layer(ike) = <<first>> \o t1 \o t2 \o t3 \o t4 \o t5 \o t6
  BY <1>9
<1>14. Good(parse_ike_layer(ike)) => /\ OfProtocol(parse_ike_layer(ike), v)
                                     /\ \E o \in ToSet(parse_ike_layer(ike)) : TRUE
  OBVIOUS
<1> HIDE DEF Good, t1, t2, t3, t4, t5, t6
<1>15. Good(<<first>> \o t1 \o t2 \o t3 \o t4 \o t5 \o t6)
  <2>1. Good(<<first>> \o t1)
    BY <1>10, <1>11, <1>12
  <2>2. Good(<<first>> \o t1 \o t2)
    BY <1>10, <1>11, <2>1
  <2>3. Good(<<first>> \o t1 \o t2 \o t3)
    BY <1>10, <1>11, <2>2
  <2>4. Good(<<first>> \o t1 \o t2 \o t3 \o t4)
    BY <1>10, <1>11, <2>3
  <2>5. Good(<<first>> \o t1 \o t2 \o t3 \o t4 \o t5)
    BY <1>10, <1>11, <2>4
  <2> QED  BY <1>10, <1>11, <2>5
<1> QED  BY <1>13, <1>14, <1>15 DEF v

\* The header of ESP or AH is of its protocol, and one with an SPI is observed.
LEMMA HeaderObservations ==
    ASSUME NEW protocol, NEW prefix, NEW raw
    PROVE  /\ OfProtocol(SecurityHeader(protocol, prefix, raw), protocol)
           /\ raw.spi # Absent => \E o \in ToSet(SecurityHeader(protocol, prefix, raw)) : TRUE
<1> DEFINE s == SpiObservation(protocol, prefix \o ".spi", raw.spi)
           seq == IF raw.seq.base = 10 THEN raw.seq.n ELSE 0
           t == When(raw.seq # Absent,
                     <<NormalizedObservation(protocol, prefix \o ".sequence", ToString(seq), seq)>>)
           u == s \o t
<1>1. \A field, value, id : NormalizedObservation(protocol, field, value, id).protocol = protocol
  BY DEF NormalizedObservation
<1>2. OfProtocol(s, protocol) /\ (raw.spi # Absent => \E o \in ToSet(s) : TRUE)
  <2> DEFINE o == NormalizedObservation(protocol, prefix \o ".spi", raw.spi.digits, Absent)
             has == raw.spi # Absent
  <2>1. o.protocol = protocol /\ has \in BOOLEAN
    BY <1>1
  <2>2. s = When(has, <<o>>)
    BY DEF SpiObservation
  <2>3. (raw.spi # Absent) <=> has
    OBVIOUS
  <2> HIDE DEF o, has, s
  <2>4. OfProtocol(When(has, <<o>>), protocol) /\ ToSet(<<o>>) = {o}
    BY <2>1, OfWhen
  <2>5. has => When(has, <<o>>) = <<o>>
    BY DEF When
  <2> QED  BY <2>2, <2>3, <2>4, <2>5
<1>3. OfProtocol(t, protocol)
  <2> DEFINE o == NormalizedObservation(protocol, prefix \o ".sequence", ToString(seq), seq)
             has == raw.seq # Absent
  <2>1. o.protocol = protocol /\ has \in BOOLEAN
    BY <1>1
  <2> HIDE DEF o, has
  <2> QED  BY <2>1, OfWhen DEF has, o
<1>4. SecurityHeader(protocol, prefix, raw) = u
  BY DEF SecurityHeader
<1> HIDE DEF s, t
<1>5. OfProtocol(u, protocol)
  BY <1>2, <1>3, OfJoined
<1>6. ToSet(u) = ToSet(s) \cup ToSet(t)
  BY <1>2, <1>3, OfJoined
<1> HIDE DEF u
<1> QED  BY <1>2, <1>4, <1>5, <1>6

-----------------------------------------------------------------------------
\* The protocols of a packet's observations are those of its layers.
LEMMA ProtocolsLemma ==
    ASSUME NEW p \in Packets
    PROVE  LET P == {o.protocol : o \in ToSet(Observations(p))}
           IN  /\ List(Observations(p))
               /\ P = (IF p.ip = Absent THEN {} ELSE {p.ip})
                      \cup (IF is_natt(p) THEN {"NAT-T"} ELSE {})
                      \cup (IF p.isakmp = Absent THEN {} ELSE {IkeVersion(p.isakmp)})
                      \cup (IF p.esp = Absent THEN {} ELSE {"ESP"})
                      \cup (IF p.ah = Absent THEN {} ELSE {"AH"})
<1> DEFINE v == IkeVersion(p.isakmp)
           a == When(p.ip # Absent, <<NormalizedObservation(p.ip, "ip.version", p.ip, Absent)>>)
           b == When(is_natt(p), <<NormalizedObservation("NAT-T", "natt.detected",
                                     "UDP_PORT_4500_ENCAPSULATION", Absent)>>)
           c == When(p.isakmp # Absent, parse_ike_layer(p.isakmp))
           d == When(p.esp # Absent, parse_esp_layer(p.esp, is_natt(p)))
           e == When(p.ah # Absent, parse_ah_layer(p.ah))
           Of(s) == {o.protocol : o \in ToSet(s)}
<1>0. \A s, Q : OfProtocol(s, Q) /\ (\E o \in ToSet(s) : TRUE) => Of(s) = {Q}
  BY DEF OfProtocol
<1>1. \A Q, field, value, id :
        LET o == NormalizedObservation(Q, field, value, id)
        IN  OfProtocol(<<o>>, Q) /\ o \in ToSet(<<o>>)
  <2>1. \A Q, field, value, id : NormalizedObservation(Q, field, value, id).protocol = Q
    BY DEF NormalizedObservation
  <2> QED  BY <2>1, OfWhen
<1>2. List(<<>>) /\ Of(<<>>) = {}
  BY SmallLists
<1>3. List(a) /\ Of(a) = IF p.ip = Absent THEN {} ELSE {p.ip}
  <2>1. OfProtocol(<<NormalizedObservation(p.ip, "ip.version", p.ip, Absent)>>, p.ip)
        /\ \E o \in ToSet(<<NormalizedObservation(p.ip, "ip.version", p.ip, Absent)>>) : TRUE
    BY <1>1
  <2> QED  BY <1>0, <1>2, <2>1 DEF When, OfProtocol
<1>4. List(b) /\ Of(b) = IF is_natt(p) THEN {"NAT-T"} ELSE {}
  <2> DEFINE s == <<NormalizedObservation("NAT-T", "natt.detected",
                                          "UDP_PORT_4500_ENCAPSULATION", Absent)>>
  <2>1. OfProtocol(s, "NAT-T") /\ \E o \in ToSet(s) : TRUE
    BY <1>1
  <2> HIDE DEF s
  <2>2. List(s) /\ Of(s) = {"NAT-T"}
    BY <1>0, <2>1 DEF OfProtocol
  <2>3. b = IF is_natt(p) THEN s ELSE <<>>
    BY DEF When, s
  <2> QED  BY <1>2, <2>2, <2>3
<1>5. List(c) /\ Of(c) = IF p.isakmp = Absent THEN {} ELSE {v}
  <2>1. CASE p.isakmp # Absent
    <3>1. List(p.isakmp.nodes)
      BY <2>1, PacketAssumption DEF List
    <3>2. OfProtocol(c, v) /\ \E o \in ToSet(c) : TRUE
      BY <2>1, <3>1, IkeObservations DEF When
    <3> QED  BY <1>0, <2>1, <3>2 DEF OfProtocol
  <2>2. CASE p.isakmp = Absent
    BY <1>2, <2>2 DEF When
  <2> QED  BY <2>1, <2>2
<1>6. List(d) /\ Of(d) = IF p.esp = Absent THEN {} ELSE {"ESP"}
  <2> DEFINE h == SecurityHeader("ESP", "esp", p.esp)
             o == NormalizedObservation("ESP", "esp.encapsulation",
                    IF is_natt(p) THEN "UDP_ENCAPSULATED_ESP" ELSE "NATIVE_ESP", Absent)
  <2>1. OfProtocol(h, "ESP") /\ OfProtocol(<<o>>, "ESP") /\ o \in ToSet(<<o>>)
    BY <1>1, HeaderObservations
  <2>2. parse_esp_layer(p.esp, is_natt(p)) = h \o <<o>>
    BY DEF parse_esp_layer
  <2> HIDE DEF h, o
  <2> DEFINE t == <<o>>
             u == h \o t
  <2> HIDE DEF t
  <2>3. OfProtocol(u, "ESP") /\ \E x \in ToSet(u) : TRUE
    <3>1. OfProtocol(t, "ESP") /\ o \in ToSet(t)
      BY <2>1 DEF t
    <3>2. OfProtocol(u, "ESP")
      BY <2>1, <3>1, OfJoined
    <3>3. o \in ToSet(u)
      BY <2>1, <3>1, InJoined DEF OfProtocol
    <3> HIDE DEF u
    <3> QED  BY <3>2, <3>3
  <2>4. d = IF p.esp # Absent THEN u ELSE <<>>
    BY <2>2 DEF When, t
  <2> HIDE DEF u
  <2>5. List(u) /\ Of(u) = {"ESP"}
    BY <1>0, <2>3 DEF OfProtocol
  <2> QED  BY <1>2, <2>4, <2>5
<1>7. List(e) /\ Of(e) = IF p.ah = Absent THEN {} ELSE {"AH"}
  <2> DEFINE h == SecurityHeader("AH", "ah", p.ah)
             o == NormalizedObservation("AH", "ah.next_header", p.ah.next, Absent)
             has == p.ah.next # Absent
             t == When(has, <<o>>)
             u == h \o t
  <2>1. OfProtocol(h, "AH") /\ (p.ah.spi # Absent => \E x \in ToSet(h) : TRUE)
    BY HeaderObservations
  <2>2. OfProtocol(t, "AH")
    <3>1. o.protocol = "AH"
      BY <1>1, OfWhen DEF NormalizedObservation
    <3>2. has \in BOOLEAN
      OBVIOUS
    <3> HIDE DEF o, has
    <3> QED  BY <3>1, <3>2, OfWhen
  <2>3. parse_ah_layer(p.ah) = u
    BY DEF parse_ah_layer
  <2> HIDE DEF h, t
  <2>4. OfProtocol(u, "AH")
    BY <2>1, <2>2, OfJoined
  <2>7. ToSet(u) = ToSet(h) \cup ToSet(t)
    BY <2>1, <2>2, OfJoined
  <2> HIDE DEF u
  <2>5. CASE p.ah # Absent
    <3>1. e = u
      BY <2>3, <2>5 DEF When
    <3>2. p.ah.spi # Absent
      BY <2>5, PacketAssumption
    <3>3. \E x \in ToSet(u) : TRUE
      BY <2>1, <2>7, <3>2
    <3> QED  BY <1>0, <2>4, <2>5, <3>1, <3>3 DEF OfProtocol
  <2>6. CASE p.ah = Absent
    <3>1. e = <<>>
      BY <2>6 DEF When
    <3> QED  BY <1>2, <2>6, <3>1
  <2> QED  BY <2>5, <2>6
<1>8. Observations(p) = a \o b \o c \o d \o e
  <2>1. Observations(p) = parse_ip_layer(p) \o c \o d \o e
    BY DEF Observations
  <2>2. parse_ip_layer(p) = a \o b
    BY DEF parse_ip_layer
  <2> QED  BY <2>1, <2>2
<1>9. ASSUME NEW s, NEW t, List(s), List(t) PROVE List(s \o t) /\ Of(s \o t) = Of(s) \cup Of(t)
  <2> DEFINE u == s \o t
  <2>1. List(u) /\ ToSet(u) = ToSet(s) \cup ToSet(t)
    BY <1>9, ListJoined
  <2> HIDE DEF u
  <2>2. Of(u) = Of(s) \cup Of(t)
    BY <2>1
  <2> QED  BY <2>1, <2>2 DEF u
<1> HIDE DEF a, b, c, d, e
<1>10. /\ List(a \o b \o c \o d \o e)
       /\ Of(a \o b \o c \o d \o e) = Of(a) \cup Of(b) \cup Of(c) \cup Of(d) \cup Of(e)
  <2> HIDE DEF Of
  <2>1. List(a \o b) /\ Of(a \o b) = Of(a) \cup Of(b)
    BY <1>3, <1>4, <1>9
  <2>2. List(a \o b \o c) /\ Of(a \o b \o c) = Of(a) \cup Of(b) \cup Of(c)
    BY <1>5, <1>9, <2>1
  <2>3. List(a \o b \o c \o d) /\ Of(a \o b \o c \o d) = Of(a) \cup Of(b) \cup Of(c) \cup Of(d)
    BY <1>6, <1>9, <2>2
  <2> QED  BY <1>7, <1>9, <2>3
<1> QED
  <2> DEFINE all == a \o b \o c \o d \o e
  <2>1. List(all) /\ Of(all) = Of(a) \cup Of(b) \cup Of(c) \cup Of(d) \cup Of(e)
    BY <1>10
  <2>2. all = Observations(p)
    BY <1>8
  <2> HIDE DEF all, v
  <2>3. Of(all) = (IF p.ip = Absent THEN {} ELSE {p.ip})
                  \cup (IF is_natt(p) THEN {"NAT-T"} ELSE {})
                  \cup (IF p.isakmp = Absent THEN {} ELSE {v})
                  \cup (IF p.esp = Absent THEN {} ELSE {"ESP"})
                  \cup (IF p.ah = Absent THEN {} ELSE {"AH"})
    BY <1>3, <1>4, <1>5, <1>6, <1>7, <2>1
  <2> QED  BY <2>1, <2>2, <2>3 DEF v


\* A frame stands for a packet that can be captured.
LEMMA PacketLemma ==
    ASSUME CaptureOK, NEW n \in DOMAIN capture
    PROVE  Dissected[n] \in Packets
<1>1. capture[n] \in Frames
  BY DEF CaptureOK
<1>2. PICK p \in Packets : FrameOf(p) = capture[n]
  BY <1>1, CaptureAssumption
<1>3. (CHOOSE q \in Packets : FrameOf(q) = capture[n]) \in Packets
  BY <1>2
<1>4. Dissected[n] = CHOOSE q \in Packets : FrameOf(q) = capture[n]
  BY <1>1, Zenon DEF Dissected, PacketOf
<1> QED  BY <1>3, <1>4

\* The frames of the rows of some protocols are those whose packet has such a layer.
LEMMA RowsLemma ==
    ASSUME CaptureOK, NEW Q
    PROVE  {r.frame : r \in {x \in Written : x.obs.protocol \in Q}}
               = {n \in DOMAIN capture :
                     \E o \in ToSet(Observations(Dissected[n])) : o.protocol \in Q}
<1> DEFINE ObsOf(n) == ToSet(Observations(Dissected[n]))
           R(n) == {[frame |-> n, obs |-> o] : o \in ObsOf(n)}
<1>1. ASSUME NEW n \in DOMAIN capture PROVE ObservedIn[capture[n]] = ObsOf(n)
  <2>1. capture[n] \in Frames
    BY DEF CaptureOK
  <2> QED  BY <2>1 DEF ObservedIn, Dissected
<1>2. Written = UNION {R(n) : n \in DOMAIN capture}
  <2> DEFINE obs == [n \in DOMAIN capture |-> ObservedIn[capture[n]]]
  <2>1. \A n \in DOMAIN capture : obs[n] = ObsOf(n)
    BY <1>1
  <2>2. DOMAIN obs = DOMAIN capture /\ Written = Rows(obs)
    BY DEF Written
  <2> HIDE DEF obs, ObsOf
  <2> QED  BY <2>1, <2>2 DEF Rows
<1> HIDE DEF ObsOf
<1>3. ASSUME NEW n \in DOMAIN capture, NEW o \in ObsOf(n), o.protocol \in Q
      PROVE  n \in {r.frame : r \in {x \in Written : x.obs.protocol \in Q}}
  <2> DEFINE r == [frame |-> n, obs |-> o]
  <2>1. r \in Written /\ r.obs = o /\ r.frame = n
    BY <1>2
  <2> HIDE DEF r
  <2> QED  BY <1>3, <2>1
<1>4. ASSUME NEW r \in Written, r.obs.protocol \in Q
      PROVE  r.frame \in DOMAIN capture /\ \E o \in ObsOf(r.frame) : o.protocol \in Q
  <2>1. PICK n \in DOMAIN capture : r \in R(n)
    BY <1>2
  <2>2. PICK o \in ObsOf(n) : r = [frame |-> n, obs |-> o]
    BY <2>1
  <2>3. r.frame = n /\ r.obs = o
    BY <2>2
  <2> QED  BY <1>4, <2>3
<1>5. {r.frame : r \in {x \in Written : x.obs.protocol \in Q}}
          = {n \in DOMAIN capture : \E o \in ObsOf(n) : o.protocol \in Q}
  BY <1>3, <1>4
<1> QED  BY <1>5 DEF ObsOf

\* The counts taken of the layers and those taken of the rows are equal, but for the
\* total.
LEMMA CountersLemma ==
    ASSUME CaptureOK
    PROVE  \E total1, total2, F : /\ _normalize_packets(Dissected) = Counters(total1, F)
                                  /\ StoredCounters(Written) = Counters(total2, F)
<1> DEFINE D == DOMAIN capture
           pk(n) == Dissected[n]
           In(Q) == {n \in D : \E o \in ToSet(Observations(pk(n))) : o.protocol \in Q}
           ike == {n \in D : pk(n).isakmp # Absent}
           ikev1 == {n \in D : pk(n).isakmp # Absent /\ IkeVersion(pk(n).isakmp) = "IKEv1"}
           ikev2 == {n \in D : pk(n).isakmp # Absent /\ IkeVersion(pk(n).isakmp) = "IKEv2"}
           esp == {n \in D : pk(n).esp # Absent}
           ah == {n \in D : pk(n).ah # Absent}
           natt == {n \in D : is_natt(pk(n))}
<1>1. \A p : IkeVersion(p.isakmp) \in {"IKEv1", "IKEv2"}
  BY DEF IkeVersion
<1>2. ASSUME NEW n \in D, NEW Q
      PROVE  (\E o \in ToSet(Observations(pk(n))) : o.protocol \in Q)
             <=> \/ pk(n).ip # Absent /\ pk(n).ip \in Q
                 \/ is_natt(pk(n)) /\ "NAT-T" \in Q
                 \/ pk(n).isakmp # Absent /\ IkeVersion(pk(n).isakmp) \in Q
                 \/ pk(n).esp # Absent /\ "ESP" \in Q
                 \/ pk(n).ah # Absent /\ "AH" \in Q
  <2> DEFINE p == pk(n)
             O == ToSet(Observations(p))
             P == {o.protocol : o \in O}
  <2>1. p \in Packets
    BY PacketLemma
  <2>2. (\E o \in O : o.protocol \in Q) <=> \E x \in P : x \in Q
    OBVIOUS
  <2> HIDE DEF p, O
  <2>3. P = (IF p.ip = Absent THEN {} ELSE {p.ip})
            \cup (IF is_natt(p) THEN {"NAT-T"} ELSE {})
            \cup (IF p.isakmp = Absent THEN {} ELSE {IkeVersion(p.isakmp)})
            \cup (IF p.esp = Absent THEN {} ELSE {"ESP"})
            \cup (IF p.ah = Absent THEN {} ELSE {"AH"})
    BY <2>1, ProtocolsLemma DEF O
  <2> HIDE DEF P
  <2>4. (\E x \in P : x \in Q)
        <=> \/ p.ip # Absent /\ p.ip \in Q
            \/ is_natt(p) /\ "NAT-T" \in Q
            \/ p.isakmp # Absent /\ IkeVersion(p.isakmp) \in Q
            \/ p.esp # Absent /\ "ESP" \in Q
            \/ p.ah # Absent /\ "AH" \in Q
    BY <2>3
  <2> QED  BY <2>2, <2>4 DEF p, O
<1>3. \A n \in D : pk(n).ip \in {"IPv4", "IPv6", Absent}
  BY PacketLemma, PacketAssumption
<1> HIDE DEF pk
<1>4. /\ In({"IKEv1", "IKEv2"}) = ike /\ In({"IKEv1"}) = ikev1 /\ In({"IKEv2"}) = ikev2
      /\ In({"ESP"}) = esp /\ In({"AH"}) = ah /\ In({"NAT-T"}) = natt
  <2>1. \A n \in D : IkeVersion(pk(n).isakmp) \in {"IKEv1", "IKEv2"}
    BY <1>1
  <2>2. ASSUME NEW n \in D
        PROVE  /\ n \in In({"IKEv1", "IKEv2"}) <=> n \in ike
               /\ n \in In({"IKEv1"}) <=> n \in ikev1
               /\ n \in In({"IKEv2"}) <=> n \in ikev2
               /\ n \in In({"ESP"}) <=> n \in esp
               /\ n \in In({"AH"}) <=> n \in ah
               /\ n \in In({"NAT-T"}) <=> n \in natt
    <3> DEFINE p == pk(n)
               ip == p.ip
               version == IkeVersion(p.isakmp)
               hasIke == p.isakmp # Absent
               hasEsp == p.esp # Absent
               hasAh == p.ah # Absent
               hasNatt == is_natt(p)
    <3>1. /\ n \in ike <=> hasIke
          /\ n \in ikev1 <=> hasIke /\ version = "IKEv1"
          /\ n \in ikev2 <=> hasIke /\ version = "IKEv2"
          /\ n \in esp <=> hasEsp
          /\ n \in ah <=> hasAh
          /\ n \in natt <=> hasNatt
      OBVIOUS
    <3>2. \A Q : n \in In(Q) <=> \/ ip # Absent /\ ip \in Q
                                 \/ hasNatt /\ "NAT-T" \in Q
                                 \/ hasIke /\ version \in Q
                                 \/ hasEsp /\ "ESP" \in Q
                                 \/ hasAh /\ "AH" \in Q
      BY <1>2
    <3>3. version \in {"IKEv1", "IKEv2"} /\ ip \in {"IPv4", "IPv6", Absent}
      BY <1>3, <2>1
    <3> HIDE DEF ip, version, hasIke, hasEsp, hasAh, hasNatt, In, ike, ikev1, ikev2, esp, ah, natt
    <3> QED  BY <3>1, <3>2, <3>3
  <2>3. \A Q : In(Q) \subseteq D
    OBVIOUS
  <2>4. /\ ike \subseteq D /\ ikev1 \subseteq D /\ ikev2 \subseteq D
        /\ esp \subseteq D /\ ah \subseteq D /\ natt \subseteq D
    OBVIOUS
  <2> HIDE DEF In, ike, ikev1, ikev2, esp, ah, natt, D
  <2> QED  BY <2>2, <2>3, <2>4
<1> DEFINE F == [ike |-> ike, ikev1 |-> ikev1, ikev2 |-> ikev2, esp |-> esp, ah |-> ah,
                 natt |-> natt]
<1>5. _normalize_packets(Dissected) = Counters(Len(Dissected), F)
  <2>1. DOMAIN Dissected = D
    BY DEF Dissected
  <2> QED  BY <2>1 DEF _normalize_packets, pk
<1>6. StoredCounters(Written) = Counters(Cardinality({r.frame : r \in Written}), F)
  <2> DEFINE Of(Q) == {r.frame : r \in {x \in Written : x.obs.protocol \in Q}}
  <2>1. \A Q : Of(Q) = In(Q)
    BY RowsLemma DEF pk
  <2>2. StoredCounters(Written)
          = Counters(Cardinality({r.frame : r \in Written}),
              [ike |-> Of({"IKEv1", "IKEv2"}), ikev1 |-> Of({"IKEv1"}), ikev2 |-> Of({"IKEv2"}),
               esp |-> Of({"ESP"}), ah |-> Of({"AH"}), natt |-> Of({"NAT-T"})])
    BY DEF StoredCounters
  <2> HIDE DEF Of, In, ike, ikev1, ikev2, esp, ah, natt
  <2> QED  BY <1>4, <2>1, <2>2
<1> QED  BY <1>5, <1>6

\* Summaries of counts that differ in their total only differ in it only.
LEMMA TotalLemma ==
    ASSUME NEW stored, NEW crypto, NEW total1, NEW total2, NEW F
    PROVE  LET s1 == _build_summary(stored, crypto, Counters(total1, F))
               s2 == _build_summary(stored, crypto, Counters(total2, F))
           IN  s2 = [s1 EXCEPT !.packet_counts.total = s2.packet_counts.total]
<1> DEFINE c1 == Counters(total1, F)
           c2 == Counters(total2, F)
           s1 == _build_summary(stored, crypto, c1)
           s2 == _build_summary(stored, crypto, c2)
<1>1. /\ c2 = [c1 EXCEPT !.total = c2.total] /\ c2.ipsec = c1.ipsec /\ c2.ike = c1.ike
      /\ c2.natt = c1.natt
  <2> DEFINE ike == Cardinality(F.ike)
             ikev1 == Cardinality(F.ikev1)
             ikev2 == Cardinality(F.ikev2)
             esp == Cardinality(F.esp)
             ah == Cardinality(F.ah)
             natt == Cardinality(F.natt)
             ipsec == Cardinality(F.ike \cup F.esp \cup F.ah)
             Summary(t) == [total |-> t, ike |-> ike, ikev1 |-> ikev1, ikev2 |-> ikev2, esp |-> esp,
                         ah |-> ah, natt |-> natt, ipsec |-> ipsec]
  <2>1. c1 = Summary(total1) /\ c2 = Summary(total2)
    BY DEF Counters
  <2> HIDE DEF ike, ikev1, ikev2, esp, ah, natt, ipsec, c1, c2
  <2> QED  BY <2>1
<1> HIDE DEF c1, c2
<1>2. s2 = [s1 EXCEPT !.packet_counts = c2] /\ s1.packet_counts = c1 /\ s2.packet_counts = c2
  <2> DEFINE Values(field) == {r.obs.value : r \in {x \in stored : x.obs.field = field}}
             Protocols(names) == {r.obs.protocol : r \in stored} \cap names
             Picked(type) == {c.transform_name : c \in {x \in crypto : x.transform_type = type}}
             StateOf(S) == IF S = {} THEN "UNKNOWN" ELSE "VERIFIED"
             outcome == IF c1.ipsec > 0 THEN "IPSEC_OBSERVED" ELSE "NO_IPSEC_FOUND"
             protocols == Protocols({"IKEv1", "IKEv2", "ESP", "AH"})
             ips == Protocols({"IPv4", "IPv6"})
             versions == Values("ike.version")
             exchanges == Values("ike.exchange_type")
             ispis == Values("ike.initiator_spi")
             rspis == Values("ike.responder_spi") \ {"0"}
             transport == "USE_TRANSPORT_MODE" \in Values("ike.notify.type")
             ciphers == Picked("ENCR")
             groups == Picked("DH")
             cipher == StateOf(Picked("ENCR"))
             dh == StateOf(Picked("DH"))
             exchange == StateOf(Values("ike.exchange_type"))
             natt == IF c1.natt > 0 THEN "VERIFIED"
                     ELSE IF c1.ike > 0 THEN "NOT_DETECTED" ELSE "NOT_OBSERVED"
             Summary(c) == [outcome |-> outcome, packet_counts |-> c,
                         protocols_observed |-> protocols, ip_versions_observed |-> ips,
                         ike_versions_observed |-> versions,
                         observed_exchange_types |-> exchanges,
                         observed_initiator_spis |-> ispis,
                         observed_responder_spis |-> rspis,
                         transport_mode_notify_observed |-> transport,
                         observed_cipher_suites |-> ciphers, observed_dh_groups |-> groups,
                         cipher_evidence |-> cipher, dh_evidence |-> dh,
                         exchange_evidence |-> exchange, natt_evidence |-> natt]
  <2>1. s1 = Summary(c1)
    BY DEF _build_summary
  <2>2. s2 = Summary(c2)
    BY <1>1 DEF _build_summary
  <2> HIDE DEF outcome, protocols, ips, versions, exchanges, ispis, rspis, transport, ciphers,
               groups, cipher, dh, exchange, natt, s1, s2
  <2> QED  BY <2>1, <2>2
<1>3. DOMAIN s1 = DOMAIN s2 /\ "packet_counts" \in DOMAIN s1
  BY DEF _build_summary
<1> HIDE DEF s1, s2
<1>4. s2 = [s1 EXCEPT !.packet_counts.total = s2.packet_counts.total]
  BY <1>1, <1>2, <1>3
<1> QED  BY <1>4 DEF s1, s2, c1, c2

LEMMA ReadBack ==
    ASSUME CaptureOK
    PROVE  SummaryReadBack
<1> DEFINE crypto == CryptoObservations(Written)
<1>1. PICK total1, total2, F : /\ _normalize_packets(Dissected) = Counters(total1, F)
                               /\ StoredCounters(Written) = Counters(total2, F)
  BY CountersLemma
<1> DEFINE s1 == _build_summary(Written, crypto, Counters(total1, F))
           s2 == _build_summary(Written, crypto, Counters(total2, F))
<1>2. s2 = [s1 EXCEPT !.packet_counts.total = s2.packet_counts.total]
  BY TotalLemma
<1>3. RunSummary(Dissected, Written) = s1 /\ get_protocol_summary(Written) = s2
  BY <1>1 DEF RunSummary, get_protocol_summary
<1> HIDE DEF s1, s2
<1> QED  BY <1>2, <1>3 DEF SummaryReadBack

\* The summary read back from the rows is the one that was returned, but for the
\* total, for every capture of any packets: frames are counted once by their layers
\* and once by the protocols of their observations (_normalize_packets,
\* get_protocol_summary).
THEOREM SummaryIsReadBack == Spec => []SummaryReadBack
<1>1. TablesInv => SummaryReadBack
  BY ReadBack DEF TablesInv
<1> QED  BY <1>1, TablesInvariant, PTL

-----------------------------------------------------------------------------
\* A frame that names the responder has a row of that SPI, which is not 0.
LEMMA ResponderObserved ==
    ASSUME NEW p \in Packets, FrameOf(p).proto = "IKE", FrameOf(p).rspi
    PROVE  \E o \in ToSet(Observations(p)) :
               o.field = "ike.responder_spi" /\ o.value # "0"
<1> DEFINE obs == Observations(p)
           n == Len(obs)
           I == {i \in 1..n : obs[i].field = "ike.responder_spi"}
           k == IF I # {} THEN Max(I) ELSE 0
           nothing == NormalizedObservation(Absent, Absent, Absent, Absent)
           found == IF k = 0 THEN nothing ELSE obs[k]
<1>1. n \in Nat /\ ToSet(obs) = {obs[i] : i \in 1..n}
  <2>1. List(obs)
    BY ProtocolsLemma
  <2> QED  BY <2>1, ListLemma DEF List
<1>2. found.value \notin {Absent, "0"}
  <2>1. FrameOf(p) = IkeFrame(p, obs)
    <3>1. CASE p.isakmp # Absent
      BY <3>1 DEF FrameOf
    <3>2. CASE p.isakmp = Absent
      <4>1. FrameOf(p).proto # "IKE"
        BY <3>2 DEF FrameOf, EspFrame
      <4> QED  BY <4>1
    <3> QED  BY <3>1, <3>2
  <2>2. FieldOf(obs, "ike.responder_spi", nothing) = found
    BY DEF FieldOf, SelectLastInSeq
  <2>3. IkeFrame(p, obs).rspi =
          (FieldOf(obs, "ike.responder_spi", nothing).value \notin {Absent, "0"})
    BY DEF IkeFrame
  <2> HIDE DEF found, nothing, obs
  <2> QED  BY <2>1, <2>2, <2>3
<1>3. nothing.value = Absent
  BY DEF NormalizedObservation
<1>4. k # 0
  <2> HIDE DEF nothing, k, obs
  <2> QED  BY <1>2, <1>3
<1>5. I \in SUBSET (1..n) /\ \A i \in I : obs[i].field = "ike.responder_spi"
  OBVIOUS
<1>6. k \in I
  <2> HIDE DEF I, n
  <2> QED  BY <1>1, <1>4, <1>5, GreatestLemma DEF k
<1> HIDE DEF obs, n, I, nothing, k
<1>7. obs[k] \in ToSet(obs) /\ obs[k].field = "ike.responder_spi" /\ obs[k].value # "0"
  BY <1>1, <1>2, <1>4, <1>5, <1>6
<1> QED  BY <1>7 DEF obs

\* A transform of an IKE frame was observed in its packet: it is the value of the last
\* observation of a transform of that type.
LEMMA TransformObserved ==
    ASSUME NEW p \in Packets, FrameOf(p).proto = "IKE",
           NEW type, type \in DOMAIN FrameOf(p).transforms
    PROVE  \E o \in ToSet(Observations(p)) :
               /\ o.value = FrameOf(p).transforms[type]
               /\ \/ o.field = "ike.transform" /\ o.type = type
                  \/ o.field = "ike.ke.dh_group" /\ type = "DH"
<1> DEFINE obs == Observations(p)
           n == Len(obs)
           Transform(o) == o.field \in {"ike.transform", "ike.ke.dh_group"}
           TypeOf(o) == IF o.field = "ike.ke.dh_group" THEN "DH" ELSE o.type
           I(t) == {i \in 1..n : Transform(obs[i]) /\ TypeOf(obs[i]) = t}
           LastOf(t) == IF I(t) # {} THEN Max(I(t)) ELSE 0
           T == {TypeOf(o) : o \in {x \in ToSet(obs) : Transform(x)}}
           f == FrameOf(p)
<1>1. List(obs)
  BY ProtocolsLemma
<1>2. n \in Nat /\ ToSet(obs) = {obs[k] : k \in 1..n}
  BY <1>1, ListLemma DEF List
<1>3. f.transforms = [t \in T |-> obs[LastOf(t)].value]
  <2>1. f = IkeFrame(p, obs)
    <3>1. CASE p.isakmp # Absent
      BY <3>1 DEF FrameOf
    <3>2. CASE p.isakmp = Absent
      <4>1. f.proto # "IKE"
        BY <3>2 DEF FrameOf, EspFrame
      <4> QED  BY <4>1
    <3> QED  BY <3>1, <3>2
  <2>2. IkeFrame(p, obs).transforms = [t \in T |-> obs[LastOf(t)].value]
    BY DEF IkeFrame, SelectLastInSeq
  <2> QED  BY <2>1, <2>2
<1> HIDE DEF obs, n, f
<1>4. type \in T /\ f.transforms[type] = obs[LastOf(type)].value
  <2>1. type \in DOMAIN f.transforms
    BY DEF f
  <2> HIDE DEF T, LastOf
  <2> QED  BY <1>3, <2>1
<1>5. PICK o \in ToSet(obs) : Transform(o) /\ TypeOf(o) = type
  BY <1>4
<1>6. PICK k \in 1..n : obs[k] = o
  BY <1>2
<1>7. I(type) \in SUBSET (1..n) /\ I(type) # {}
  BY <1>5, <1>6
<1>8. LastOf(type) \in I(type)
  <2> HIDE DEF I
  <2> QED  BY <1>2, <1>7, GreatestLemma
<1> DEFINE m == LastOf(type)
<1> HIDE DEF m
<1>9. m \in 1..n /\ Transform(obs[m]) /\ TypeOf(obs[m]) = type
  BY <1>8 DEF m
<1>10. obs[m] \in ToSet(obs) /\ obs[m].value = f.transforms[type]
  BY <1>2, <1>4, <1>9 DEF m
<1> QED  BY <1>9, <1>10 DEF obs, f

\* What an SA selected was answered: a frame of the session that names the responder's
\* SPI has it among its transforms.
LEMMA SelectedAnswered ==
    ASSUME CaptureOK, NEW ispi, \E n \in IkeEvents(capture) : capture[n].ispi = ispi, NEW type,
           Selected(capture, SessionEvents(capture, ispi), type) # Absent
    PROVE  LET ev == SessionEvents(capture, ispi)
           IN  \E k \in DOMAIN ev :
                   /\ IsAnswer(capture, ev, ev[k])
                   /\ type \in DOMAIN capture[ev[k]].transforms
                   /\ capture[ev[k]].transforms[type] = Selected(capture, ev, type)
<1> DEFINE ev == SessionEvents(capture, ispi)
           n == Len(ev)
           I == {i \in 1..n : /\ IsAnswer(capture, ev, ev[i])
                              /\ type \in DOMAIN capture[ev[i]].transforms}
           j == SelectedIn(capture, ev, type)
<1>1. j = IF I # {} THEN Max(I) ELSE 0
  BY DEF SelectedIn, SelectLastInSeq
<1>2. n \in Nat /\ DOMAIN ev = 1..n
  BY SessionEventsLemma
<1>3. j # 0 /\ Selected(capture, ev, type) = capture[ev[j]].transforms[type]
  BY SelectedLemma
<1>4. I \in SUBSET (1..n)
  OBVIOUS
<1>5. \A i \in I : IsAnswer(capture, ev, ev[i]) /\ type \in DOMAIN capture[ev[i]].transforms
  OBVIOUS
<1> HIDE DEF I, j, n, ev
<1>6. j \in I
  BY <1>1, <1>2, <1>3, <1>4, GreatestLemma
<1> QED  BY <1>2, <1>3, <1>4, <1>5, <1>6 DEF ev

\* The frames of a session are those with its initiator SPI.
LEMMA SessionFrames ==
    ASSUME CaptureOK, NEW ispi
    PROVE  LET ev == SessionEvents(capture, ispi)
           IN  /\ ToSet(ev) = {n \in IkeEvents(capture) : capture[n].ispi = ispi}
               /\ \A k \in DOMAIN ev : ev[k] \in ToSet(ev)
<1> DEFINE E == {n \in IkeEvents(capture) : capture[n].ispi = ispi}
           ev == SessionEvents(capture, ispi)
<1>1. E \in SUBSET DOMAIN capture /\ ev = Ordered(capture, E)
  BY DEF IkeEvents, SessionEvents
<1> HIDE DEF E, ev
<1>2. InOrder(ev, Times, E)
  BY <1>1, OrderedLemma
<1>3. ToSet(ev) = E /\ \A k \in DOMAIN ev : ev[k] \in ToSet(ev)
  BY <1>2 DEF InOrder, ToSet
<1> QED  BY <1>3 DEF E, ev

\* A frame of the capture is the frame of its packet.
LEMMA FramePacket ==
    ASSUME NEW f \in Frames
    PROVE  /\ PacketOf[f] \in Packets /\ FrameOf(PacketOf[f]) = f
           /\ ObservedIn[f] = ToSet(Observations(PacketOf[f]))
<1>1. PICK p \in Packets : FrameOf(p) = f
  BY CaptureAssumption
<1> DEFINE q == CHOOSE q \in Packets : FrameOf(q) = f
<1>2. q \in Packets /\ FrameOf(q) = f
  BY <1>1
<1>3. PacketOf[f] = q
  BY Zenon DEF PacketOf
<1>4. ObservedIn[f] = ToSet(Observations(PacketOf[f]))
  BY Zenon DEF ObservedIn
<1> HIDE DEF q
<1> QED  BY <1>2, <1>3, <1>4

\* The algorithms reported of an SA were named in a message of its session that knows
\* the responder's SPI, for every capture of any packets: also one that begins in
\* mid-exchange, holds repetitions or is out of order (parse_ike_layer,
\* build_parent_ike_sa).
THEOREM SelectionIsReported == Spec => []ReportedIsSelected
<1>1. ASSUME TablesInv PROVE ReportedIsSelected
  <2> SUFFICES ASSUME NEW k \in DOMAIN tables.sessions, tables.sessions[k].sa # Absent
               PROVE  LET sa == tables.sessions[k].sa
                          session == {capture[n] : n \in ToSet(tables.sessions[k].session.frames)}
                          KnowsResponder(f) == \E o \in ObservedIn[f] :
                              o.field = "ike.responder_spi" /\ o.value # "0"
                          ChosenAs(type, algorithm) ==
                              \E f \in {g \in session : KnowsResponder(g)} : \E o \in ObservedIn[f] :
                                  /\ o.value = algorithm
                                  /\ \/ o.field = "ike.transform" /\ o.type = type
                                     \/ o.field = "ike.ke.dh_group" /\ type = "DH"
                      IN  /\ sa.encryption_algorithm # Absent => ChosenAs("ENCR", sa.encryption_algorithm)
                          /\ sa.dh_group # Absent => ChosenAs("DH", sa.dh_group)
    BY DEF ReportedIsSelected
  <2> DEFINE sa == tables.sessions[k].sa
             ispi == tables.sessions[k].session.ispi
             ev == SessionEvents(capture, ispi)
             session == {capture[n] : n \in ToSet(ev)}
             KnowsResponder(f) == \E o \in ObservedIn[f] :
                 o.field = "ike.responder_spi" /\ o.value # "0"
             SeenAs(f, type, algorithm) ==
                 \E o \in ObservedIn[f] :
                     /\ o.value = algorithm
                     /\ \/ o.field = "ike.transform" /\ o.type = type
                        \/ o.field = "ike.ke.dh_group" /\ type = "DH"
  <2>1. CaptureOK /\ IsSessionRow(tables.sessions[k], capture)
    BY <1>1, TablesOfCapture DEF TablesOK
  <2>2. /\ sa = build_parent_ike_sa(capture, ispi)
        /\ tables.sessions[k].session.frames = ev
        /\ \E n \in IkeEvents(capture) : capture[n].ispi = ispi
    BY <2>1, RowLemma
  <2>3. /\ sa.encryption_algorithm = Selected(capture, ev, "ENCR")
        /\ sa.dh_group = Selected(capture, ev, "DH")
    BY <2>1, <2>2, ParentLemma DEF Chosen
  <2>4. ASSUME NEW g \in session
        PROVE  g \in Frames /\ g.proto = "IKE" /\ g.ispi = ispi
    <3>1. PICK n \in ToSet(ev) : g = capture[n]
      OBVIOUS
    <3>2. n \in IkeEvents(capture) /\ capture[n].ispi = ispi
      BY <2>1, SessionFrames
    <3> QED  BY <2>1, <3>1, <3>2 DEF IkeEvents, CaptureOK
  <2>5. ASSUME NEW type, Selected(capture, ev, type) # Absent
        PROVE  \E f \in {g \in session : KnowsResponder(g)} :
                   SeenAs(f, type, Selected(capture, ev, type))
    <3> DEFINE algorithm == Selected(capture, ev, type)
    <3>1. PICK i \in DOMAIN ev : /\ IsAnswer(capture, ev, ev[i])
                                 /\ type \in DOMAIN capture[ev[i]].transforms
                                 /\ capture[ev[i]].transforms[type] = algorithm
      BY <2>1, <2>2, <2>5, SelectedAnswered
    <3> DEFINE f == capture[ev[i]]
    <3>2. f \in session
      BY <2>1, SessionFrames
    <3>3. f \in Frames /\ f.proto = "IKE" /\ f.ispi = ispi
      BY <2>4, <3>2
    <3>4. f.rspi /\ f.message_id = 0 /\ type \in DOMAIN f.transforms
          /\ f.transforms[type] = algorithm
      BY <3>1 DEF IsAnswer
    <3> HIDE DEF f, session, algorithm, ev, ispi
    <3>5. KnowsResponder(f)
      <4>1. /\ PacketOf[f] \in Packets /\ FrameOf(PacketOf[f]) = f
            /\ ObservedIn[f] = ToSet(Observations(PacketOf[f]))
        BY <3>3, FramePacket
      <4> QED  BY <3>3, <3>4, <4>1, ResponderObserved
    <3>6. SeenAs(f, type, algorithm)
      <4>1. /\ PacketOf[f] \in Packets /\ FrameOf(PacketOf[f]) = f
            /\ ObservedIn[f] = ToSet(Observations(PacketOf[f]))
        BY <3>3, FramePacket
      <4>2. \E o \in ToSet(Observations(PacketOf[f])) :
                /\ o.value = f.transforms[type]
                /\ \/ o.field = "ike.transform" /\ o.type = type
                   \/ o.field = "ike.ke.dh_group" /\ type = "DH"
        BY <3>3, <3>4, <4>1, TransformObserved
      <4> QED  BY <3>4, <4>1, <4>2
    <3> QED  BY <3>2, <3>5, <3>6 DEF algorithm
  <2> DEFINE encr == sa.encryption_algorithm
             dh == sa.dh_group
             ChosenAs(type, algorithm) ==
                 \E f \in {g \in session : KnowsResponder(g)} : SeenAs(f, type, algorithm)
  <2>6. encr # Absent => ChosenAs("ENCR", encr)
    BY <2>3, <2>5
  <2>7. dh # Absent => ChosenAs("DH", dh)
    BY <2>3, <2>5
  <2> QED  BY <2>2, <2>6, <2>7
<1> QED  BY <1>1, TablesInvariant, PTL

=============================================================================
