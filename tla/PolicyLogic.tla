----------------------------- MODULE PolicyLogic -----------------------------
(***************************************************************************)
(* The policy-as-code evaluator of backend/app/security/policy: Kleene's   *)
(* three-valued connectives, the allowlisted operators, and the three      *)
(* stages of _evaluate_single_subject (applicability, required evidence,   *)
(* assertion) on one fact map.                                             *)
(*                                                                         *)
(* A fact map is a function whose domain is the set of fact keys present.  *)
(* A condition is a leaf or one group of leaves, which is as deep as the   *)
(* rules of policies/rules and the compound rules of the tests go.         *)
(***************************************************************************)
EXTENDS Integers

CONSTANTS
    None,       \* Python's None: the value of a fact that was not observed
    Number,     \* what float() makes of the values it can parse
    Substring   \* the pairs <<observed, expected>> with "expected in observed"

(***************************************************************************)
(* logic.py                                                                *)
(***************************************************************************)
LogicalState == {"TRUE", "FALSE", "UNKNOWN"}

kleene_not(val) ==
    IF val = "TRUE" THEN "FALSE"
    ELSE IF val = "FALSE" THEN "TRUE" ELSE "UNKNOWN"

\* Mutant: "not every item is true" read as "some item is false".
UnknownIsFalse(items) == IF items \subseteq {"TRUE"} THEN "TRUE" ELSE "FALSE"

\* kleene_all and kleene_any fold kleene_and and kleene_or over a list; both
\* connectives are associative, commutative and idempotent, so the list is the
\* set of its members. The empty list gives the unit.
kleene_all(items) ==
    IF "FALSE" \in items THEN "FALSE"
    ELSE IF "UNKNOWN" \in items THEN "UNKNOWN" ELSE "TRUE"

kleene_any(items) ==
    IF "TRUE" \in items THEN "TRUE"
    ELSE IF "UNKNOWN" \in items THEN "UNKNOWN" ELSE "FALSE"

Truth(b) == IF b THEN "TRUE" ELSE "FALSE"

(***************************************************************************)
(* operators.py. The existence operators look at None, every other one     *)
(* answers UNKNOWN on it. Names are compared after strip().upper(): values *)
(* here are the normalized names.                                          *)
(***************************************************************************)
ExistenceOperator == {"exists", "not_exists"}
NumericOperator == {"greater_than", "greater_or_equal", "less_than", "less_or_equal"}

Compare(op, x, y) ==
    Truth(\/ op = "greater_than" /\ x > y
          \/ op = "greater_or_equal" /\ x >= y
          \/ op = "less_than" /\ x < y
          \/ op = "less_or_equal" /\ x <= y)

evaluate_operator(op, observed, expected) ==
    IF op = "exists" THEN Truth(observed # None)
    ELSE IF op = "not_exists" THEN Truth(observed = None)
    ELSE IF observed = None THEN "UNKNOWN"
    ELSE IF op = "equals" THEN Truth(observed = expected)
    ELSE IF op = "not_equals" THEN Truth(observed # expected)
    ELSE IF op = "in_set" THEN Truth(observed \in expected)
    ELSE IF op = "not_in_set" THEN Truth(observed \notin expected)
    ELSE IF op = "contains" THEN Truth(<<observed, expected>> \in Substring)
    ELSE IF op \in NumericOperator
              /\ observed \in DOMAIN Number /\ expected \in DOMAIN Number
         THEN Compare(op, Number[observed], Number[expected])
    ELSE "UNKNOWN"

(***************************************************************************)
(* evaluator.py: conditions over a fact map                                *)
(***************************************************************************)
Observed(m, key) == IF key \in DOMAIN m THEN m[key].value ELSE None

EvalLeaf(leaf, m) == evaluate_operator(leaf.op, Observed(m, leaf.field), leaf.expected)

Leaves(cond) == IF cond.form = "leaf" THEN {cond} ELSE cond.subs

States(cond, m) == {EvalLeaf(l, m) : l \in Leaves(cond)}

\* _eval_assertion and _eval_applicability; not_condition holds one leaf.
EvalCondition(cond, m) ==
    IF cond.form = "any_of" THEN kleene_any(States(cond, m))
    ELSE IF cond.form = "not_condition" THEN kleene_not(kleene_all(States(cond, m)))
    ELSE kleene_all(States(cond, m))

Fields(cond) == {l.field : l \in Leaves(cond)}

(***************************************************************************)
(* _evaluate_single_subject: the verdict, the composite evidence state and *)
(* the keys of the contributing facts.                                     *)
(***************************************************************************)
Missing(rule, m) ==
    {k \in rule.evidence_requirements :
        \/ k \notin DOMAIN m
        \/ m[k].evidence_state = "UNKNOWN"
        \/ m[k].value = None}

Applies(rule, m) ==
    rule.applicability = None \/ EvalCondition(rule.applicability, m) # "FALSE"

ApplicabilityFields(rule) ==
    IF rule.applicability = None THEN {} ELSE Fields(rule.applicability)

\* Each stage adds the facts it looks at, and a stage that decides is the last.
Contributing(rule, m) ==
    DOMAIN m \cap (ApplicabilityFields(rule)
        \cup (IF Applies(rule, m) THEN rule.evidence_requirements ELSE {})
        \cup (IF Applies(rule, m) /\ Missing(rule, m) = {}
              THEN Fields(rule.assertion) ELSE {}))

CompositeEvidence(rule, m) ==
    IF \E k \in Contributing(rule, m) : m[k].evidence_state = "INFERRED"
    THEN "INFERRED" ELSE "VERIFIED"

Verdict(rule, m) ==
    IF ~Applies(rule, m) THEN "NOT_APPLICABLE"
    ELSE IF Missing(rule, m) # {} THEN "UNKNOWN"
    ELSE IF EvalCondition(rule.assertion, m) = "TRUE" THEN "PASS"
    ELSE IF EvalCondition(rule.assertion, m) = "FALSE" THEN "FAIL"
    ELSE "UNKNOWN"

_evaluate_single_subject(rule, m) ==
    LET v == Verdict(rule, m)
    IN  [compliance_state |-> v,
         evidence_state |-> IF v = "NOT_APPLICABLE" THEN "VERIFIED"
                            ELSE IF Missing(rule, m) # {} THEN "UNKNOWN"
                            ELSE CompositeEvidence(rule, m)]

Decided == {"PASS", "FAIL"}

(***************************************************************************)
(* What three-valued evaluation is for: a verdict reached on part of the   *)
(* evidence survives the rest of it.                                       *)
(***************************************************************************)
\* m1 holds part of what m2 holds.
PartOf(m1, m2) == \A k \in DOMAIN m1 : k \in DOMAIN m2 /\ m1[k] = m2[k]

ValueRule(rule) ==
    /\ \A l \in Leaves(rule.assertion) : l.op \notin ExistenceOperator
    /\ rule.applicability # None =>
            \A l \in Leaves(rule.applicability) : l.op \notin ExistenceOperator

\* With more evidence a PASS is never a FAIL, a FAIL never a PASS, neither is
\* UNKNOWN, and a rule that does not apply still does not.
NoReversal(rule, m1, m2) ==
    /\ Verdict(rule, m1) \in Decided =>
            Verdict(rule, m2) \in {Verdict(rule, m1), "NOT_APPLICABLE"}
    /\ Verdict(rule, m1) = "NOT_APPLICABLE" => Verdict(rule, m2) = "NOT_APPLICABLE"

=============================================================================
