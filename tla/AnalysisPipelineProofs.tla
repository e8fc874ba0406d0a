----------------------- MODULE AnalysisPipelineProofs -----------------------
(***************************************************************************)
(* For any number of requests: type correctness, the serialisation of      *)
(* reconstructions by the lock on the run's row, that nothing observed is  *)
(* left out of the last one, and that an assessment is of its own run.     *)
(***************************************************************************)
EXTENDS AnalysisPipeline, TLAPS

USE PipelineAssumption

(***************************************************************************)
(* A request has no run before it has chosen one, and no rows before the   *)
(* stage that writes them.                                                 *)
(***************************************************************************)
Early     == {"idle", "insert"}
Unstored  == Early \cup {"protocol", "dissect"}
Unrebuilt == Unstored \cup {"recon", "rebuild"}
Uninferred == Unrebuilt \cup {"ml", "classify", "mlcommit"}

TargetOK ==
  \A p \in Requests :
    /\ pc[p] \in Early => target[p] = NoOne
    /\ pc[p] \in Stages \ Early => target[p] \in Requests

FreshOK ==
  \A p \in Requests :
    /\ pc[p] = "idle" => op[p] = "none"
    /\ pc[p] \in Unstored => p \notin obs
    /\ pc[p] \in Unrebuilt => rec[p] = {}
    /\ pc[p] \in Uninferred => p \notin mlsaved

\* A run's row is locked exactly while one request rebuilds the run, and that
\* request has seen every copy there is to replace.
LockOK ==
  /\ \A r \in Requests : lock[r] # NoOne => pc[lock[r]] = "rebuild" /\ target[lock[r]] = r
  /\ \A p \in Requests : pc[p] = "rebuild" =>
       lock[target[p]] = p /\ seen[p].rows = Copies(target[p])

IInv == TypeOK /\ TargetOK /\ FreshOK /\ LockOK /\ OneReconstruction

(***************************************************************************)
(* What reconstructions and assessments rest on.  A run that was deleted   *)
(* never comes back, so a request that still works on an existing run can  *)
(* rely on the rows it has stored there.                                   *)
(***************************************************************************)
Pipeline == {p \in Requests : op[p] # "view"}
Working  == {p \in Pipeline : pc[p] \in Stages \ Early /\ Exists(target[p])}
Lagging  == {"recon", "rebuild", "failed", "dead"}

RowsOK ==
  \A p \in Requests :
    /\ pc[p] \in Early => run[p].status = "absent"
    /\ target[p] \in Requests => run[target[p]].status # "absent"

\* What a request rebuilds is all there is, and nothing is added meanwhile.
ReadObsOK ==
  \A p \in Requests : pc[p] = "rebuild" => seen[p].obs = Observed(target[p])

\* A stored reconstruction misses only what a request stored that has still to
\* rebuild, or will never do so.
CoverOK ==
  \A r \in Requests : \A q \in Copies(r) :
    /\ rec[q] \subseteq Observed(r)
    /\ \A p \in Observed(r) : pc[p] \notin Lagging => p \in rec[q]

StoredOK ==
  \A p \in Working :
    /\ pc[p] \notin Unstored => p \in obs
    /\ pc[p] \notin Unrebuilt => Copies(target[p]) # {}

ReadRowsOK ==
  \A p \in Pipeline :
    /\ pc[p] \in {"flows", "persist"} => p \in seen[p].sessions
    /\ pc[p] = "persist" /\ Exists(target[p]) /\ capture = "esp" => p \in seen[p].obs

EvidenceInv ==
  /\ RowsOK /\ ReadObsOK /\ CoverOK /\ StoredOK /\ ReadRowsOK
  /\ AssessedOnOwnEvidence
-----------------------------------------------------------------------------
LEMMA SeenTypes ==
  /\ SeenNothing \in Seen
  /\ NoScore \in Scores
  /\ NoRow \in RunRows
BY DEF SeenNothing, Seen, NoScore, Scores, NoRow, RunRows, Maybe, Statuses

LEMMA RebuiltType ==
  ASSUME NEW r
  PROVE  /\ Rebuilt(r) \in Maybe
         /\ FlowsOf(r) \in Maybe
BY DEF Rebuilt, FlowsOf, Copies, Of, Maybe

LEMMA EndTypes ==
  ASSUME TypeOK, NEW p \in Requests, NEW how \in Ended, End(p, how)
  PROVE  /\ pc' \in [Requests -> Places]
         /\ inference' \in [Requests -> Inferences]
         /\ seen' \in [Requests -> Seen]
BY SeenTypes DEF TypeOK, End, Goto, Places, Inferences

LEMMA TypeStep ==
  ASSUME TypeOK, TargetOK, Next
  PROVE  TypeOK'
<1> USE SeenTypes, RebuiltType
<1> USE DEF TypeOK, Goto, At, env, rowVars, Places, Stages, Ended, Early
<1>1. ASSUME NEW p \in Requests, Create(p) PROVE TypeOK'
  BY <1>1 DEF Create, Ops
<1>2. ASSUME NEW p \in Requests, NEW r \in Requests, Reuse(p, r) PROVE TypeOK'
  BY <1>2 DEF Reuse, Ops, Maybe, RunRows, Statuses, Releases
<1>3. ASSUME NEW p \in Requests, NEW r \in Requests, Recompute(p, r) PROVE TypeOK'
  <2>1. run[r] \in RunRows
    OBVIOUS
  <2>2. run' \in [Requests -> RunRows]
    <3>1. release.pipeline \in 0..MaxReleases /\ release.policy \in 0..MaxReleases
      BY DEF Releases
    <3>2. run' = [run EXCEPT ![r] = [run[r] EXCEPT !.status = "RUNNING",
                    !.pipeline = release.pipeline, !.policy = release.policy]]
      BY <1>3 DEF Recompute
    <3> QED
      BY <2>1, <3>1, <3>2 DEF RunRows, Statuses
  <2> QED
    BY <1>3, <2>2 DEF Recompute, Ops, Maybe, RunRows
<1>4. ASSUME NEW p \in Requests, NEW r \in Requests, View(p, r) PROVE TypeOK'
  BY <1>4 DEF View, Ops, Maybe, RunRows, Statuses, Releases
<1>5. ASSUME NEW p \in Requests, NEW r \in Requests, Delete(p, r) PROVE TypeOK'
  <2>1. run' \in [Requests -> RunRows]
    BY <1>5 DEF Delete, NoRow, RunRows, Statuses
  <2>2. rec' \in [Requests -> SUBSET Requests] /\ score' \in [Requests -> Scores]
    BY <1>5 DEF Delete
  <2> QED
    BY <1>5, <2>1, <2>2 DEF Delete, Ops, Maybe, Inferences
<1>6. ASSUME NEW p \in Requests, NEW r \in Requests, NEW flag \in {"yes", "no"},
              Archive(p, r, flag) PROVE TypeOK'
  BY <1>6 DEF Archive, Ops, RunRows
<1>7. ASSUME NEW p \in Requests, NEW done \in 0..Flows, NEW skipped \in 0..Flows,
              Classify(p, done, skipped) PROVE TypeOK'
  <2>1. inference' \in [Requests -> Inferences]
    BY <1>7 DEF Classify, Outcome, Inferences
  <2>2. seen' \in [Requests -> Seen]
    <3>1. seen[p] \in Seen /\ Inferred(target[p]) \subseteq Requests
      BY DEF Inferred
    <3> QED
      BY <1>7, <3>1 DEF Classify, Seen, Maybe
  <2> QED
    BY <1>7, <2>1, <2>2 DEF Classify
<1>8. ASSUME NEW p \in Requests, InsertRun(p) PROVE TypeOK'
  <2>1. run' \in [Requests -> RunRows]
    BY <1>8 DEF InsertRun, RunRows, Statuses, Releases
  <2>2. target' \in [Requests -> Maybe]
    BY <1>8 DEF InsertRun, Maybe
  <2> QED
    BY <1>8, <2>1, <2>2 DEF InsertRun
<1>9. ASSUME NEW p \in Requests, BeginProtocol(p) PROVE TypeOK'
  <2>0. target[p] \in Requests
    BY <1>9 DEF BeginProtocol, TargetOK
  <2>1. run[target[p]] \in RunRows
    BY <2>0
  <2>2. run' \in [Requests -> RunRows]
    BY <1>9, <2>0, <2>1 DEF BeginProtocol, RunRows, Statuses, Releases
  <2> QED
    BY <1>9, <2>2 DEF BeginProtocol, Ops, Maybe, RunRows
<1>10. ASSUME NEW p \in Requests, StoreObservations(p) PROVE TypeOK'
  <2>0. target[p] \in Requests
    BY <1>10 DEF StoreObservations, TargetOK
  <2>1. run[target[p]] \in RunRows
    BY <2>0
  <2>2. run' \in [Requests -> RunRows]
    BY <1>10, <2>0, <2>1 DEF StoreObservations, RunRows, Statuses, Releases
  <2> QED
    BY <1>10, <2>2 DEF StoreObservations, Ops, Maybe, RunRows
<1>11. ASSUME NEW p \in Requests, ParserFails(p) PROVE TypeOK'
  <2>0. target[p] \in Requests
    BY <1>11 DEF ParserFails, TargetOK
  <2>1. run[target[p]] \in RunRows
    BY <2>0
  <2>2. run' \in [Requests -> RunRows]
    BY <1>11, <2>0, <2>1 DEF ParserFails, RunRows, Statuses, Releases
  <2> QED
    BY <1>11, <2>2 DEF ParserFails, Ops, Maybe, RunRows
<1>12. ASSUME NEW p \in Requests, ProtocolGone(p) PROVE TypeOK'
  BY <1>12, EndTypes DEF ProtocolGone, Gone, Fail
<1>13. ASSUME NEW p \in Requests, BeginReconstruction(p) PROVE TypeOK'
  <2>1. seen' \in [Requests -> Seen]
    <3>1. seen[p] \in Seen /\ Observed(target[p]) \subseteq Requests
                         /\ Copies(target[p]) \subseteq Requests
      BY DEF Observed, Copies, Of
    <3> QED
      BY <1>13, <3>1 DEF BeginReconstruction, Seen
  <2>2. lock' \in [Requests -> Maybe]
    BY <1>13 DEF BeginReconstruction, Maybe
  <2> QED
    BY <1>13, <2>1, <2>2 DEF BeginReconstruction
<1>14. ASSUME NEW p \in Requests, CommitReconstruction(p) PROVE TypeOK'
  <2>1. rec' \in [Requests -> SUBSET Requests] /\ classified' \in [Requests -> Maybe]
    <3>1. seen[p].obs \subseteq Requests
      BY DEF Seen
    <3> QED
      BY <1>14, <3>1 DEF CommitReconstruction, Replaced, Maybe
  <2>2. lock' \in [Requests -> Maybe]
    BY <1>14 DEF CommitReconstruction, Maybe
  <2> QED
    BY <1>14, <2>1, <2>2 DEF CommitReconstruction
<1>15. ASSUME NEW p \in Requests, ReconstructionRaises(p) PROVE TypeOK'
  <2>1. lock' \in [Requests -> Maybe]
    BY <1>15 DEF ReconstructionRaises, Maybe
  <2> QED
    BY <1>15, <2>1, EndTypes DEF ReconstructionRaises
<1>16. ASSUME NEW p \in Requests, KnownAtOnce(p) PROVE TypeOK'
  <2>1. inference' \in [Requests -> Inferences]
    BY <1>16 DEF KnownAtOnce, Inferences
  <2>2. seen' \in [Requests -> Seen]
    <3>1. seen[p] \in Seen /\ Inferred(target[p]) \subseteq Requests
      BY DEF Inferred
    <3> QED
      BY <1>16, <3>1 DEF KnownAtOnce, Seen
  <2> QED
    BY <1>16, <2>1, <2>2 DEF KnownAtOnce
<1>17. ASSUME NEW p \in Requests, BeginInference(p) PROVE TypeOK'
  <2>1. seen[p] \in Seen
    OBVIOUS
  <2>2. seen' \in [Requests -> Seen]
    BY <1>17, <2>1 DEF BeginInference, Seen, Maybe
  <2> QED
    BY <1>17, <2>2 DEF BeginInference, Maybe, Inferences
<1>18. ASSUME NEW p \in Requests, InferenceRaises(p) PROVE TypeOK'
  BY <1>18 DEF InferenceRaises
<1>19. ASSUME NEW p \in Requests, CommitInference(p) PROVE TypeOK'
  <2>1. current' \subseteq Requests
    BY <1>19 DEF CommitInference, Switched
  <2>2. classified' \in [Requests -> Maybe]
    BY <1>19 DEF CommitInference, Seen
  <2> QED
    BY <1>19, <2>1, <2>2 DEF CommitInference
<1>20. ASSUME NEW p \in Requests, InferenceRejected(p) PROVE TypeOK'
  BY <1>20 DEF InferenceRejected, Inferences
<1>21. ASSUME NEW p \in Requests, InferenceGone(p) PROVE TypeOK'
  BY <1>21, EndTypes DEF InferenceGone, Gone, Fail
<1>22. ASSUME NEW p \in Requests, AlreadyAssessed(p) PROVE TypeOK'
  BY <1>22, EndTypes DEF AlreadyAssessed, Finish
<1>23. ASSUME NEW p \in Requests, CheckAssessment(p) PROVE TypeOK'
  BY <1>23 DEF CheckAssessment
<1>24. ASSUME NEW p \in Requests, ReadSessions(p) PROVE TypeOK'
  <2>1. seen[p] \in Seen /\ Behind(Rebuilt(target[p])) \subseteq Requests
    BY DEF Behind, Maybe
  <2>2. seen' \in [Requests -> Seen]
    BY <1>24, <2>1 DEF ReadSessions, Seen
  <2> QED
    BY <1>24, <2>2 DEF ReadSessions
<1>25. ASSUME NEW p \in Requests, ReadFlows(p) PROVE TypeOK'
  <2>1. seen[p] \in Seen /\ Behind(FlowsOf(target[p])) \subseteq Requests
    BY DEF Behind, Maybe
  <2>2. seen' \in [Requests -> Seen]
    BY <1>25, <2>1 DEF ReadFlows, Seen
  <2> QED
    BY <1>25, <2>2 DEF ReadFlows
<1>26. ASSUME NEW p \in Requests, AssessmentGone(p) PROVE TypeOK'
  BY <1>26, EndTypes DEF AssessmentGone, Gone, Fail
<1>27. ASSUME NEW p \in Requests, AssessmentRaises(p) PROVE TypeOK'
  BY <1>27, EndTypes DEF AssessmentRaises, Fail, Finish
<1>28. ASSUME NEW p \in Requests, CommitAssessment(p) PROVE TypeOK'
  <2>1. score' \in [Requests -> Scores]
    <3>1. seen[p] \in Seen /\ release.policy \in 0..MaxReleases
      BY DEF Releases
    <3> QED
      BY <1>28, <3>1 DEF CommitAssessment, Seen, Scores
  <2> QED
    BY <1>28, <2>1 DEF CommitAssessment
<1>29. ASSUME NEW new \in Releases, Restart(new) PROVE TypeOK'
  BY <1>29 DEF Restart, Maybe, Inferences
<1> HIDE DEF TypeOK, Goto, At, env, rowVars, Places, Stages, Ended, Early
<1>30. ASSUME NEW p \in Requests, Arrive(p) PROVE TypeOK'
  BY <1>30, <1>1, <1>2, <1>3, <1>4, <1>5, <1>6 DEF Arrive
<1>31. ASSUME NEW p \in Requests, Step(p) PROVE TypeOK'
  BY <1>31, <1>7, <1>8, <1>9, <1>10, <1>11, <1>12, <1>13, <1>14, <1>15, <1>16, <1>17, <1>18,
     <1>19, <1>20, <1>21, <1>22, <1>23, <1>24, <1>25, <1>26, <1>27, <1>28 DEF Step
<1> QED
  BY <1>29, <1>30, <1>31 DEF Next

-----------------------------------------------------------------------------
LEMMA TargetStep ==
  ASSUME TypeOK, TargetOK, Next
  PROVE  TargetOK'
<1> USE DEF TypeOK, TargetOK, Goto, At, env, rowVars, Places, Stages, Ended, Early
<1>1. ASSUME NEW p \in Requests, Arrive(p) PROVE TargetOK'
  <2>1. CASE Create(p)
    BY <2>1 DEF Create
  <2>2. ASSUME NEW r \in Requests, Reuse(p, r) \/ Recompute(p, r) \/ View(p, r)
        PROVE  TargetOK'
    BY <2>2 DEF Reuse, Recompute, View
  <2>3. ASSUME NEW r \in Requests, Delete(p, r) PROVE TargetOK'
    BY <2>3 DEF Delete
  <2>4. ASSUME NEW r \in Requests, NEW flag, Archive(p, r, flag) PROVE TargetOK'
    BY <2>4 DEF Archive
  <2> QED
    BY <1>1, <2>1, <2>2, <2>3, <2>4 DEF Arrive
<1>2. ASSUME NEW p \in Requests, Step(p) PROVE TargetOK'
  <2>1. CASE InsertRun(p)
    BY <2>1 DEF InsertRun
  <2>2. CASE \/ BeginProtocol(p) \/ StoreObservations(p) \/ ParserFails(p) \/ ProtocolGone(p)
    BY <2>2 DEF BeginProtocol, StoreObservations, ParserFails, ProtocolGone, Gone, Fail, End
  <2>3. CASE \/ BeginReconstruction(p) \/ CommitReconstruction(p) \/ ReconstructionRaises(p)
    BY <2>3 DEF BeginReconstruction, CommitReconstruction, ReconstructionRaises, End
  <2>4. CASE \/ KnownAtOnce(p) \/ BeginInference(p) \/ InferenceRaises(p)
             \/ \E done, skipped \in 0..Flows : Classify(p, done, skipped)
    BY <2>4 DEF KnownAtOnce, BeginInference, InferenceRaises, Classify
  <2>5. CASE \/ CommitInference(p) \/ InferenceRejected(p) \/ InferenceGone(p)
    BY <2>5 DEF CommitInference, InferenceRejected, InferenceGone, Gone, Fail, End
  <2>6. CASE \/ AlreadyAssessed(p) \/ CheckAssessment(p) \/ ReadSessions(p) \/ ReadFlows(p)
    BY <2>6 DEF AlreadyAssessed, CheckAssessment, ReadSessions, ReadFlows, Finish, End
  <2>7. CASE \/ AssessmentGone(p) \/ AssessmentRaises(p) \/ CommitAssessment(p)
    BY <2>7 DEF AssessmentGone, AssessmentRaises, CommitAssessment, Gone, Fail, Finish, End
  <2> QED
    BY <1>2, <2>1, <2>2, <2>3, <2>4, <2>5, <2>6, <2>7 DEF Step
<1>3. ASSUME NEW new \in Releases, Restart(new) PROVE TargetOK'
  BY <1>3 DEF Restart
<1> QED
  BY <1>1, <1>2, <1>3 DEF Next

LEMMA FreshStep ==
  ASSUME TypeOK, TargetOK, FreshOK, Next
  PROVE  FreshOK'
<1> USE DEF TypeOK, FreshOK, Goto, At, env, rowVars, Places, Stages, Ended, Early,
            Unstored, Unrebuilt, Uninferred
<1>1. ASSUME NEW p \in Requests, Arrive(p) PROVE FreshOK'
  <2>1. CASE Create(p)
    BY <2>1 DEF Create
  <2>2. ASSUME NEW r \in Requests, Reuse(p, r) \/ Recompute(p, r) \/ View(p, r)
        PROVE  FreshOK'
    BY <2>2 DEF Reuse, Recompute, View
  <2>3. ASSUME NEW r \in Requests, Delete(p, r) PROVE FreshOK'
    BY <2>3 DEF Delete
  <2>4. ASSUME NEW r \in Requests, NEW flag, Archive(p, r, flag) PROVE FreshOK'
    BY <2>4 DEF Archive
  <2> QED
    BY <1>1, <2>1, <2>2, <2>3, <2>4 DEF Arrive
<1>2. ASSUME NEW p \in Requests, Step(p) PROVE FreshOK'
  <2>1. CASE InsertRun(p)
    BY <2>1 DEF InsertRun
  <2>2. CASE \/ BeginProtocol(p) \/ StoreObservations(p) \/ ParserFails(p) \/ ProtocolGone(p)
    BY <2>2 DEF BeginProtocol, StoreObservations, ParserFails, ProtocolGone, Gone, Fail, End
  <2>3. CASE BeginReconstruction(p) \/ ReconstructionRaises(p)
    BY <2>3 DEF BeginReconstruction, ReconstructionRaises, End
  <2>4. CASE CommitReconstruction(p)
    BY <2>4 DEF CommitReconstruction, Replaced
  <2>5. CASE \/ KnownAtOnce(p) \/ BeginInference(p) \/ InferenceRaises(p)
             \/ \E done, skipped \in 0..Flows : Classify(p, done, skipped)
    BY <2>5 DEF KnownAtOnce, BeginInference, InferenceRaises, Classify
  <2>6. CASE \/ CommitInference(p) \/ InferenceRejected(p) \/ InferenceGone(p)
    BY <2>6 DEF CommitInference, InferenceRejected, InferenceGone, Gone, Fail, End
  <2>7. CASE \/ AlreadyAssessed(p) \/ CheckAssessment(p) \/ ReadSessions(p) \/ ReadFlows(p)
    BY <2>7 DEF AlreadyAssessed, CheckAssessment, ReadSessions, ReadFlows, Finish, End
  <2>8. CASE AssessmentGone(p) \/ AssessmentRaises(p)
    BY <2>8 DEF AssessmentGone, AssessmentRaises, Gone, Fail, Finish, End
  <2>9. CASE CommitAssessment(p)
    BY <2>9 DEF CommitAssessment
  <2> QED
    BY <1>2, <2>1, <2>2, <2>3, <2>4, <2>5, <2>6, <2>7, <2>8, <2>9 DEF Step
<1>3. ASSUME NEW new \in Releases, Restart(new) PROVE FreshOK'
  BY <1>3 DEF Restart
<1> QED
  BY <1>1, <1>2, <1>3 DEF Next

(***************************************************************************)
(* A request that takes up a run has no rows yet, so the run's copies stay *)
(* what they are unless a reconstruction is committed or a run deleted.    *)
(***************************************************************************)
LEMMA CopiesKept ==
  ASSUME NEW p \in Requests, rec[p] = {}, rec' = rec,
         \A q \in Requests \ {p} : target'[q] = target[q],
         NEW r
  PROVE  Copies(r)' = Copies(r)
BY DEF Copies, Of

\* A step that locks nothing, unlocks nothing and leaves the copies alone.
LEMMA CalmStep ==
  ASSUME TypeOK, TypeOK', LockOK, OneReconstruction, lock' = lock,
         \A r \in Requests : Copies(r)' = Copies(r),
         \A q \in Requests : pc[q] = "rebuild" <=> pc'[q] = "rebuild",
         \A q \in Requests : pc[q] = "rebuild" =>
            target'[q] = target[q] /\ target[q] \in Requests /\ seen'[q] = seen[q]
  PROVE  LockOK' /\ OneReconstruction'
BY DEF LockOK, OneReconstruction, TypeOK, Maybe

LEMMA LockStep ==
  ASSUME TypeOK, TypeOK', TargetOK, FreshOK, LockOK, OneReconstruction, Next
  PROVE  LockOK' /\ OneReconstruction'
<1> USE DEF Goto, At, env, rowVars
<1>a. ASSUME lock' = lock, rec' = rec, target' = target, NEW p \in Requests,
             NEW place, place # "rebuild", pc[p] # "rebuild",
             pc' = [pc EXCEPT ![p] = place],
             \A q \in Requests \ {p} : seen'[q] = seen[q]
      PROVE  LockOK' /\ OneReconstruction'
  <2>1. \A r \in Requests : Copies(r)' = Copies(r)
    BY <1>a DEF Copies, Of
  <2>2. \A q \in Requests : pc[q] = "rebuild" => target[q] \in Requests
    BY DEF TargetOK, Stages, Early
  <2> QED
    BY <1>a, <2>1, <2>2, CalmStep DEF TypeOK
<1>b. ASSUME lock' = lock, rec' = rec, NEW p \in Requests, pc[p] \in Early,
             NEW place, place # "rebuild", pc' = [pc EXCEPT ![p] = place],
             \A q \in Requests \ {p} : target'[q] = target[q], seen' = seen
      PROVE  LockOK' /\ OneReconstruction'
  <2>1. rec[p] = {}
    BY <1>b DEF FreshOK, Unstored, Unrebuilt
  <2>2. \A r \in Requests : Copies(r)' = Copies(r)
    BY <1>b, <2>1, CopiesKept
  <2>3. \A q \in Requests : pc[q] = "rebuild" => target[q] \in Requests
    BY DEF TargetOK, Stages, Early
  <2> QED
    BY <1>b, <2>2, <2>3, CalmStep DEF TypeOK, Early
<1>1. ASSUME NEW p \in Requests, Arrive(p) PROVE LockOK' /\ OneReconstruction'
  <2>1. CASE Create(p)
    BY <2>1, <1>b DEF Create, Early
  <2>2. ASSUME NEW r \in Requests, Reuse(p, r) \/ Recompute(p, r) \/ View(p, r)
        PROVE  LockOK' /\ OneReconstruction'
    BY <2>2, <1>b DEF Reuse, Recompute, View, Early, TypeOK
  <2>3. ASSUME NEW r \in Requests, NEW flag, Archive(p, r, flag)
        PROVE  LockOK' /\ OneReconstruction'
    BY <2>3, <1>b DEF Archive, Early
  <2>4. ASSUME NEW r \in Requests, Delete(p, r) PROVE LockOK' /\ OneReconstruction'
    <3>1. \A s \in Requests \ {r} : Copies(s)' = Copies(s)
      BY <2>4 DEF Delete, Copies, Of
    <3>2. Copies(r)' = {}
      BY <2>4 DEF Delete, Copies, Of
    <3>3. \A q \in Requests : pc[q] = "rebuild" =>
            target[q] \in Requests /\ target[q] # r
      BY <2>4 DEF Delete, CanUpdate, LockOK, TargetOK, Stages, Early
    <3>4. LockOK'
      BY <2>4, <3>1, <3>3 DEF Delete, LockOK, TypeOK, Maybe
    <3> QED
      BY <3>1, <3>2, <3>4 DEF OneReconstruction
  <2> QED
    BY <1>1, <2>1, <2>2, <2>3, <2>4 DEF Arrive
<1>2. ASSUME NEW p \in Requests, Step(p) PROVE LockOK' /\ OneReconstruction'
  <2>0. pc[p] \in Stages \ Early => target[p] \in Requests
    BY DEF TargetOK
  <2>1. CASE InsertRun(p)
    BY <2>1, <1>b DEF InsertRun, Early, TypeOK
  <2>2. CASE \/ BeginProtocol(p) \/ StoreObservations(p) \/ ParserFails(p) \/ ProtocolGone(p)
    BY <2>2, <1>a DEF BeginProtocol, StoreObservations, ParserFails, ProtocolGone, Gone,
       Fail, End, TypeOK
  <2>3. CASE BeginReconstruction(p)
    <3> DEFINE t == target[p]
    <3>1. t \in Requests /\ lock[t] = NoOne
      BY <2>0, <2>3 DEF BeginReconstruction, CanUpdate, Stages, Early
    <3>2. \A r \in Requests : Copies(r)' = Copies(r)
      BY <2>3 DEF BeginReconstruction, Copies, Of
    <3>3. \A q \in Requests : pc[q] = "rebuild" =>
            target[q] \in Requests /\ target[q] # t
      BY <3>1 DEF LockOK, TargetOK, Stages, Early
    <3>4. seen'[p].rows = Copies(t) /\ \A q \in Requests \ {p} : seen'[q] = seen[q]
      BY <2>3 DEF BeginReconstruction, TypeOK, Seen
    <3>5. LockOK'
      BY <2>3, <3>1, <3>2, <3>3, <3>4 DEF BeginReconstruction, LockOK, TypeOK, Maybe
    <3> QED
      BY <3>2, <3>5 DEF OneReconstruction
  <2>4. CASE CommitReconstruction(p)
    <3> DEFINE t == target[p]
    <3>1. t \in Requests /\ lock[t] = p /\ seen[p].rows = Copies(t)
      BY <2>0, <2>4 DEF CommitReconstruction, LockOK, Stages, Early
    <3>2. ASSUME NEW r \in Requests, r # t PROVE Copies(r)' = Copies(r) /\ lock[r] # p
      <4>1. lock[r] # p
        BY <3>2 DEF LockOK
      <4>2. \A q \in Of(r) : q # p /\ q \notin seen[p].rows
        BY <3>1, <3>2 DEF Copies, Of
      <4>3. Of(r)' = Of(r) /\ \A q \in Of(r) : rec'[q] = rec[q]
        BY <2>4, <4>2 DEF CommitReconstruction, Replaced, Of
      <4> QED
        BY <4>1, <4>3 DEF Copies
    <3>3. \A r \in Requests : r = t => Copies(r)' \subseteq {p}
      BY <2>4, <3>1 DEF CommitReconstruction, Replaced, Copies, Of
    <3>4. \A q \in Requests \ {p} : pc[q] = "rebuild" =>
            target[q] \in Requests /\ target[q] # t
      BY <3>1 DEF LockOK, TargetOK, Stages, Early
    <3>5. LockOK'
      BY <2>4, <3>1, <3>2, <3>4 DEF CommitReconstruction, LockOK, TypeOK, Maybe
    <3>6. ASSUME NEW r \in Requests, NEW x \in Copies(r)', NEW y \in Copies(r)'
          PROVE  x = y
      <4>1. CASE r = t
        BY <4>1, <3>3, <3>6
      <4>2. CASE r # t
        BY <4>2, <3>2, <3>6 DEF OneReconstruction
      <4> QED
        BY <4>1, <4>2
    <3> QED
      BY <3>5, <3>6 DEF OneReconstruction
  <2>5. CASE ReconstructionRaises(p)
    <3>1. target[p] \in Requests /\ lock[target[p]] = p
      BY <2>0, <2>5 DEF ReconstructionRaises, LockOK, Stages, Early
    <3>2. \A r \in Requests : Copies(r)' = Copies(r)
      BY <2>5 DEF ReconstructionRaises, Copies, Of
    <3>3. \A q \in Requests \ {p} : pc[q] = "rebuild" => target[q] \in Requests
      BY DEF TargetOK, Stages, Early
    <3>4. LockOK'
      BY <2>5, <3>1, <3>2, <3>3 DEF ReconstructionRaises, End, LockOK, TypeOK, Maybe
    <3> QED
      BY <3>2, <3>4 DEF OneReconstruction
  <2>6. CASE \/ KnownAtOnce(p) \/ BeginInference(p) \/ InferenceRaises(p)
             \/ \E done, skipped \in 0..Flows : Classify(p, done, skipped)
    BY <2>6, <1>a DEF KnownAtOnce, BeginInference, InferenceRaises, Classify, TypeOK
  <2>7. CASE \/ CommitInference(p) \/ InferenceRejected(p) \/ InferenceGone(p)
    BY <2>7, <1>a DEF CommitInference, InferenceRejected, InferenceGone, Gone, Fail, End,
       TypeOK
  <2>8. CASE \/ AlreadyAssessed(p) \/ CheckAssessment(p) \/ ReadSessions(p) \/ ReadFlows(p)
    BY <2>8, <1>a DEF AlreadyAssessed, CheckAssessment, ReadSessions, ReadFlows, Finish,
       End, TypeOK
  <2>9. CASE \/ AssessmentGone(p) \/ AssessmentRaises(p) \/ CommitAssessment(p)
    BY <2>9, <1>a DEF AssessmentGone, AssessmentRaises, CommitAssessment, Gone, Fail,
       Finish, End, TypeOK
  <2> QED
    BY <1>2, <2>1, <2>2, <2>3, <2>4, <2>5, <2>6, <2>7, <2>8, <2>9 DEF Step
<1>3. ASSUME NEW new \in Releases, Restart(new) PROVE LockOK' /\ OneReconstruction'
  <2>1. \A r \in Requests : Copies(r)' = Copies(r)
    BY <1>3 DEF Restart, Copies, Of
  <2>2. \A q \in Requests : pc'[q] # "rebuild"
    BY <1>3 DEF Restart, Stages
  <2> QED
    BY <1>3, <2>1, <2>2 DEF Restart, LockOK, OneReconstruction, TypeOK
<1> QED
  BY <1>1, <1>2, <1>3 DEF Next

-----------------------------------------------------------------------------
(***************************************************************************)
(* The evidence of reconstructions and assessments.                        *)
(***************************************************************************)
LEMMA RowsStep ==
  ASSUME IInv, RowsOK, Next
  PROVE  RowsOK'
<1> USE DEF IInv, TypeOK, TargetOK, RowsOK, Goto, At, env, rowVars, Stages, Ended, Early
<1>1. ASSUME NEW p \in Requests, Arrive(p) PROVE RowsOK'
  <2>1. CASE Create(p)
    BY <2>1 DEF Create
  <2>2. ASSUME NEW r \in Requests, Reuse(p, r) PROVE RowsOK'
    BY <2>2 DEF Reuse, Reusable
  <2>3. ASSUME NEW r \in Requests, View(p, r) PROVE RowsOK'
    BY <2>3 DEF View, Exists
  <2>4. ASSUME NEW r \in Requests, Recompute(p, r) PROVE RowsOK'
    <3>1. run[r].status # "absent" /\ \A q \in Requests :
            /\ run'[q].status # run[q].status => q = r
            /\ run'[r].status = "RUNNING"
      BY <2>4 DEF Recompute, Exists, RunRows
    <3> QED
      BY <2>4, <3>1 DEF Recompute
  <2>5. ASSUME NEW r \in Requests, Delete(p, r) PROVE RowsOK'
    BY <2>5 DEF Delete, Exists, NoRow
  <2>6. ASSUME NEW r \in Requests, NEW flag, Archive(p, r, flag) PROVE RowsOK'
    <3>1. \A q \in Requests : run'[q].status = run[q].status
      BY <2>6 DEF Archive, RunRows
    <3> QED
      BY <2>6, <3>1 DEF Archive
  <2> QED
    BY <1>1, <2>1, <2>2, <2>3, <2>4, <2>5, <2>6 DEF Arrive
<1>2. ASSUME NEW p \in Requests, Step(p) PROVE RowsOK'
  <2>1. CASE InsertRun(p)
    BY <2>1 DEF InsertRun
  <2>2. CASE BeginProtocol(p) \/ StoreObservations(p) \/ ParserFails(p)
    <3>1. target[p] \in Requests /\ run[target[p]].status # "absent"
      BY <2>2 DEF BeginProtocol, StoreObservations, ParserFails
    <3>2. /\ \A q \in Requests \ {target[p]} : run'[q] = run[q]
          /\ run'[target[p]].status # "absent"
      BY <2>2, <3>1 DEF BeginProtocol, StoreObservations, ParserFails, RunRows
    <3>3. target' = target /\ \A q \in Requests : pc'[q] \in Early => pc'[q] = pc[q]
      BY <2>2 DEF BeginProtocol, StoreObservations, ParserFails
    <3> QED
      BY <3>1, <3>2, <3>3
  <2>3. CASE \/ ProtocolGone(p) \/ InferenceGone(p) \/ AssessmentGone(p)
             \/ AssessmentRaises(p) \/ AlreadyAssessed(p) \/ ReconstructionRaises(p)
    BY <2>3 DEF ProtocolGone, InferenceGone, AssessmentGone, AssessmentRaises,
       AlreadyAssessed, ReconstructionRaises, Gone, Fail, Finish, End
  <2>4. CASE \/ BeginReconstruction(p) \/ CommitReconstruction(p) \/ KnownAtOnce(p)
             \/ BeginInference(p) \/ InferenceRaises(p)
             \/ \E done, skipped \in 0..Flows : Classify(p, done, skipped)
    BY <2>4 DEF BeginReconstruction, CommitReconstruction, KnownAtOnce, BeginInference,
       InferenceRaises, Classify
  <2>5. CASE \/ CommitInference(p) \/ InferenceRejected(p) \/ CheckAssessment(p)
             \/ ReadSessions(p) \/ ReadFlows(p) \/ CommitAssessment(p)
    BY <2>5 DEF CommitInference, InferenceRejected, CheckAssessment, ReadSessions,
       ReadFlows, CommitAssessment
  <2> QED
    BY <1>2, <2>1, <2>2, <2>3, <2>4, <2>5 DEF Step
<1>3. ASSUME NEW new \in Releases, Restart(new) PROVE RowsOK'
  BY <1>3 DEF Restart
<1> QED
  BY <1>1, <1>2, <1>3 DEF Next

\* A run that is not there any more stays away.
LEMMA NeverRevived ==
  ASSUME IInv, RowsOK, Next, NEW r \in Requests, run[r].status # "absent", Exists(r)'
  PROVE  Exists(r)
<1> USE DEF IInv, TypeOK, Exists, At, env, rowVars
<1>1. ASSUME NEW p \in Requests, Arrive(p), ~Exists(r) PROVE run'[r] = run[r]
  <2>1. CASE Create(p)
    BY <2>1 DEF Create
  <2>2. ASSUME NEW x \in Requests, Reuse(p, x) \/ View(p, x) PROVE run'[r] = run[r]
    BY <2>2 DEF Reuse, View
  <2>3. ASSUME NEW x \in Requests, Recompute(p, x) \/ Delete(p, x) PROVE run'[r] = run[r]
    BY <1>1, <2>3 DEF Recompute, Delete
  <2>4. ASSUME NEW x \in Requests, NEW flag, Archive(p, x, flag) PROVE run'[r] = run[r]
    BY <1>1, <2>4 DEF Archive
  <2> QED
    BY <1>1, <2>1, <2>2, <2>3, <2>4 DEF Arrive
<1>2. ASSUME NEW p \in Requests, Step(p), ~Exists(r) PROVE run'[r] = run[r]
  <2>1. CASE InsertRun(p)
    BY <2>1 DEF InsertRun, RowsOK, Early
  <2>2. CASE BeginProtocol(p) \/ StoreObservations(p) \/ ParserFails(p)
    BY <1>2, <2>2 DEF BeginProtocol, StoreObservations, ParserFails
  <2>3. CASE ~InsertRun(p) /\ ~BeginProtocol(p) /\ ~StoreObservations(p) /\ ~ParserFails(p)
    BY <1>2, <2>3 DEF Step, ProtocolGone, InferenceGone, AssessmentGone, AssessmentRaises,
       AlreadyAssessed, ReconstructionRaises, Gone, Fail, Finish, BeginReconstruction,
       CommitReconstruction, KnownAtOnce, BeginInference, InferenceRaises, Classify,
       CommitInference, InferenceRejected, CheckAssessment, ReadSessions, ReadFlows,
       CommitAssessment
  <2> QED
    BY <2>1, <2>2, <2>3
<1>3. ASSUME NEW new \in Releases, Restart(new) PROVE run'[r] = run[r]
  BY <1>3 DEF Restart
<1> QED
  BY <1>1, <1>2, <1>3 DEF Next

(***************************************************************************)
(* The observations of a run change only by a StoreObservations of a       *)
(* request that works on it, or with the run.                              *)
(***************************************************************************)
LEMMA ObservedKept ==
  ASSUME NEW p \in Requests, obs' = obs, p \notin obs,
         \A q \in Requests \ {p} : target'[q] = target[q],
         NEW r
  PROVE  Observed(r)' = Observed(r)
BY DEF Observed, Of

\* What an arriving request and an insert leave alone.
LEMMA EarlyStep ==
  ASSUME IInv, NEW p \in Requests,
         \/ Create(p) \/ InsertRun(p)
         \/ \E r \in Requests : \/ Reuse(p, r) \/ Recompute(p, r) \/ View(p, r)
                                \/ \E flag \in {"yes", "no"} : Archive(p, r, flag)
  PROVE  /\ pc[p] \in Early /\ p \notin obs /\ rec[p] = {}
         /\ pc' = [pc EXCEPT ![p] = pc'[p]] /\ pc'[p] \in {"insert", "protocol", "assess", "done"}
         /\ \A q \in Requests \ {p} : target'[q] = target[q] /\ op'[q] = op[q]
         /\ UNCHANGED <<capture, rowVars, seen, lock>>
         /\ pc'[p] = "assess" => op'[p] = "view"
         /\ pc[p] # "idle" => op'[p] = op[p]
         /\ \A r \in Requests : Observed(r)' = Observed(r) /\ Copies(r)' = Copies(r)
<1> USE DEF IInv, TypeOK, Goto, At, env, rowVars, Early
<1>1. pc[p] \in Early
  BY DEF Create, InsertRun, Reuse, Recompute, View, Archive
<1>2. p \notin obs /\ rec[p] = {}
  BY <1>1 DEF FreshOK, Unstored, Unrebuilt
<1>3. /\ pc' = [pc EXCEPT ![p] = pc'[p]] /\ pc'[p] \in {"insert", "protocol", "assess", "done"}
      /\ \A q \in Requests \ {p} : target'[q] = target[q] /\ op'[q] = op[q]
      /\ UNCHANGED <<capture, rowVars, seen, lock>>
      /\ pc'[p] = "assess" => op'[p] = "view"
      /\ pc[p] # "idle" => op'[p] = op[p]
  <2>1. CASE Create(p)
    BY <2>1 DEF Create
  <2>2. CASE InsertRun(p)
    BY <2>2 DEF InsertRun
  <2>3. ASSUME NEW r \in Requests, Reuse(p, r) PROVE <1>3
    BY <2>3 DEF Reuse
  <2>4. ASSUME NEW r \in Requests, View(p, r) PROVE <1>3
    BY <2>4 DEF View
  <2>5. ASSUME NEW r \in Requests, Recompute(p, r) PROVE <1>3
    BY <2>5 DEF Recompute
  <2>6. ASSUME NEW r \in Requests, NEW flag, Archive(p, r, flag) PROVE <1>3
    BY <2>6 DEF Archive
  <2> QED
    BY <2>1, <2>2, <2>3, <2>4, <2>5, <2>6
<1>4. \A r \in Requests : Observed(r)' = Observed(r) /\ Copies(r)' = Copies(r)
  BY <1>2, <1>3, ObservedKept, CopiesKept
<1> QED
  BY <1>1, <1>2, <1>3, <1>4

\* What the stages leave alone that neither store observations nor rebuild.
Calm(p) ==
  \/ BeginProtocol(p) \/ ParserFails(p) \/ ProtocolGone(p) \/ ReconstructionRaises(p)
  \/ KnownAtOnce(p) \/ BeginInference(p) \/ InferenceRaises(p)
  \/ \E done, skipped \in 0..Flows : Classify(p, done, skipped)
  \/ CommitInference(p) \/ InferenceRejected(p) \/ InferenceGone(p)
  \/ AlreadyAssessed(p) \/ CheckAssessment(p) \/ ReadSessions(p) \/ ReadFlows(p)
  \/ AssessmentGone(p) \/ AssessmentRaises(p) \/ CommitAssessment(p)

LEMMA CalmEffect ==
  ASSUME TypeOK, NEW p \in Requests, Calm(p)
  PROVE  /\ UNCHANGED <<capture, op, target, obs, rec>>
         /\ pc[p] \in Stages \ Early
         /\ pc' = [pc EXCEPT ![p] = pc'[p]]
         /\ pc'[p] \in {"dissect", "mlcommit", "classify", "assess", "sessions", "flows",
                        "persist", "done", "failed"}
         /\ pc[p] = "protocol" => pc'[p] \in {"dissect", "failed"}
         /\ pc'[p] = "dissect" => pc[p] = "protocol"
         /\ pc[p] \in {"dissect", "recon", "rebuild"} => pc'[p] = "failed"
         /\ pc'[p] = "flows" => pc[p] = "sessions" /\ ReadSessions(p)
         /\ pc'[p] = "persist" => pc[p] = "flows" /\ ReadFlows(p)
         /\ \A q \in Requests \ {p} : seen'[q] = seen[q] /\ score'[q] = score[q]
         /\ score'[p] # score[p] => CommitAssessment(p)
<1> USE DEF TypeOK, Goto, At, env, rowVars, Stages, Early
<1>1. CASE BeginProtocol(p) \/ ParserFails(p) \/ ProtocolGone(p) \/ ReconstructionRaises(p)
  BY <1>1 DEF BeginProtocol, ParserFails, ProtocolGone, ReconstructionRaises, Gone, Fail, End
<1>2. CASE \/ KnownAtOnce(p) \/ BeginInference(p) \/ InferenceRaises(p)
           \/ \E done, skipped \in 0..Flows : Classify(p, done, skipped)
  BY <1>2 DEF KnownAtOnce, BeginInference, InferenceRaises, Classify
<1>3. CASE CommitInference(p) \/ InferenceRejected(p) \/ InferenceGone(p)
  BY <1>3 DEF CommitInference, InferenceRejected, InferenceGone, Gone, Fail, End
<1>4. CASE AlreadyAssessed(p) \/ CheckAssessment(p) \/ ReadSessions(p) \/ ReadFlows(p)
  BY <1>4 DEF AlreadyAssessed, CheckAssessment, ReadSessions, ReadFlows, Finish, End
<1>5. CASE AssessmentGone(p) \/ AssessmentRaises(p)
  BY <1>5 DEF AssessmentGone, AssessmentRaises, Gone, Fail, Finish, End
<1>6. CASE CommitAssessment(p)
  BY <1>6 DEF CommitAssessment
<1> QED
  BY <1>1, <1>2, <1>3, <1>4, <1>5, <1>6 DEF Calm

\* The steps, by what they do to the rows of a run.
LEMMA StepKinds ==
  ASSUME Next
  PROVE  \/ \E p \in Requests :
              \/ Create(p) \/ InsertRun(p)
              \/ \E r \in Requests : \/ Reuse(p, r) \/ Recompute(p, r) \/ View(p, r)
                                     \/ \E flag \in {"yes", "no"} : Archive(p, r, flag)
         \/ \E p, r \in Requests : Delete(p, r)
         \/ \E p \in Requests : StoreObservations(p)
         \/ \E p \in Requests : BeginReconstruction(p)
         \/ \E p \in Requests : CommitReconstruction(p)
         \/ \E p \in Requests : Calm(p)
         \/ \E new \in Releases : Restart(new)
BY DEF Next, Arrive, Step, Calm

LEMMA StillWorking ==
  ASSUME IInv, RowsOK, Next, NEW q \in Requests, op'[q] = op[q], target'[q] = target[q],
         pc[q] \in Stages \ Early, Exists(target[q])'
  PROVE  target[q] \in Requests /\ Exists(target[q])
<1>1. target[q] \in Requests /\ run[target[q]].status # "absent"
  BY DEF IInv, TargetOK, RowsOK
<1> QED
  BY <1>1, NeverRevived DEF Exists

LEMMA EvidenceArrives ==
  ASSUME IInv, EvidenceInv, Next, NEW p \in Requests,
         \/ Create(p) \/ InsertRun(p)
         \/ \E r \in Requests : \/ Reuse(p, r) \/ Recompute(p, r) \/ View(p, r)
                                \/ \E flag \in {"yes", "no"} : Archive(p, r, flag)
  PROVE  /\ ReadObsOK' /\ CoverOK' /\ StoredOK' /\ ReadRowsOK' /\ AssessedOnOwnEvidence'
<1> DEFINE Kept == /\ pc[p] \in Early /\ p \notin obs /\ rec[p] = {}
                   /\ pc' = [pc EXCEPT ![p] = pc'[p]]
                   /\ pc'[p] \in {"insert", "protocol", "assess", "done"}
                   /\ \A q \in Requests \ {p} : target'[q] = target[q] /\ op'[q] = op[q]
                   /\ UNCHANGED <<capture, rowVars, seen, lock>>
                   /\ pc'[p] = "assess" => op'[p] = "view"
                   /\ pc[p] # "idle" => op'[p] = op[p]
                   /\ \A r \in Requests : Observed(r)' = Observed(r) /\ Copies(r)' = Copies(r)
<1>0. Kept
  BY EarlyStep
<1> HIDE DEF Kept
<1> USE <1>0 DEF IInv, TypeOK, EvidenceInv, Kept
<1>1. \A q \in Requests \ {p} : pc'[q] = pc[q]
  OBVIOUS
<1>2. ReadObsOK'
  BY <1>1 DEF ReadObsOK, TargetOK, Stages, Early
<1>3. CoverOK'
  <2>1. ASSUME NEW r \in Requests, NEW q \in Copies(r) PROVE
          /\ rec'[q] \subseteq Observed(r)
          /\ \A x \in Observed(r) : pc'[x] \notin Lagging => x \in rec'[q]
    <3>1. p \notin Observed(r) /\ Observed(r) \subseteq Requests /\ rec' = rec
      BY DEF Observed, rowVars
    <3> QED
      BY <1>1, <3>1 DEF CoverOK
  <2> QED
    BY <2>1 DEF CoverOK
<1>4. StoredOK'
  <2>1. ASSUME NEW q \in Working', pc'[q] \notin Unstored
        PROVE q \in obs' /\ (pc'[q] \notin Unrebuilt => Copies(target[q])' # {})
    <3>1. q \in Requests \ {p}
      BY <2>1 DEF Working, Pipeline, Stages, Early, Unstored
    <3>2. q \in Working /\ target[q] \in Requests
      BY <1>1, <2>1, <3>1, StillWorking DEF Working, Pipeline
    <3> QED
      BY <1>1, <2>1, <3>1, <3>2 DEF StoredOK, rowVars
  <2> QED
    BY <2>1 DEF StoredOK, Unrebuilt, Unstored
<1>5. ReadRowsOK'
  <2>1. ASSUME NEW q \in Requests, op'[q] # "view", pc'[q] \in {"flows", "persist"}
        PROVE  /\ q \in seen'[q].sessions
               /\ pc'[q] = "persist" /\ Exists(target[q])' /\ capture' = "esp" => q \in seen'[q].obs
    <3>1. q # p
      BY <2>1
    <3>2. op[q] # "view" /\ pc[q] = pc'[q] /\ seen'[q] = seen[q] /\ capture' = capture
      BY <1>1, <2>1, <3>1
    <3>3. Exists(target[q])' => Exists(target[q])
      BY <1>1, <2>1, <3>1, StillWorking DEF Stages, Early
    <3> QED
      BY <2>1, <3>2, <3>3 DEF ReadRowsOK, Pipeline
  <2> QED
    BY <2>1 DEF ReadRowsOK, Pipeline
<1>6. AssessedOnOwnEvidence'
  <2>1. \A q \in Requests : op'[q] # "view" => op[q] # "view"
    BY DEF FreshOK
  <2> QED
    BY <2>1 DEF AssessedOnOwnEvidence, rowVars
<1> QED
  BY <1>2, <1>3, <1>4, <1>5, <1>6

LEMMA EvidenceCalm ==
  ASSUME IInv, EvidenceInv, Next, NEW p \in Requests, Calm(p)
  PROVE  /\ ReadObsOK' /\ CoverOK' /\ StoredOK' /\ ReadRowsOK' /\ AssessedOnOwnEvidence'
<1> DEFINE Kept == /\ UNCHANGED <<capture, op, target, obs, rec>>
                   /\ pc[p] \in Stages \ Early
                   /\ pc' = [pc EXCEPT ![p] = pc'[p]]
                   /\ pc'[p] \in {"dissect", "mlcommit", "classify", "assess", "sessions",
                                  "flows", "persist", "done", "failed"}
                   /\ pc[p] = "protocol" => pc'[p] \in {"dissect", "failed"}
                   /\ pc'[p] = "dissect" => pc[p] = "protocol"
                   /\ pc[p] \in {"dissect", "recon", "rebuild"} => pc'[p] = "failed"
                   /\ pc'[p] = "flows" => pc[p] = "sessions" /\ ReadSessions(p)
                   /\ pc'[p] = "persist" => pc[p] = "flows" /\ ReadFlows(p)
                   /\ \A q \in Requests \ {p} : seen'[q] = seen[q] /\ score'[q] = score[q]
                   /\ score'[p] # score[p] => CommitAssessment(p)
<1>0. Kept
  BY CalmEffect DEF IInv
<1> HIDE DEF Kept
<1> USE <1>0 DEF IInv, TypeOK, EvidenceInv, Kept
<1>1. /\ \A q \in Requests \ {p} : pc'[q] = pc[q]
      /\ \A r : Observed(r)' = Observed(r) /\ Copies(r)' = Copies(r)
  BY DEF Observed, Copies, Of
<1>2. ReadObsOK'
  BY <1>1 DEF ReadObsOK
<1>3. CoverOK'
  <2>1. ASSUME NEW r \in Requests, NEW q \in Copies(r), NEW x \in Observed(r),
               pc'[x] \notin Lagging
        PROVE  x \in rec[q]
    <3>1. x \in Requests /\ x \in obs
      BY DEF Observed
    <3>2. pc[x] \notin Lagging
      BY <1>1, <2>1, <3>1 DEF Lagging, Stages
    <3> QED
      BY <3>2 DEF CoverOK
  <2> QED
    BY <1>1, <2>1 DEF CoverOK
<1>4. ASSUME NEW q \in Requests, op'[q] # "view", pc[q] \in Stages \ Early, Exists(target[q])'
      PROVE  q \in Working /\ target[q] \in Requests
  BY <1>4, StillWorking DEF Working, Pipeline
<1>5. StoredOK'
  <2>1. ASSUME NEW q \in Working'
        PROVE  /\ pc'[q] \notin Unstored => q \in obs'
               /\ pc'[q] \notin Unrebuilt => Copies(target[q])' # {}
    <3>1. q \in Requests /\ pc[q] \in Stages \ Early
      BY <1>1, <2>1 DEF Working, Pipeline
    <3>2. q \in Working
      BY <1>4, <2>1, <3>1 DEF Working, Pipeline
    <3>3. pc'[q] \notin Unstored => pc[q] \notin Unstored
      BY <1>1, <2>1, <3>1 DEF Unstored, Early, Stages, Working
    <3>4. pc'[q] \notin Unrebuilt => pc[q] \notin Unrebuilt
      BY <1>1, <2>1, <3>1 DEF Unrebuilt, Unstored, Early, Stages, Working
    <3> QED
      BY <1>1, <3>2, <3>3, <3>4 DEF StoredOK
  <2> QED
    BY <2>1 DEF StoredOK
<1>6. ASSUME NEW q \in Requests, q \in Working, pc[q] \notin Unrebuilt
      PROVE  /\ Rebuilt(target[q]) \in Requests
             /\ q \in rec[Rebuilt(target[q])]
  <2>1. target[q] \in Requests /\ q \in obs /\ Copies(target[q]) # {}
    BY <1>6 DEF StoredOK, Working, TargetOK, Unrebuilt
  <2>2. Rebuilt(target[q]) \in Copies(target[q])
    BY <2>1 DEF Rebuilt
  <2>3. q \in Observed(target[q]) /\ pc[q] \notin Lagging
    BY <1>6, <2>1 DEF Observed, Of, Lagging, Unrebuilt, Working, Stages
  <2> QED
    BY <2>1, <2>2, <2>3 DEF CoverOK, Copies, Of
<1>7. ReadRowsOK'
  <2>1. ASSUME NEW q \in Requests, op'[q] # "view", pc'[q] \in {"flows", "persist"}
        PROVE  /\ q \in seen'[q].sessions
               /\ pc'[q] = "persist" /\ Exists(target[q])' /\ capture' = "esp" => q \in seen'[q].obs
    <3>1. CASE q # p
      <4>1. Exists(target[q])' => Exists(target[q])
        BY <1>1, <1>4, <2>1, <3>1 DEF Stages, Early, Working
      <4> QED
        BY <1>1, <2>1, <3>1, <4>1 DEF ReadRowsOK, Pipeline
    <3>2. CASE q = p /\ pc'[p] = "flows"
      <4>1. p \in Working /\ pc[p] \notin Unrebuilt
        BY <2>1, <3>2 DEF ReadSessions, Working, Pipeline, Unrebuilt, Unstored, Early
      <4>2. seen'[p].sessions = Behind(Rebuilt(target[p]))
        BY <3>2 DEF ReadSessions, Seen
      <4> QED
        BY <1>6, <3>2, <4>1, <4>2 DEF Behind
    <3>3. CASE q = p /\ pc'[p] = "persist"
      <4>1. p \in seen[p].sessions /\ seen'[p].sessions = seen[p].sessions
        BY <2>1, <3>3 DEF ReadRowsOK, Pipeline, ReadFlows, Seen
      <4>2. ASSUME Exists(target[p])', capture = "esp" PROVE p \in seen'[p].obs
        <5>1. p \in Working
          BY <1>4, <2>1, <3>3, <4>2 DEF Working
        <5>2. seen'[p].obs = Behind(Rebuilt(target[p]))
          BY <3>3, <4>2 DEF ReadFlows, FlowsOf, Seen
        <5> QED
          BY <1>6, <3>3, <5>1, <5>2 DEF Unrebuilt, Unstored, Early, Behind
      <4> QED
        BY <3>3, <4>1, <4>2
    <3> QED
      BY <2>1, <3>1, <3>2, <3>3
  <2> QED
    BY <2>1 DEF ReadRowsOK, Pipeline
<1>8. AssessedOnOwnEvidence'
  <2>1. ASSUME CommitAssessment(p), op[p] # "view"
        PROVE  p \in score'[p].sessions /\ (capture = "esp" => p \in score'[p].flows)
    BY <2>1 DEF CommitAssessment, At, ReadRowsOK, Pipeline
  <2> QED
    BY <2>1 DEF AssessedOnOwnEvidence
<1> QED
  BY <1>2, <1>3, <1>5, <1>7, <1>8

LEMMA EvidenceDeleted ==
  ASSUME IInv, EvidenceInv, Next, NEW p \in Requests, NEW r \in Requests, Delete(p, r)
  PROVE  /\ ReadObsOK' /\ CoverOK' /\ StoredOK' /\ ReadRowsOK' /\ AssessedOnOwnEvidence'
<1> USE DEF IInv, TypeOK, EvidenceInv, At, Goto
<1>1. /\ target' = target /\ seen' = seen /\ capture' = capture /\ pc[p] = "idle"
      /\ pc' = [pc EXCEPT ![p] = "done"] /\ op' = [op EXCEPT ![p] = "delete"]
      /\ \A q \in Requests \ Of(r) : rec'[q] = rec[q] /\ score'[q] = score[q]
      /\ \A q \in Of(r) : rec'[q] = {} /\ score'[q] = NoScore
      /\ obs' = obs \ Of(r)
      /\ run'[r].status = "deleted" /\ lock[r] = NoOne
  BY DEF Delete, env, CanUpdate, NoRow, Of
<1>2. \A s \in Requests \ {r} : Observed(s)' = Observed(s) /\ Copies(s)' = Copies(s)
  BY <1>1 DEF Observed, Copies, Of
<1>3. Copies(r)' = {} /\ ~Exists(r)'
  BY <1>1 DEF Copies, Of, Exists
<1>4. op[p] = "none"
  BY <1>1 DEF FreshOK
<1>5. ReadObsOK'
  BY <1>1, <1>2 DEF ReadObsOK, LockOK, TargetOK, Stages, Early
<1>6. CoverOK'
  <2>1. ASSUME NEW s \in Requests, s # r, NEW q \in Copies(s)
        PROVE  /\ rec'[q] = rec[q]
               /\ \A x \in Observed(s) : pc'[x] \notin Lagging => pc[x] \notin Lagging
    BY <1>1, <2>1 DEF Copies, Of, Observed, Lagging
  <2> QED
    BY <1>2, <1>3, <2>1 DEF CoverOK
<1>7. ASSUME NEW q \in Requests, op'[q] # "view", pc'[q] \in Stages \ Early, Exists(target[q])'
      PROVE  q \in Working /\ target[q] \in Requests \ {r} /\ pc[q] = pc'[q]
  <2>1. q # p /\ op[q] = op'[q] /\ pc[q] = pc'[q] /\ target'[q] = target[q]
    BY <1>1, <1>7 DEF Stages
  <2> QED
    BY <1>3, <1>7, <2>1, StillWorking DEF Working, Pipeline, Exists
<1>8. StoredOK'
  <2>1. ASSUME NEW q \in Working'
        PROVE  /\ pc'[q] \notin Unstored => q \in obs'
               /\ pc'[q] \notin Unrebuilt => Copies(target[q])' # {}
    <3>1. q \in Working /\ target[q] \in Requests \ {r} /\ pc[q] = pc'[q]
      BY <1>7, <2>1 DEF Working, Pipeline
    <3> QED
      BY <1>1, <1>2, <3>1 DEF StoredOK, Of
  <2> QED
    BY <2>1 DEF StoredOK
<1>9. ReadRowsOK'
  <2>1. ASSUME NEW q \in Requests, op'[q] # "view", pc'[q] \in {"flows", "persist"}
        PROVE  /\ q \in seen'[q].sessions
               /\ pc'[q] = "persist" /\ Exists(target[q])' /\ capture' = "esp" => q \in seen'[q].obs
    <3>1. q # p /\ op[q] # "view" /\ pc[q] = pc'[q]
      BY <1>1, <2>1
    <3>2. Exists(target[q])' => Exists(target[q])
      BY <1>7, <2>1 DEF Working, Stages, Early
    <3> QED
      BY <1>1, <2>1, <3>1, <3>2 DEF ReadRowsOK, Pipeline
  <2> QED
    BY <2>1 DEF ReadRowsOK, Pipeline
<1>10. AssessedOnOwnEvidence'
  BY <1>1, <1>4 DEF AssessedOnOwnEvidence
<1> QED
  BY <1>5, <1>6, <1>8, <1>9, <1>10

LEMMA EvidenceStored ==
  ASSUME IInv, EvidenceInv, Next, NEW p \in Requests, StoreObservations(p)
  PROVE  /\ ReadObsOK' /\ CoverOK' /\ StoredOK' /\ ReadRowsOK' /\ AssessedOnOwnEvidence'
<1> USE DEF IInv, TypeOK, EvidenceInv, At, Goto
<1> DEFINE t == target[p]
<1>1. /\ UNCHANGED <<target, seen, capture, rec, score, op>> /\ pc[p] = "dissect"
      /\ \A q \in Requests \ {p} : pc'[q] = pc[q]
      /\ obs \subseteq obs' /\ obs' \subseteq obs \cup {p}
      /\ pc'[p] = IF p \in obs' THEN "recon" ELSE "done"
      /\ lock[t] = NoOne /\ t \in Requests
  <2>1. pc[p] = "dissect" /\ t \in Requests /\ lock[t] = NoOne
    BY DEF StoreObservations, CanUpdate, TargetOK, Stages, Early
  <2>2. UNCHANGED <<target, seen, capture, rec, score, op>>
    BY DEF StoreObservations, env
  <2>3. CASE Ipsec
    BY <2>1, <2>2, <2>3 DEF StoreObservations
  <2>4. CASE ~Ipsec
    BY <2>1, <2>2, <2>4 DEF StoreObservations, FreshOK, Unstored
  <2> QED
    BY <2>3, <2>4
<1>2. /\ \A r \in Requests \ {t} : Observed(r)' = Observed(r)
      /\ \A r : Observed(r) \subseteq Observed(r)' /\ Observed(r)' \subseteq Observed(r) \cup {p}
      /\ \A r : Copies(r)' = Copies(r)
  BY <1>1 DEF Observed, Copies, Of
<1>3. ReadObsOK'
  BY <1>1, <1>2 DEF ReadObsOK, LockOK, TargetOK, Stages, Early
<1>4. CoverOK'
  <2>1. ASSUME NEW r \in Requests, NEW q \in Copies(r)
        PROVE  /\ rec[q] \subseteq Observed(r)'
               /\ \A x \in Observed(r)' : pc'[x] \notin Lagging => x \in rec[q]
    <3>1. rec[q] \subseteq Observed(r)'
      BY <1>2 DEF CoverOK
    <3>2. ASSUME NEW x \in Observed(r)', pc'[x] \notin Lagging PROVE x \in rec[q]
      <4>1. x \in Requests /\ (x = p => p \in obs')
        BY <3>2 DEF Observed, Of
      <4>2. x # p
        BY <1>1, <3>2, <4>1 DEF Lagging, FreshOK, Unstored
      <4> QED
        BY <1>1, <1>2, <3>2, <4>1, <4>2 DEF CoverOK
    <3> QED
      BY <3>1, <3>2
  <2> QED
    BY <1>1, <1>2, <2>1 DEF CoverOK
<1>5. ASSUME NEW q \in Requests, q # p, op'[q] # "view", pc'[q] \in Stages \ Early, Exists(target[q])'
      PROVE  q \in Working
  BY <1>1, <1>5, StillWorking DEF Working, Pipeline
<1>6. StoredOK'
  <2>1. ASSUME NEW q \in Working'
        PROVE  /\ pc'[q] \notin Unstored => q \in obs'
               /\ pc'[q] \notin Unrebuilt => Copies(target[q])' # {}
    <3>1. CASE q = p
      BY <1>1, <2>1, <3>1 DEF Working, Unstored, Unrebuilt, Stages
    <3>2. CASE q # p
      <4>1. q \in Working /\ target[q] \in Requests /\ pc'[q] = pc[q]
        BY <1>1, <1>5, <2>1, <3>2 DEF Working, Pipeline, TargetOK
      <4> QED
        BY <1>1, <1>2, <4>1 DEF StoredOK
    <3> QED
      BY <3>1, <3>2
  <2> QED
    BY <2>1 DEF StoredOK
<1>7. ReadRowsOK'
  <2>1. ASSUME NEW q \in Requests, op'[q] # "view", pc'[q] \in {"flows", "persist"}
        PROVE  /\ q \in seen'[q].sessions
               /\ pc'[q] = "persist" /\ Exists(target[q])' /\ capture' = "esp" => q \in seen'[q].obs
    <3>1. q # p /\ pc[q] = pc'[q]
      BY <1>1, <2>1
    <3>2. Exists(target[q])' => Exists(target[q])
      BY <1>5, <2>1, <3>1 DEF Working, Stages, Early
    <3> QED
      BY <1>1, <2>1, <3>1, <3>2 DEF ReadRowsOK, Pipeline
  <2> QED
    BY <2>1 DEF ReadRowsOK, Pipeline
<1>8. AssessedOnOwnEvidence'
  BY <1>1 DEF AssessedOnOwnEvidence
<1> QED
  BY <1>3, <1>4, <1>6, <1>7, <1>8

LEMMA EvidenceLocked ==
  ASSUME IInv, EvidenceInv, Next, NEW p \in Requests, BeginReconstruction(p)
  PROVE  /\ ReadObsOK' /\ CoverOK' /\ StoredOK' /\ ReadRowsOK' /\ AssessedOnOwnEvidence'
<1> USE DEF IInv, TypeOK, EvidenceInv, At, Goto
<1>1. /\ UNCHANGED <<target, capture, rec, score, op, obs>> /\ pc[p] = "recon"
      /\ \A q \in Requests \ {p} : pc'[q] = pc[q] /\ seen'[q] = seen[q]
      /\ pc'[p] = "rebuild" /\ seen'[p].obs = Observed(target[p])
  BY DEF BeginReconstruction, env, rowVars, Seen
<1>2. \A r : Observed(r)' = Observed(r) /\ Copies(r)' = Copies(r)
  BY <1>1 DEF Observed, Copies, Of
<1>3. ReadObsOK'
  BY <1>1, <1>2 DEF ReadObsOK
<1>4. CoverOK'
  <2>1. \A x \in Requests : pc'[x] \notin Lagging => pc[x] \notin Lagging
    BY <1>1 DEF Lagging
  <2> QED
    BY <1>1, <1>2, <2>1 DEF CoverOK, Observed
<1>5. ASSUME NEW q \in Requests, op'[q] # "view", pc[q] \in Stages \ Early, Exists(target[q])'
      PROVE  q \in Working
  BY <1>1, <1>5, StillWorking DEF Working, Pipeline
<1>6. StoredOK'
  <2>1. ASSUME NEW q \in Working'
        PROVE  /\ pc'[q] \notin Unstored => q \in obs'
               /\ pc'[q] \notin Unrebuilt => Copies(target[q])' # {}
    <3>1. q \in Working
      BY <1>1, <1>5, <2>1 DEF Working, Pipeline, Stages, Early
    <3> QED
      BY <1>1, <1>2, <3>1 DEF StoredOK, Unrebuilt, Unstored, Early, Working, Pipeline
  <2> QED
    BY <2>1 DEF StoredOK
<1>7. ReadRowsOK'
  <2>1. ASSUME NEW q \in Requests, op'[q] # "view", pc'[q] \in {"flows", "persist"}
        PROVE  /\ q \in seen'[q].sessions
               /\ pc'[q] = "persist" /\ Exists(target[q])' /\ capture' = "esp" => q \in seen'[q].obs
    <3>1. q # p /\ pc[q] = pc'[q]
      BY <1>1, <2>1
    <3>2. Exists(target[q])' => Exists(target[q])
      BY <1>5, <2>1, <3>1 DEF Working, Stages, Early
    <3> QED
      BY <1>1, <2>1, <3>1, <3>2 DEF ReadRowsOK, Pipeline
  <2> QED
    BY <2>1 DEF ReadRowsOK, Pipeline
<1>8. AssessedOnOwnEvidence'
  BY <1>1 DEF AssessedOnOwnEvidence
<1> QED
  BY <1>3, <1>4, <1>6, <1>7, <1>8

\* The commit: what was stored before the row was locked is in the new copy, and
\* nothing was stored since.
LEMMA EvidenceReplaced ==
  ASSUME IInv, EvidenceInv, Next, NEW p \in Requests, CommitReconstruction(p)
  PROVE  /\ ReadObsOK' /\ CoverOK' /\ StoredOK' /\ ReadRowsOK' /\ AssessedOnOwnEvidence'
<1> USE DEF IInv, TypeOK, EvidenceInv, At, Goto
<1>0. PICK t \in Requests : t = target[p]
  BY DEF CommitReconstruction, TargetOK, Stages, Early
<1>1. /\ UNCHANGED <<target, capture, score, op, obs>> /\ pc[p] = "rebuild"
      /\ \A q \in Requests \ {p} : pc'[q] = pc[q] /\ seen'[q] = seen[q]
      /\ pc'[p] = "ml"
      /\ \A q \in Requests : rec'[q] = IF q = p THEN Observed(t)
                                       ELSE IF q \in Copies(t) THEN {} ELSE rec[q]
  BY <1>0 DEF CommitReconstruction, Replaced, env, LockOK, ReadObsOK
<1>2. /\ \A r : Observed(r)' = Observed(r)
      /\ \A r \in Requests \ {t} : Copies(r)' = Copies(r) /\ \A q \in Copies(r) : rec'[q] = rec[q]
      /\ Copies(t)' \subseteq {p}
      /\ Observed(t) # {} => p \in Copies(t)'
  BY <1>0, <1>1 DEF Observed, Copies, Of
<1>3. ReadObsOK'
  BY <1>1, <1>2 DEF ReadObsOK
<1>4. CoverOK'
  <2>1. \A x \in Requests \ {p} : pc'[x] = pc[x]
    BY <1>1
  <2>2. ASSUME NEW r \in Requests, r # t, NEW q \in Copies(r)
        PROVE  /\ rec'[q] \subseteq Observed(r)
               /\ \A x \in Observed(r) : pc'[x] \notin Lagging => x \in rec'[q]
    <3>1. \A x \in Observed(r) : x \in Requests \ {p}
      BY <1>0, <2>2 DEF Observed, Of
    <3> QED
      BY <1>2, <2>1, <2>2, <3>1 DEF CoverOK
  <2> QED
    BY <1>1, <1>2, <2>2 DEF CoverOK
<1>5. ASSUME NEW q \in Requests, op'[q] # "view", pc[q] \in Stages \ Early, Exists(target[q])'
      PROVE  q \in Working /\ target[q] \in Requests
  BY <1>1, <1>5, StillWorking DEF Working, Pipeline
<1>6. StoredOK'
  <2>1. ASSUME NEW q \in Working'
        PROVE  /\ pc'[q] \notin Unstored => q \in obs'
               /\ pc'[q] \notin Unrebuilt => Copies(target[q])' # {}
    <3>1. q \in Working /\ target[q] \in Requests
      BY <1>1, <1>5, <2>1 DEF Working, Pipeline, Stages, Early
    <3>2. pc'[q] \notin Unstored => q \in obs'
      BY <1>1, <3>1 DEF StoredOK, Unstored, Early, Working, Pipeline
    <3>3. ASSUME pc'[q] \notin Unrebuilt PROVE Copies(target[q])' # {}
      <4>1. CASE target[q] = t
        <5>1. q \in Observed(t)
          BY <1>1, <3>1, <3>2, <3>3, <4>1 DEF Observed, Of, Unrebuilt, Working, Pipeline
        <5> QED
          BY <1>1, <1>2, <4>1, <5>1
      <4>2. CASE target[q] # t
        <5>1. pc[q] \notin Unrebuilt
          BY <1>0, <1>1, <3>1, <3>3, <4>2 DEF Working, Pipeline
        <5> QED
          BY <1>1, <1>2, <3>1, <4>2, <5>1 DEF StoredOK
      <4> QED
        BY <4>1, <4>2
    <3> QED
      BY <3>2, <3>3
  <2> QED
    BY <2>1 DEF StoredOK
<1>7. ReadRowsOK'
  <2>1. ASSUME NEW q \in Requests, op'[q] # "view", pc'[q] \in {"flows", "persist"}
        PROVE  /\ q \in seen'[q].sessions
               /\ pc'[q] = "persist" /\ Exists(target[q])' /\ capture' = "esp" => q \in seen'[q].obs
    <3>1. q # p /\ pc[q] = pc'[q]
      BY <1>1, <2>1
    <3>2. Exists(target[q])' => Exists(target[q])
      BY <1>5, <2>1, <3>1 DEF Working, Stages, Early
    <3> QED
      BY <1>1, <2>1, <3>1, <3>2 DEF ReadRowsOK, Pipeline
  <2> QED
    BY <2>1 DEF ReadRowsOK, Pipeline
<1>8. AssessedOnOwnEvidence'
  BY <1>1 DEF AssessedOnOwnEvidence
<1> QED
  BY <1>3, <1>4, <1>6, <1>7, <1>8

LEMMA EvidenceLost ==
  ASSUME IInv, EvidenceInv, NEW new \in Releases, Restart(new)
  PROVE  /\ ReadObsOK' /\ CoverOK' /\ StoredOK' /\ ReadRowsOK' /\ AssessedOnOwnEvidence'
<1> USE DEF IInv, TypeOK, EvidenceInv
<1>1. /\ UNCHANGED <<target, capture, score, op, obs, rec>>
      /\ \A q \in Requests : pc'[q] = IF pc[q] \in Stages THEN "dead" ELSE pc[q]
  BY DEF Restart
<1>2. \A r : Observed(r)' = Observed(r) /\ Copies(r)' = Copies(r)
  BY <1>1 DEF Observed, Copies, Of
<1>3. ReadObsOK' /\ ReadRowsOK' /\ StoredOK'
  <2>1. \A q \in Requests : pc'[q] \notin Stages
    BY <1>1 DEF Stages
  <2> QED
    BY <2>1 DEF ReadObsOK, ReadRowsOK, StoredOK, Working, Pipeline, Stages
<1>4. CoverOK'
  <2>1. \A x \in Requests : pc'[x] \notin Lagging => pc[x] \notin Lagging
    BY <1>1 DEF Lagging
  <2> QED
    BY <1>1, <1>2, <2>1 DEF CoverOK, Observed
<1> QED
  BY <1>1, <1>3, <1>4 DEF AssessedOnOwnEvidence

LEMMA EvidenceStep ==
  ASSUME IInv, EvidenceInv, Next
  PROVE  EvidenceInv'
BY StepKinds, RowsStep, EvidenceArrives, EvidenceCalm, EvidenceDeleted, EvidenceStored,
   EvidenceLocked, EvidenceReplaced, EvidenceLost DEF EvidenceInv

LEMMA EvidenceStutter ==
  ASSUME IInv, EvidenceInv, UNCHANGED vars
  PROVE  EvidenceInv'
<1> USE DEF EvidenceInv, vars, env, rowVars
<1>1. \A r : Observed(r)' = Observed(r) /\ Copies(r)' = Copies(r)
  BY DEF Observed, Copies, Of
<1>2. RowsOK' /\ ReadObsOK' /\ CoverOK'
  BY <1>1 DEF RowsOK, ReadObsOK, CoverOK
<1>3. StoredOK' /\ ReadRowsOK' /\ AssessedOnOwnEvidence'
  BY <1>1 DEF StoredOK, ReadRowsOK, AssessedOnOwnEvidence, Working, Pipeline, Exists
<1> QED
  BY <1>2, <1>3

-----------------------------------------------------------------------------
LEMMA Inductive ==
  ASSUME IInv, [Next]_vars
  PROVE  IInv'
<1>1. CASE Next
  BY <1>1, TypeStep, TargetStep, FreshStep, LockStep DEF IInv
<1>2. CASE UNCHANGED vars
  <2>1. \A r \in Requests : Copies(r)' = Copies(r)
    BY <1>2 DEF vars, rowVars, Copies, Of
  <2> USE <1>2 DEF IInv, vars, env, rowVars
  <2>2. TypeOK'
    BY DEF TypeOK
  <2>3. TargetOK' /\ FreshOK'
    BY DEF TargetOK, FreshOK
  <2>4. \A q \in Requests : pc[q] = "rebuild" => target[q] \in Requests
    BY DEF TargetOK, Stages, Early
  <2>5. LockOK' /\ OneReconstruction'
    BY <2>1, <2>2, <2>4, CalmStep
  <2> QED
    BY <2>2, <2>3, <2>5
<1> QED
  BY <1>1, <1>2

LEMMA Initially == Init => IInv
<1> SUFFICES ASSUME Init PROVE IInv
  OBVIOUS
<1>1. TypeOK
  BY SeenTypes DEF Init, TypeOK, Releases, Ops, Places, Maybe, Inferences
<1>2. \A r \in Requests : Copies(r) = {}
  BY DEF Init, Copies, Of
<1> QED
  BY <1>1, <1>2 DEF Init, IInv, TargetOK, FreshOK, LockOK, OneReconstruction, Early,
     Unstored, Unrebuilt, Uninferred, Stages

LEMMA Invariance == Spec => []IInv
BY Initially, Inductive, PTL DEF Spec

-----------------------------------------------------------------------------
\* Every table and every local reading keeps its type, however many requests
\* create, recompute, view, archive and delete the analyses of a capture.
THEOREM TypeCorrect == Spec => []TypeOK
<1>1. IInv => TypeOK
  BY DEF IInv
<1> QED
  BY <1>1, Invariance, PTL

\* execute_reconstruction replaces: the flush that locks the run's row makes
\* the delete see every earlier copy, so no two copies are ever stored.
THEOREM ReconstructionReplaces == Spec => []OneReconstruction
<1>1. IInv => OneReconstruction
  BY DEF IInv
<1> QED
  BY <1>1, Invariance, PTL

-----------------------------------------------------------------------------
LEMMA EvidenceInitially == Init => EvidenceInv
<1> SUFFICES ASSUME Init PROVE EvidenceInv
  OBVIOUS
<1>1. \A r \in Requests : Copies(r) = {}
  BY DEF Init, Copies, Of
<1>2. \A p \in Requests : /\ pc[p] = "idle" /\ target[p] = NoOne
                          /\ run[p].status = "absent" /\ score[p] = NoScore
  BY DEF Init, NoRow
<1> QED
  BY <1>1, <1>2 DEF EvidenceInv, RowsOK, ReadObsOK, CoverOK, StoredOK, ReadRowsOK,
     AssessedOnOwnEvidence, Working, Pipeline, Early

LEMMA EvidenceInvariance == Spec => []EvidenceInv
<1>1. IInv /\ EvidenceInv /\ [Next]_vars => EvidenceInv'
  BY EvidenceStep, EvidenceStutter
<1> QED
  BY <1>1, EvidenceInitially, Invariance, PTL DEF Spec

\* _ensure_assessment_executed: whatever is created, recomputed, viewed and
\* deleted beside it, what a pipeline assesses was rebuilt from observations
\* among which are the ones that this pipeline has stored.
THEOREM OwnEvidenceAssessed == Spec => []AssessedOnOwnEvidence
<1>1. EvidenceInv => AssessedOnOwnEvidence
  BY DEF EvidenceInv
<1> QED
  BY <1>1, EvidenceInvariance, PTL

\* When all requests on a run have ended well, the last of them to rebuild has
\* seen the observations of all: no order of their steps leaves some out.
THEOREM NothingLeftOut == Spec => []RebuiltFromAll
<1>1. EvidenceInv => RebuiltFromAll
  <2> SUFFICES ASSUME EvidenceInv, NEW r \in Requests, Quiet(r), NEW q \in Copies(r)
               PROVE  rec[q] = Observed(r)
    BY DEF RebuiltFromAll
  <2>1. rec[q] \subseteq Observed(r)
    BY DEF EvidenceInv, CoverOK
  <2>2. \A x \in Observed(r) : pc[x] = "done"
    BY DEF Quiet, Observed
  <2> QED
    BY <2>1, <2>2 DEF EvidenceInv, CoverOK, Lagging
<1> QED
  BY <1>1, EvidenceInvariance, PTL
=============================================================================
