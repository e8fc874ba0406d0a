-------------------------- MODULE AnalysisPipeline --------------------------
(***************************************************************************)
(* The analyses of one capture: the requests that create, recompute,       *)
(* archive and delete analysis runs, the pipeline that create and          *)
(* recompute execute (dissection, reconstruction, flow classification,     *)
(* security assessment), and the security pages, which execute the         *)
(* assessment when they find none.                                         *)
(*                                                                         *)
(* A step is what one request does up to its next commit, or up to a read  *)
(* whose answer it uses after a later await.  The database is PostgreSQL   *)
(* at READ COMMITTED: a statement sees what was committed when it began,   *)
(* and an uncommitted UPDATE of a run's row makes other writers of that    *)
(* row wait.  A request creates at most one run, and writes at most one    *)
(* set of rows of each kind, so runs and rows are named by their request.  *)
(***************************************************************************)
EXTENDS Naturals, FiniteSets

CONSTANTS
  Requests,     \* the HTTP requests
  Asks,         \* the operations each request may ask for
  NoOne,        \* no request
  Flows,        \* how many ESP flows a reconstruction of an ESP capture has
  MaxReleases   \* bound on the settings' versions

ASSUME PipelineAssumption ==
  /\ NoOne \notin Requests
  /\ Asks \in [Requests ->
                SUBSET {"create", "recompute", "view", "archive", "delete"}]
  /\ Flows \in Nat \ {0}
  /\ MaxReleases \in Nat \ {0}

VARIABLES
  capture,   \* what the capture holds: no IPsec, IKE alone, or ESP too
  bundle,    \* the deployed model bundle: missing, invalid or valid
  release,   \* CURRENT_PIPELINE_VERSION and CURRENT_POLICY_VERSION
  op, pc,    \* what each request asks for, and where it is
  target,    \* the run each request works on
  run,       \* the AnalysisRun rows
  lock,      \* who has updated a run's row without having committed
  obs,       \* the requests whose ProtocolObservation rows are stored
  rec,       \* the observations each stored reconstruction was built from
  inference, \* status of the MLInferenceRun row each request has written
  mlsaved,   \* ... the requests whose MLInferenceRun row is committed
  current,   \* ... the ones with is_current
  classified,\* ... the reconstruction its FlowClassification rows refer to
  score,     \* the ScoreAssessment row (and its siblings) of each request
  seen       \* what each request has read and will still use

env     == <<capture, bundle, release>>
rowVars == <<obs, rec, inference, mlsaved, current, classified, score>>
vars    == <<env, op, pc, target, run, lock, rowVars, seen>>

Maybe      == Requests \cup {NoOne}
Releases   == [pipeline : 1..MaxReleases, policy : 1..MaxReleases]
Ops        == {"none", "create", "recompute", "view", "archive", "delete"}
Stages     == {"insert", "protocol", "dissect", "recon", "rebuild", "ml",
               "classify", "mlcommit", "assess", "sessions", "flows", "persist"}
Ended      == {"done", "failed", "dead"}
Places     == {"idle"} \cup Stages \cup Ended
Statuses   == {"absent", "QUEUED", "RUNNING", "COMPLETED", "FAILED", "deleted"}
RunRows    == [status : Statuses, archived : {"yes", "no"},
               pipeline : 0..MaxReleases, policy : 0..MaxReleases]
Inferences == {"none", "NOT_CONFIGURED", "BUNDLE_INVALID", "NO_FLOWS", "RUNNING",
               "COMPLETED", "PARTIAL", "INSUFFICIENT_INPUT", "FAILED"}
Scores     == [policy : 0..MaxReleases, sessions : SUBSET Requests,
               flows : SUBSET Requests]
Seen       == [rows : SUBSET Requests, obs : SUBSET Requests,
               sessions : SUBSET Requests, flows : Maybe]

NoRow     == [status |-> "absent", archived |-> "no", pipeline |-> 0, policy |-> 0]
NoScore   == [policy |-> 0, sessions |-> {}, flows |-> {}]
SeenNothing == [rows |-> {}, obs |-> {}, sessions |-> {}, flows |-> NoOne]

-----------------------------------------------------------------------------
(* What the tables hold.                                                   *)

Of(r)       == {p \in Requests : target[p] = r}
Exists(r)   == run[r].status \notin {"absent", "deleted"}
Ipsec       == capture # "none"
Observed(r) == obs \cap Of(r)
Copies(r)   == {p \in Of(r) : rec[p] # {}}
Inferred(r) == mlsaved \cap Of(r)
Assessed(r) == {p \in Of(r) : score[p] # NoScore}

\* The reconstruction a SELECT on a run's sessions, SAs or flows returns.
Rebuilt(r)     == IF Copies(r) = {} THEN NoOne ELSE CHOOSE p \in Copies(r) : TRUE
FlowsOf(r)     == IF capture = "esp" THEN Rebuilt(r) ELSE NoOne
\* The observations behind what such a SELECT returns.
Behind(p)      == IF p = NoOne THEN {} ELSE rec[p]
CanUpdate(r)   == lock[r] = NoOne
Flushed(p)     == inference[p] = "RUNNING" /\ p \notin mlsaved

-----------------------------------------------------------------------------
Init ==
  /\ capture \in {"none", "ike", "esp"}
  /\ bundle \in {"missing", "invalid", "valid"}
  /\ release = [pipeline |-> 1, policy |-> 1]
  /\ op = [p \in Requests |-> "none"]
  /\ pc = [p \in Requests |-> "idle"]
  /\ target = [p \in Requests |-> NoOne]
  /\ run = [r \in Requests |-> NoRow]
  /\ lock = [r \in Requests |-> NoOne]
  /\ obs = {} /\ mlsaved = {} /\ current = {}
  /\ rec = [p \in Requests |-> {}]
  /\ inference = [p \in Requests |-> "none"]
  /\ classified = [p \in Requests |-> NoOne]
  /\ score = [p \in Requests |-> NoScore]
  /\ seen = [p \in Requests |-> SeenNothing]

Goto(p, place) == pc' = [pc EXCEPT ![p] = place]
At(p, place)   == pc[p] = place

\* The request is answered, or fails; its session is closed, and with it goes
\* every statement it has not committed.
End(p, how) ==
  /\ Goto(p, how)
  /\ inference' = [inference EXCEPT ![p] = IF Flushed(p) THEN "none" ELSE @]
  /\ seen' = [seen EXCEPT ![p] = SeenNothing]

Fail(p) ==
  /\ End(p, "failed")
  /\ UNCHANGED <<env, op, target, run, lock, obs, rec, mlsaved, current,
                 classified, score>>

Gone(p) == ~Exists(target[p]) /\ Fail(p)

-----------------------------------------------------------------------------
(* The requests.                                                           *)

Reusable(r) ==
  /\ run[r].status = "COMPLETED"
  /\ run[r].archived = "no"
  /\ run[r].pipeline = release.pipeline

\* create_analysis: without force_rerun, a completed run of the capture is
\* the answer.
Reuse(p, r) ==
  /\ At(p, "idle") /\ "create" \in Asks[p] /\ Reusable(r)
  /\ op' = [op EXCEPT ![p] = "create"]
  /\ target' = [target EXCEPT ![p] = r]
  /\ Goto(p, "done")
  /\ UNCHANGED <<env, run, lock, rowVars, seen>>

\* ... with force_rerun, or when it finds none.
Create(p) ==
  /\ At(p, "idle") /\ "create" \in Asks[p]
  /\ op' = [op EXCEPT ![p] = "create"]
  /\ Goto(p, "insert")
  /\ UNCHANGED <<env, target, run, lock, rowVars, seen>>

InsertRun(p) ==
  /\ At(p, "insert")
  /\ target' = [target EXCEPT ![p] = p]
  /\ run' = [run EXCEPT ![p] =
       [status |-> "QUEUED", archived |-> "no",
        pipeline |-> release.pipeline, policy |-> release.policy]]
  /\ Goto(p, "protocol")
  /\ UNCHANGED <<env, op, lock, rowVars, seen>>

Recompute(p, r) ==
  /\ At(p, "idle") /\ "recompute" \in Asks[p] /\ Exists(r) /\ CanUpdate(r)
  /\ op' = [op EXCEPT ![p] = "recompute"]
  /\ target' = [target EXCEPT ![p] = r]
  /\ run' = [run EXCEPT ![r].status = "RUNNING",
                        ![r].pipeline = release.pipeline,
                        ![r].policy = release.policy]
  /\ Goto(p, "protocol")
  /\ UNCHANGED <<env, lock, rowVars, seen>>

\* The security pages look at the assessment whatever the run's status is.
View(p, r) ==
  /\ At(p, "idle") /\ "view" \in Asks[p] /\ Exists(r)
  /\ op' = [op EXCEPT ![p] = "view"]
  /\ target' = [target EXCEPT ![p] = r]
  /\ Goto(p, "assess")
  /\ UNCHANGED <<env, run, lock, rowVars, seen>>

Archive(p, r, flag) ==
  /\ At(p, "idle") /\ "archive" \in Asks[p] /\ Exists(r) /\ CanUpdate(r)
  /\ op' = [op EXCEPT ![p] = "archive"]
  /\ run' = [run EXCEPT ![r].archived = flag]
  /\ Goto(p, "done")
  /\ UNCHANGED <<env, target, lock, rowVars, seen>>

\* The rows of the run go with it (ON DELETE CASCADE).  A row another request
\* has inserted without committing makes the DELETE wait.
Delete(p, r) ==
  /\ At(p, "idle") /\ "delete" \in Asks[p] /\ Exists(r) /\ CanUpdate(r)
  /\ \A q \in Of(r) : ~Flushed(q)
  /\ op' = [op EXCEPT ![p] = "delete"]
  /\ run' = [run EXCEPT ![r] = [NoRow EXCEPT !.status = "deleted"]]
  /\ Goto(p, "done")
  /\ obs' = obs \ Of(r)
  /\ mlsaved' = mlsaved \ Of(r)
  /\ current' = current \ Of(r)
  /\ rec' = [q \in Requests |-> IF q \in Of(r) THEN {} ELSE rec[q]]
  /\ inference' = [q \in Requests |-> IF q \in Of(r) THEN "none" ELSE inference[q]]
  /\ classified' = [q \in Requests |-> IF q \in Of(r) THEN NoOne ELSE classified[q]]
  /\ score' = [q \in Requests |-> IF q \in Of(r) THEN NoScore ELSE score[q]]
  /\ UNCHANGED <<env, target, lock, seen>>

-----------------------------------------------------------------------------
(* execute_full_analysis_pipeline: protocol forensics.                     *)

\* A created run's object holds QUEUED, so RUNNING is written.  A recomputed
\* one already holds RUNNING: the UPDATE leaves the status column alone.
BeginProtocol(p) ==
  /\ At(p, "protocol") /\ Exists(target[p]) /\ CanUpdate(target[p])
  /\ run' = [run EXCEPT ![target[p]].status =
                IF op[p] = "create" THEN "RUNNING" ELSE @]
  /\ Goto(p, "dissect")
  /\ UNCHANGED <<env, op, target, lock, rowVars, seen>>

StoreObservations_AssessFirst(p) ==
  /\ At(p, "dissect") /\ Exists(target[p]) /\ CanUpdate(target[p])
  /\ run' = [run EXCEPT ![target[p]].status = "COMPLETED"]
  /\ obs' = IF Ipsec THEN obs \cup {p} ELSE obs
  /\ Goto(p, IF Ipsec THEN "assess" ELSE "done")
  /\ UNCHANGED <<env, op, target, lock, rec, inference, mlsaved,
                 current, classified, score, seen>>

\* The observations and the status are one commit.  Observations of an
\* earlier pass over the same run stay.
StoreObservations(p) ==
  /\ At(p, "dissect") /\ Exists(target[p]) /\ CanUpdate(target[p])
  /\ run' = [run EXCEPT ![target[p]].status = "COMPLETED"]
  /\ obs' = IF Ipsec THEN obs \cup {p} ELSE obs
  /\ Goto(p, IF Ipsec THEN "recon" ELSE "done")
  /\ UNCHANGED <<env, op, target, lock, rec, inference, mlsaved,
                 current, classified, score, seen>>

ParserFails_Silent(p) ==
  /\ At(p, "dissect") /\ Exists(target[p]) /\ CanUpdate(target[p])
  /\ Fail(p)

ParserFails(p) ==
  /\ At(p, "dissect") /\ Exists(target[p]) /\ CanUpdate(target[p])
  /\ run' = [run EXCEPT ![target[p]].status = "FAILED"]
  /\ Goto(p, "failed")
  /\ UNCHANGED <<env, op, target, lock, rowVars, seen>>

ProtocolGone(p) == pc[p] \in {"protocol", "dissect", "recon"} /\ Gone(p)

-----------------------------------------------------------------------------
(* execute_reconstruction.                                                 *)

BeginReconstruction_Unflushed(p) ==
  /\ At(p, "recon") /\ Exists(target[p])
  /\ seen' = [seen EXCEPT ![p].obs = Observed(target[p]),
                          ![p].rows = Copies(target[p])]
  /\ Goto(p, "rebuild")
  /\ UNCHANGED <<env, op, target, run, lock, rowVars>>

BeginReconstruction_LatestPass(p) ==
  /\ At(p, "recon") /\ Exists(target[p]) /\ CanUpdate(target[p])
  /\ lock' = [lock EXCEPT ![target[p]] = p]
  /\ seen' = [seen EXCEPT ![p].obs = {p}, ![p].rows = Copies(target[p])]
  /\ Goto(p, "rebuild")
  /\ UNCHANGED <<env, op, target, run, rowVars>>

\* Flushing current_stage updates the run's row, which then stays locked:
\* the observations are read, and the old rows deleted, under that lock.
BeginReconstruction(p) ==
  /\ At(p, "recon") /\ Exists(target[p]) /\ CanUpdate(target[p])
  /\ lock' = [lock EXCEPT ![target[p]] = p]
  /\ seen' = [seen EXCEPT ![p].obs = Observed(target[p]),
                          ![p].rows = Copies(target[p])]
  /\ Goto(p, "rebuild")
  /\ UNCHANGED <<env, op, target, run, rowVars>>

\* The classifications of a deleted flow go with it (ON DELETE CASCADE).
Replaced(p) ==
  /\ rec' = [q \in Requests |-> IF q = p THEN seen[p].obs
                               ELSE IF q \in seen[p].rows THEN {} ELSE rec[q]]
  /\ classified' = [q \in Requests |->
       IF classified[q] \in seen[p].rows THEN NoOne ELSE classified[q]]

CommitReconstruction(p) ==
  /\ At(p, "rebuild")
  /\ Replaced(p)
  /\ lock' = [r \in Requests |-> IF lock[r] = p THEN NoOne ELSE lock[r]]
  /\ seen' = [seen EXCEPT ![p] = SeenNothing]
  /\ Goto(p, "ml")
  /\ UNCHANGED <<env, op, target, run, obs, inference, mlsaved,
                 current, score>>

\* An exception leaves the pipeline and the request; the run stays COMPLETED.
ReconstructionRaises(p) ==
  /\ At(p, "rebuild")
  /\ End(p, "failed")
  /\ lock' = [r \in Requests |-> IF lock[r] = p THEN NoOne ELSE lock[r]]
  /\ UNCHANGED <<env, op, target, run, obs, rec, mlsaved, current,
                 classified, score>>

-----------------------------------------------------------------------------
(* execute_flow_classification.                                            *)

\* Without a usable bundle, or without flows, the outcome is known at once:
\* the UPDATE that demotes the committed rows is sent, and the commit is next.
KnownAtOnce(p) ==
  /\ At(p, "ml") /\ Exists(target[p])
  /\ bundle # "valid" \/ FlowsOf(target[p]) = NoOne
  /\ inference' = [inference EXCEPT ![p] =
       CASE bundle = "missing" -> "NOT_CONFIGURED"
         [] bundle = "invalid" -> "BUNDLE_INVALID"
         [] bundle = "valid"   -> "NO_FLOWS"]
  /\ seen' = [seen EXCEPT ![p].rows = Inferred(target[p])]
  /\ Goto(p, "mlcommit")
  /\ UNCHANGED <<env, op, target, run, lock, obs, rec, mlsaved,
                 current, classified, score>>

\* Otherwise the row is flushed as RUNNING, and the flows are classified.
BeginInference(p) ==
  /\ At(p, "ml") /\ Exists(target[p])
  /\ bundle = "valid" /\ FlowsOf(target[p]) # NoOne
  /\ inference' = [inference EXCEPT ![p] = "RUNNING"]
  /\ seen' = [seen EXCEPT ![p].flows = FlowsOf(target[p])]
  /\ Goto(p, "classify")
  /\ UNCHANGED <<env, op, target, run, lock, obs, rec, mlsaved,
                 current, classified, score>>

Outcome(done, skipped) ==
  IF done = Flows THEN "COMPLETED"
  ELSE IF done > 0 THEN "PARTIAL"
  ELSE IF skipped > 0 THEN "INSUFFICIENT_INPUT" ELSE "FAILED"

\* Each flow is classified, skipped or failed; a failed one gets no row.  The
\* UPDATE demotes the rows that are committed when it is sent.
Classify(p, done, skipped) ==
  /\ At(p, "classify")
  /\ done + skipped <= Flows
  /\ inference' = [inference EXCEPT ![p] = Outcome(done, skipped)]
  /\ seen' = [seen EXCEPT ![p].rows = Inferred(target[p]),
                          ![p].flows = IF done + skipped > 0 THEN @ ELSE NoOne]
  /\ Goto(p, "mlcommit")
  /\ UNCHANGED <<env, op, target, run, lock, obs, rec, mlsaved,
                 current, classified, score>>

\* The pipeline logs the exception and goes on with the same session: the
\* flushed row is now part of whatever it commits next.
InferenceRaises(p) ==
  /\ At(p, "classify")
  /\ seen' = [seen EXCEPT ![p] = SeenNothing]
  /\ Goto(p, "assess")
  /\ UNCHANGED <<env, op, target, run, lock, rowVars>>

\* A classification of a flow that was deleted meanwhile has no parent row.
Dangling(p) == seen[p].flows # NoOne /\ rec[seen[p].flows] = {}

Switched(p) == (current \ seen[p].rows) \cup {p}

CommitInference(p) ==
  /\ At(p, "mlcommit") /\ Exists(target[p]) /\ ~Dangling(p)
  /\ mlsaved' = mlsaved \cup {p}
  /\ current' = Switched(p)
  /\ classified' = [classified EXCEPT ![p] = seen[p].flows]
  /\ seen' = [seen EXCEPT ![p] = SeenNothing]
  /\ Goto(p, "assess")
  /\ UNCHANGED <<env, op, target, run, lock, obs, rec, inference, score>>

\* A failed flush leaves the session unusable: the assessment's first SELECT
\* raises and is logged, and the SELECT that reloads the run fails the request.
InferenceRejected(p) ==
  /\ At(p, "mlcommit") /\ (~Exists(target[p]) \/ Dangling(p))
  /\ Goto(p, "failed")
  /\ inference' = [inference EXCEPT ![p] = "none"]
  /\ seen' = [seen EXCEPT ![p] = SeenNothing]
  /\ UNCHANGED <<env, op, target, run, lock, obs, rec, mlsaved, current,
                 classified, score>>

\* Without a run there is nothing to classify and nothing to assess, and the
\* reload fails the request.
InferenceGone(p) == At(p, "ml") /\ Gone(p)

-----------------------------------------------------------------------------
(* _ensure_assessment_executed, called by the pipeline and by the pages.   *)

\* The pipeline swallows what the assessment raises; a page fails with it.
Finish(p) ==
  /\ End(p, "done")
  /\ UNCHANGED <<env, op, target, run, lock, obs, rec, mlsaved, current,
                 classified, score>>

AlreadyAssessed(p) ==
  /\ At(p, "assess") /\ Assessed(target[p]) # {}
  /\ Finish(p)

CheckAssessment(p) ==
  /\ At(p, "assess") /\ Assessed(target[p]) = {}
  /\ Goto(p, "sessions")
  /\ UNCHANGED <<env, op, target, run, lock, rowVars, seen>>

\* Sessions and flows are SELECTs of their own.
ReadSessions(p) ==
  /\ At(p, "sessions") /\ Exists(target[p])
  /\ seen' = [seen EXCEPT ![p].sessions = Behind(Rebuilt(target[p]))]
  /\ Goto(p, "flows")
  /\ UNCHANGED <<env, op, target, run, lock, rowVars>>

ReadFlows(p) ==
  /\ At(p, "flows")
  /\ seen' = [seen EXCEPT ![p].obs = Behind(FlowsOf(target[p]))]
  /\ Goto(p, "persist")
  /\ UNCHANGED <<env, op, target, run, lock, rowVars>>

AssessmentGone(p) ==
  \/ At(p, "sessions") /\ Gone(p)
  \/ At(p, "persist") /\ Gone(p)

AssessmentRaises(p) ==
  /\ At(p, "persist") /\ Exists(target[p])
  /\ IF op[p] = "view" THEN Fail(p) ELSE Finish(p)

CommitAssessment(p) ==
  /\ At(p, "persist") /\ Exists(target[p])
  /\ score' = [score EXCEPT ![p] = [policy |-> release.policy,
                                    sessions |-> seen[p].sessions,
                                    flows |-> seen[p].obs]]
  /\ mlsaved' = IF Flushed(p) THEN mlsaved \cup {p} ELSE mlsaved
  /\ seen' = [seen EXCEPT ![p] = SeenNothing]
  /\ Goto(p, "done")
  /\ UNCHANGED <<env, op, target, run, lock, obs, rec, inference,
                 current, classified>>

-----------------------------------------------------------------------------
\* The service stops and starts again, perhaps as a newer release.  Requests
\* in flight are lost with their transactions; nothing looks for them.
Restart(new) ==
  /\ new.pipeline >= release.pipeline /\ new.policy >= release.policy
  /\ release' = new
  /\ pc' = [p \in Requests |-> IF pc[p] \in Stages THEN "dead" ELSE pc[p]]
  /\ lock' = [r \in Requests |-> NoOne]
  /\ inference' = [p \in Requests |->
       IF pc[p] \in Stages /\ p \notin mlsaved THEN "none" ELSE inference[p]]
  /\ seen' = [p \in Requests |-> SeenNothing]
  /\ UNCHANGED <<capture, bundle, op, target, run, obs, rec, mlsaved, current,
                 classified, score>>

Arrive(p) ==
  \/ Create(p)
  \/ \E r \in Requests :
       \/ Reuse(p, r) \/ Recompute(p, r) \/ View(p, r) \/ Delete(p, r)
       \/ \E flag \in {"yes", "no"} : Archive(p, r, flag)

Step(p) ==
  \/ InsertRun(p) \/ BeginProtocol(p) \/ StoreObservations(p) \/ ParserFails(p)
  \/ ProtocolGone(p)
  \/ BeginReconstruction(p) \/ CommitReconstruction(p) \/ ReconstructionRaises(p)
  \/ KnownAtOnce(p) \/ BeginInference(p) \/ InferenceRaises(p)
  \/ \E done, skipped \in 0..Flows : Classify(p, done, skipped)
  \/ CommitInference(p) \/ InferenceRejected(p) \/ InferenceGone(p)
  \/ AlreadyAssessed(p) \/ CheckAssessment(p) \/ ReadSessions(p) \/ ReadFlows(p)
  \/ AssessmentGone(p) \/ AssessmentRaises(p) \/ CommitAssessment(p)

Next ==
  \/ \E p \in Requests : Arrive(p) \/ Step(p)
  \/ \E new \in Releases : Restart(new)

Spec == Init /\ [][Next]_vars

\* The event loop resumes every request whose await has been answered.
Fairness == \A p \in Requests : WF_vars(Step(p))
FairSpec == Spec /\ Fairness

-----------------------------------------------------------------------------
(* Properties.                                                             *)

\* TypeOK.  Types of the tables, of the requests and of what they have read.
TypeOK ==
  /\ capture \in {"none", "ike", "esp"}
  /\ bundle \in {"missing", "invalid", "valid"}
  /\ release \in Releases
  /\ op \in [Requests -> Ops]
  /\ pc \in [Requests -> Places]
  /\ target \in [Requests -> Maybe]
  /\ run \in [Requests -> RunRows]
  /\ lock \in [Requests -> Maybe]
  /\ {obs, mlsaved, current} \subseteq SUBSET Requests
  /\ rec \in [Requests -> SUBSET Requests]
  /\ inference \in [Requests -> Inferences]
  /\ classified \in [Requests -> Maybe]
  /\ score \in [Requests -> Scores]
  /\ seen \in [Requests -> Seen]

\* However many requests rebuild a run at once, its sessions, SAs and flows
\* are those of one reconstruction ("Idempotent Transactional Persistence").
OneReconstruction ==
  \A r \in Requests : \A p, q \in Copies(r) : p = q

\* An assessment made by a pipeline rests on a reconstruction that has seen
\* the observations of that very pipeline, whatever ran beside it.
AssessedOnOwnEvidence ==
  \A p \in Requests : score[p] # NoScore /\ op[p] # "view" =>
    /\ p \in score[p].sessions
    /\ capture = "esp" => p \in score[p].flows

\* When every request has ended without an error or a restart, what is
\* stored for a run was rebuilt from all of its observations.
Quiet(r) == \A p \in Of(r) : pc[p] = "done"
RebuiltFromAll ==
  \A r \in Requests : Exists(r) /\ Quiet(r) =>
    \A p \in Copies(r) : rec[p] = Observed(r)

\* A run that is queued or running gets a verdict, unless a restart has lost
\* a request that worked on it.
RunsSettle ==
  \A r \in Requests :
    run[r].status \in {"QUEUED", "RUNNING"} ~>
      \/ run[r].status \in {"COMPLETED", "FAILED", "deleted"}
      \/ \E p \in Of(r) : pc[p] = "dead"

=============================================================================
