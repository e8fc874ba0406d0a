---------------------------- MODULE Remediation ----------------------------
(***************************************************************************)
(* One closed-loop remediation run: execute_closed_loop_run of             *)
(* ClosedLoopRemediationRunner, with the actions of the privileged agent   *)
(* it calls.  Every await is a step boundary: a status commit ("set_..."), *)
(* a journal commit ("rec_...") and an agent call are steps of their own.  *)
(*                                                                         *)
(* The run has one SQLAlchemy session and never rolls it back: once a      *)
(* commit has failed the session refuses every later one.                  *)
(***************************************************************************)
EXTENDS Naturals, Sequences

CONSTANTS
  VerifiedRestore,  \* does RESTORE_BACKUP answer with a "verified" field?
  ReportsLoss,      \* does the workload answer with "packet_loss_pct"?
  QueryFails,       \* may swanctl --list-sas fail and print nothing?
  DbFails,          \* may a statement or a commit fail?
  Crashes           \* may the API process die?

ASSUME RemediationAssumption ==
  {VerifiedRestore, ReportsLoss, QueryFails, DbFails, Crashes} \subseteq BOOLEAN

VARIABLES
  pc,         \* where the run is
  db,         \* the committed run row; db.proof: a verification row exists
  journal,    \* the committed RemediationRunStepModel rows
  session,    \* "ok" or "broken"
  file,       \* the gateway's swanctl.conf
  loaded,     \* the configuration the daemon runs
  backup,     \* what the file at backup_path holds; "none": no path or no file
  sas,        \* the SPIs of the daemon's security associations
  seen,       \* pre_apply_spis
  evidence,   \* what the latest VERIFY_FRESH_SA observed
  workload,   \* what RUN_REMEDIATION_WORKLOAD measured
  capturing,  \* is the run's tcpdump alive?
  rbfault,    \* did an action of the rollback fail?
  lock        \* who holds lab.lock: "free", "mine", "other"

dbVars  == <<db, journal, session>>
gwVars  == <<file, loaded, backup, sas>>
obsVars == <<seen, evidence, workload, capturing, rbfault>>
vars    == <<pc, dbVars, gwVars, obsVars, lock>>

(***************************************************************************)
(* The places of the run.  What an exception does depends on where it is   *)
(* raised: before the try block it leaves the function, inside it the      *)
(* handler takes over, inside the rollback's own try the rollback has      *)
(* failed, and in the rest of the handler only the finally clause remains. *)
(***************************************************************************)
Outside  == {"fetch", "set_preflight", "preflight", "rec_blocked",
             "rec_preflight", "acquire", "rec_lock", "rec_conflict"}
Applying == {"apply", "rec_apply", "set_reload", "reload"}
Proving  == {"rec_reload", "set_fresh", "fresh", "rec_fresh", "set_capture",
             "start", "set_workload", "workload", "stop", "rec_workload",
             "artifact", "save_capture", "set_reanalyze", "reanalyze",
             "set_compare", "compare", "save_proof", "rec_done"}
TryBlock == {"set_backup", "backup", "rec_backup", "query", "rec_query",
             "set_apply"} \cup Applying \cup Proving
Rollback == {"restore", "rb_reload", "rb_query", "rec_rolled"}
Handler  == {"handler", "set_rollback", "rec_trigger", "rec_rbfailed",
             "rec_missing"}
Ended    == {"end", "kept", "raised", "dead"}
PCs      == Outside \cup TryBlock \cup Rollback \cup Handler
              \cup {"release"} \cup Ended

OnRaise(at) ==
  CASE at \in Outside  -> "raised"
    [] at \in TryBlock -> "handler"
    [] at \in Rollback -> "rec_rbfailed"
    [] OTHER           -> "release"

Terminal == {"COMPLETED", "ROLLED_BACK", "FAILED", "ROLLBACK_FAILED"}
Statuses == Terminal \cup
  {"CREATED", "PREFLIGHT", "BACKUP_CREATED", "APPLYING", "CONFIG_APPLIED",
   "RELOADING", "REESTABLISHING", "CAPTURING", "VERIFYING_CONNECTIVITY",
   "REANALYZING", "COMPARING", "ROLLING_BACK"}

RunRows ==
  [status: Statuses, proof: BOOLEAN,
   rollback: {"NONE", "TRIGGERED", "COMPLETED", "FAILED"}]

\* The rows _record_step adds.
Rows ==
  [action: {"PREFLIGHT", "ACQUIRE_LOCK", "BACKUP_CONFIG",
            "PRE_APPLY_SA_STATE", "APPLY_CONFIG", "RELOAD_STRONGSWAN",
            "VERIFY_FRESH_SA", "CAPTURE_AND_WORKLOAD", "EVALUATE_AND_VERIFY",
            "ROLLBACK_TRIGGERED", "AUTOMATIC_ROLLBACK"},
   status: {"SUCCESS", "FAILED", "TRIGGERED"}]
Step(action, status) == [action |-> action, status |-> status]

SPIs == {"old", "new", "back"}

\* TypeOK.  The types of the variables.
TypeOK ==
  /\ pc \in PCs
  /\ db \in RunRows
  /\ journal \in Seq(Rows)
  /\ session \in {"ok", "broken"}
  /\ file \in {"absent", "empty", "baseline", "candidate"}
  /\ loaded \in {"none", "baseline", "candidate"}
  /\ backup \in {"none", "baseline"}
  /\ sas \subseteq SPIs /\ seen \subseteq SPIs /\ evidence \subseteq SPIs
  /\ workload \in {"none", "ok", "lossy", "dead"}
  /\ capturing \in BOOLEAN
  /\ rbfault \in BOOLEAN
  /\ lock \in {"free", "mine", "other"}

\* apply_remediation has committed the row and starts the background task.
Init ==
  /\ pc = "fetch"
  /\ db = [status |-> "CREATED", proof |-> FALSE, rollback |-> "NONE"]
  /\ journal = <<>>
  /\ session = "ok"
  /\ file \in {"absent", "empty", "baseline"}
  /\ loaded \in {"none", "baseline"}
  /\ backup = "none"
  /\ sas \in {{}, {"old"}}
  /\ seen = {} /\ evidence = {}
  /\ workload = "none"
  /\ capturing = FALSE
  /\ rbfault = FALSE
  /\ lock \in {"free", "other"}

-----------------------------------------------------------------------------
(***************************************************************************)
(* db.commit: it persists the attributes of the run and the journal rows   *)
(* added since the last commit, or it raises and breaks the session.       *)
(***************************************************************************)
CommitOK(row, steps) ==
  /\ session = "ok"
  /\ db' = row
  /\ journal' = journal \o steps
  /\ UNCHANGED session

CommitFails ==
  /\ DbFails \/ session = "broken"
  /\ session' = "broken"
  /\ UNCHANGED <<db, journal>>

Commit(at, row, steps, to) ==
  /\ pc = at
  /\ \/ CommitOK(row, steps) /\ pc' = to
     \/ CommitFails /\ pc' = OnRaise(at)
  /\ UNCHANGED <<gwVars, obsVars, lock>>

\* run.status = status; await db.commit()
SetStatus(at, status, to) ==
  Commit(at, [db EXCEPT !.status = status], <<>>, to)

\* await _record_step(action, "SUCCESS", ...)
Record(at, action, to) ==
  Commit(at, db, <<Step(action, "SUCCESS")>>, to)

\* run.status, run.rollback_state = ...; await _record_step(...)
Conclude(at, status, rollback, action, result, to) ==
  Commit(at, [db EXCEPT !.status = status, !.rollback = rollback],
         <<Step(action, result)>>, to)

Raise(at) == pc' = OnRaise(at)

-----------------------------------------------------------------------------
\* Run, twin and snapshot are fetched and the approved hash is compared with
\* the twin's; every mismatch is a ValueError.
Fetch ==
  /\ pc = "fetch"
  /\ \/ pc' = "set_preflight"
     \/ Raise("fetch")
  /\ UNCHANGED <<dbVars, gwVars, obsVars, lock>>

SetPreflight == SetStatus("set_preflight", "PREFLIGHT", "preflight")

\* run_preflight_checks: blocked by the lock file or by one of the other
\* checks (baseline, hash, syntax, agent, projected regressions), ready, or
\* a failing query.
Preflight ==
  /\ pc = "preflight"
  /\ \/ /\ pc' = "rec_blocked"
        /\ UNCHANGED dbVars
     \/ /\ lock = "free"
        /\ pc' = "rec_preflight"
        /\ UNCHANGED dbVars
     \/ /\ CommitFails
        /\ Raise("preflight")
  /\ UNCHANGED <<gwVars, obsVars, lock>>

RecordBlocked ==
  Conclude("rec_blocked", "FAILED", db.rollback, "PREFLIGHT", "FAILED", "end")

RecordPreflight == Record("rec_preflight", "PREFLIGHT", "acquire")

\* tracker.acquire_lock
Acquire ==
  /\ pc = "acquire"
  /\ \/ lock = "free" /\ lock' = "mine" /\ pc' = "rec_lock"
     \/ lock = "other" /\ UNCHANGED lock /\ pc' = "rec_conflict"
  /\ UNCHANGED <<dbVars, gwVars, obsVars>>

RecordLock == Record("rec_lock", "ACQUIRE_LOCK", "set_backup")

RecordConflict ==
  Conclude("rec_conflict", "FAILED", db.rollback, "ACQUIRE_LOCK", "FAILED",
           "end")

SetBackup == SetStatus("set_backup", "BACKUP_CREATED", "backup")

\* BACKUP_CONFIG copies the active file; an absent, unreadable or empty one
\* raises, and so may the copy.
Backup ==
  /\ pc = "backup"
  /\ \/ file = "baseline" /\ backup' = file /\ pc' = "rec_backup"
     \/ Raise("backup") /\ UNCHANGED backup
  /\ UNCHANGED <<file, loaded, sas, dbVars, obsVars, lock>>

RecordBackup == Record("rec_backup", "BACKUP_CONFIG", "query")

(***************************************************************************)
(* VERIFY_FRESH_SA: query_sa_status passes check=False, so a failed query  *)
(* prints nothing and counts as "no association".  An association is       *)
(* fresh when its SPI is not among the old ones, if there are old ones.    *)
(***************************************************************************)
Observations == IF QueryFails THEN {sas, {}} ELSE {sas}

IsFresh(found, oldSPIs) ==
  IF oldSPIs # {} THEN found \ oldSPIs # {} ELSE found # {}

QueryBefore ==
  /\ pc = "query"
  /\ \/ \E found \in Observations :
          seen' = found /\ evidence' = found /\ pc' = "rec_query"
     \/ Raise("query") /\ UNCHANGED <<seen, evidence>>
  /\ UNCHANGED <<workload, capturing, rbfault, dbVars, gwVars, lock>>

RecordQuery == Record("rec_query", "PRE_APPLY_SA_STATE", "set_apply")

SetApply == SetStatus("set_apply", "APPLYING", "apply")

\* APPLY_CONFIG: temporary file, os.replace, read back.  It may raise before
\* the replacement and after it.
Apply ==
  /\ pc = "apply"
  /\ \/ file' = "candidate" /\ pc' = "rec_apply"
     \/ file' \in {file, "candidate"} /\ Raise("apply")
  /\ UNCHANGED <<loaded, backup, sas, dbVars, obsVars, lock>>

RecordApply ==
  Conclude("rec_apply", "CONFIG_APPLIED", db.rollback, "APPLY_CONFIG",
           "SUCCESS", "set_reload")

SetReload == SetStatus("set_reload", "RELOADING", "reload")

(***************************************************************************)
(* RELOAD_STRONGSWAN loads the file and initiates the tunnel, which yields *)
(* an association with a new SPI or fails unnoticed; associations that     *)
(* existed may survive.  A failed load raises, before or after the daemon  *)
(* has taken the file over.                                                *)
(***************************************************************************)
ReloadDaemon(spi, at, to) ==
  /\ pc = at
  /\ \/ loaded' = file /\ pc' = to
     \/ loaded' \in {loaded, file} /\ Raise(at)
  /\ \E kept \in SUBSET sas : sas' \in {kept, kept \cup {spi}}
  /\ UNCHANGED <<file, backup, seen, evidence, workload, capturing, dbVars,
                 lock>>

Reload == ReloadDaemon("new", "reload", "rec_reload") /\ UNCHANGED rbfault

RecordReload == Record("rec_reload", "RELOAD_STRONGSWAN", "set_fresh")

SetFresh == SetStatus("set_fresh", "REESTABLISHING", "fresh")

VerifyFresh ==
  /\ pc = "fresh"
  /\ \/ \E found \in Observations :
          /\ evidence' = found
          /\ IF IsFresh(found, seen) THEN pc' = "rec_fresh"
                                     ELSE Raise("fresh")
     \/ Raise("fresh") /\ UNCHANGED evidence
  /\ UNCHANGED <<seen, workload, capturing, rbfault, dbVars, gwVars, lock>>

RecordFresh == Record("rec_fresh", "VERIFY_FRESH_SA", "set_capture")

SetCapture == SetStatus("set_capture", "CAPTURING", "start")

\* START_LIVE_CAPTURE raises when tcpdump does not survive its first half
\* second.
StartCapture ==
  /\ pc = "start"
  /\ \/ capturing' = TRUE /\ pc' = "set_workload"
     \/ Raise("start") /\ UNCHANGED capturing
  /\ UNCHANGED <<seen, evidence, workload, rbfault, dbVars, gwVars, lock>>

SetWorkload == SetStatus("set_workload", "VERIFYING_CONNECTIVITY", "workload")

\* RUN_REMEDIATION_WORKLOAD: ping succeeds as soon as one answer arrives.
RunWorkload ==
  /\ pc = "workload"
  /\ \/ workload' \in {"ok", "lossy", "dead"} /\ pc' = "stop"
     \/ Raise("workload") /\ UNCHANGED workload
  /\ UNCHANGED <<seen, evidence, capturing, rbfault, dbVars, gwVars, lock>>

\* STOP_LIVE_CAPTURE ends the process before anything in it can raise; then
\* the runner judges the workload.
StopCapture ==
  /\ pc = "stop"
  /\ capturing' = FALSE
  /\ \/ /\ workload # "dead"
        /\ ReportsLoss => workload # "lossy"
        /\ pc' = "rec_workload"
     \/ Raise("stop")
  /\ UNCHANGED <<seen, evidence, workload, rbfault, dbVars, gwVars, lock>>

RecordWorkload == Record("rec_workload", "CAPTURE_AND_WORKLOAD", "artifact")

\* A step whose outcome nothing else of the run determines: it succeeds or
\* raises.
Judge(at, to) ==
  /\ pc = at
  /\ pc' = to \/ Raise(at)
  /\ UNCHANGED <<dbVars, gwVars, obsVars, lock>>

\* The capture file must exist and hold bytes; it is copied to storage.
CheckArtifact == Judge("artifact", "save_capture")

SaveCapture == Commit("save_capture", db, <<>>, "set_reanalyze")

SetReanalyze == SetStatus("set_reanalyze", "REANALYZING", "reanalyze")

\* execute_full_analysis_pipeline on the session of the run; the post
\* analysis must end COMPLETED.
Reanalyze ==
  \/ Judge("reanalyze", "set_compare")
  \/ /\ pc = "reanalyze"
     /\ CommitFails
     /\ Raise("reanalyze")
     /\ UNCHANGED <<gwVars, obsVars, lock>>

SetCompare == SetStatus("set_compare", "COMPARING", "compare")

\* VerificationComparator.compare; a blocking regression raises.
CompareEvidence == Judge("compare", "save_proof")

\* The verification row is committed before the run is.
SaveProof ==
  Commit("save_proof", [db EXCEPT !.proof = TRUE], <<>>, "rec_done")

RecordDone ==
  Conclude("rec_done", "COMPLETED", "NONE", "EVALUATE_AND_VERIFY", "SUCCESS",
           "release")

-----------------------------------------------------------------------------
\* except Exception: is there a backup_path, and the file?  No code removes
\* a backup, so the second question adds nothing.
Handle ==
  /\ pc = "handler"
  /\ pc' = IF backup # "none" THEN "set_rollback" ELSE "rec_missing"
  /\ UNCHANGED <<dbVars, gwVars, obsVars, lock>>

SetRollback ==
  Commit("set_rollback",
         [db EXCEPT !.status = "ROLLING_BACK", !.rollback = "TRIGGERED"],
         <<>>, "rec_trigger")

\* Mutant of RecordTrigger: the trigger is not journalled.
RecordTrigger_Omitted == Commit("rec_trigger", db, <<>>, "restore")

RecordTrigger ==
  Commit("rec_trigger", db, <<Step("ROLLBACK_TRIGGERED", "TRIGGERED")>>,
         "restore")

\* RESTORE_BACKUP, like APPLY_CONFIG, may raise before and after os.replace.
\* The runner requires an answer with "verified": True.
Restore ==
  /\ pc = "restore"
  /\ \/ /\ file' = backup
        /\ IF VerifiedRestore THEN pc' = "rb_reload" ELSE Raise("restore")
        /\ UNCHANGED rbfault
     \/ /\ file' \in {file, backup}
        /\ Raise("restore")
        /\ rbfault' = TRUE
  /\ UNCHANGED <<loaded, backup, sas, seen, evidence, workload, capturing,
                 dbVars, lock>>

ReloadRestored ==
  /\ ReloadDaemon("back", "rb_reload", "rb_query")
  /\ rbfault' = (rbfault \/ pc' = OnRaise("rb_reload"))

\* The answer of the recovery query goes into the journal and is not judged.
QueryRecovery ==
  /\ pc = "rb_query"
  /\ \/ \E found \in Observations :
          evidence' = found /\ pc' = "rec_rolled" /\ UNCHANGED rbfault
     \/ Raise("rb_query") /\ rbfault' = TRUE /\ UNCHANGED evidence
  /\ UNCHANGED <<seen, workload, capturing, dbVars, gwVars, lock>>

RecordRolledBack ==
  Conclude("rec_rolled", "ROLLED_BACK", "COMPLETED", "AUTOMATIC_ROLLBACK",
           "SUCCESS", "release")

\* Mutant of RecordRollbackFailed: the outcome is reported as a rollback.
RecordRollbackFailed_Hidden ==
  Conclude("rec_rbfailed", "FAILED", "FAILED", "AUTOMATIC_ROLLBACK",
           "FAILED", "release")

RecordRollbackFailed ==
  Conclude("rec_rbfailed", "ROLLBACK_FAILED", "FAILED", "AUTOMATIC_ROLLBACK",
           "FAILED", "release")

\* Mutant of RecordMissing: the handler returns without a status.
RecordMissing_Silent ==
  /\ pc = "rec_missing"
  /\ pc' = "release"
  /\ UNCHANGED <<dbVars, gwVars, obsVars, lock>>

RecordMissing ==
  Conclude("rec_missing", "ROLLBACK_FAILED", "FAILED", "AUTOMATIC_ROLLBACK",
           "FAILED", "release")

\* Mutant of Release: lab.lock is kept.
Release_Forgotten ==
  /\ pc = "release"
  /\ pc' = "end"
  /\ UNCHANGED <<lock, dbVars, gwVars, obsVars>>

\* finally: tracker.release_lock(), which logs an OSError of the unlink and
\* leaves the file where it is.
Release ==
  /\ pc = "release"
  /\ \/ lock' = "free" /\ pc' = "end"
     \/ UNCHANGED lock /\ pc' = "kept"
  /\ UNCHANGED <<dbVars, gwVars, obsVars>>

-----------------------------------------------------------------------------
\* The process dies: lab.lock, the files and tcpdump stay as they are.
Crash ==
  /\ Crashes
  /\ pc \notin Ended
  /\ pc' = "dead"
  /\ UNCHANGED <<dbVars, gwVars, obsVars, lock>>

\* Another run, or an experiment, takes and frees lab.lock, and removes the
\* file that this run has left behind once it is 600 seconds old.
OthersLock ==
  /\ \/ lock = "free" /\ lock' = "other"
     \/ lock = "other" /\ lock' = "free"
     \/ lock = "mine" /\ pc \in Ended /\ lock' = "free"
  /\ UNCHANGED <<pc, dbVars, gwVars, obsVars>>

Prepare ==
  \/ Fetch \/ SetPreflight \/ Preflight \/ RecordBlocked \/ RecordPreflight
  \/ Acquire \/ RecordLock \/ RecordConflict
  \/ SetBackup \/ Backup \/ RecordBackup
  \/ QueryBefore \/ RecordQuery \/ SetApply

Change ==
  \/ Apply \/ RecordApply \/ SetReload \/ Reload \/ RecordReload

Prove ==
  \/ SetFresh \/ VerifyFresh \/ RecordFresh
  \/ SetCapture \/ StartCapture \/ SetWorkload \/ RunWorkload
  \/ StopCapture \/ RecordWorkload \/ CheckArtifact \/ SaveCapture
  \/ SetReanalyze \/ Reanalyze \/ SetCompare \/ CompareEvidence
  \/ SaveProof \/ RecordDone

Compensate ==
  \/ Handle \/ SetRollback \/ RecordTrigger
  \/ Restore \/ ReloadRestored \/ QueryRecovery
  \/ RecordRolledBack \/ RecordRollbackFailed \/ RecordMissing \/ Release

RunStep == Prepare \/ Change \/ Prove \/ Compensate

Next == RunStep \/ Crash \/ OthersLock

Spec == Init /\ [][Next]_vars

\* Every call the run awaits returns: agent commands and the polling of the
\* lock have timeouts.
FairSpec == Spec /\ WF_vars(RunStep)

-----------------------------------------------------------------------------
\* BackupGuardsApply.  Whatever fails and wherever the process dies, the
\* candidate is in the file or in the daemon only if a backup of the
\* baseline exists ("mandatory pre-apply configuration backups").
BackupGuardsApply ==
  "candidate" \in {file, loaded} => backup = "baseline"

\* RolledBackRunsTheBaseline.  ROLLED_BACK is written only when the file and
\* the daemon are back at the baseline.
RolledBackRunsTheBaseline ==
  db.status = "ROLLED_BACK" => file = "baseline" /\ loaded = "baseline"

\* NoSilentCandidate.  If no commit fails, a run that ends with the
\* candidate on the gateway says so: COMPLETED, or ROLLBACK_FAILED, which
\* calls for an operator.
NoSilentCandidate ==
  pc \in Ended \ {"dead"} /\ "candidate" \in {file, loaded} =>
    db.status \in {"COMPLETED", "ROLLBACK_FAILED"}

\* RollbackFailsOnlyOnFault.  With a backup at hand, the rollback is
\* reported as failed only if one of its actions failed.
RollbackFailsOnlyOnFault ==
  db.status = "ROLLBACK_FAILED" /\ backup # "none" => rbfault

\* LockReturned.  A run that is over keeps lab.lock in two cases only: the
\* unlink in release_lock raised OSError, or the commit of the ACQUIRE_LOCK
\* step, outside the try block, failed and there was no release.
LockReturned ==
  pc \in Ended \ {"dead"} /\ lock = "mine" =>
    \/ pc = "kept"
    \/ /\ pc = "raised" /\ session = "broken"
       /\ journal = <<Step("PREFLIGHT", "SUCCESS")>>

\* The steps of a run that succeeds, in their order.
SagaSteps ==
  <<"PREFLIGHT", "ACQUIRE_LOCK", "BACKUP_CONFIG", "PRE_APPLY_SA_STATE",
    "APPLY_CONFIG", "RELOAD_STRONGSWAN", "VERIFY_FRESH_SA",
    "CAPTURE_AND_WORKLOAD", "EVALUATE_AND_VERIFY">>

(***************************************************************************)
(* JournalIsSaga.  The committed journal is a prefix of the saga, followed *)
(* by at most one failed ending, and the row's terminal status is the one  *)
(* its last step stands for.                                               *)
(***************************************************************************)
Successes(n) == [i \in 1..n |-> Step(SagaSteps[i], "SUCCESS")]

Trigger == Step("ROLLBACK_TRIGGERED", "TRIGGERED")

Endings ==
  {<<>>, <<Step("PREFLIGHT", "FAILED")>>, <<Step("ACQUIRE_LOCK", "FAILED")>>,
   <<Step("AUTOMATIC_ROLLBACK", "FAILED")>>, <<Trigger>>,
   <<Trigger, Step("AUTOMATIC_ROLLBACK", "SUCCESS")>>,
   <<Trigger, Step("AUTOMATIC_ROLLBACK", "FAILED")>>}

StatusOf(step) ==
  CASE step = Step("EVALUATE_AND_VERIFY", "SUCCESS") -> "COMPLETED"
    [] step = Step("AUTOMATIC_ROLLBACK", "SUCCESS")  -> "ROLLED_BACK"
    [] step = Step("AUTOMATIC_ROLLBACK", "FAILED")   -> "ROLLBACK_FAILED"
    [] step \in {Step("PREFLIGHT", "FAILED"),
                 Step("ACQUIRE_LOCK", "FAILED")}     -> "FAILED"
    [] OTHER                                         -> "open"

JournalIsSaga ==
  /\ \E n \in 0..9 : \E ending \in Endings : journal = Successes(n) \o ending
  /\ LET told == IF journal = <<>> THEN "open"
                                  ELSE StatusOf(journal[Len(journal)])
     IN  db.status \in Terminal \/ told # "open" => db.status = told

\* MutatesUnderLock.  The run touches the gateway only while it holds
\* lab.lock.
MutatesUnderLock ==
  [][UNCHANGED <<file, loaded>> \/ lock = "mine"]_vars

\* RunsDecide.  Without crashes and database failures a run whose preflight
\* began reaches a terminal status.
RunsDecide == db.status = "PREFLIGHT" ~> db.status \in Terminal

\* Contract.  The run implements RemediationContract, its status being the
\* verdict: verdicts are true, final, and never followed by a change.
StatusVerdict ==
  CASE db.status = "COMPLETED"       -> "accepted"
    [] db.status = "ROLLED_BACK"     -> "reverted"
    [] db.status = "FAILED"          -> "declined"
    [] db.status = "ROLLBACK_FAILED" -> "operator"
    [] OTHER                         -> "open"

C == INSTANCE RemediationContract WITH verdict <- StatusVerdict

Contract == C!ContractSpec
=============================================================================
