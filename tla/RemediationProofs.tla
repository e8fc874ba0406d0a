------------------------- MODULE RemediationProofs -------------------------
(***************************************************************************)
(* For every agent and every combination of faults: type correctness, the  *)
(* safety of the gateway, the journal, the return of the lock, that a      *)
(* candidate is never left behind in silence while the database works, and *)
(* the refinement of RemediationContract.                                  *)
(*                                                                         *)
(* For every bundle the templates were written for, every capture, every   *)
(* posted text and every number of users: what the planning of a run       *)
(* promises. It rests on what a template does to a configuration, on the   *)
(* fold of the templates over the findings, and on what a text is read as. *)
(***************************************************************************)
EXTENDS Remediation, RemediationPlanning, FiniteSetTheorems, SequenceTheorems, TLAPS

USE RemediationAssumption

(***************************************************************************)
(* What each stretch of the run knows about the gateway.                   *)
(***************************************************************************)
Early   == Outside \cup {"set_backup", "backup"}
Backed  == {"rec_backup", "query", "rec_query", "set_apply", "apply"}
Applied == {"rec_apply", "set_reload", "reload"}
Undoing == {"set_rollback", "rec_trigger", "rec_rbfailed"} \cup Rollback
Locked  == TryBlock \cup Rollback \cup Handler \cup {"rec_lock", "release"}
Closed  == {"release", "end", "kept", "dead"}

EarlyOK ==
  pc \in Early => backup = "none" /\ file # "candidate" /\ loaded # "candidate"

BackedOK ==
  pc \in Backed =>
    backup = "baseline" /\ file = "baseline" /\ loaded # "candidate"

AppliedOK == pc \in Applied => backup = "baseline" /\ file = "candidate"

ProvingOK ==
  pc \in Proving =>
    backup = "baseline" /\ file = "candidate" /\ loaded = "candidate"

UndoingOK ==
  /\ pc \in Undoing => backup = "baseline"
  /\ pc \in {"rb_reload", "rb_query", "rec_rolled"} => file = "baseline"
  /\ pc \in {"rb_query", "rec_rolled"} => loaded = "baseline"

BackupOK ==
  /\ "candidate" \in {file, loaded} => backup = "baseline"
  /\ backup = "baseline" => file \in {"baseline", "candidate"}

Region ==
  EarlyOK /\ BackedOK /\ AppliedOK /\ ProvingOK /\ UndoingOK /\ BackupOK

\* A terminal status is written on the way out, and it is true.
VerdictOK ==
  /\ db.status \in Terminal => pc \in Closed
  /\ db.status = "COMPLETED" => file = "candidate" /\ loaded = "candidate"
  /\ db.status = "ROLLED_BACK" => file = "baseline" /\ loaded = "baseline"
  /\ db.status = "FAILED" => file # "candidate" /\ loaded # "candidate"

LockOK == pc \in Locked => lock = "mine"

IInv == TypeOK /\ Region /\ VerdictOK /\ LockOK

-----------------------------------------------------------------------------
\* Where an exception raised at each place goes.
LEMMA RaiseTargets ==
  ASSUME NEW at
  PROVE  /\ at \in Outside => OnRaise(at) = "raised"
         /\ at \in TryBlock => OnRaise(at) = "handler"
         /\ at \in Rollback => OnRaise(at) = "rec_rbfailed"
         /\ at \in Handler => OnRaise(at) = "release"
BY DEF OnRaise, Outside, TryBlock, Applying, Proving, Rollback, Handler

LEMMA InitInv == Init => IInv
<1> SUFFICES ASSUME Init PROVE IInv
  OBVIOUS
<1>1. TypeOK
  <2>1. pc \in PCs /\ journal \in Seq(Rows)
    BY DEF Init, PCs, Outside
  <2>2. db \in RunRows
    BY DEF Init, RunRows, Statuses
  <2>3. sas \subseteq SPIs /\ seen \subseteq SPIs /\ evidence \subseteq SPIs
    BY DEF Init, SPIs
  <2> QED  BY <2>1, <2>2, <2>3 DEF Init, TypeOK
<1>2. Region /\ VerdictOK /\ LockOK
  BY DEF Init, Region, VerdictOK, LockOK, EarlyOK, BackedOK, AppliedOK,
     ProvingOK, UndoingOK, BackupOK, Early, Backed, Applied, Proving,
     Undoing, Rollback, Locked, TryBlock, Applying, Handler, Terminal
<1> QED  BY <1>1, <1>2 DEF IInv

-----------------------------------------------------------------------------
(***************************************************************************)
(* Type correctness of a step.  All commits go through Commit.             *)
(***************************************************************************)
LEMMA CommitType ==
  ASSUME TypeOK, NEW at \in TryBlock \cup Outside \cup Rollback \cup Handler,
         NEW row \in RunRows, NEW steps \in Seq(Rows), NEW to \in PCs,
         Commit(at, row, steps, to)
  PROVE  TypeOK'
<1>1. pc' \in PCs
  BY RaiseTargets DEF Commit, PCs, Ended, Handler
<1>2. db' \in RunRows /\ session' \in {"ok", "broken"}
  BY DEF Commit, CommitOK, CommitFails, TypeOK
<1>3. journal' \in Seq(Rows)
  <2>1. journal \o steps \in Seq(Rows)
    BY ConcatProperties DEF TypeOK
  <2> QED  BY <2>1 DEF Commit, CommitOK, CommitFails, TypeOK
<1> QED
  BY <1>1, <1>2, <1>3 DEF Commit, TypeOK, gwVars, obsVars

LEMMA RowUpdates ==
  ASSUME TypeOK, NEW st \in Statuses,
         NEW rb \in {"NONE", "TRIGGERED", "COMPLETED", "FAILED"}
  PROVE  /\ [db EXCEPT !.status = st] \in RunRows
         /\ [db EXCEPT !.status = st, !.rollback = rb] \in RunRows
         /\ [db EXCEPT !.proof = TRUE] \in RunRows
         /\ db.rollback \in {"NONE", "TRIGGERED", "COMPLETED", "FAILED"}
         /\ db.status \in Statuses
BY DEF TypeOK, RunRows

LEMMA StatusType ==
  ASSUME TypeOK, NEW at \in TryBlock \cup Outside, NEW st \in Statuses,
         NEW to \in PCs, SetStatus(at, st, to)
  PROVE  TypeOK'
<1>1. <<>> \in Seq(Rows)
  OBVIOUS
<1> QED  BY <1>1, CommitType, RowUpdates DEF SetStatus

LEMMA StepRows ==
  ASSUME NEW a \in {"PREFLIGHT", "ACQUIRE_LOCK", "BACKUP_CONFIG",
            "PRE_APPLY_SA_STATE", "APPLY_CONFIG", "RELOAD_STRONGSWAN",
            "VERIFY_FRESH_SA", "CAPTURE_AND_WORKLOAD", "EVALUATE_AND_VERIFY",
            "ROLLBACK_TRIGGERED", "AUTOMATIC_ROLLBACK"},
         NEW r \in {"SUCCESS", "FAILED", "TRIGGERED"}
  PROVE  <<Step(a, r)>> \in Seq(Rows)
<1>1. Step(a, r) \in Rows
  BY DEF Step, Rows
<1> QED  BY <1>1

LEMMA RecordType ==
  ASSUME TypeOK, NEW at \in TryBlock \cup Outside, NEW to \in PCs,
         NEW a \in {"PREFLIGHT", "ACQUIRE_LOCK", "BACKUP_CONFIG",
            "PRE_APPLY_SA_STATE", "RELOAD_STRONGSWAN", "VERIFY_FRESH_SA",
            "CAPTURE_AND_WORKLOAD"},
         Record(at, a, to)
  PROVE  TypeOK'
<1>1. <<Step(a, "SUCCESS")>> \in Seq(Rows)
  BY StepRows
<1>2. db \in RunRows
  BY DEF TypeOK
<1> QED  BY <1>1, <1>2, CommitType DEF Record

LEMMA ConcludeType ==
  ASSUME TypeOK,
         NEW at \in TryBlock \cup Outside \cup Rollback \cup Handler,
         NEW st \in Statuses, NEW to \in PCs,
         NEW rb \in {"NONE", "TRIGGERED", "COMPLETED", "FAILED"},
         NEW a \in {"PREFLIGHT", "ACQUIRE_LOCK", "APPLY_CONFIG",
                    "EVALUATE_AND_VERIFY", "AUTOMATIC_ROLLBACK"},
         NEW r \in {"SUCCESS", "FAILED"},
         Conclude(at, st, rb, a, r, to)
  PROVE  TypeOK'
<1>1. <<Step(a, r)>> \in Seq(Rows)
  BY StepRows
<1>2. [db EXCEPT !.status = st, !.rollback = rb] \in RunRows
  BY RowUpdates
<1> QED  BY <1>1, <1>2, CommitType DEF Conclude

LEMMA TypeStep == IInv /\ [Next]_vars => TypeOK'
<1> SUFFICES ASSUME IInv, [Next]_vars
             PROVE  TypeOK'
  OBVIOUS
<1>0. TypeOK
  BY DEF IInv
<1> USE DEF PCs, Outside, TryBlock, Applying, Proving, Rollback, Handler,
            Ended
<1>1. CASE SetPreflight \/ SetBackup \/ SetApply \/ SetReload \/ SetFresh
  BY <1>0, <1>1, StatusType DEF Statuses, SetPreflight, SetBackup, SetApply,
     SetReload, SetFresh
<1>2. CASE SetCapture \/ SetWorkload \/ SetReanalyze \/ SetCompare
  BY <1>0, <1>2, StatusType DEF Statuses, SetCapture, SetWorkload,
     SetReanalyze, SetCompare
<1>3. CASE RecordPreflight \/ RecordLock \/ RecordBackup \/ RecordQuery
  BY <1>0, <1>3, RecordType DEF RecordPreflight, RecordLock, RecordBackup,
     RecordQuery
<1>4. CASE RecordReload \/ RecordFresh \/ RecordWorkload
  BY <1>0, <1>4, RecordType DEF RecordReload, RecordFresh, RecordWorkload
<1>5. CASE RecordBlocked \/ RecordConflict \/ RecordApply
  BY <1>0, <1>5, ConcludeType, RowUpdates DEF Statuses, Terminal,
     RecordBlocked, RecordConflict, RecordApply
<1>6. CASE RecordDone \/ RecordRolledBack
  BY <1>0, <1>6, ConcludeType DEF Statuses, Terminal, RecordDone,
     RecordRolledBack
<1>7. CASE RecordRollbackFailed \/ RecordMissing
  BY <1>0, <1>7, ConcludeType DEF Statuses, Terminal, RecordRollbackFailed,
     RecordMissing
<1>8. CASE SaveCapture \/ SaveProof \/ SetRollback
  <2>1. /\ db \in RunRows
        /\ [db EXCEPT !.proof = TRUE] \in RunRows
        /\ [db EXCEPT !.status = "ROLLING_BACK", !.rollback = "TRIGGERED"]
             \in RunRows
    BY <1>0, RowUpdates DEF TypeOK, Statuses
  <2>2. <<>> \in Seq(Rows)
    OBVIOUS
  <2> QED  BY <1>0, <1>8, <2>1, <2>2, CommitType DEF SaveCapture, SaveProof,
              SetRollback
<1>9. CASE RecordTrigger
  <2>1. db \in RunRows
    BY <1>0 DEF TypeOK
  <2>2. <<Step("ROLLBACK_TRIGGERED", "TRIGGERED")>> \in Seq(Rows)
    BY StepRows
  <2> QED  BY <1>0, <1>9, <2>1, <2>2, CommitType DEF RecordTrigger
<1> USE <1>0, RaiseTargets DEF TypeOK, dbVars, gwVars, obsVars, Raise
<1>10. CASE Fetch \/ Preflight \/ Acquire
  BY <1>10 DEF Fetch, Preflight, Acquire, CommitFails
<1>11. CASE Backup
  BY <1>11 DEF Backup
<1>11a. CASE Apply
  BY <1>11a DEF Apply
<1>12. CASE QueryBefore
  BY <1>12 DEF QueryBefore, Observations
<1>12a. CASE VerifyFresh
  BY <1>12a DEF VerifyFresh, Observations
<1>12b. CASE QueryRecovery
  <2>1. pc' \in PCs /\ evidence' \subseteq SPIs
    BY <1>12b DEF QueryRecovery, Observations
  <2>2. rbfault' \in BOOLEAN
    BY <1>12b, Zenon DEF QueryRecovery
  <2> QED  BY <1>12b, <2>1, <2>2 DEF QueryRecovery
<1>13. CASE RunWorkload
  BY <1>13 DEF RunWorkload
<1>13a. CASE StartCapture \/ StopCapture
  <2>1. pc' \in PCs
    BY <1>13a DEF StartCapture, StopCapture
  <2>2. capturing' \in BOOLEAN
    BY <1>13a, Zenon DEF StartCapture, StopCapture
  <2> QED  BY <1>13a, <2>1, <2>2 DEF StartCapture, StopCapture
<1>14. CASE CheckArtifact \/ Reanalyze \/ CompareEvidence
  BY <1>14 DEF CheckArtifact, Reanalyze, CompareEvidence, Judge, CommitFails
<1>15. CASE Reload
  BY <1>15 DEF Reload, ReloadDaemon, IInv, Region, AppliedOK, Applied, SPIs
<1>16. CASE ReloadRestored
  BY <1>16 DEF ReloadRestored, ReloadDaemon, IInv, Region, UndoingOK, SPIs
<1>17. CASE Restore
  <2>1. file' \in {"absent", "empty", "baseline", "candidate"} /\ pc' \in PCs
    BY <1>17 DEF Restore, IInv, Region, UndoingOK, Undoing
  <2>2. rbfault' \in BOOLEAN
    BY <1>17, Zenon DEF Restore
  <2> QED  BY <1>17, <2>1, <2>2 DEF Restore
<1>18. CASE Handle \/ Release \/ Crash \/ OthersLock
  BY <1>18 DEF Handle, Release, Crash, OthersLock
<1>19. CASE UNCHANGED vars
  BY <1>19 DEF vars
<1> QED
  BY <1>1, <1>2, <1>3, <1>4, <1>5, <1>6, <1>7, <1>8, <1>9, <1>10, <1>11,
     <1>11a, <1>12, <1>12a, <1>12b, <1>13, <1>13a, <1>14, <1>15, <1>16, <1>17,
     <1>18, <1>19
  DEF Next, RunStep, Prepare, Change, Prove, Compensate

-----------------------------------------------------------------------------
(***************************************************************************)
(* A commit leaves the gateway and the lock alone: what the next place     *)
(* must know, the present one knows already.                               *)
(***************************************************************************)
LEMMA StateStep == IInv /\ [Next]_vars => (Region /\ LockOK)'
<1> SUFFICES ASSUME IInv, [Next]_vars
             PROVE  (Region /\ LockOK)'
  OBVIOUS
<1> USE RaiseTargets
    DEF IInv, Region, LockOK, EarlyOK, BackedOK, AppliedOK, ProvingOK,
        UndoingOK, BackupOK, Early, Backed, Applied, Undoing, Locked, PCs,
        Outside, TryBlock, Applying, Proving, Rollback, Handler, Ended, Raise,
        gwVars, Commit, SetStatus, Record, Conclude
<1>1. CASE Fetch \/ SetPreflight \/ Preflight \/ RecordBlocked
  BY <1>1 DEF Fetch, SetPreflight, Preflight, RecordBlocked
<1>2. CASE RecordPreflight \/ Acquire \/ RecordLock \/ RecordConflict
  BY <1>2 DEF RecordPreflight, Acquire, RecordLock, RecordConflict
<1>3. CASE SetBackup \/ Backup \/ RecordBackup
  BY <1>3 DEF SetBackup, Backup, RecordBackup
<1>4. CASE QueryBefore \/ RecordQuery \/ SetApply
  BY <1>4 DEF QueryBefore, RecordQuery, SetApply
<1>5. CASE Apply \/ RecordApply \/ SetReload
  BY <1>5 DEF Apply, RecordApply, SetReload
<1>6. CASE Reload
  BY <1>6 DEF Reload, ReloadDaemon
<1>7. CASE RecordReload \/ SetFresh \/ VerifyFresh \/ RecordFresh
  BY <1>7 DEF RecordReload, SetFresh, VerifyFresh, RecordFresh
<1>8. CASE SetCapture \/ StartCapture \/ SetWorkload \/ RunWorkload
  BY <1>8 DEF SetCapture, StartCapture, SetWorkload, RunWorkload
<1>9. CASE StopCapture \/ RecordWorkload \/ CheckArtifact \/ SaveCapture
  BY <1>9 DEF StopCapture, RecordWorkload, CheckArtifact, Judge, SaveCapture
<1>10. CASE SetReanalyze \/ Reanalyze \/ SetCompare \/ CompareEvidence
  BY <1>10 DEF SetReanalyze, Reanalyze, SetCompare, CompareEvidence, Judge
<1>11. CASE SaveProof \/ RecordDone
  BY <1>11 DEF SaveProof, RecordDone
<1>12. CASE Handle \/ SetRollback \/ RecordTrigger
  BY <1>12 DEF Handle, SetRollback, RecordTrigger, TypeOK
<1>13. CASE Restore
  BY <1>13 DEF Restore
<1>14. CASE ReloadRestored
  BY <1>14 DEF ReloadRestored, ReloadDaemon
<1>15. CASE QueryRecovery \/ RecordRolledBack
  BY <1>15 DEF QueryRecovery, RecordRolledBack
<1>16. CASE RecordRollbackFailed \/ RecordMissing \/ Release
  BY <1>16 DEF RecordRollbackFailed, RecordMissing, Release
<1>17. CASE Crash \/ OthersLock \/ UNCHANGED vars
  BY <1>17 DEF Crash, OthersLock, vars
<1> QED
  BY <1>1, <1>2, <1>3, <1>4, <1>5, <1>6, <1>7, <1>8, <1>9, <1>10, <1>11,
     <1>12, <1>13, <1>14, <1>15, <1>16, <1>17
  DEF Next, RunStep, Prepare, Change, Prove, Compensate

(***************************************************************************)
(* Only the commits of the run's own code change the status, and every     *)
(* other step is taken at a place no terminal status is written before.    *)
(***************************************************************************)
LEMMA StatusAfter ==
  ASSUME TypeOK, NEW at, NEW row, NEW steps, NEW to, Commit(at, row, steps, to)
  PROVE  \/ db' = row /\ pc' = to
         \/ db' = db /\ pc' = OnRaise(at)
BY DEF Commit, CommitOK, CommitFails

\* A step that leaves db alone and starts at a place of the run.
LEMMA VerdictKept ==
  ASSUME IInv, pc \notin Closed, db' = db
  PROVE  VerdictOK'
BY DEF IInv, VerdictOK, Terminal

\* A commit of a status that is not terminal.
LEMMA VerdictOpen ==
  ASSUME db'.status \notin Terminal
  PROVE  VerdictOK'
BY DEF VerdictOK, Terminal

LEMMA SetStatusStep ==
  ASSUME IInv, NEW at, NEW st \in Statuses \ Terminal, NEW to,
         at \notin Closed, SetStatus(at, st, to)
  PROVE  VerdictOK'
<1>1. db' = [db EXCEPT !.status = st] \/ db' = db
  BY StatusAfter DEF SetStatus, IInv
<1>2. pc = at
  BY DEF SetStatus, Commit
<1>3. CASE db' = db
  BY <1>2, <1>3, VerdictKept
<1>4. CASE db' = [db EXCEPT !.status = st]
  <2>1. db'.status = st
    BY <1>4 DEF IInv, TypeOK, RunRows
  <2> QED  BY <2>1, VerdictOpen
<1> QED  BY <1>1, <1>3, <1>4

LEMMA RecordStep ==
  ASSUME IInv, NEW at, NEW a, NEW to, at \notin Closed, Record(at, a, to)
  PROVE  VerdictOK'
<1>1. db' = db /\ pc = at
  BY StatusAfter DEF Record, Commit, IInv
<1> QED  BY <1>1, VerdictKept

\* A conclusion keeps db, or writes its status and goes where it says.
LEMMA ConcludeStep ==
  ASSUME IInv, NEW at, NEW st, NEW rb, NEW a, NEW r, NEW to,
         at \notin Closed, Conclude(at, st, rb, a, r, to)
  PROVE  /\ pc = at
         /\ UNCHANGED <<file, loaded>>
         /\ VerdictOK' \/ (db'.status = st /\ pc' = to)
<1>1. pc = at /\ UNCHANGED <<file, loaded>>
  BY DEF Conclude, Commit, gwVars
<1>2. \/ db' = [db EXCEPT !.status = st, !.rollback = rb] /\ pc' = to
      \/ db' = db
  BY StatusAfter DEF Conclude, IInv
<1>3. CASE db' = db
  BY <1>1, <1>3, VerdictKept
<1>4. CASE db' = [db EXCEPT !.status = st, !.rollback = rb] /\ pc' = to
  BY <1>1, <1>4 DEF IInv, TypeOK, RunRows
<1> QED  BY <1>1, <1>2, <1>3, <1>4

LEMMA VerdictStep == IInv /\ [Next]_vars => VerdictOK'
<1> SUFFICES ASSUME IInv, [Next]_vars
             PROVE  VerdictOK'
  OBVIOUS
<1>1. CASE SetPreflight \/ SetBackup \/ SetApply \/ SetReload \/ SetFresh
  BY <1>1, SetStatusStep DEF Statuses, Terminal, Closed, SetPreflight,
     SetBackup, SetApply, SetReload, SetFresh
<1>2. CASE SetCapture \/ SetWorkload \/ SetReanalyze \/ SetCompare
  BY <1>2, SetStatusStep DEF Statuses, Terminal, Closed, SetCapture,
     SetWorkload, SetReanalyze, SetCompare
<1>3. CASE RecordPreflight \/ RecordLock \/ RecordBackup \/ RecordQuery
  BY <1>3, RecordStep DEF Closed, RecordPreflight, RecordLock, RecordBackup,
     RecordQuery
<1>4. CASE RecordReload \/ RecordFresh \/ RecordWorkload
  BY <1>4, RecordStep DEF Closed, RecordReload, RecordFresh, RecordWorkload
<1>5. CASE RecordBlocked
  <2>1. /\ pc = "rec_blocked" /\ UNCHANGED <<file, loaded>>
        /\ VerdictOK' \/ (db'.status = "FAILED" /\ pc' = "end")
    BY <1>5, ConcludeStep DEF RecordBlocked, Closed
  <2> QED  BY <2>1 DEF IInv, Region, EarlyOK, Early, Outside, VerdictOK,
              Closed
<1>6. CASE RecordConflict
  <2>1. /\ pc = "rec_conflict" /\ UNCHANGED <<file, loaded>>
        /\ VerdictOK' \/ (db'.status = "FAILED" /\ pc' = "end")
    BY <1>6, ConcludeStep DEF RecordConflict, Closed
  <2> QED  BY <2>1 DEF IInv, Region, EarlyOK, Early, Outside, VerdictOK,
              Closed
<1>7. CASE RecordApply
  <2>1. VerdictOK' \/ db'.status = "CONFIG_APPLIED"
    BY <1>7, ConcludeStep DEF RecordApply, Closed
  <2> QED  BY <2>1 DEF VerdictOK, Terminal
<1>8. CASE RecordDone
  <2>1. /\ pc = "rec_done" /\ UNCHANGED <<file, loaded>>
        /\ VerdictOK' \/ (db'.status = "COMPLETED" /\ pc' = "release")
    BY <1>8, ConcludeStep DEF RecordDone, Closed
  <2> QED  BY <2>1 DEF IInv, Region, ProvingOK, Proving, VerdictOK, Closed
<1>9. CASE RecordRolledBack
  <2>1. /\ pc = "rec_rolled" /\ UNCHANGED <<file, loaded>>
        /\ VerdictOK' \/ (db'.status = "ROLLED_BACK" /\ pc' = "release")
    BY <1>9, ConcludeStep DEF RecordRolledBack, Closed
  <2> QED  BY <2>1 DEF IInv, Region, UndoingOK, VerdictOK, Closed
<1>10. CASE RecordRollbackFailed \/ RecordMissing
  <2>1. VerdictOK' \/ (db'.status = "ROLLBACK_FAILED" /\ pc' = "release")
    BY <1>10, ConcludeStep DEF RecordRollbackFailed, RecordMissing, Closed
  <2> QED  BY <2>1 DEF VerdictOK, Closed
<1>11. CASE SaveCapture \/ RecordTrigger
  <2>1. db' = db /\ pc \notin Closed
    BY <1>11, StatusAfter DEF SaveCapture, RecordTrigger, Commit, IInv,
       Closed
  <2> QED  BY <2>1, VerdictKept
<1>12. CASE SaveProof
  <2>1. pc \notin Closed
    BY <1>12 DEF SaveProof, Commit, Closed
  <2>2. db' = [db EXCEPT !.proof = TRUE] \/ db' = db
    BY <1>12, StatusAfter DEF SaveProof, IInv
  <2>3. db'.status = db.status
    BY <2>2 DEF IInv, TypeOK, RunRows
  <2> QED  BY <2>1, <2>3 DEF IInv, VerdictOK, Terminal
<1>13. CASE SetRollback
  <2>1. pc \notin Closed
    BY <1>13 DEF SetRollback, Commit, Closed
  <2>2. \/ db' = [db EXCEPT !.status = "ROLLING_BACK",
                             !.rollback = "TRIGGERED"]
        \/ db' = db
    BY <1>13, StatusAfter DEF SetRollback, IInv
  <2>3. CASE db' = db
    BY <2>1, <2>3, VerdictKept
  <2>4. CASE db' = [db EXCEPT !.status = "ROLLING_BACK",
                              !.rollback = "TRIGGERED"]
    <3>1. db'.status = "ROLLING_BACK"
      BY <2>4 DEF IInv, TypeOK, RunRows
    <3> QED  BY <3>1 DEF VerdictOK, Terminal
  <2> QED  BY <2>2, <2>3, <2>4
<1>14. CASE Fetch \/ Preflight \/ Acquire \/ Backup \/ QueryBefore \/ Apply
            \/ Reload \/ VerifyFresh
  BY <1>14, VerdictKept DEF Closed, dbVars, Fetch, Preflight, CommitFails,
     Acquire, Backup, QueryBefore, Apply, Reload, ReloadDaemon, VerifyFresh
<1>15. CASE StartCapture \/ RunWorkload \/ StopCapture \/ CheckArtifact
            \/ Reanalyze \/ CompareEvidence
  BY <1>15, VerdictKept DEF Closed, dbVars, StartCapture, RunWorkload,
     StopCapture, CheckArtifact, Reanalyze, CompareEvidence, Judge, CommitFails
<1>16. CASE Handle \/ Restore \/ ReloadRestored \/ QueryRecovery
  BY <1>16, VerdictKept DEF Closed, dbVars, Handle, Restore, ReloadRestored,
     ReloadDaemon, QueryRecovery
<1>17. CASE Release \/ Crash \/ OthersLock \/ UNCHANGED vars
  BY <1>17 DEF IInv, VerdictOK, Closed, Release, Crash, OthersLock, vars,
     dbVars, gwVars
<1> QED
  BY <1>1, <1>2, <1>3, <1>4, <1>5, <1>6, <1>7, <1>8, <1>9, <1>10, <1>11,
     <1>12, <1>13, <1>14, <1>15, <1>16, <1>17
  DEF Next, RunStep, Prepare, Change, Prove, Compensate

LEMMA Inductive == Spec => []IInv
<1>1. IInv /\ [Next]_vars => IInv'
  BY TypeStep, StateStep, VerdictStep DEF IInv
<1> QED  BY InitInv, <1>1, PTL DEF Spec

(***************************************************************************)
(* TypeCorrect.  Every reachable state of a remediation run is well typed. *)
(***************************************************************************)
THEOREM TypeCorrect == Spec => []TypeOK
<1>1. IInv => TypeOK
  BY DEF IInv
<1> QED  BY <1>1, Inductive, PTL

(***************************************************************************)
(* BackupGuard.  Whatever the agent answers, whichever commit fails and    *)
(* wherever the process dies, the candidate reaches the gateway only when  *)
(* BACKUP_CONFIG has copied the baseline.                                  *)
(***************************************************************************)
THEOREM BackupGuard == Spec => []BackupGuardsApply
<1>1. IInv => BackupGuardsApply
  BY DEF IInv, Region, BackupOK, BackupGuardsApply
<1> QED  BY <1>1, Inductive, PTL

(***************************************************************************)
(* RollbackIsTrue.  The runner writes ROLLED_BACK only over a gateway that *)
(* has the baseline in its file and in its daemon.                         *)
(***************************************************************************)
THEOREM RollbackIsTrue == Spec => []RolledBackRunsTheBaseline
<1>1. IInv => RolledBackRunsTheBaseline
  BY DEF IInv, VerdictOK, RolledBackRunsTheBaseline
<1> QED  BY <1>1, Inductive, PTL

\* The steps that touch the gateway.
LEMMA GatewaySteps ==
  ASSUME Next, ~UNCHANGED <<file, loaded>>
  PROVE  Apply \/ Reload \/ Restore \/ ReloadRestored
<1> USE DEF Commit, gwVars, SetStatus, Record, Conclude
<1>1. Prepare => UNCHANGED <<file, loaded>>
  BY DEF Prepare, Fetch, SetPreflight, Preflight, RecordBlocked,
     RecordPreflight, Acquire, RecordLock, RecordConflict, SetBackup,
     Backup, RecordBackup, QueryBefore, RecordQuery, SetApply
<1>2. Prove => UNCHANGED <<file, loaded>>
  BY DEF Prove, SetFresh, VerifyFresh, RecordFresh, SetCapture,
     StartCapture, SetWorkload, RunWorkload, StopCapture, RecordWorkload,
     CheckArtifact, SaveCapture, SetReanalyze, Reanalyze, SetCompare,
     CompareEvidence, Judge, SaveProof, RecordDone
<1>3. RecordApply \/ SetReload \/ RecordReload => UNCHANGED <<file, loaded>>
  BY DEF RecordApply, SetReload, RecordReload
<1>4. Handle \/ SetRollback \/ RecordTrigger \/ QueryRecovery
        \/ RecordRolledBack \/ RecordRollbackFailed \/ RecordMissing
        \/ Release \/ Crash \/ OthersLock => UNCHANGED <<file, loaded>>
  BY DEF Handle, SetRollback, RecordTrigger, QueryRecovery,
     RecordRolledBack, RecordRollbackFailed, RecordMissing, Release,
     Crash, OthersLock
<1> QED  BY <1>1, <1>2, <1>3, <1>4 DEF Next, RunStep, Change, Compensate

(***************************************************************************)
(* LockedMutation.  APPLY_CONFIG, RESTORE_BACKUP and RELOAD_STRONGSWAN are *)
(* called only between acquire_lock and release_lock.                      *)
(***************************************************************************)
THEOREM LockedMutation == Spec => MutatesUnderLock
<1>1. IInv /\ [Next]_vars => [UNCHANGED <<file, loaded>> \/ lock = "mine"]_vars
  <2> SUFFICES ASSUME IInv, Next, ~UNCHANGED <<file, loaded>>
               PROVE  lock = "mine"
    BY DEF vars
  <2>1. Apply \/ Reload \/ Restore \/ ReloadRestored
    BY GatewaySteps
  <2>2. pc \in {"apply", "reload", "restore", "rb_reload"}
    BY <2>1 DEF Apply, Reload, Restore, ReloadRestored, ReloadDaemon
  <2> QED  BY <2>2 DEF IInv, LockOK, Locked, TryBlock, Applying, Rollback
<1> QED  BY <1>1, Inductive, PTL DEF Spec, MutatesUnderLock

-----------------------------------------------------------------------------
(***************************************************************************)
(* The journal.  How many steps of the saga are committed is a function of *)
(* the place the run is at, for as long as nothing went wrong.             *)
(***************************************************************************)
At0 == {"fetch", "set_preflight", "preflight", "rec_blocked", "rec_preflight"}
At1 == {"acquire", "rec_lock", "rec_conflict"}
At2 == {"set_backup", "backup", "rec_backup"}
At3 == {"query", "rec_query"}
At4 == {"set_apply", "apply", "rec_apply"}
At5 == {"set_reload", "reload", "rec_reload"}
At6 == {"set_fresh", "fresh", "rec_fresh"}
At7 == {"set_capture", "start", "set_workload", "workload", "stop",
        "rec_workload"}
At8 == {"artifact", "save_capture", "set_reanalyze", "reanalyze",
        "set_compare", "compare", "save_proof", "rec_done"}

Interrupted == {"handler", "set_rollback", "rec_trigger", "rec_missing",
                "raised"}
Reverting   == Rollback \cup {"rec_rbfailed"}

ForwardOK ==
  /\ pc \in At0 => journal = Successes(0)
  /\ pc \in At1 => journal = Successes(1)
  /\ pc \in At2 => journal = Successes(2)
  /\ pc \in At3 => journal = Successes(3)
  /\ pc \in At4 => journal = Successes(4)
  /\ pc \in At5 => journal = Successes(5)
  /\ pc \in At6 => journal = Successes(6)
  /\ pc \in At7 => journal = Successes(7)
  /\ pc \in At8 => journal = Successes(8)

BackwardOK ==
  /\ pc \in Interrupted => \E n \in 0..8 : journal = Successes(n)
  /\ pc \in Reverting => \E n \in 0..8 : journal = Successes(n) \o <<Trigger>>

\* JournalIsSaga of a journal and a status.
SagaOf(j, st) ==
  /\ \E n \in 0..9 : \E ending \in Endings : j = Successes(n) \o ending
  /\ LET told == IF j = <<>> THEN "open" ELSE StatusOf(j[Len(j)])
     IN  st \in Terminal \/ told # "open" => st = told

SagaOK ==
  ForwardOK /\ BackwardOK /\ (pc \in Closed => SagaOf(journal, db.status))

\* Only a run that left through the failed commit of ACQUIRE_LOCK still owns
\* the lock.
OwnerOK ==
  lock = "mine" =>
    \/ pc \in Locked \cup {"dead", "kept"}
    \/ pc = "raised" /\ session = "broken" /\ journal = Successes(1)

SInv == IInv /\ SagaOK /\ OwnerOK

LEMMA SuccessesSeq ==
  ASSUME NEW n \in 0..9
  PROVE  /\ Successes(n) \in Seq(Rows)
         /\ Len(Successes(n)) = n
         /\ \A i \in 1..n : Successes(n)[i] = Step(SagaSteps[i], "SUCCESS")
<1>1. \A i \in 1..9 : Step(SagaSteps[i], "SUCCESS") \in Rows
  BY DEF SagaSteps, Step, Rows
<1>2. \A i \in 1..n : Step(SagaSteps[i], "SUCCESS") \in Rows
  BY <1>1
<1>3. n \in Nat
  OBVIOUS
<1> QED  BY <1>2, <1>3, IsASeq DEF Successes

LEMMA SuccessesNone == Successes(0) = <<>>
BY SuccessesSeq, EmptySeq

LEMMA SuccessesNext ==
  ASSUME NEW n \in 0..8
  PROVE  Successes(n) \o <<Step(SagaSteps[n + 1], "SUCCESS")>>
           = Successes(n + 1)
<1> DEFINE e == Step(SagaSteps[n + 1], "SUCCESS")
           s == Successes(n)
           t == Successes(n + 1)
<1>1. n \in 0..9 /\ n + 1 \in 0..9 /\ n \in Nat
  OBVIOUS
<1>2. /\ s \in Seq(Rows) /\ Len(s) = n
      /\ \A i \in 1..n : s[i] = Step(SagaSteps[i], "SUCCESS")
  BY <1>1, SuccessesSeq
<1>3. /\ t \in Seq(Rows) /\ Len(t) = n + 1
      /\ \A i \in 1..(n + 1) : t[i] = Step(SagaSteps[i], "SUCCESS")
  BY <1>1, SuccessesSeq
<1>4. e \in Rows
  BY <1>3, ElementOfSeq, <1>1
<1> HIDE DEF e, s, t
<1>5. /\ s \o <<e>> \in Seq(Rows) /\ Len(s \o <<e>>) = n + 1
      /\ \A i \in 1..(n + 1) : (s \o <<e>>)[i] = IF i <= n THEN s[i] ELSE e
  BY <1>1, <1>2, <1>4
<1>6. \A i \in 1..(n + 1) : (s \o <<e>>)[i] = t[i]
  BY <1>1, <1>2, <1>3, <1>5 DEF e
<1>7. s \o <<e>> = t
  BY <1>3, <1>5, <1>6, SeqEqual
<1> QED  BY <1>7 DEF s, e, t

\* What each kind of step stands for; only four of them settle the run.
LEMMA StatusOfSteps ==
  /\ StatusOf(Trigger) = "open"
  /\ StatusOf(Step("PREFLIGHT", "FAILED")) = "FAILED"
  /\ StatusOf(Step("ACQUIRE_LOCK", "FAILED")) = "FAILED"
  /\ StatusOf(Step("AUTOMATIC_ROLLBACK", "FAILED")) = "ROLLBACK_FAILED"
  /\ StatusOf(Step("AUTOMATIC_ROLLBACK", "SUCCESS")) = "ROLLED_BACK"
  /\ StatusOf(Step("EVALUATE_AND_VERIFY", "SUCCESS")) = "COMPLETED"
  /\ \A n \in 1..8 : StatusOf(Step(SagaSteps[n], "SUCCESS")) = "open"
<1>1. \A a, r, b, q : Step(a, r) = Step(b, q) <=> a = b /\ r = q
  BY DEF Step
<1>3. \A n \in 1..8 : SagaSteps[n] \notin {"EVALUATE_AND_VERIFY",
                                           "AUTOMATIC_ROLLBACK"}
  BY DEF SagaSteps
<1>4. \A n \in 1..8 : StatusOf(Step(SagaSteps[n], "SUCCESS")) = "open"
  BY <1>1, <1>3 DEF StatusOf
<1>5. StatusOf(Trigger) = "open"
  BY <1>1 DEF StatusOf, Trigger
<1>6. /\ StatusOf(Step("PREFLIGHT", "FAILED")) = "FAILED"
      /\ StatusOf(Step("ACQUIRE_LOCK", "FAILED")) = "FAILED"
  BY <1>1 DEF StatusOf
<1>7. StatusOf(Step("AUTOMATIC_ROLLBACK", "FAILED")) = "ROLLBACK_FAILED"
  BY <1>1 DEF StatusOf
<1>8. StatusOf(Step("AUTOMATIC_ROLLBACK", "SUCCESS")) = "ROLLED_BACK"
  BY <1>1 DEF StatusOf
<1>9. StatusOf(Step("EVALUATE_AND_VERIFY", "SUCCESS")) = "COMPLETED"
  BY <1>1 DEF StatusOf
<1> QED  BY <1>4, <1>5, <1>6, <1>7, <1>8, <1>9

\* A journal whose last step is e tells what e stands for.
LEMMA EndsWith ==
  ASSUME NEW j \in Seq(Rows), NEW e \in Rows, NEW st,
         st \in Terminal \/ StatusOf(e) # "open" => st = StatusOf(e),
         \E n \in 0..9 : \E ending \in Endings :
           j \o <<e>> = Successes(n) \o ending
  PROVE  SagaOf(j \o <<e>>, st)
<1> DEFINE k == j \o <<e>>
<1>1. k # <<>> /\ k[Len(k)] = e
  OBVIOUS
<1> QED  BY <1>1 DEF SagaOf

\* Before a terminal status is written the journal is a prefix of the saga,
\* or such a prefix and the trigger of the rollback.
LEMMA OpenPrefix ==
  ASSUME NEW n \in 0..8, NEW st, st \notin Terminal
  PROVE  SagaOf(Successes(n), st)
<1>0. n \in 0..9 /\ n \in Nat
  OBVIOUS
<1>1. /\ n \in 0..9 /\ n \in Nat
      /\ Successes(n) \in Seq(Rows) /\ Len(Successes(n)) = n
      /\ \A i \in 1..n : Successes(n)[i] = Step(SagaSteps[i], "SUCCESS")
  BY <1>0, SuccessesSeq
<1>2. Successes(n) = Successes(n) \o <<>> /\ <<>> \in Endings
  BY <1>1, ConcatEmptySeq DEF Endings
<1>3. CASE n = 0
  BY <1>1, <1>2, <1>3, SuccessesNone DEF SagaOf
<1>4. CASE n # 0
  <2>1. n \in 1..8 /\ Successes(n) # <<>>
    BY <1>1, <1>4
  <2>2. StatusOf(Successes(n)[Len(Successes(n))]) = "open"
    BY <1>1, <2>1, StatusOfSteps
  <2> QED  BY <1>1, <1>2, <2>1, <2>2 DEF SagaOf
<1> QED  BY <1>3, <1>4

LEMMA RowsOfSteps ==
  /\ Trigger \in Rows
  /\ \A a \in {"PREFLIGHT", "ACQUIRE_LOCK", "AUTOMATIC_ROLLBACK",
               "EVALUATE_AND_VERIFY"}, r \in {"SUCCESS", "FAILED"} :
       Step(a, r) \in Rows
BY DEF Trigger, Step, Rows

LEMMA OpenTrigger ==
  ASSUME NEW n \in 0..8, NEW st, st \notin Terminal
  PROVE  SagaOf(Successes(n) \o <<Trigger>>, st)
<1>0. n \in 0..9
  OBVIOUS
<1>1. n \in 0..9 /\ Successes(n) \in Seq(Rows) /\ <<Trigger>> \in Endings
  BY <1>0, SuccessesSeq DEF Endings
<1> QED  BY <1>1, RowsOfSteps, StatusOfSteps, EndsWith

\* The endings a run can be given.
LEMMA Settled ==
  ASSUME NEW n \in 0..8
  PROVE  /\ \A e \in {Step("PREFLIGHT", "FAILED"),
                      Step("ACQUIRE_LOCK", "FAILED"),
                      Step("AUTOMATIC_ROLLBACK", "FAILED")} :
              SagaOf(Successes(n) \o <<e>>, StatusOf(e))
         /\ \A e \in {Step("AUTOMATIC_ROLLBACK", "SUCCESS"),
                      Step("AUTOMATIC_ROLLBACK", "FAILED")} :
              SagaOf((Successes(n) \o <<Trigger>>) \o <<e>>, StatusOf(e))
<1> DEFINE s == Successes(n)
<1>0. n \in 0..9
  OBVIOUS
<1>1. n \in 0..9 /\ s \in Seq(Rows)
  BY <1>0, SuccessesSeq
<1> HIDE DEF s
<1>2. ASSUME NEW e \in {Step("PREFLIGHT", "FAILED"),
                        Step("ACQUIRE_LOCK", "FAILED"),
                        Step("AUTOMATIC_ROLLBACK", "FAILED")}
      PROVE  SagaOf(s \o <<e>>, StatusOf(e))
  <2>1. <<e>> \in Endings /\ e \in Rows
    BY RowsOfSteps DEF Endings
  <2>2. \E m \in 0..9 : \E ending \in Endings :
          s \o <<e>> = Successes(m) \o ending
    BY <1>1, <2>1 DEF s
  <2> QED  BY <1>1, <2>1, <2>2, EndsWith
<1>3. ASSUME NEW e \in {Step("AUTOMATIC_ROLLBACK", "SUCCESS"),
                        Step("AUTOMATIC_ROLLBACK", "FAILED")}
      PROVE  SagaOf((s \o <<Trigger>>) \o <<e>>, StatusOf(e))
  <2>1. <<Trigger, e>> \in Endings /\ e \in Rows /\ Trigger \in Rows
    BY RowsOfSteps DEF Endings
  <2>2. (s \o <<Trigger>>) \o <<e>> = s \o <<Trigger, e>>
    <3>1. <<Trigger>> \in Seq(Rows) /\ <<e>> \in Seq(Rows)
      BY <2>1
    <3>2. <<Trigger>> \o <<e>> = <<Trigger, e>>
      <4> DEFINE p == <<Trigger>> \o <<e>>
                 q == <<Trigger, e>>
      <4>1. p \in Seq(Rows) /\ Len(p) = 2 /\ p[1] = Trigger /\ p[2] = e
        BY <3>1
      <4>2. q \in Seq(Rows) /\ Len(q) = 2 /\ q[1] = Trigger /\ q[2] = e
        BY <2>1
      <4> HIDE DEF p, q
      <4>3. p = q
        BY <4>1, <4>2, SeqEqual
      <4> QED  BY <4>3 DEF p, q
    <3> QED  BY <1>1, <3>1, <3>2, ConcatAssociative
  <2>3. s \o <<Trigger>> \in Seq(Rows)
    BY <1>1, <2>1
  <2>4. \E m \in 0..9 : \E ending \in Endings :
          (s \o <<Trigger>>) \o <<e>> = Successes(m) \o ending
    BY <1>1, <2>1, <2>2 DEF s
  <2> QED  BY <2>1, <2>3, <2>4, EndsWith
<1> QED  BY <1>2, <1>3 DEF s

LEMMA Accepted == SagaOf(Successes(8) \o <<Step("EVALUATE_AND_VERIFY",
                                                "SUCCESS")>>, "COMPLETED")
<1> DEFINE e == Step("EVALUATE_AND_VERIFY", "SUCCESS")
<1>1. Successes(8) \in Seq(Rows) /\ Successes(9) \in Seq(Rows)
  BY SuccessesSeq
<1>2. SagaSteps[8 + 1] = "EVALUATE_AND_VERIFY" /\ 8 + 1 = 9
  BY DEF SagaSteps
<1>3. Successes(8) \o <<e>> = Successes(9)
  <2>1. Successes(8) \o <<Step(SagaSteps[8 + 1], "SUCCESS")>>
          = Successes(8 + 1)
    BY 8 \in 0..8, SuccessesNext
  <2> QED  BY <1>2, <2>1
<1>4. Successes(9) = Successes(9) \o <<>> /\ <<>> \in Endings
  BY <1>1, ConcatEmptySeq DEF Endings
<1>5. \E n \in 0..9 : \E ending \in Endings :
        Successes(8) \o <<e>> = Successes(n) \o ending
  BY <1>3, <1>4, 9 \in 0..9
<1>6. StatusOf(e) = "COMPLETED" /\ e \in Rows
  BY RowsOfSteps, StatusOfSteps
<1> HIDE DEF e
<1>7. SagaOf(Successes(8) \o <<e>>, "COMPLETED")
  BY <1>1, <1>5, <1>6, EndsWith
<1> QED  BY <1>7 DEF e

LEMMA PrefixSomewhere ==
  ASSUME ForwardOK,
         pc \in At0 \cup At1 \cup At2 \cup At3 \cup At4 \cup At5 \cup At6
                  \cup At7 \cup At8
  PROVE  \E n \in 0..8 : journal = Successes(n)
BY DEF ForwardOK

\* At every place before a terminal status is written, the journal tells the
\* truth.
LEMMA OpenSaga ==
  ASSUME SInv, pc \notin Closed
  PROVE  SagaOf(journal, db.status)
<1>1. db.status \notin Terminal
  BY DEF SInv, IInv, VerdictOK
<1>2. \/ \E n \in 0..8 : journal = Successes(n)
      \/ \E n \in 0..8 : journal = Successes(n) \o <<Trigger>>
  <2>1. \/ pc \in At0 \cup At1 \cup At2 \cup At3 \cup At4 \cup At5 \cup At6
                     \cup At7 \cup At8
        \/ pc \in Interrupted
        \/ pc \in Reverting
    BY DEF SInv, IInv, TypeOK, PCs, Outside, TryBlock, Applying, Proving,
       Rollback, Handler, Ended, Closed, At0, At1, At2, At3, At4, At5, At6,
       At7, At8, Interrupted, Reverting
  <2>2. pc \in At0 \cup At1 \cup At2 \cup At3 \cup At4 \cup At5 \cup At6
                  \cup At7 \cup At8
          => \E n \in 0..8 : journal = Successes(n)
    BY PrefixSomewhere DEF SInv, SagaOK
  <2> QED  BY <2>1, <2>2 DEF SInv, SagaOK, BackwardOK
<1> QED  BY <1>1, <1>2, OpenPrefix, OpenTrigger

LEMMA CommitJournal ==
  ASSUME TypeOK, NEW at, NEW row, NEW steps, NEW to, Commit(at, row, steps, to)
  PROVE  /\ pc = at
         /\ \/ journal' = journal \o steps /\ db' = row /\ pc' = to
            \/ journal' = journal /\ db' = db /\ pc' = OnRaise(at)
BY DEF Commit, CommitOK, CommitFails

\* A commit of the row alone.
LEMMA QuietCommit ==
  ASSUME TypeOK, NEW at, NEW row, NEW to, Commit(at, row, <<>>, to)
  PROVE  pc = at /\ journal' = journal /\ (pc' = to \/ pc' = OnRaise(at))
<1>1. journal \o <<>> = journal
  BY ConcatEmptySeq DEF TypeOK
<1> QED  BY <1>1, CommitJournal

\* A step that writes nothing into the journal and goes on, or falls back to
\* the handler or the caller.
Stays ==
  /\ journal' = journal
  /\ pc' \notin Closed
  /\ pc' \in At0 => pc \in At0
  /\ pc' \in At1 => pc \in At1
  /\ pc' \in At2 => pc \in At2
  /\ pc' \in At3 => pc \in At3
  /\ pc' \in At4 => pc \in At4
  /\ pc' \in At5 => pc \in At5
  /\ pc' \in At6 => pc \in At6
  /\ pc' \in At7 => pc \in At7
  /\ pc' \in At8 => pc \in At8
  /\ pc' \in Interrupted =>
       pc \in At0 \cup At1 \cup At2 \cup At3 \cup At4 \cup At5 \cup At6
                \cup At7 \cup At8 \cup Interrupted
  /\ pc' \in Reverting => pc \in Reverting

LEMMA StaysOK ==
  ASSUME SInv, Stays
  PROVE  SagaOK'
<1>1. ForwardOK'
  BY DEF SInv, SagaOK, ForwardOK, Stays
<1>2. BackwardOK'
  <2>1. CASE pc' \in Interrupted
    <3>1. \E n \in 0..8 : journal = Successes(n)
      BY <2>1, PrefixSomewhere DEF Stays, SInv, SagaOK, BackwardOK
    <3> QED  BY <2>1, <3>1 DEF Stays, BackwardOK, Interrupted, Reverting,
                Rollback
  <2>2. CASE pc' \in Reverting
    <3>1. \E n \in 0..8 : journal = Successes(n) \o <<Trigger>>
      BY <2>2 DEF Stays, SInv, SagaOK, BackwardOK
    <3> QED  BY <2>2, <3>1 DEF Stays, BackwardOK, Interrupted, Reverting,
                Rollback
  <2> QED  BY <2>1, <2>2 DEF BackwardOK
<1> QED  BY <1>1, <1>2 DEF SagaOK, Stays

\* A run that is over stands at no place of the saga.
LEMMA ClosedApart ==
  ASSUME pc' \in Closed
  PROVE  (ForwardOK /\ BackwardOK)'
BY DEF Closed, ForwardOK, BackwardOK, At0, At1, At2, At3, At4, At5, At6, At7,
   At8, Interrupted, Reverting, Rollback

LEMMA LeavesOK ==
  ASSUME SInv, journal' = journal, db' = db, pc' \in Closed
  PROVE  SagaOK'
<1>1. SagaOf(journal, db.status)
  BY OpenSaga DEF SInv, SagaOK
<1>2. SagaOf(journal, db.status)'
  BY <1>1 DEF SagaOf
<1> QED  BY <1>2, ClosedApart DEF SagaOK

\* A step of the saga succeeds and is committed.
LEMMA AdvanceOK ==
  ASSUME SInv, NEW n \in 0..7, journal = Successes(n),
         journal' = journal \o <<Step(SagaSteps[n + 1], "SUCCESS")>>,
         \/ n = 0 /\ pc' \in At1
         \/ n = 1 /\ pc' \in At2
         \/ n = 2 /\ pc' \in At3
         \/ n = 3 /\ pc' \in At4
         \/ n = 4 /\ pc' \in At5
         \/ n = 5 /\ pc' \in At6
         \/ n = 6 /\ pc' \in At7
         \/ n = 7 /\ pc' \in At8
  PROVE  SagaOK'
<1>1. journal' = Successes(n + 1)
  <2>1. n \in 0..8
    OBVIOUS
  <2> QED  BY <2>1, SuccessesNext
<1>2. /\ pc' \notin Closed /\ pc' \notin Interrupted /\ pc' \notin Reverting
      /\ pc' \notin At0
  BY DEF Closed, Interrupted, Reverting, Rollback, At0, At1, At2, At3, At4,
     At5, At6, At7, At8
<1>3. ForwardOK'
  BY <1>1, <1>2 DEF ForwardOK, At1, At2, At3, At4, At5, At6, At7, At8
<1> QED  BY <1>2, <1>3 DEF SagaOK, BackwardOK

\* A commit that adds the next success: it advances or stays.
LEMMA SuccessStep ==
  ASSUME SInv, NEW n \in 0..7, NEW at, NEW row, NEW to,
         Commit(at, row, <<Step(SagaSteps[n + 1], "SUCCESS")>>, to),
         \/ n = 0 /\ at = "rec_preflight" /\ to \in At1
         \/ n = 1 /\ at = "rec_lock" /\ to \in At2
         \/ n = 2 /\ at = "rec_backup" /\ to \in At3
         \/ n = 3 /\ at = "rec_query" /\ to \in At4
         \/ n = 4 /\ at = "rec_apply" /\ to \in At5
         \/ n = 5 /\ at = "rec_reload" /\ to \in At6
         \/ n = 6 /\ at = "rec_fresh" /\ to \in At7
         \/ n = 7 /\ at = "rec_workload" /\ to \in At8
  PROVE  SagaOK'
<1> DEFINE steps == <<Step(SagaSteps[n + 1], "SUCCESS")>>
<1>0. Commit(at, row, steps, to)
  OBVIOUS
<1> HIDE DEF steps
<1>1. /\ pc = at
      /\ \/ journal' = journal \o steps /\ pc' = to
         \/ journal' = journal /\ pc' = OnRaise(at)
  BY <1>0, CommitJournal DEF SInv, IInv
<1>2. journal = Successes(n)
  BY <1>1 DEF SInv, SagaOK, ForwardOK, At0, At1, At2, At3, At4, At5, At6, At7
<1>3. CASE journal' = journal \o steps /\ pc' = to
  <2>1. \/ n = 0 /\ pc' \in At1
        \/ n = 1 /\ pc' \in At2
        \/ n = 2 /\ pc' \in At3
        \/ n = 3 /\ pc' \in At4
        \/ n = 4 /\ pc' \in At5
        \/ n = 5 /\ pc' \in At6
        \/ n = 6 /\ pc' \in At7
        \/ n = 7 /\ pc' \in At8
    BY <1>3
  <2> QED  BY <1>2, <1>3, <2>1, AdvanceOK DEF steps
<1>4. CASE journal' = journal /\ pc' = OnRaise(at)
  <2>1. Stays
    BY <1>1, <1>4, RaiseTargets DEF Stays, Closed, Interrupted, Reverting,
       Rollback, Outside, TryBlock, Applying, Proving, At0, At1, At2, At3,
       At4, At5, At6, At7, At8
  <2> QED  BY <2>1, StaysOK
<1> QED  BY <1>1, <1>3, <1>4

\* A commit that settles the run: it ends it, or what it was to tell is told
\* by the next attempt, or by nobody.
LEMMA ConcludeOK ==
  ASSUME SInv,
         NEW at \in {"rec_blocked", "rec_conflict", "rec_done", "rec_rolled",
                     "rec_rbfailed", "rec_missing"},
         NEW st \in Terminal, NEW rb, NEW a, NEW r,
         NEW to \in {"end", "release"},
         Conclude(at, st, rb, a, r, to),
         SagaOf(journal \o <<Step(a, r)>>, st)
  PROVE  SagaOK'
<1>1. /\ pc = at
      /\ \/ /\ journal' = journal \o <<Step(a, r)>> /\ pc' = to
            /\ db' = [db EXCEPT !.status = st, !.rollback = rb]
         \/ journal' = journal /\ db' = db /\ pc' = OnRaise(at)
  BY CommitJournal DEF Conclude, SInv, IInv
<1>2. CASE /\ journal' = journal \o <<Step(a, r)>> /\ pc' = to
           /\ db' = [db EXCEPT !.status = st, !.rollback = rb]
  <2>1. db'.status = st
    BY <1>2 DEF SInv, IInv, TypeOK, RunRows
  <2>2. SagaOf(journal, db.status)'
    BY <1>2, <2>1
  <2> QED  BY <1>2, <2>2, ClosedApart DEF SagaOK, Closed
<1>3. CASE journal' = journal /\ db' = db /\ pc' = OnRaise(at)
  <2>1. CASE at \in {"rec_rbfailed", "rec_missing"}
    BY <1>3, <2>1, RaiseTargets, LeavesOK DEF Handler, Closed
  <2>2. CASE at \notin {"rec_rbfailed", "rec_missing"}
    <3>1. Stays
      BY <1>1, <1>3, <2>2, RaiseTargets DEF Stays, Closed, Interrupted,
         Reverting, Rollback, Outside, TryBlock, Proving, At0, At1, At2, At3,
         At4, At5, At6, At7, At8
    <3> QED  BY <3>1, StaysOK
  <2> QED  BY <2>1, <2>2
<1> QED  BY <1>1, <1>2, <1>3

LEMMA SagaStep == SInv /\ [Next]_vars => SagaOK'
<1> SUFFICES ASSUME SInv, [Next]_vars
             PROVE  SagaOK'
  OBVIOUS
<1>0. IInv /\ TypeOK /\ ForwardOK /\ BackwardOK
  BY DEF SInv, IInv, SagaOK
<1>1. CASE SetPreflight \/ SetBackup \/ SetApply
  <2>1. /\ journal' = journal
        /\ \/ pc = "set_preflight" /\ pc' \in {"preflight", "raised"}
           \/ pc = "set_backup" /\ pc' \in {"backup", "handler"}
           \/ pc = "set_apply" /\ pc' \in {"apply", "handler"}
    BY <1>0, <1>1, QuietCommit, RaiseTargets DEF SetPreflight, SetBackup,
       SetApply, SetStatus, Outside, TryBlock, Applying, Proving
  <2>2. Stays
    BY <2>1 DEF Stays, Closed, Interrupted, Reverting, Rollback, At0, At1,
       At2, At3, At4, At5, At6, At7, At8
  <2> QED  BY <2>2, StaysOK
<1>2. CASE SetReload \/ SetFresh \/ SetCapture
  <2>1. /\ journal' = journal
        /\ \/ pc = "set_reload" /\ pc' \in {"reload", "handler"}
           \/ pc = "set_fresh" /\ pc' \in {"fresh", "handler"}
           \/ pc = "set_capture" /\ pc' \in {"start", "handler"}
    BY <1>0, <1>2, QuietCommit, RaiseTargets DEF SetReload, SetFresh,
       SetCapture, SetStatus, Outside, TryBlock, Applying, Proving
  <2>2. Stays
    BY <2>1 DEF Stays, Closed, Interrupted, Reverting, Rollback, At0, At1,
       At2, At3, At4, At5, At6, At7, At8
  <2> QED  BY <2>2, StaysOK
<1>3. CASE SetWorkload \/ SetReanalyze \/ SetCompare
  <2>1. /\ journal' = journal
        /\ \/ pc = "set_workload" /\ pc' \in {"workload", "handler"}
           \/ pc = "set_reanalyze" /\ pc' \in {"reanalyze", "handler"}
           \/ pc = "set_compare" /\ pc' \in {"compare", "handler"}
    BY <1>0, <1>3, QuietCommit, RaiseTargets DEF SetWorkload, SetReanalyze,
       SetCompare, SetStatus, Outside, TryBlock, Applying, Proving
  <2>2. Stays
    BY <2>1 DEF Stays, Closed, Interrupted, Reverting, Rollback, At0, At1,
       At2, At3, At4, At5, At6, At7, At8
  <2> QED  BY <2>2, StaysOK
<1>4. CASE SaveCapture \/ SaveProof
  <2>1. /\ journal' = journal
        /\ \/ pc = "save_capture" /\ pc' \in {"set_reanalyze", "handler"}
           \/ pc = "save_proof" /\ pc' \in {"rec_done", "handler"}
    BY <1>0, <1>4, QuietCommit, RaiseTargets DEF SaveCapture, SaveProof,
       Outside, TryBlock, Applying, Proving
  <2>2. Stays
    BY <2>1 DEF Stays, Closed, Interrupted, Reverting, Rollback, At0, At1,
       At2, At3, At4, At5, At6, At7, At8
  <2> QED  BY <2>2, StaysOK
<1>5. CASE Fetch \/ Preflight \/ Acquire
  <2>1. Stays
    BY <1>0, <1>5, RaiseTargets DEF Fetch, Preflight, Acquire, Raise, dbVars,
       CommitFails, Outside, Stays, Closed, Interrupted, Reverting, Rollback,
       At0, At1, At2, At3, At4, At5, At6, At7, At8
  <2> QED  BY <2>1, StaysOK
<1>6. CASE Backup \/ QueryBefore \/ Apply
  <2>1. Stays
    BY <1>0, <1>6, RaiseTargets DEF Backup, QueryBefore, Apply, Raise, dbVars,
       TryBlock, Applying, Proving, Stays, Closed, Interrupted, Reverting,
       Rollback, At0, At1, At2, At3, At4, At5, At6, At7, At8
  <2> QED  BY <2>1, StaysOK
<1>7. CASE Reload
  <2>1. Stays
    BY <1>0, <1>7, RaiseTargets DEF Reload, ReloadDaemon, Raise, dbVars,
       TryBlock, Applying, Proving, Stays, Closed, Interrupted, Reverting,
       Rollback, At0, At1, At2, At3, At4, At5, At6, At7, At8
  <2> QED  BY <2>1, StaysOK
<1>8. CASE VerifyFresh \/ StartCapture
  <2>1. Stays
    BY <1>0, <1>8, RaiseTargets DEF VerifyFresh, StartCapture, Raise, dbVars,
       TryBlock, Applying, Proving, Stays, Closed, Interrupted, Reverting,
       Rollback, At0, At1, At2, At3, At4, At5, At6, At7, At8
  <2> QED  BY <2>1, StaysOK
<1>9. CASE RunWorkload \/ StopCapture
  <2>1. Stays
    BY <1>0, <1>9, RaiseTargets DEF RunWorkload, StopCapture, Raise, dbVars,
       TryBlock, Applying, Proving, Stays, Closed, Interrupted, Reverting,
       Rollback, At0, At1, At2, At3, At4, At5, At6, At7, At8
  <2> QED  BY <2>1, StaysOK
<1>10. CASE CheckArtifact \/ Reanalyze \/ CompareEvidence
  <2>1. Stays
    BY <1>0, <1>10, RaiseTargets DEF CheckArtifact, Reanalyze, CompareEvidence, Judge,
       CommitFails, Raise, dbVars, TryBlock, Applying, Proving, Stays, Closed,
       Interrupted, Reverting, Rollback, At0, At1, At2, At3, At4, At5, At6,
       At7, At8
  <2> QED  BY <2>1, StaysOK
<1>11. CASE Handle
  <2>1. Stays
    BY <1>0, <1>11, RaiseTargets DEF Handle, dbVars, Stays,
       Closed, Interrupted, Reverting, Rollback, At0, At1, At2, At3, At4, At5,
       At6, At7, At8
  <2> QED  BY <2>1, StaysOK
<1>12. CASE Restore \/ QueryRecovery
  <2>1. Stays
    BY <1>0, <1>12, RaiseTargets DEF Restore, QueryRecovery, Raise, dbVars,
       Stays, Closed, Interrupted, Reverting, Rollback, At0, At1, At2, At3,
       At4, At5, At6, At7, At8
  <2> QED  BY <2>1, StaysOK
<1>13. CASE ReloadRestored
  <2>1. Stays
    BY <1>0, <1>13, RaiseTargets DEF ReloadRestored, ReloadDaemon, Raise,
       dbVars, Stays, Closed, Interrupted, Reverting, Rollback, At0, At1, At2,
       At3, At4, At5, At6, At7, At8
  <2> QED  BY <2>1, StaysOK
<1>14. CASE SetRollback
  <2>1. (pc' = "release" /\ db' = db) \/ pc' = "rec_trigger"
    BY <1>0, <1>14, CommitJournal, RaiseTargets DEF SetRollback, Handler
  <2>2. journal' = journal /\ pc = "set_rollback"
    BY <1>0, <1>14, QuietCommit DEF SetRollback
  <2>3. CASE pc' = "release" /\ db' = db
    BY <2>2, <2>3, LeavesOK DEF Closed
  <2>4. CASE pc' = "rec_trigger"
    <3>1. Stays
      BY <2>2, <2>4 DEF Stays, Closed, Interrupted, Reverting, Rollback,
         At0, At1, At2, At3, At4, At5, At6, At7, At8
    <3> QED  BY <3>1, StaysOK
  <2> QED  BY <2>1, <2>3, <2>4
<1>15. CASE Release \/ Crash
  <2>1. journal' = journal /\ db' = db /\ pc' \in Closed
    BY <1>15 DEF Release, Crash, dbVars, Closed
  <2> QED  BY <2>1, LeavesOK
<1>16. CASE OthersLock \/ UNCHANGED vars
  <2>1. UNCHANGED <<journal, db, pc>>
    BY <1>16 DEF OthersLock, vars, dbVars
  <2>2. ForwardOK'
    BY <1>0, <2>1 DEF ForwardOK
  <2>3. BackwardOK'
    BY <1>0, <2>1 DEF BackwardOK
  <2>4. (pc \in Closed => SagaOf(journal, db.status))'
    <3>1. pc' \in Closed => SagaOf(journal, db.status)
      BY <2>1 DEF SInv, SagaOK
    <3> QED  BY <2>1, <3>1
  <2> QED  BY <2>2, <2>3, <2>4 DEF SagaOK
<1>17. CASE RecordPreflight
  <2>1. 0 \in 0..7 /\ SagaSteps[0 + 1] = "PREFLIGHT"
    BY DEF SagaSteps
  <2> QED  BY <1>17, <2>1, SuccessStep DEF RecordPreflight, Record, At1
<1>18. CASE RecordLock
  <2>1. 1 \in 0..7 /\ SagaSteps[1 + 1] = "ACQUIRE_LOCK"
    BY DEF SagaSteps
  <2> QED  BY <1>18, <2>1, SuccessStep DEF RecordLock, Record, At2
<1>19. CASE RecordBackup
  <2>1. 2 \in 0..7 /\ SagaSteps[2 + 1] = "BACKUP_CONFIG"
    BY DEF SagaSteps
  <2> QED  BY <1>19, <2>1, SuccessStep DEF RecordBackup, Record, At3
<1>20. CASE RecordQuery
  <2>1. 3 \in 0..7 /\ SagaSteps[3 + 1] = "PRE_APPLY_SA_STATE"
    BY DEF SagaSteps
  <2> QED  BY <1>20, <2>1, SuccessStep DEF RecordQuery, Record, At4
<1>21. CASE RecordApply
  <2>1. 4 \in 0..7 /\ SagaSteps[4 + 1] = "APPLY_CONFIG"
    BY DEF SagaSteps
  <2> QED  BY <1>21, <2>1, SuccessStep DEF RecordApply, Conclude, At5
<1>22. CASE RecordReload
  <2>1. 5 \in 0..7 /\ SagaSteps[5 + 1] = "RELOAD_STRONGSWAN"
    BY DEF SagaSteps
  <2> QED  BY <1>22, <2>1, SuccessStep DEF RecordReload, Record, At6
<1>23. CASE RecordFresh
  <2>1. 6 \in 0..7 /\ SagaSteps[6 + 1] = "VERIFY_FRESH_SA"
    BY DEF SagaSteps
  <2> QED  BY <1>23, <2>1, SuccessStep DEF RecordFresh, Record, At7
<1>24. CASE RecordWorkload
  <2>1. 7 \in 0..7 /\ SagaSteps[7 + 1] = "CAPTURE_AND_WORKLOAD"
    BY DEF SagaSteps
  <2> QED  BY <1>24, <2>1, SuccessStep DEF RecordWorkload, Record, At8
<1>25. CASE RecordTrigger
  <2>1. /\ pc = "rec_trigger"
        /\ \/ journal' = journal \o <<Trigger>> /\ pc' = "restore"
           \/ journal' = journal /\ db' = db /\ pc' = "release"
    BY <1>0, <1>25, CommitJournal, RaiseTargets DEF RecordTrigger, Trigger,
       Handler
  <2>2. \E n \in 0..8 : journal = Successes(n)
    BY <1>0, <2>1 DEF BackwardOK, Interrupted
  <2>3. CASE journal' = journal /\ db' = db /\ pc' = "release"
    BY <2>3, LeavesOK DEF Closed
  <2>4. CASE journal' = journal \o <<Trigger>> /\ pc' = "restore"
    <3>1. \E n \in 0..8 : journal' = Successes(n) \o <<Trigger>>
      BY <2>2, <2>4
    <3>2. ForwardOK'
      BY <2>4 DEF ForwardOK, At0, At1, At2, At3, At4, At5, At6, At7, At8
    <3>3. BackwardOK' /\ pc' \notin Closed
      BY <2>4, <3>1 DEF BackwardOK, Interrupted, Reverting, Rollback, Closed
    <3> QED  BY <3>2, <3>3 DEF SagaOK
  <2> QED  BY <2>1, <2>3, <2>4
<1>26. /\ 0 \in 0..8 /\ 1 \in 0..8 /\ 8 \in 0..8
       /\ "FAILED" \in Terminal /\ "ROLLBACK_FAILED" \in Terminal
       /\ "COMPLETED" \in Terminal /\ "ROLLED_BACK" \in Terminal
  BY DEF Terminal
<1>27. CASE RecordBlocked
  <2>1. journal = Successes(0)
    BY <1>0, <1>27 DEF RecordBlocked, Conclude, Commit, ForwardOK, At0
  <2>2. SagaOf(journal \o <<Step("PREFLIGHT", "FAILED")>>, "FAILED")
    BY <1>26, <2>1, Settled, StatusOfSteps
  <2> QED  BY <1>26, <1>27, <2>2, ConcludeOK DEF RecordBlocked
<1>28. CASE RecordConflict
  <2>1. journal = Successes(1)
    BY <1>0, <1>28 DEF RecordConflict, Conclude, Commit, ForwardOK, At1
  <2>2. SagaOf(journal \o <<Step("ACQUIRE_LOCK", "FAILED")>>, "FAILED")
    BY <1>26, <2>1, Settled, StatusOfSteps
  <2> QED  BY <1>26, <1>28, <2>2, ConcludeOK DEF RecordConflict
<1>29. CASE RecordDone
  <2>1. journal = Successes(8)
    BY <1>0, <1>29 DEF RecordDone, Conclude, Commit, ForwardOK, At8
  <2>2. SagaOf(journal \o <<Step("EVALUATE_AND_VERIFY", "SUCCESS")>>,
               "COMPLETED")
    BY <2>1, Accepted
  <2> QED  BY <1>26, <1>29, <2>2, ConcludeOK DEF RecordDone
<1>30. CASE RecordRolledBack
  <2>1. \E n \in 0..8 : journal = Successes(n) \o <<Trigger>>
    BY <1>0, <1>30 DEF RecordRolledBack, Conclude, Commit, BackwardOK,
       Reverting, Rollback
  <2>2. SagaOf(journal \o <<Step("AUTOMATIC_ROLLBACK", "SUCCESS")>>,
               "ROLLED_BACK")
    BY <2>1, Settled, StatusOfSteps
  <2> QED  BY <1>26, <1>30, <2>2, ConcludeOK DEF RecordRolledBack
<1>31. CASE RecordRollbackFailed
  <2>1. \E n \in 0..8 : journal = Successes(n) \o <<Trigger>>
    BY <1>0, <1>31 DEF RecordRollbackFailed, Conclude, Commit, BackwardOK,
       Reverting
  <2>2. SagaOf(journal \o <<Step("AUTOMATIC_ROLLBACK", "FAILED")>>,
               "ROLLBACK_FAILED")
    BY <2>1, Settled, StatusOfSteps
  <2> QED  BY <1>26, <1>31, <2>2, ConcludeOK DEF RecordRollbackFailed
<1>32. CASE RecordMissing
  <2>1. \E n \in 0..8 : journal = Successes(n)
    BY <1>0, <1>32 DEF RecordMissing, Conclude, Commit, BackwardOK,
       Interrupted
  <2>2. SagaOf(journal \o <<Step("AUTOMATIC_ROLLBACK", "FAILED")>>,
               "ROLLBACK_FAILED")
    BY <2>1, Settled, StatusOfSteps
  <2> QED  BY <1>26, <1>32, <2>2, ConcludeOK DEF RecordMissing
<1> QED
  BY <1>1, <1>2, <1>3, <1>4, <1>5, <1>6, <1>7, <1>8, <1>9, <1>10, <1>11, <1>12,
     <1>13, <1>14, <1>15, <1>16, <1>17, <1>18, <1>19, <1>20, <1>21, <1>22,
     <1>23, <1>24, <1>25, <1>27, <1>28, <1>29, <1>30, <1>31, <1>32
  DEF Next, RunStep, Prepare, Change, Prove, Compensate

\* The run never lets go of the lock but in its finally clause, and it takes
\* it in Acquire.
LEMMA OwnerStep == SInv /\ [Next]_vars => OwnerOK'
<1> SUFFICES ASSUME SInv, [Next]_vars, lock' = "mine"
             PROVE  \/ pc' \in Locked \cup {"dead", "kept"}
                    \/ /\ pc' = "raised" /\ session' = "broken"
                       /\ journal' = Successes(1)
  BY DEF OwnerOK
<1> USE RaiseTargets DEF Locked, Rollback, Handler, TryBlock, Applying,
        Proving, Outside, Raise, SetStatus, Record, Conclude, Commit, dbVars
<1>1. CASE RecordLock
  <2>1. pc = "rec_lock" /\ journal = Successes(1)
    BY <1>1 DEF RecordLock, SInv, SagaOK, ForwardOK, At1
  <2>2. CASE pc' = "set_backup"
    BY <2>2
  <2>3. CASE CommitFails /\ pc' = "raised"
    BY <2>1, <2>3 DEF CommitFails
  <2> QED  BY <1>1, <2>2, <2>3 DEF RecordLock
<1>2. CASE Fetch \/ SetPreflight \/ Preflight \/ RecordBlocked
            \/ RecordPreflight \/ RecordConflict
  <2>1. lock = "mine" /\ pc \in Outside \ {"rec_lock"}
    BY <1>2 DEF Fetch, SetPreflight, Preflight, RecordBlocked,
       RecordPreflight, RecordConflict
  <2> QED  BY <2>1 DEF SInv, OwnerOK
<1>3. CASE Acquire
  BY <1>3 DEF Acquire
<1>4. CASE SetBackup \/ Backup \/ RecordBackup \/ QueryBefore \/ RecordQuery
            \/ SetApply
  BY <1>4 DEF SetBackup, Backup, RecordBackup, QueryBefore, RecordQuery,
     SetApply
<1>5. CASE Change
  BY <1>5 DEF Change, Apply, RecordApply, SetReload, Reload, ReloadDaemon,
     RecordReload
<1>6. CASE SetFresh \/ VerifyFresh \/ RecordFresh \/ SetCapture
            \/ StartCapture \/ SetWorkload \/ RunWorkload \/ StopCapture
  BY <1>6 DEF SetFresh, VerifyFresh, RecordFresh, SetCapture, StartCapture,
     SetWorkload, RunWorkload, StopCapture
<1>7. CASE RecordWorkload \/ CheckArtifact \/ SaveCapture \/ SetReanalyze
            \/ Reanalyze \/ SetCompare \/ CompareEvidence \/ SaveProof \/ RecordDone
  BY <1>7 DEF RecordWorkload, CheckArtifact, SaveCapture, SetReanalyze,
     Reanalyze, SetCompare, CompareEvidence, SaveProof, RecordDone, Judge
<1>8. CASE Handle \/ SetRollback \/ RecordTrigger \/ Restore \/ QueryRecovery
  BY <1>8 DEF Handle, SetRollback, RecordTrigger, Restore, QueryRecovery
<1>9. CASE ReloadRestored
  BY <1>9 DEF ReloadRestored, ReloadDaemon
<1>10. CASE RecordRolledBack \/ RecordRollbackFailed \/ RecordMissing
             \/ Release \/ Crash
  BY <1>10 DEF RecordRolledBack, RecordRollbackFailed, RecordMissing,
     Release, Crash
<1>11. CASE OthersLock \/ UNCHANGED vars
  <2>1. UNCHANGED <<pc, journal, session>> /\ lock = "mine"
    BY <1>11 DEF OthersLock, vars, dbVars
  <2> QED  BY <2>1 DEF SInv, OwnerOK
<1> QED
  BY <1>1, <1>2, <1>3, <1>4, <1>5, <1>6, <1>7, <1>8, <1>9, <1>10, <1>11
  DEF Next, RunStep, Prepare, Prove, Compensate

LEMMA SagaInvariance == Spec => []SInv
<1>1. Init => SInv
  <2>1. Init => SagaOK
    BY SuccessesNone DEF Init, SagaOK, ForwardOK, BackwardOK, Closed,
       Interrupted, Reverting, Rollback, At0, At1, At2, At3, At4, At5, At6,
       At7, At8
  <2>2. Init => OwnerOK
    BY DEF Init, OwnerOK
  <2> QED  BY InitInv, <2>1, <2>2 DEF SInv
<1>2. SInv /\ [Next]_vars => SInv'
  <2>1. IInv /\ [Next]_vars => IInv'
    BY TypeStep, StateStep, VerdictStep DEF IInv
  <2> QED  BY <2>1, SagaStep, OwnerStep DEF SInv
<1> QED  BY <1>1, <1>2, PTL DEF Spec

(***************************************************************************)
(* SagaJournal.  Whatever fails and wherever the process dies, the         *)
(* committed journal is a prefix of the saga with at most one failed       *)
(* ending, and a terminal status is committed exactly when the journal's   *)
(* last step says so.                                                      *)
(***************************************************************************)
THEOREM SagaJournal == Spec => []JournalIsSaga
<1>1. SInv => JournalIsSaga
  <2>1. SInv => SagaOf(journal, db.status)
    BY OpenSaga DEF SInv, SagaOK
  <2> QED  BY <2>1 DEF SagaOf, JournalIsSaga
<1> QED  BY <1>1, SagaInvariance, PTL

(***************************************************************************)
(* LockComesBack.  A run that is over gave lab.lock back, unless the       *)
(* unlink of the release raised, or the commit of its ACQUIRE_LOCK step    *)
(* failed outside the try block.                                           *)
(***************************************************************************)
THEOREM LockComesBack == Spec => []LockReturned
<1>1. Successes(1) = <<Step("PREFLIGHT", "SUCCESS")>>
  <2>1. 0 \in 0..8 /\ SagaSteps[0 + 1] = "PREFLIGHT" /\ 0 + 1 = 1
    BY DEF SagaSteps
  <2>2. <<>> \o <<Step("PREFLIGHT", "SUCCESS")>> = Successes(1)
    BY <2>1, SuccessesNext, SuccessesNone
  <2> QED  BY <2>2
<1>2. SInv => LockReturned
  BY <1>1 DEF SInv, OwnerOK, LockReturned, Ended, Locked, TryBlock,
     Applying, Proving, Rollback, Handler
<1> QED  BY <1>2, SagaInvariance, PTL

-----------------------------------------------------------------------------
(***************************************************************************)
(* Without failing commits the session stays usable, a run that leaves     *)
(* early has touched nothing, and every other end is a verdict.            *)
(***************************************************************************)
TellsOK ==
  ~DbFails =>
    /\ session = "ok"
    /\ pc = "raised" => "candidate" \notin {file, loaded}
    /\ pc \in {"release", "end", "kept"} => db.status \in Terminal

LEMMA TellsStep == IInv /\ TellsOK /\ [Next]_vars => TellsOK'
<1> SUFFICES ASSUME IInv, TellsOK, [Next]_vars, ~DbFails
             PROVE  /\ session' = "ok"
                    /\ pc' = "raised" => "candidate" \notin {file', loaded'}
                    /\ pc' \in {"release", "end", "kept"} => db'.status \in Terminal
  BY DEF TellsOK
<1>0. session = "ok" /\ ~CommitFails
  BY DEF TellsOK, CommitFails
<1>1. ASSUME NEW at, NEW row, NEW steps, NEW to, Commit(at, row, steps, to)
      PROVE  session' = "ok" /\ db' = row /\ pc' = to
  BY <1>0, <1>1 DEF Commit, CommitOK
<1>2. ASSUME NEW at, NEW st, NEW rb, NEW a, NEW r, NEW to,
             Conclude(at, st, rb, a, r, to)
      PROVE  session' = "ok" /\ db'.status = st /\ pc' = to
  <2>1. /\ session' = "ok" /\ pc' = to
        /\ db' = [db EXCEPT !.status = st, !.rollback = rb]
    BY <1>1, <1>2 DEF Conclude
  <2> QED  BY <2>1 DEF IInv, TypeOK, RunRows
<1>3. CASE SetPreflight \/ SetBackup \/ SetApply \/ SetReload \/ SetFresh
            \/ SetCapture \/ SetWorkload \/ SetReanalyze \/ SetCompare
            \/ SaveCapture \/ SaveProof \/ SetRollback \/ RecordTrigger
  BY <1>1, <1>3 DEF SetStatus, SetPreflight, SetBackup, SetApply, SetReload,
     SetFresh, SetCapture, SetWorkload, SetReanalyze, SetCompare,
     SaveCapture, SaveProof, SetRollback, RecordTrigger
<1>4. CASE RecordPreflight \/ RecordLock \/ RecordBackup \/ RecordQuery
            \/ RecordReload \/ RecordFresh \/ RecordWorkload
  BY <1>1, <1>4 DEF Record, RecordPreflight, RecordLock, RecordBackup,
     RecordQuery, RecordReload, RecordFresh, RecordWorkload
<1>5. CASE RecordBlocked \/ RecordConflict \/ RecordApply \/ RecordDone
            \/ RecordRolledBack \/ RecordRollbackFailed \/ RecordMissing
  BY <1>2, <1>5 DEF RecordBlocked, RecordConflict, RecordApply, RecordDone,
     RecordRolledBack, RecordRollbackFailed, RecordMissing, Terminal
<1>6. CASE Fetch \/ Preflight \/ Acquire
  BY <1>0, <1>6, RaiseTargets DEF Fetch, Preflight, Acquire, Raise, dbVars,
     gwVars, IInv, Region, EarlyOK, Early, Outside
<1> USE RaiseTargets DEF Raise, dbVars, TryBlock, Applying, Proving
<1>7. CASE Backup \/ QueryBefore \/ Apply
  BY <1>0, <1>7 DEF Backup, QueryBefore, Apply
<1>8. CASE Reload
  BY <1>0, <1>8 DEF Reload, ReloadDaemon
<1>9. CASE VerifyFresh \/ StartCapture \/ RunWorkload \/ StopCapture
  BY <1>0, <1>9 DEF VerifyFresh, StartCapture, RunWorkload, StopCapture
<1>10. CASE CheckArtifact \/ Reanalyze \/ CompareEvidence
  BY <1>0, <1>10 DEF CheckArtifact, Reanalyze, CompareEvidence, Judge
<1>11. CASE Handle \/ Restore \/ QueryRecovery
  BY <1>0, <1>11 DEF Handle, Restore, QueryRecovery, Rollback
<1>12. CASE ReloadRestored
  BY <1>0, <1>12 DEF ReloadRestored, ReloadDaemon, Rollback
<1>13. CASE Release \/ Crash \/ OthersLock \/ UNCHANGED vars
  BY <1>0, <1>13 DEF Release, Crash, OthersLock, vars, gwVars, TellsOK
<1> QED
  BY <1>3, <1>4, <1>5, <1>6, <1>7, <1>8, <1>9, <1>10, <1>11, <1>12, <1>13
  DEF Next, RunStep, Prepare, Change, Prove, Compensate

(***************************************************************************)
(* NothingSilent.  If no statement and no commit fails, a run that ends    *)
(* with the candidate on the gateway is COMPLETED, or ROLLBACK_FAILED and  *)
(* so in an operator's hands, whatever the agent's calls do.               *)
(***************************************************************************)
THEOREM NothingSilent == Spec => [](~DbFails => NoSilentCandidate)
<1>1. Init => TellsOK
  BY DEF Init, TellsOK
<1>2. IInv /\ TellsOK => (~DbFails => NoSilentCandidate)
  BY DEF IInv, VerdictOK, TellsOK, NoSilentCandidate, Ended, Terminal
<1> QED  BY <1>1, <1>2, TellsStep, Inductive, PTL DEF Spec

-----------------------------------------------------------------------------
(***************************************************************************)
(* Refinement.                                                             *)
(***************************************************************************)
LEMMA VerdictOf ==
  /\ db.status = "COMPLETED" => StatusVerdict = "accepted"
  /\ db.status = "ROLLED_BACK" => StatusVerdict = "reverted"
  /\ db.status = "FAILED" => StatusVerdict = "declined"
  /\ db.status = "ROLLBACK_FAILED" => StatusVerdict = "operator"
  /\ db.status \notin Terminal => StatusVerdict = "open"
BY DEF StatusVerdict, Terminal

LEMMA VerdictOfNext ==
  /\ db'.status = "COMPLETED" => StatusVerdict' = "accepted"
  /\ db'.status = "ROLLED_BACK" => StatusVerdict' = "reverted"
  /\ db'.status = "FAILED" => StatusVerdict' = "declined"
  /\ db'.status = "ROLLBACK_FAILED" => StatusVerdict' = "operator"
  /\ db'.status \notin Terminal => StatusVerdict' = "open"
BY DEF StatusVerdict, Terminal

\* A run that has nothing left but its finally clause changes nothing else.
LEMMA ClosedSteps ==
  ASSUME Next, pc \in Closed
  PROVE  UNCHANGED <<db, file, loaded>>
<1>1. ~Prepare
  BY DEF Closed, Commit, SetStatus, Record, Conclude, Prepare, Fetch,
     SetPreflight, Preflight, RecordBlocked, RecordPreflight, Acquire,
     RecordLock, RecordConflict, SetBackup, Backup, RecordBackup,
     QueryBefore, RecordQuery, SetApply
<1>2. ~Change
  BY DEF Closed, Commit, SetStatus, Record, Conclude, Change, Apply,
     RecordApply, SetReload, Reload, ReloadDaemon, RecordReload
<1>3. ~Prove
  BY DEF Closed, Commit, SetStatus, Record, Conclude, Prove, SetFresh,
     VerifyFresh, RecordFresh, SetCapture, StartCapture, SetWorkload,
     RunWorkload, StopCapture, RecordWorkload, CheckArtifact, SaveCapture,
     SetReanalyze, Reanalyze, SetCompare, CompareEvidence, Judge, SaveProof,
     RecordDone
<1>4. Compensate => Release
  BY DEF Closed, Commit, SetStatus, Record, Conclude, Compensate, Handle,
     SetRollback, RecordTrigger, Restore, ReloadRestored, ReloadDaemon,
     QueryRecovery, RecordRolledBack, RecordRollbackFailed, RecordMissing
<1>5. Release \/ Crash \/ OthersLock
  BY <1>1, <1>2, <1>3, <1>4 DEF Next, RunStep
<1> QED  BY <1>5 DEF Release, Crash, OthersLock, dbVars, gwVars

LEMMA RefineStep ==
  IInv /\ IInv' /\ [Next]_vars => [C!ContractNext]_(C!contractVars)
<1> SUFFICES ASSUME IInv, IInv', Next
             PROVE  C!ContractNext \/ UNCHANGED <<file, loaded, StatusVerdict>>
  <2>1. UNCHANGED vars => UNCHANGED <<file, loaded, StatusVerdict>>
    BY DEF vars, dbVars, gwVars, StatusVerdict
  <2> QED  BY <2>1 DEF C!contractVars
<1>1. CASE pc \in Closed
  <2>1. UNCHANGED <<db, file, loaded>>
    BY <1>1, ClosedSteps
  <2> QED  BY <2>1 DEF StatusVerdict
<1>2. CASE pc \notin Closed /\ UNCHANGED <<file, loaded>>
  <2>1. StatusVerdict = "open"
    BY <1>2, VerdictOf DEF IInv, VerdictOK
  <2>2. CASE db'.status \notin Terminal
    BY <1>2, <2>1, <2>2, VerdictOfNext
  <2>3. CASE db'.status \in Terminal
    <3>1. C!Accept \/ C!Revert \/ C!Decline \/ C!CallOperator
      BY <1>2, <2>3, VerdictOfNext DEF IInv, VerdictOK, Terminal, C!Accept,
         C!Revert, C!Decline, C!CallOperator
    <3> QED  BY <1>2, <2>1, <3>1 DEF C!Decide, C!ContractNext
  <2> QED  BY <2>2, <2>3
<1>3. CASE pc \notin Closed /\ ~UNCHANGED <<file, loaded>>
  <2>1. StatusVerdict = "open"
    BY <1>3, VerdictOf DEF IInv, VerdictOK
  <2>2. Apply \/ Reload \/ Restore \/ ReloadRestored
    BY <1>3, GatewaySteps
  <2>3. StatusVerdict' = StatusVerdict
    BY <2>2 DEF Apply, Reload, Restore, ReloadRestored, ReloadDaemon, dbVars,
       StatusVerdict
  <2>4. CASE Apply
    <3>1. file = "baseline" /\ loaded' = loaded
      BY <2>4 DEF Apply, IInv, Region, BackedOK, Backed
    <3>2. file' = "candidate"
      BY <1>3, <2>4, <3>1 DEF Apply
    <3> QED  BY <2>1, <2>3, <3>1, <3>2 DEF C!Install, C!ContractNext
  <2>5. CASE Restore
    <3>1. /\ backup = "baseline" /\ file \in {"baseline", "candidate"}
          /\ loaded' = loaded
      BY <2>5 DEF Restore, IInv, Region, UndoingOK, Undoing, Rollback,
         BackupOK
    <3>2. file' = "baseline"
      BY <1>3, <2>5, <3>1 DEF Restore
    <3> QED  BY <2>1, <2>3, <3>1, <3>2 DEF C!PutBack, C!ContractNext
  <2>6. CASE Reload \/ ReloadRestored
    <3>1. loaded' = file /\ file' = file
      BY <1>3, <2>6 DEF Reload, ReloadRestored, ReloadDaemon
    <3> QED  BY <2>1, <2>3, <3>1 DEF C!Load, C!ContractNext
  <2> QED  BY <2>2, <2>4, <2>5, <2>6
<1> QED  BY <1>1, <1>2, <1>3

(***************************************************************************)
(* Implements.  The runner, under every fault of the model, implements the *)
(* contract: the statuses COMPLETED, ROLLED_BACK, FAILED and               *)
(* ROLLBACK_FAILED are verdicts that are true of the gateway when they are *)
(* committed, final, and never followed by a change of the gateway.        *)
(***************************************************************************)
THEOREM Implements == Spec => Contract
<1>1. Init => C!ContractInit
  <2>1. Init => StatusVerdict = "open"
    BY VerdictOf DEF Init, Terminal
  <2> QED  BY <2>1 DEF Init, C!ContractInit, C!Untouched
<1> QED
  BY <1>1, RefineStep, Inductive, PTL DEF Spec, Contract, C!ContractSpec

HIDE RemediationAssumption

-----------------------------------------------------------------------------
(* The facts a configuration is projected to.                              *)

Fact(key, value) == [key |-> key, value |-> value, evidence_state |-> "VERIFIED"]

\* The facts of its parts, and all there may be: the first of a kind is projected.
FactsOfIke(p) ==
  {Fact(FieldKey.ike_encryption, p.encryption),
   Fact(FieldKey.ike_key_length, Or(p.key_length, 256)),
   Fact(FieldKey.ike_integrity,
        Or(p.integrity, IF Has(p.encryption, {"gcm", "aesgcm"}) THEN AEAD ELSE SHA256)),
   Fact(FieldKey.ike_dh_group, p.dh_group)}

FactsOfChild(ch) ==
  {Fact(FieldKey.child_mode, ch.mode),
   Fact(FieldKey.child_encryption, ch.esp_proposals[1].encryption),
   Fact(FieldKey.child_pfs_status, IF ch.pfs_dh_group = None THEN "DISABLED" ELSE "ENABLED"),
   Fact(FieldKey.child_pfs_dh_group, ch.pfs_dh_group),
   Fact(FieldKey.child_replay_window, ch.replay_window)}

FactsOf(ir) ==
  LET c == ir.connections[1]
  IN  {Fact("esp_flow.sequence_monotonic", TRUE)}
      \cup (IF ir.connections = <<>> THEN {Fact(FieldKey.ike_version, "IKEv2")}
            ELSE {Fact(FieldKey.ike_version, VersionName(c.ike_version))}
                 \cup (IF c.ike_proposals = <<>> THEN {} ELSE FactsOfIke(c.ike_proposals[1]))
                 \cup (IF c.children = <<>> THEN {} ELSE FactsOfChild(c.children[1])))

LEMMA OneFact ==
  ASSUME NEW S, NEW key, NEW value, Fact(key, value) \in S
  PROVE  Verified(key, value) \in Seq(S)
BY DEF Verified, Fact

LEMMA Joined ==
  ASSUME NEW S, NEW s \in Seq(S), NEW t \in Seq(S)
  PROVE  s \o t \in Seq(S)
OBVIOUS

LEMMA Nothing == ASSUME NEW S PROVE <<>> \in Seq(S)
OBVIOUS

LEMMA IkeFactsAre ==
  ASSUME NEW p, NEW S, FactsOfIke(p) \subseteq S
  PROVE  IkeFacts(p) \in Seq(S)
<1>1. /\ Fact(FieldKey.ike_encryption, p.encryption) \in S
      /\ Fact(FieldKey.ike_key_length, Or(p.key_length, 256)) \in S
      /\ Fact(FieldKey.ike_integrity,
            Or(p.integrity, IF Has(p.encryption, {"gcm", "aesgcm"}) THEN AEAD ELSE SHA256)) \in S
      /\ Fact(FieldKey.ike_dh_group, p.dh_group) \in S
  BY DEF FactsOfIke
<1> QED  BY <1>1, OneFact, Joined, Nothing DEF IkeFacts

LEMMA ChildFactsAre ==
  ASSUME NEW ch, NEW S, FactsOfChild(ch) \subseteq S
  PROVE  ChildFacts(ch) \in Seq(S)
<1>1. /\ Fact(FieldKey.child_mode, ch.mode) \in S
      /\ Fact(FieldKey.child_encryption, ch.esp_proposals[1].encryption) \in S
      /\ Fact(FieldKey.child_pfs_status,
              IF ch.pfs_dh_group = None THEN "DISABLED" ELSE "ENABLED") \in S
      /\ Fact(FieldKey.child_pfs_dh_group, ch.pfs_dh_group) \in S
      /\ Fact(FieldKey.child_replay_window, ch.replay_window) \in S
  BY DEF FactsOfChild
<1> QED  BY <1>1, OneFact, Joined, Nothing DEF ChildFacts

LEMMA ProjectedAre ==
  ASSUME NEW ir
  PROVE  synthesize_projected_facts(ir) \in Seq(FactsOf(ir))
<1> DEFINE S == FactsOf(ir)
           c == ir.connections[1]
           tail == Verified("esp_flow.sequence_monotonic", TRUE)
           ike == IF c.ike_proposals = <<>> THEN <<>> ELSE IkeFacts(c.ike_proposals[1])
           child == IF c.children = <<>> THEN <<>> ELSE ChildFacts(c.children[1])
<1>1. tail \in Seq(S)
  BY OneFact DEF FactsOf
<1>2. CASE ir.connections = <<>>
  <2>1. Verified(FieldKey.ike_version, "IKEv2") \in Seq(S)
    BY <1>2, OneFact DEF FactsOf
  <2> HIDE DEF S, tail
  <2>2. Verified(FieldKey.ike_version, "IKEv2") \o tail \in Seq(S)
    BY <1>1, <2>1
  <2> QED  BY <1>2, <2>2 DEF synthesize_projected_facts, tail, S
<1>3. CASE ir.connections # <<>>
  <2>1. Verified(FieldKey.ike_version, VersionName(c.ike_version)) \in Seq(S)
    BY <1>3, OneFact DEF FactsOf
  <2>2. c.ike_proposals # <<>> => FactsOfIke(c.ike_proposals[1]) \subseteq S
    BY <1>3 DEF FactsOf
  <2>3. c.children # <<>> => FactsOfChild(c.children[1]) \subseteq S
    BY <1>3 DEF FactsOf
  <2> HIDE DEF S
  <2>4. ike \in Seq(S)
    BY <2>2, IkeFactsAre, Nothing
  <2>5. child \in Seq(S)
    BY <2>3, ChildFactsAre, Nothing
  <2> HIDE DEF tail, ike, child
  <2>6. (Verified(FieldKey.ike_version, VersionName(c.ike_version)) \o ike \o child) \o tail
           \in Seq(S)
    BY <1>1, <2>1, <2>4, <2>5
  <2> QED  BY <1>3, <2>6 DEF synthesize_projected_facts, tail, ike, child, S
<1> QED  BY <1>2, <1>3

-----------------------------------------------------------------------------
(* The texts: what a rendered or posted configuration is read as.          *)

Reading == INSTANCE Folding WITH Step <- ReadLine

Row(s) == \E n \in Nat : s = [i \in 1..n |-> s[i]]

LEMMA RowHasFirst ==
  ASSUME NEW s, Row(s), s # <<>>
  PROVE  1 \in DOMAIN s
<1>1. PICK n \in Nat : s = [i \in 1..n |-> s[i]]
  BY DEF Row
<1>2. CASE n = 0
  <2>1. DOMAIN s = {}
    BY <1>1, <1>2
  <2>2. s = <<>>
    BY <1>1, <2>1
  <2> QED  BY <2>2
<1>3. CASE n # 0
  BY <1>1, <1>3
<1> QED  BY <1>2, <1>3

LEMMA RowsMap ==
  ASSUME NEW s, Row(s), NEW f, f = [i \in DOMAIN s |-> f[i]]
  PROVE  Row(f) /\ DOMAIN f = DOMAIN s
BY DEF Row

\* A line that assigns proposals holds a list of them.
LineOK(l) == (l.line = "assign" /\ l.key = "proposals") => Row(l.value)

TextOK(t) == Row(t) /\ \A i \in DOMAIN t : LineOK(t[i])

Lengths == {128, 192, 256, None}

ConnOK(c) ==
  /\ Row(c.children) /\ Row(c.ike_proposals)
  /\ \A j \in DOMAIN c.ike_proposals : c.ike_proposals[j].key_length \in Lengths

ConnsOK(conns) == Row(conns) /\ \A i \in DOMAIN conns : ConnOK(conns[i])

ParserFields == {"stack", "in_connections", "in_secrets", "conn", "children", "child",
                 "connections", "secrets"}

ParserOK(p) ==
  /\ DOMAIN p = ParserFields
  /\ ConnsOK(p.connections) /\ p.secrets \in Nat /\ Row(p.children)
  /\ "proposals" \in DOMAIN p.conn => Row(p.conn["proposals"])

LEMMA RowAppend ==
  ASSUME NEW s, NEW e, Row(s)
  PROVE  Row(Append(s, e)) /\ \A i \in DOMAIN Append(s, e) :
            (i \in DOMAIN s /\ Append(s, e)[i] = s[i]) \/ Append(s, e)[i] = e
<1>1. PICK n \in Nat : s = [i \in 1..n |-> s[i]]
  BY DEF Row
<1>2. Len(s) = n
  BY <1>1
<1> DEFINE t == Append(s, e)
<1>3. t = [i \in 1..(n + 1) |-> t[i]]
  BY <1>1, <1>2
<1>4. \A i \in 1..n : t[i] = s[i]
  BY <1>1, <1>2
<1>5. t[n + 1] = e
  BY <1>1, <1>2
<1> HIDE DEF t
<1>6. Row(t)
  BY <1>3 DEF Row
<1>7. \A i \in DOMAIN t : i \in 1..n \/ i = n + 1
  BY <1>3
<1>8. DOMAIN s = 1..n
  BY <1>1
<1>9. \A i \in DOMAIN t : (i \in DOMAIN s /\ t[i] = s[i]) \/ t[i] = e
  BY <1>4, <1>5, <1>7, <1>8
<1> QED  BY <1>6, <1>9 DEF t

LEMMA LengthRead ==
  ASSUME NEW str
  PROVE  parse_single_proposal_string(str).key_length \in Lengths
BY DEF parse_single_proposal_string, ReadTransforms, TransformIR, KeyLength, Lengths

LEMMA ProposalsRead ==
  ASSUME NEW strs, Row(strs)
  PROVE  /\ Row(parse_proposals_list(strs))
         /\ \A j \in DOMAIN parse_proposals_list(strs) :
               parse_proposals_list(strs)[j].key_length \in Lengths
<1> DEFINE f == parse_proposals_list(strs)
<1>1. f = [i \in DOMAIN strs |-> f[i]]
  BY DEF parse_proposals_list
<1>2. \A j \in DOMAIN f : f[j].key_length \in Lengths
  BY LengthRead DEF parse_proposals_list
<1> HIDE DEF f
<1>3. Row(f)
  BY <1>1, RowsMap
<1> QED  BY <1>2, <1>3 DEF f

LEMMA ConnectionRead ==
  ASSUME NEW dict, NEW children, Row(children),
         "proposals" \in DOMAIN dict => Row(dict["proposals"])
  PROVE  ConnOK(ParsedConnection(dict, children))
<1> DEFINE strs == Get(dict, "proposals", <<AES256GCM16>>)
<1>1. Row(<<AES256GCM16>>)
  <2>1. <<AES256GCM16>> = [i \in 1..1 |-> <<AES256GCM16>>[i]]
    OBVIOUS
  <2> QED  BY <2>1 DEF Row
<1>2. Row(strs)
  BY <1>1 DEF Get
<1> HIDE DEF strs
<1>3. ParsedConnection(dict, children).ike_proposals = parse_proposals_list(strs)
  BY DEF ParsedConnection, ConnectionConfigurationIR, strs
<1>4. ParsedConnection(dict, children).children = children
  BY DEF ParsedConnection, ConnectionConfigurationIR
<1> QED  BY <1>2, <1>3, <1>4, ProposalsRead DEF ConnOK

LEMMA ConnsAppend ==
  ASSUME NEW conns, NEW c, ConnsOK(conns), ConnOK(c)
  PROVE  ConnsOK(Append(conns, c))
BY RowAppend DEF ConnsOK

LEMMA EmptyRow == Row(<<>>)
<1>1. <<>> = [i \in 1..0 |-> <<>>[i]]
  OBVIOUS
<1> QED  BY <1>1 DEF Row

LEMMA BlockOpened ==
  ASSUME NEW p, NEW name, ParserOK(p)
  PROVE  ParserOK(OpenBlock(p, name))
<1> DEFINE q == [p EXCEPT !.stack = Append(@, name)]
<1>1. /\ DOMAIN q = ParserFields
      /\ q.connections = p.connections /\ q.secrets = p.secrets
      /\ q.children = p.children /\ q.conn = p.conn
  BY DEF ParserOK, ParserFields
<1>2. ParserOK(q)
  BY <1>1 DEF ParserOK
<1> HIDE DEF q
<1>3. ParserOK([q EXCEPT !.in_connections = TRUE]) /\ ParserOK([q EXCEPT !.in_secrets = TRUE])
  BY <1>2 DEF ParserOK, ParserFields
<1>4. ParserOK([q EXCEPT !.conn = <<>>, !.children = <<>>])
  BY <1>2, EmptyRow DEF ParserOK, ParserFields
<1>5. ParserOK([q EXCEPT !.child = <<>>])
  BY <1>2 DEF ParserOK, ParserFields
<1> QED  BY <1>2, <1>3, <1>4, <1>5 DEF OpenBlock, q

LEMMA BlockClosed ==
  ASSUME NEW p, ParserOK(p)
  PROVE  ParserOK(CloseBlock(p))
<1> DEFINE q == [p EXCEPT !.stack = Front(@)]
           c == ParsedConnection(p.conn, p.children)
           ch == ParsedChild(p.child)
<1>1. /\ DOMAIN q = ParserFields
      /\ q.connections = p.connections /\ q.secrets = p.secrets
      /\ q.children = p.children /\ q.conn = p.conn
  BY DEF ParserOK, ParserFields
<1>2. ParserOK(q)
  BY <1>1 DEF ParserOK
<1>3. ConnOK(c)
  BY ConnectionRead DEF ParserOK
<1> HIDE DEF q, c, ch
<1>4. ParserOK([q EXCEPT !.in_connections = FALSE]) /\ ParserOK([q EXCEPT !.in_secrets = FALSE])
  BY <1>2 DEF ParserOK, ParserFields
<1>5. ParserOK([q EXCEPT !.connections = Append(@, c)])
  <2>1. ConnsOK(Append(q.connections, c))
    BY <1>2, <1>3, ConnsAppend DEF ParserOK
  <2> QED  BY <1>2, <2>1 DEF ParserOK, ParserFields
<1>6. ParserOK([q EXCEPT !.children = Append(@, ch)])
  <2>1. Row(Append(q.children, ch))
    BY <1>2, RowAppend DEF ParserOK
  <2> QED  BY <1>2, <2>1 DEF ParserOK, ParserFields
<1>7. ParserOK([q EXCEPT !.secrets = @ + 1])
  BY <1>2 DEF ParserOK, ParserFields
<1> QED  BY <1>2, <1>4, <1>5, <1>6, <1>7 DEF CloseBlock, q, c, ch

LEMMA KeyAssigned ==
  ASSUME NEW p, NEW key, NEW value, ParserOK(p), key = "proposals" => Row(value)
  PROVE  ParserOK(AssignKey(p, key, value))
<1> DEFINE dict == Updated(p.conn, Entry(key, value))
           chd == Updated(p.child, Entry(key, value))
<1>1. "proposals" \in DOMAIN dict => Row(dict["proposals"])
  BY DEF ParserOK, Updated, Entry
<1> HIDE DEF dict, chd
<1>2. ParserOK([p EXCEPT !.conn = dict]) /\ ParserOK([p EXCEPT !.child = chd])
  BY <1>1 DEF ParserOK, ParserFields
<1> QED  BY <1>2 DEF AssignKey, dict, chd

LEMMA LineRead ==
  ASSUME NEW p, NEW l, ParserOK(p), LineOK(l)
  PROVE  ParserOK(ReadLine(p, l))
BY BlockOpened, BlockClosed, KeyAssigned DEF ReadLine, LineOK

ReadFrom ==
  [stack |-> <<>>, in_connections |-> FALSE, in_secrets |-> FALSE,
   conn |-> <<>>, children |-> <<>>, child |-> <<>>, connections |-> <<>>, secrets |-> 0]

\* What the texts of the system are read as.
LEMMA TextRead ==
  ASSUME NEW text, TextOK(text)
  PROVE  LET ir == parse_text(text)
         IN  ConnsOK(ir.connections) /\ ir.secrets \in Nat
<1>1. PICK n \in Nat : text = [i \in 1..n |-> text[i]]
  BY DEF TextOK, Row
<1>2. DOMAIN text = 1..n
  BY <1>1
<1>3. PICK f : /\ f[0] = ReadFrom
               /\ \A k \in 1..n : f[k] = ReadLine(f[k-1], text[k])
               /\ Reading!Folded(ReadFrom, text) = f[n]
  <2>1. \E f : Reading!ByPrefix(f, ReadFrom, text, n) /\ Reading!Folded(ReadFrom, text) = f[n]
    BY <1>2, Reading!FoldLeftByPrefix
  <2> QED  BY <2>1 DEF Reading!ByPrefix
<1>4. FoldLeft(ReadLine, ReadFrom, text) = f[n]
  BY <1>3 DEF FoldLeft, MapThenFoldSet, Reading!FoldLeft, Reading!MapThenFoldSet, Max,
              Reading!Max, Reading!Folded
<1> DEFINE T == {k \in Nat : k <= n => ParserOK(f[k])}
<1>5. 0 \in T
  <2>1. ConnsOK(<<>>)
    BY EmptyRow DEF ConnsOK
  <2>2. ParserOK(ReadFrom)
    BY <2>1, EmptyRow DEF ParserOK, ParserFields, ReadFrom
  <2> QED  BY <1>3, <2>2
<1>6. ASSUME NEW k \in Nat, k \in T PROVE k + 1 \in T
  <2> SUFFICES ASSUME k + 1 <= n PROVE ParserOK(f[k + 1])
    OBVIOUS
  <2>1. k + 1 \in 1..n /\ (k + 1) - 1 = k /\ k <= n
    OBVIOUS
  <2>2. ParserOK(f[k]) /\ f[k + 1] = ReadLine(f[k], text[k + 1])
    BY <1>3, <1>6, <2>1
  <2>3. LineOK(text[k + 1])
    BY <1>2, <2>1 DEF TextOK
  <2> QED  BY <2>2, <2>3, LineRead
<1>7. n \in T
  BY <1>5, <1>6, Reading!Induction
<1>8. ParserOK(f[n])
  BY <1>7
<1> HIDE DEF T
<1>9. parse_text(text) = ConfigurationIR(f[n].connections, f[n].secrets, "SWANCTL")
  BY <1>4 DEF parse_text, ReadFrom
<1> QED  BY <1>8, <1>9 DEF ParserOK, ConfigurationIR

-----------------------------------------------------------------------------
(* Rendering.                                                              *)

Join(s, t) == s \o t

Joining == INSTANCE Folding WITH Step <- Join

LEMMA RowsJoin ==
  ASSUME NEW s, NEW t, Row(s), Row(t)
  PROVE  /\ Row(s \o t)
         /\ \A i \in DOMAIN (s \o t) :
               \/ i \in DOMAIN s /\ (s \o t)[i] = s[i]
               \/ \E j \in DOMAIN t : (s \o t)[i] = t[j]
<1>1. PICK m \in Nat : s = [i \in 1..m |-> s[i]]
  BY DEF Row
<1>2. PICK n \in Nat : t = [i \in 1..n |-> t[i]]
  BY DEF Row
<1> DEFINE S == {s[i] : i \in 1..m} \cup {t[i] : i \in 1..n}
           u == s \o t
<1>3. s \in Seq(S) /\ Len(s) = m /\ DOMAIN s = 1..m
  BY <1>1
<1>4. t \in Seq(S) /\ Len(t) = n /\ DOMAIN t = 1..n
  BY <1>2
<1> HIDE DEF S
<1>5. u \in Seq(S) /\ Len(u) = m + n
  BY <1>3, <1>4
<1>6. /\ \A i \in 1..m : u[i] = s[i]
      /\ \A i \in (m + 1)..(m + n) : u[i] = t[i - m]
  BY <1>3, <1>4
<1> HIDE DEF u
<1>7. u = [i \in 1..(m + n) |-> u[i]] /\ DOMAIN u = 1..(m + n)
  <2>1. u = [i \in 1..Len(u) |-> u[i]]
    BY <1>5
  <2> QED  BY <1>5, <2>1
<1>8. Row(u)
  BY <1>7 DEF Row
<1>9. ASSUME NEW i \in DOMAIN u
      PROVE  (i \in DOMAIN s /\ u[i] = s[i]) \/ \E j \in DOMAIN t : u[i] = t[j]
  <2>1. CASE i \in 1..m
    BY <1>3, <1>6, <2>1
  <2>2. CASE i \in (m + 1)..(m + n)
    <3>1. i - m \in 1..n
      BY <2>2
    <3> QED  BY <1>4, <1>6, <2>2, <3>1
  <2> QED  BY <1>7, <2>1, <2>2
<1> QED  BY <1>8, <1>9 DEF u

LEMMA TextsJoin ==
  ASSUME NEW s, NEW t, TextOK(s), TextOK(t)
  PROVE  TextOK(s \o t)
<1> DEFINE u == s \o t
<1>1. Row(u)
  BY RowsJoin DEF TextOK
<1>2. ASSUME NEW i \in DOMAIN u PROVE LineOK(u[i])
  <2>1. \/ i \in DOMAIN s /\ u[i] = s[i]
        \/ \E j \in DOMAIN t : u[i] = t[j]
    BY RowsJoin DEF TextOK
  <2> HIDE DEF u
  <2> QED  BY <2>1 DEF TextOK
<1> HIDE DEF u
<1>3. TextOK(u)
  BY <1>1, <1>2 DEF TextOK
<1> QED  BY <1>3 DEF u

LEMMA EmptyText == TextOK(<<>>)
BY EmptyRow DEF TextOK

LEMMA JoinFromEmpty ==
  ASSUME NEW t, Row(t)
  PROVE  <<>> \o t = t
<1>1. PICK n \in Nat : t = [i \in 1..n |-> t[i]]
  BY DEF Row
<1>2. t \in Seq({t[i] : i \in 1..n})
  BY <1>1
<1> QED  BY <1>2

LEMMA TextsFlatten ==
  ASSUME NEW seqs, Row(seqs), \A i \in DOMAIN seqs : TextOK(seqs[i])
  PROVE  TextOK(FlattenSeq(seqs))
<1>1. PICK n \in Nat : seqs = [i \in 1..n |-> seqs[i]]
  BY DEF Row
<1>2. DOMAIN seqs = 1..n /\ Len(seqs) = n
  BY <1>1
<1>3. CASE n = 0
  <2>1. seqs = <<>>
    BY <1>1, <1>3
  <2>2. FlattenSeq(seqs) = seqs
    BY <1>2, <1>3 DEF FlattenSeq
  <2> QED  BY <2>1, <2>2, EmptyText
<1>4. CASE n # 0
  <2>1. PICK f : /\ f[0] = <<>>
                 /\ \A k \in 1..n : f[k] = f[k-1] \o seqs[k]
    <3> DEFINE base == <<>>
    <3> HIDE DEF base
    <3>1. \E f : Joining!ByPrefix(f, base, seqs, n) /\ Joining!Folded(base, seqs) = f[n]
      BY <1>2, Joining!FoldLeftByPrefix
    <3> QED  BY <3>1 DEF Joining!ByPrefix, Join, base
  <2> DEFINE T == {k \in Nat : k <= n => TextOK(f[k])}
  <2>2. 0 \in T
    BY <2>1, EmptyText
  <2>3. ASSUME NEW k \in Nat, k \in T PROVE k + 1 \in T
    <3> SUFFICES ASSUME k + 1 <= n PROVE TextOK(f[k + 1])
      OBVIOUS
    <3>1. k + 1 \in 1..n /\ (k + 1) - 1 = k /\ k <= n
      OBVIOUS
    <3>2. TextOK(f[k]) /\ f[k + 1] = f[k] \o seqs[k + 1] /\ TextOK(seqs[k + 1])
      BY <1>2, <2>1, <2>3, <3>1
    <3> QED  BY <3>2, TextsJoin
  <2>4. Nat \subseteq T
    BY <2>2, <2>3, Joining!Induction
  <2>5. \A k \in 0..n : TextOK(f[k])
    BY <2>4
  <2> HIDE DEF T
  <2> DEFINE E(g) == g = [i \in 1..n |-> IF i = 1 THEN seqs[i] ELSE g[i-1] \o seqs[i]]
             h == [i \in 1..n |-> f[i]]
  <2>6. ASSUME NEW i \in 1..n
        PROVE  f[i] = IF i = 1 THEN seqs[i] ELSE h[i-1] \o seqs[i]
    <3>1. CASE i = 1
      <4>1. f[1] = f[0] \o seqs[1]
        <5>1. 1 - 1 = 0 /\ 1 \in 1..n
          BY <3>1
        <5> QED  BY <2>1, <5>1
      <4>2. Row(seqs[1])
        BY <1>2, <3>1 DEF TextOK
      <4> QED  BY <2>1, <3>1, <4>1, <4>2, JoinFromEmpty
    <3>2. CASE i # 1
      <4>1. i - 1 \in 1..n
        BY <3>2
      <4> QED  BY <2>1, <3>2, <4>1
    <3> QED  BY <3>1, <3>2
  <2>7. E(h)
    BY <2>6
  <2> DEFINE g == CHOOSE g : E(g)
  <2>8. E(g)
    BY <2>7
  <2>9. FlattenSeq(seqs) = g[n]
    BY <1>2, <1>4 DEF FlattenSeq
  <2> HIDE DEF g, h
  <2> DEFINE U == {k \in Nat : k + 1 <= n => g[k + 1] = f[k + 1]}
  <2>10. 0 \in U
    <3>1. 0 + 1 <= n => g[1] = seqs[1]
      BY <2>8
    <3>2. 0 + 1 <= n => f[1] = seqs[1]
      BY <2>6
    <3> QED  BY <3>1, <3>2
  <2>11. ASSUME NEW k \in Nat, k \in U PROVE k + 1 \in U
    <3> SUFFICES ASSUME (k + 1) + 1 <= n PROVE g[(k + 1) + 1] = f[(k + 1) + 1]
      OBVIOUS
    <3> DEFINE i == (k + 1) + 1
    <3>1. i \in 1..n /\ i # 1 /\ i - 1 = k + 1 /\ k + 1 <= n
      OBVIOUS
    <3>2. g[k + 1] = f[k + 1]
      BY <2>11, <3>1
    <3>3. g[i] = g[i-1] \o seqs[i]
      BY <2>8, <3>1
    <3>4. f[i] = f[i-1] \o seqs[i]
      BY <2>1, <3>1
    <3> QED  BY <3>1, <3>2, <3>3, <3>4
  <2>12. n - 1 \in U
    <3>1. Nat \subseteq U
      BY <2>10, <2>11, Joining!Induction
    <3> HIDE DEF U
    <3> QED  BY <1>4, <3>1
  <2>13. (n - 1) + 1 = n /\ n - 1 \in Nat
    BY <1>4
  <2>14. g[n] = f[n]
    BY <2>12, <2>13
  <2> QED  BY <2>5, <2>9, <2>14
<1> QED  BY <1>3, <1>4

LEMMA Lines ==
  /\ LineOK(Close) /\ \A x : LineOK(Open(x)) /\ LineOK(Comment(x))
  /\ \A key, x : (key # "proposals" \/ Row(x)) => LineOK(Assign(key, x))
BY DEF LineOK, Close, Open, Comment, Assign

LEMMA Written ==
  ASSUME NEW t, NEW n \in Nat, t = [i \in 1..n |-> t[i]], \A i \in 1..n : LineOK(t[i])
  PROVE  TextOK(t)
BY DEF TextOK, Row

LEMMA OneLine == ASSUME NEW l, LineOK(l) PROVE TextOK(<<l>>)
<1> DEFINE t == <<l>>
<1>1. t = [i \in 1..1 |-> t[i]] /\ \A i \in 1..1 : t[i] = l
  OBVIOUS
<1> HIDE DEF t
<1>2. TextOK(t)
  BY <1>1, Written
<1> QED  BY <1>2 DEF t

LEMMA TwoLines == ASSUME NEW l, NEW m, LineOK(l), LineOK(m) PROVE TextOK(<<l, m>>)
<1> DEFINE t == <<l, m>>
<1>1. t = [i \in 1..2 |-> t[i]] /\ t[1] = l /\ t[2] = m /\ 1..2 = {1, 2}
  OBVIOUS
<1> HIDE DEF t
<1>2. TextOK(t)
  BY <1>1, Written
<1> QED  BY <1>2 DEF t

LEMMA ChildRendered ==
  ASSUME NEW ch
  PROVE  TextOK(RenderChild(ch))
<1>1. TextOK(<<Open("child"), Assign("mode", ch.mode)>>)
  BY Lines, TwoLines
<1>2. TextOK(<<Assign("esp_proposals", Strings(ch.esp_proposals, FALSE))>>)
  BY Lines, OneLine
<1>3. TextOK(<<Assign("replay_window", ch.replay_window), Close>>)
  BY Lines, TwoLines
<1> QED  BY <1>1, <1>2, <1>3, TextsJoin, EmptyText DEF RenderChild

\* What is rendered has rows of connections, children and proposals.
ShapedConn(c) == Row(c.children) /\ Row(c.ike_proposals)
Shaped(ir) ==
  /\ Row(ir.connections) /\ ir.secrets \in Nat
  /\ \A i \in DOMAIN ir.connections : ShapedConn(ir.connections[i])

LEMMA ConnectionRendered ==
  ASSUME NEW c, ShapedConn(c)
  PROVE  TextOK(_render_connection(c))
<1> DEFINE children == [i \in DOMAIN c.children |-> RenderChild(c.children[i])]
           middle == <<Assign("encap", c.encap), Open("local"), Close, Open("remote"), Close,
                       Open("children")>>
<1>1. TextOK(<<Open("conn"), Assign("version", c.ike_version)>>)
  BY Lines, TwoLines
<1>2. TextOK(<<Assign("proposals", Strings(c.ike_proposals, TRUE))>>)
  <2> DEFINE f == Strings(c.ike_proposals, TRUE)
  <2>1. f = [i \in DOMAIN c.ike_proposals |-> f[i]]
    BY DEF Strings
  <2> HIDE DEF f
  <2>2. Row(f)
    BY <2>1, RowsMap DEF ShapedConn
  <2> QED  BY <2>2, Lines, OneLine DEF f
<1>3. TextOK(middle)
  <2>1. middle = [i \in 1..6 |-> middle[i]] /\ 1..6 = {1, 2, 3, 4, 5, 6}
    OBVIOUS
  <2>2. /\ middle[1] = Assign("encap", c.encap) /\ middle[2] = Open("local")
        /\ middle[3] = Close /\ middle[4] = Open("remote") /\ middle[5] = Close
        /\ middle[6] = Open("children")
    OBVIOUS
  <2> HIDE DEF middle
  <2>3. \A i \in 1..6 : LineOK(middle[i])
    BY <2>1, <2>2, Lines
  <2> QED  BY <2>1, <2>3, Written
<1>4. TextOK(FlattenSeq(children))
  <2>1. Row(children)
    <3>1. children = [i \in DOMAIN c.children |-> children[i]]
      OBVIOUS
    <3> HIDE DEF children
    <3> QED  BY <3>1, RowsMap DEF ShapedConn
  <2>2. \A i \in DOMAIN children : TextOK(children[i])
    BY ChildRendered
  <2> HIDE DEF children
  <2> QED  BY <2>1, <2>2, TextsFlatten
<1>5. TextOK(<<Close, Close>>)
  BY Lines, TwoLines
<1> HIDE DEF children, middle
<1>6. TextOK(IF c.ike_proposals = <<>> THEN <<>>
             ELSE <<Assign("proposals", Strings(c.ike_proposals, TRUE))>>)
  BY <1>2, EmptyText
<1> QED  BY <1>1, <1>3, <1>4, <1>5, <1>6, TextsJoin DEF _render_connection, children, middle

LEMMA Rendered ==
  ASSUME NEW ir, Shaped(ir)
  PROVE  TextOK(render(ir))
<1> DEFINE conns == [i \in DOMAIN ir.connections |-> _render_connection(ir.connections[i])]
           secrets == [i \in 1..ir.secrets |-> <<Open("psk"), Close>>]
<1>1. TextOK(<<Comment(ir.raw_syntax_format), Open("connections")>>)
  BY Lines, TwoLines
<1>2. TextOK(FlattenSeq(conns))
  <2>1. Row(conns)
    <3>1. conns = [i \in DOMAIN ir.connections |-> conns[i]]
      OBVIOUS
    <3> HIDE DEF conns
    <3> QED  BY <3>1, RowsMap DEF Shaped
  <2>2. \A i \in DOMAIN conns : TextOK(conns[i])
    BY ConnectionRendered DEF Shaped
  <2> HIDE DEF conns
  <2> QED  BY <2>1, <2>2, TextsFlatten
<1>3. TextOK(<<Close, Open("secrets")>>)
  BY Lines, TwoLines
<1>4. TextOK(FlattenSeq(secrets))
  <2>1. Row(secrets)
    BY DEF Row, Shaped
  <2>2. TextOK(<<Open("psk"), Close>>)
    BY Lines, TwoLines
  <2>3. \A i \in DOMAIN secrets : TextOK(secrets[i])
    BY <2>2
  <2> HIDE DEF secrets
  <2> QED  BY <2>1, <2>3, TextsFlatten
<1>5. TextOK(<<Close>>)
  BY Lines, OneLine
<1> HIDE DEF conns, secrets
<1> QED  BY <1>1, <1>2, <1>3, <1>4, <1>5, TextsJoin DEF render, conns, secrets

-----------------------------------------------------------------------------
(* The templates.                                                          *)

Single(s) == s = <<s[1]>>

\* What to_configuration_ir makes, and every template keeps: one of each.
One(ir) ==
  LET c == ir.connections[1] IN
  /\ Single(ir.connections) /\ Single(c.ike_proposals) /\ Single(c.children)
  /\ Single(c.children[1].esp_proposals)
  /\ ir.secrets \in Nat

Ike(ir) == ir.connections[1].ike_proposals[1]
Kid(ir) == ir.connections[1].children[1]
Esp(ir) == Kid(ir).esp_proposals[1]
Version(ir) == ir.connections[1].ike_version

LEMMA SingleMap ==
  ASSUME NEW s, Single(s), NEW f, f = [i \in DOMAIN s |-> f[i]]
  PROVE  Single(f) /\ f # <<>>
<1>1. DOMAIN s = {1}
  BY DEF Single
<1>2. f = [i \in {1} |-> f[i]]
  BY <1>1
<1>3. <<f[1]>> = [i \in {1} |-> f[1]]
  OBVIOUS
<1> QED  BY <1>2, <1>3 DEF Single

\* A template makes one connection of one, from new proposals and children.
LEMMA ConnectionMade ==
  ASSUME NEW new, NEW version, NEW ike, NEW encap, NEW children,
         Single(new.connections), new.secrets \in Nat,
         new.connections[1] = ConnectionConfigurationIR(version, ike, encap, children),
         Single(ike), Single(children), Single(children[1].esp_proposals)
  PROVE  /\ One(new) /\ Version(new) = version
         /\ Ike(new) = ike[1] /\ Kid(new) = children[1]
<1>1. /\ new.connections[1].ike_proposals = ike /\ new.connections[1].children = children
      /\ new.connections[1].ike_version = version
  BY DEF ConnectionConfigurationIR
<1> QED  BY <1>1 DEF One, Version, Ike, Kid

LEMMA OneHasFirst ==
  ASSUME NEW ir, One(ir)
  PROVE  LET c == ir.connections[1] IN
         /\ DOMAIN ir.connections = {1} /\ DOMAIN c.ike_proposals = {1}
         /\ DOMAIN c.children = {1} /\ DOMAIN c.children[1].esp_proposals = {1}
BY DEF One, Single

LEMMA KeysLengthened ==
  ASSUME NEW ir, One(ir)
  PROVE  LET new == _transform_keylen(ir) IN
         /\ One(new)
         /\ Version(new) = Version(ir) /\ Kid(new) = Kid(ir)
         /\ Ike(new) = TransformIR(AES256GCM16, 256, Ike(ir).integrity, Or(Ike(ir).prf, PRFSHA256),
                     Or(Ike(ir).dh_group, 19))
<1> DEFINE new == _transform_keylen(ir)
           c == ir.connections[1]
           ike == [j \in DOMAIN c.ike_proposals |-> TransformIR(AES256GCM16, 256, c.ike_proposals[j].integrity, Or(c.ike_proposals[j].prf, PRFSHA256),
                     Or(c.ike_proposals[j].dh_group, 19))]
<1>1. Single(new.connections) /\ new.secrets \in Nat
  <2>1. /\ new.connections = [i \in DOMAIN ir.connections |-> new.connections[i]]
        /\ new.secrets = ir.secrets
    BY DEF _transform_keylen, EachConnection, Each, ConfigurationIR
  <2> HIDE DEF new
  <2> QED  BY <2>1, SingleMap DEF One
<1>2. new.connections[1] = ConnectionConfigurationIR(c.ike_version, ike, c.encap, c.children)
  BY OneHasFirst DEF _transform_keylen, EachConnection, Each, ConfigurationIR, WithIke
<1>3. ike[1] = TransformIR(AES256GCM16, 256, Ike(ir).integrity, Or(Ike(ir).prf, PRFSHA256),
                     Or(Ike(ir).dh_group, 19))
  BY OneHasFirst DEF Ike
<1>4. ike = [j \in DOMAIN c.ike_proposals |-> ike[j]]
  OBVIOUS
<1> HIDE DEF new, ike
<1>5. Single(ike) /\ Single(c.children) /\ Single(c.children[1].esp_proposals)
  BY <1>4, SingleMap DEF One
<1>6. /\ One(new) /\ Version(new) = c.ike_version
      /\ Ike(new) = ike[1] /\ Kid(new) = c.children[1]
  BY <1>1, <1>2, <1>5, ConnectionMade
<1> QED  BY <1>3, <1>6 DEF new, Version, Kid

LEMMA IntegrityReplaced ==
  ASSUME NEW ir, One(ir)
  PROVE  LET new == _transform_integ(ir) IN
         /\ One(new)
         /\ Version(new) = Version(ir) /\ Kid(new) = Kid(ir)
         /\ Ike(new) = TransformIR(AES256, 256, SHA256, PRFSHA256, Or(Ike(ir).dh_group, 19))
<1> DEFINE new == _transform_integ(ir)
           c == ir.connections[1]
           ike == [j \in DOMAIN c.ike_proposals |-> TransformIR(AES256, 256, SHA256, PRFSHA256, Or(c.ike_proposals[j].dh_group, 19))]
<1>1. Single(new.connections) /\ new.secrets \in Nat
  <2>1. /\ new.connections = [i \in DOMAIN ir.connections |-> new.connections[i]]
        /\ new.secrets = ir.secrets
    BY DEF _transform_integ, EachConnection, Each, ConfigurationIR
  <2> HIDE DEF new
  <2> QED  BY <2>1, SingleMap DEF One
<1>2. new.connections[1] = ConnectionConfigurationIR(c.ike_version, ike, c.encap, c.children)
  BY OneHasFirst DEF _transform_integ, EachConnection, Each, ConfigurationIR, WithIke
<1>3. ike[1] = TransformIR(AES256, 256, SHA256, PRFSHA256, Or(Ike(ir).dh_group, 19))
  BY OneHasFirst DEF Ike
<1>4. ike = [j \in DOMAIN c.ike_proposals |-> ike[j]]
  OBVIOUS
<1> HIDE DEF new, ike
<1>5. Single(ike) /\ Single(c.children) /\ Single(c.children[1].esp_proposals)
  BY <1>4, SingleMap DEF One
<1>6. /\ One(new) /\ Version(new) = c.ike_version
      /\ Ike(new) = ike[1] /\ Kid(new) = c.children[1]
  BY <1>1, <1>2, <1>5, ConnectionMade
<1> QED  BY <1>3, <1>6 DEF new, Version, Kid

LEMMA GroupReplaced ==
  ASSUME NEW ir, One(ir)
  PROVE  LET new == _transform_dh(ir) IN
         /\ One(new)
         /\ Version(new) = Version(ir) /\ Kid(new) = Kid(ir)
         /\ Ike(new) = TransformIR(Ike(ir).encryption, Or(Ike(ir).key_length, 256), Ike(ir).integrity,
                     Or(Ike(ir).prf, PRFSHA256), 19)
<1> DEFINE new == _transform_dh(ir)
           c == ir.connections[1]
           ike == [j \in DOMAIN c.ike_proposals |-> TransformIR(c.ike_proposals[j].encryption, Or(c.ike_proposals[j].key_length, 256), c.ike_proposals[j].integrity,
                     Or(c.ike_proposals[j].prf, PRFSHA256), 19)]
<1>1. Single(new.connections) /\ new.secrets \in Nat
  <2>1. /\ new.connections = [i \in DOMAIN ir.connections |-> new.connections[i]]
        /\ new.secrets = ir.secrets
    BY DEF _transform_dh, EachConnection, Each, ConfigurationIR
  <2> HIDE DEF new
  <2> QED  BY <2>1, SingleMap DEF One
<1>2. new.connections[1] = ConnectionConfigurationIR(c.ike_version, ike, c.encap, c.children)
  BY OneHasFirst DEF _transform_dh, EachConnection, Each, ConfigurationIR, WithIke
<1>3. ike[1] = TransformIR(Ike(ir).encryption, Or(Ike(ir).key_length, 256), Ike(ir).integrity,
                     Or(Ike(ir).prf, PRFSHA256), 19)
  BY OneHasFirst DEF Ike
<1>4. ike = [j \in DOMAIN c.ike_proposals |-> ike[j]]
  OBVIOUS
<1> HIDE DEF new, ike
<1>5. Single(ike) /\ Single(c.children) /\ Single(c.children[1].esp_proposals)
  BY <1>4, SingleMap DEF One
<1>6. /\ One(new) /\ Version(new) = c.ike_version
      /\ Ike(new) = ike[1] /\ Kid(new) = c.children[1]
  BY <1>1, <1>2, <1>5, ConnectionMade
<1> QED  BY <1>3, <1>6 DEF new, Version, Kid

LEMMA DesReplaced ==
  ASSUME NEW ir, One(ir)
  PROVE  LET new == _transform_des(ir) IN
         /\ One(new) /\ Version(new) = Version(ir)
         /\ Ike(new) = IF Has(Ike(ir).encryption, {"des"})
                       THEN GcmIke(Or(Ike(ir).dh_group, 19)) ELSE Ike(ir)
         /\ Kid(new).pfs_dh_group = Or(Kid(ir).pfs_dh_group, 19)
         /\ \E g : Esp(new) = IF Has(Esp(ir).encryption, {"des"}) THEN GcmEsp(g) ELSE Esp(ir)
<1> DEFINE new == _transform_des(ir)
           c == ir.connections[1]
           ch == c.children[1]
           esp == [k \in DOMAIN ch.esp_proposals |-> IF Has(ch.esp_proposals[k].encryption, {"des"})
                          THEN GcmEsp(Or(Or(ch.esp_proposals[k].dh_group, ch.pfs_dh_group), 19)) ELSE ch.esp_proposals[k]]
           raw == [j \in DOMAIN c.ike_proposals |-> IF Has(c.ike_proposals[j].encryption, {"des"}) THEN GcmIke(Or(c.ike_proposals[j].dh_group, 19)) ELSE c.ike_proposals[j]]
           ike == OrElse(raw, GcmIke(19))
           Made(h) ==
             ChildSAConfigurationIR(h.mode, OrElse([k \in DOMAIN h.esp_proposals |->
                          IF Has(h.esp_proposals[k].encryption, {"des"})
                          THEN GcmEsp(Or(Or(h.esp_proposals[k].dh_group, h.pfs_dh_group), 19)) ELSE h.esp_proposals[k]], GcmEsp(19)),
                      Or(h.pfs_dh_group, 19), h.replay_window)
           children == [j \in DOMAIN c.children |-> Made(c.children[j])]
<1>1. Single(new.connections) /\ new.secrets \in Nat
  <2>1. /\ new.connections = [i \in DOMAIN ir.connections |-> new.connections[i]]
        /\ new.secrets = ir.secrets
    BY DEF _transform_des, EachConnection, Each, ConfigurationIR
  <2> HIDE DEF new
  <2> QED  BY <2>1, SingleMap DEF One
<1>2. new.connections[1] = ConnectionConfigurationIR(c.ike_version, ike, c.encap, children)
  BY OneHasFirst DEF _transform_des, EachConnection, Each, ConfigurationIR, WithChildren
<1>3. children[1] = Made(ch) /\ children = [j \in DOMAIN c.children |-> children[j]]
  BY OneHasFirst
<1>4. Single(esp) /\ esp # <<>> /\ esp[1] = IF Has(ch.esp_proposals[1].encryption, {"des"})
                          THEN GcmEsp(Or(Or(ch.esp_proposals[1].dh_group, ch.pfs_dh_group), 19)) ELSE ch.esp_proposals[1]
  <2>1. esp = [k \in DOMAIN ch.esp_proposals |-> esp[k]]
    OBVIOUS
  <2>2. esp[1] = IF Has(ch.esp_proposals[1].encryption, {"des"})
                          THEN GcmEsp(Or(Or(ch.esp_proposals[1].dh_group, ch.pfs_dh_group), 19)) ELSE ch.esp_proposals[1]
    BY OneHasFirst
  <2> HIDE DEF esp
  <2> QED  BY <2>1, <2>2, SingleMap DEF One
<1>5. Made(ch) = ChildSAConfigurationIR(ch.mode, esp, Or(ch.pfs_dh_group, 19), ch.replay_window)
  BY <1>4 DEF OrElse
<1>6. Single(ike) /\ ike[1] = IF Has(c.ike_proposals[1].encryption, {"des"}) THEN GcmIke(Or(c.ike_proposals[1].dh_group, 19)) ELSE c.ike_proposals[1]
  <2>1. raw = [j \in DOMAIN c.ike_proposals |-> raw[j]]
    OBVIOUS
  <2>2. raw[1] = IF Has(c.ike_proposals[1].encryption, {"des"}) THEN GcmIke(Or(c.ike_proposals[1].dh_group, 19)) ELSE c.ike_proposals[1]
    BY OneHasFirst
  <2> HIDE DEF raw
  <2>3. Single(raw) /\ raw # <<>>
    BY <2>1, SingleMap DEF One
  <2> QED  BY <2>2, <2>3 DEF OrElse
<1> HIDE DEF new, children, esp, Made, ike, raw
<1>7. Single(children)
  BY <1>3, SingleMap DEF One
<1>8. /\ children[1].esp_proposals = esp /\ children[1].pfs_dh_group = Or(ch.pfs_dh_group, 19)
  BY <1>3, <1>5 DEF ChildSAConfigurationIR
<1>9. Single(children[1].esp_proposals)
  BY <1>4, <1>8
<1> HIDE DEF c, ch
<1>10. /\ One(new) /\ Version(new) = c.ike_version
       /\ Ike(new) = ike[1] /\ Kid(new) = children[1]
  BY <1>1, <1>2, <1>6, <1>7, <1>9, ConnectionMade
<1> QED  BY <1>4, <1>6, <1>8, <1>10 DEF new, c, ch, Version, Ike, Kid, Esp

LEMMA PfsAdded ==
  ASSUME NEW ir, One(ir)
  PROVE  LET new == _transform_pfs(ir) IN
         /\ One(new) /\ Version(new) = Version(ir)
         /\ Ike(new) = Ike(ir)
         /\ Kid(new).pfs_dh_group = 19
         /\ Esp(new).encryption = Esp(ir).encryption
<1> DEFINE new == _transform_pfs(ir)
           c == ir.connections[1]
           ch == c.children[1]
           esp == [k \in DOMAIN ch.esp_proposals |-> TransformIR(ch.esp_proposals[k].encryption, ch.esp_proposals[k].key_length,
                                      ch.esp_proposals[k].integrity, None, 19)]
           Made(h) ==
             ChildSAConfigurationIR(h.mode, OrElse([k \in DOMAIN h.esp_proposals |->
                          TransformIR(h.esp_proposals[k].encryption, h.esp_proposals[k].key_length,
                                      h.esp_proposals[k].integrity, None, 19)], TransformIR(AES256GCM16, None, None, None, 19)),
                      19, h.replay_window)
           children == [j \in DOMAIN c.children |-> Made(c.children[j])]
<1>1. Single(new.connections) /\ new.secrets \in Nat
  <2>1. /\ new.connections = [i \in DOMAIN ir.connections |-> new.connections[i]]
        /\ new.secrets = ir.secrets
    BY DEF _transform_pfs, EachConnection, Each, ConfigurationIR
  <2> HIDE DEF new
  <2> QED  BY <2>1, SingleMap DEF One
<1>2. new.connections[1] = ConnectionConfigurationIR(c.ike_version, c.ike_proposals, c.encap, children)
  BY OneHasFirst DEF _transform_pfs, EachConnection, Each, ConfigurationIR, WithChildren
<1>3. children[1] = Made(ch) /\ children = [j \in DOMAIN c.children |-> children[j]]
  BY OneHasFirst
<1>4. Single(esp) /\ esp # <<>> /\ esp[1] = TransformIR(ch.esp_proposals[1].encryption, ch.esp_proposals[1].key_length,
                                      ch.esp_proposals[1].integrity, None, 19)
  <2>1. esp = [k \in DOMAIN ch.esp_proposals |-> esp[k]]
    OBVIOUS
  <2>2. esp[1] = TransformIR(ch.esp_proposals[1].encryption, ch.esp_proposals[1].key_length,
                                      ch.esp_proposals[1].integrity, None, 19)
    BY OneHasFirst
  <2> HIDE DEF esp
  <2> QED  BY <2>1, <2>2, SingleMap DEF One
<1>5. Made(ch) = ChildSAConfigurationIR(ch.mode, esp, 19, ch.replay_window)
  BY <1>4 DEF OrElse
<1>6. Single(c.ike_proposals)
  BY DEF One
<1> HIDE DEF new, children, esp, Made
<1>7. Single(children)
  BY <1>3, SingleMap DEF One
<1>8. /\ children[1].esp_proposals = esp /\ children[1].pfs_dh_group = 19
  BY <1>3, <1>5 DEF ChildSAConfigurationIR
<1>9. Single(children[1].esp_proposals)
  BY <1>4, <1>8
<1> HIDE DEF c, ch
<1>10. /\ One(new) /\ Version(new) = c.ike_version
       /\ Ike(new) = c.ike_proposals[1] /\ Kid(new) = children[1]
  BY <1>1, <1>2, <1>6, <1>7, <1>9, ConnectionMade
<1>11. /\ new = _transform_pfs(ir)
       /\ Version(ir) = c.ike_version /\ Ike(ir) = c.ike_proposals[1]
       /\ Esp(ir).encryption = ch.esp_proposals[1].encryption
  BY DEF new, c, ch, Version, Ike, Kid, Esp
<1>12. /\ Kid(new).pfs_dh_group = 19
       /\ Esp(new) = esp[1]
  BY <1>8, <1>10 DEF Esp
<1>13. esp[1].encryption = ch.esp_proposals[1].encryption
  BY <1>4 DEF TransformIR
<1> QED  BY <1>6, <1>10, <1>11, <1>12, <1>13

LEMMA NullReplaced ==
  ASSUME NEW ir, One(ir)
  PROVE  LET new == _transform_null(ir) IN
         /\ One(new) /\ Version(new) = Version(ir)
         /\ Ike(new) = Ike(ir)
         /\ Kid(new).pfs_dh_group = Or(Kid(ir).pfs_dh_group, 19)
         /\ \E g : Esp(new) = IF Has(Esp(ir).encryption, {"null"}) THEN GcmEsp(g) ELSE Esp(ir)
<1> DEFINE new == _transform_null(ir)
           c == ir.connections[1]
           ch == c.children[1]
           esp == [k \in DOMAIN ch.esp_proposals |-> IF Has(ch.esp_proposals[k].encryption, {"null"}) THEN GcmEsp(Or(ch.esp_proposals[k].dh_group, 19)) ELSE ch.esp_proposals[k]]
           Made(h) ==
             ChildSAConfigurationIR(h.mode, OrElse([k \in DOMAIN h.esp_proposals |->
                          IF Has(h.esp_proposals[k].encryption, {"null"}) THEN GcmEsp(Or(h.esp_proposals[k].dh_group, 19)) ELSE h.esp_proposals[k]], GcmEsp(19)),
                      Or(h.pfs_dh_group, 19), h.replay_window)
           children == [j \in DOMAIN c.children |-> Made(c.children[j])]
<1>1. Single(new.connections) /\ new.secrets \in Nat
  <2>1. /\ new.connections = [i \in DOMAIN ir.connections |-> new.connections[i]]
        /\ new.secrets = ir.secrets
    BY DEF _transform_null, EachConnection, Each, ConfigurationIR
  <2> HIDE DEF new
  <2> QED  BY <2>1, SingleMap DEF One
<1>2. new.connections[1] = ConnectionConfigurationIR(c.ike_version, c.ike_proposals, c.encap, children)
  BY OneHasFirst DEF _transform_null, EachConnection, Each, ConfigurationIR, WithChildren
<1>3. children[1] = Made(ch) /\ children = [j \in DOMAIN c.children |-> children[j]]
  BY OneHasFirst
<1>4. Single(esp) /\ esp # <<>> /\ esp[1] = IF Has(ch.esp_proposals[1].encryption, {"null"}) THEN GcmEsp(Or(ch.esp_proposals[1].dh_group, 19)) ELSE ch.esp_proposals[1]
  <2>1. esp = [k \in DOMAIN ch.esp_proposals |-> esp[k]]
    OBVIOUS
  <2>2. esp[1] = IF Has(ch.esp_proposals[1].encryption, {"null"}) THEN GcmEsp(Or(ch.esp_proposals[1].dh_group, 19)) ELSE ch.esp_proposals[1]
    BY OneHasFirst
  <2> HIDE DEF esp
  <2> QED  BY <2>1, <2>2, SingleMap DEF One
<1>5. Made(ch) = ChildSAConfigurationIR(ch.mode, esp, Or(ch.pfs_dh_group, 19), ch.replay_window)
  BY <1>4 DEF OrElse
<1>6. Single(c.ike_proposals)
  BY DEF One
<1> HIDE DEF new, children, esp, Made
<1>7. Single(children)
  BY <1>3, SingleMap DEF One
<1>8. /\ children[1].esp_proposals = esp /\ children[1].pfs_dh_group = Or(ch.pfs_dh_group, 19)
  BY <1>3, <1>5 DEF ChildSAConfigurationIR
<1>9. Single(children[1].esp_proposals)
  BY <1>4, <1>8
<1> HIDE DEF c, ch
<1>10. /\ One(new) /\ Version(new) = c.ike_version
       /\ Ike(new) = c.ike_proposals[1] /\ Kid(new) = children[1]
  BY <1>1, <1>2, <1>6, <1>7, <1>9, ConnectionMade
<1> QED  BY <1>4, <1>6, <1>8, <1>10 DEF new, c, ch, Version, Ike, Kid, Esp

LEMMA WindowOpened ==
  ASSUME NEW ir, One(ir)
  PROVE  LET new == _transform_replay(ir) IN
         /\ One(new) /\ Version(new) = Version(ir)
         /\ Ike(new) = Ike(ir)
         /\ Kid(new).pfs_dh_group = Kid(ir).pfs_dh_group
         /\ Esp(new) = Esp(ir)
<1> DEFINE new == _transform_replay(ir)
           c == ir.connections[1]
           ch == c.children[1]
           esp == ch.esp_proposals
           Made(h) ==
             ChildSAConfigurationIR(h.mode, h.esp_proposals,
                      h.pfs_dh_group, 64)
           children == [j \in DOMAIN c.children |-> Made(c.children[j])]
<1>1. Single(new.connections) /\ new.secrets \in Nat
  <2>1. /\ new.connections = [i \in DOMAIN ir.connections |-> new.connections[i]]
        /\ new.secrets = ir.secrets
    BY DEF _transform_replay, EachConnection, Each, ConfigurationIR
  <2> HIDE DEF new
  <2> QED  BY <2>1, SingleMap DEF One
<1>2. new.connections[1] = ConnectionConfigurationIR(c.ike_version, c.ike_proposals, c.encap, children)
  BY OneHasFirst DEF _transform_replay, EachConnection, Each, ConfigurationIR, WithChildren
<1>3. children[1] = Made(ch) /\ children = [j \in DOMAIN c.children |-> children[j]]
  BY OneHasFirst
<1>4. Single(esp)
  BY DEF One
<1>5. Made(ch) = ChildSAConfigurationIR(ch.mode, esp, ch.pfs_dh_group, 64)
  OBVIOUS
<1>6. Single(c.ike_proposals)
  BY DEF One
<1> HIDE DEF new, children, esp, Made
<1>7. Single(children)
  BY <1>3, SingleMap DEF One
<1>8. /\ children[1].esp_proposals = esp /\ children[1].pfs_dh_group = ch.pfs_dh_group
  BY <1>3, <1>5 DEF ChildSAConfigurationIR
<1>9. Single(children[1].esp_proposals)
  BY <1>4, <1>8
<1> HIDE DEF c, ch
<1>10. /\ One(new) /\ Version(new) = c.ike_version
       /\ Ike(new) = c.ike_proposals[1] /\ Kid(new) = children[1]
  BY <1>1, <1>2, <1>6, <1>7, <1>9, ConnectionMade
<1> QED  BY <1>4, <1>6, <1>8, <1>10 DEF new, c, ch, Version, Ike, Kid, Esp, esp

LEMMA VersionRaised ==
  ASSUME NEW ir, One(ir)
  PROVE  LET new == _transform_ikev2(ir) IN
         /\ One(new)
         /\ Version(new) = 2 /\ Ike(new) = Ike(ir) /\ Kid(new) = Kid(ir)
<1> DEFINE new == _transform_ikev2(ir)
           c == ir.connections[1]
           v == 2
<1>1. Single(new.connections) /\ new.secrets \in Nat
  <2>1. /\ new.connections = [i \in DOMAIN ir.connections |-> new.connections[i]]
        /\ new.secrets = ir.secrets
    BY DEF _transform_ikev2, EachConnection, Each, ConfigurationIR
  <2> HIDE DEF new
  <2> QED  BY <2>1, SingleMap DEF One
<1>2. new.connections[1] = ConnectionConfigurationIR(v, c.ike_proposals, c.encap, c.children)
  BY OneHasFirst DEF _transform_ikev2, EachConnection, Each, ConfigurationIR
<1> HIDE DEF new
<1>3. Single(c.ike_proposals) /\ Single(c.children) /\ Single(c.children[1].esp_proposals)
  BY DEF One
<1> HIDE DEF c, v
<1>4. /\ One(new) /\ Version(new) = v
      /\ Ike(new) = c.ike_proposals[1] /\ Kid(new) = c.children[1]
  BY <1>1, <1>2, <1>3, ConnectionMade
<1> QED  BY <1>4 DEF new, c, v, Ike, Kid

\* What its template leaves a configuration with.
Cured(t, ir) ==
  /\ t = TPL_NIST_001 => ~Has(Ike(ir).encryption, {"des"})
  /\ t = TPL_NIST_002 => Ike(ir).key_length = 256
  /\ t = TPL_NIST_003 => Ike(ir).integrity = SHA256 /\ ~Has(Ike(ir).encryption, {"des"})
  /\ t = TPL_NIST_004 => Ike(ir).dh_group = 19
  /\ t = TPL_PFS_001 => Kid(ir).pfs_dh_group = 19
  /\ t = TPL_RFC_7296_01 => Version(ir) = 2
  /\ t = TPL_RFC_8221_01 => ~Has(Esp(ir).encryption, {"null"})

\* Nothing that is cured falls ill again.
Keeps(ir, new) == \A t : Cured(t, ir) => Cured(t, new)

LEMMA NewNames ==
  /\ ~Has(AES256GCM16, {"des"}) /\ ~Has(AES256GCM16, {"null"}) /\ ~Has(AES256, {"des"})
<1>1. \A word \in {"des", "null"} : ~Has(AES256GCM16, {word}) /\ ~Has(AES256, {word})
  BY DEF Has, Range, AES256GCM16, AES256, Token
<1> QED  BY <1>1

LEMMA TemplatesDiffer ==
  /\ TPL_NIST_001.rule_id = "POL-NIST-001" /\ TPL_NIST_002.rule_id = "POL-NIST-002"
  /\ TPL_NIST_003.rule_id = "POL-NIST-003" /\ TPL_NIST_004.rule_id = "POL-NIST-004"
  /\ TPL_PFS_001.rule_id = "POL-PFS-001" /\ TPL_REPLAY_001.rule_id = "POL-REPLAY-001"
  /\ TPL_RFC_7296_01.rule_id = "POL-RFC-7296-01" /\ TPL_RFC_8221_01.rule_id = "POL-RFC-8221-01"
BY DEF TPL_NIST_001, TPL_NIST_002, TPL_NIST_003, TPL_NIST_004, TPL_PFS_001,
       TPL_REPLAY_001, TPL_RFC_7296_01, TPL_RFC_8221_01, Template

LEMMA Transformers ==
  ASSUME NEW ir
  PROVE  /\ transformer(TPL_NIST_001, ir) = _transform_des(ir)
         /\ transformer(TPL_NIST_002, ir) = _transform_keylen(ir)
         /\ transformer(TPL_NIST_003, ir) = _transform_integ(ir)
         /\ transformer(TPL_NIST_004, ir) = _transform_dh(ir)
         /\ transformer(TPL_PFS_001, ir) = _transform_pfs(ir)
         /\ transformer(TPL_REPLAY_001, ir) = _transform_replay(ir)
         /\ transformer(TPL_RFC_7296_01, ir) = _transform_ikev2(ir)
         /\ transformer(TPL_RFC_8221_01, ir) = _transform_null(ir)
BY TemplatesDiffer DEF transformer

LEMMA DesCured ==
  ASSUME NEW ir, One(ir)
  PROVE  LET new == _transform_des(ir) IN
         One(new) /\ Keeps(ir, new) /\ Cured(TPL_NIST_001, new)
<1> DEFINE new == _transform_des(ir)
<1>1. /\ One(new) /\ Version(new) = Version(ir)
      /\ Ike(new) = IF Has(Ike(ir).encryption, {"des"})
                    THEN GcmIke(Or(Ike(ir).dh_group, 19)) ELSE Ike(ir)
      /\ Kid(new).pfs_dh_group = Or(Kid(ir).pfs_dh_group, 19)
      /\ \E g : Esp(new) = IF Has(Esp(ir).encryption, {"des"}) THEN GcmEsp(g) ELSE Esp(ir)
  BY DesReplaced
<1> HIDE DEF new
<1>2. ~Has(Ike(new).encryption, {"des"})
  BY <1>1, NewNames DEF GcmIke, TransformIR
<1>3. /\ Ike(ir).key_length = 256 => Ike(new).key_length = 256
      /\ Ike(ir).dh_group = 19 => Ike(new).dh_group = 19
      /\ Kid(ir).pfs_dh_group = 19 => Kid(new).pfs_dh_group = 19
  BY <1>1 DEF GcmIke, TransformIR, Or
<1>4. ~Has(Esp(ir).encryption, {"null"}) => ~Has(Esp(new).encryption, {"null"})
  BY <1>1, NewNames DEF GcmEsp, TransformIR
<1>5. ~Has(Ike(ir).encryption, {"des"}) => Ike(new) = Ike(ir)
  BY <1>1
<1>6. Keeps(ir, new)
  BY <1>1, <1>2, <1>3, <1>4, <1>5 DEF Keeps, Cured
<1>7. Cured(TPL_NIST_001, new)
  BY <1>2, TemplatesDiffer DEF Cured
<1> QED  BY <1>1, <1>6, <1>7 DEF new

LEMMA KeyLengthCured ==
  ASSUME NEW ir, One(ir)
  PROVE  LET new == _transform_keylen(ir) IN
         One(new) /\ Keeps(ir, new) /\ Cured(TPL_NIST_002, new)
<1> DEFINE new == _transform_keylen(ir)
<1>1. /\ One(new) /\ Version(new) = Version(ir) /\ Kid(new) = Kid(ir)
      /\ Ike(new) = TransformIR(AES256GCM16, 256, Ike(ir).integrity, Or(Ike(ir).prf, PRFSHA256),
                     Or(Ike(ir).dh_group, 19))
  BY KeysLengthened
<1> HIDE DEF new
<1>2. /\ ~Has(Ike(new).encryption, {"des"}) /\ Ike(new).key_length = 256
      /\ Ike(new).integrity = Ike(ir).integrity
      /\ Ike(ir).dh_group = 19 => Ike(new).dh_group = 19
  BY <1>1, NewNames DEF TransformIR, Or
<1>3. Keeps(ir, new)
  BY <1>1, <1>2 DEF Keeps, Cured, Esp
<1>4. Cured(TPL_NIST_002, new)
  BY <1>2, TemplatesDiffer DEF Cured
<1> QED  BY <1>1, <1>3, <1>4 DEF new

LEMMA IntegrityCured ==
  ASSUME NEW ir, One(ir)
  PROVE  LET new == _transform_integ(ir) IN
         One(new) /\ Keeps(ir, new) /\ Cured(TPL_NIST_003, new)
<1> DEFINE new == _transform_integ(ir)
<1>1. /\ One(new) /\ Version(new) = Version(ir) /\ Kid(new) = Kid(ir)
      /\ Ike(new) = TransformIR(AES256, 256, SHA256, PRFSHA256, Or(Ike(ir).dh_group, 19))
  BY IntegrityReplaced
<1> HIDE DEF new
<1>2. /\ ~Has(Ike(new).encryption, {"des"}) /\ Ike(new).key_length = 256
      /\ Ike(new).integrity = SHA256
      /\ Ike(ir).dh_group = 19 => Ike(new).dh_group = 19
  BY <1>1, NewNames DEF TransformIR, Or
<1>3. Keeps(ir, new)
  BY <1>1, <1>2 DEF Keeps, Cured, Esp
<1>4. Cured(TPL_NIST_003, new)
  BY <1>2, TemplatesDiffer DEF Cured
<1> QED  BY <1>1, <1>3, <1>4 DEF new

LEMMA GroupCured ==
  ASSUME NEW ir, One(ir)
  PROVE  LET new == _transform_dh(ir) IN
         One(new) /\ Keeps(ir, new) /\ Cured(TPL_NIST_004, new)
<1> DEFINE new == _transform_dh(ir)
<1>1. /\ One(new) /\ Version(new) = Version(ir) /\ Kid(new) = Kid(ir)
      /\ Ike(new) = TransformIR(Ike(ir).encryption, Or(Ike(ir).key_length, 256),
                       Ike(ir).integrity, Or(Ike(ir).prf, PRFSHA256), 19)
  BY GroupReplaced
<1> HIDE DEF new
<1>2. /\ Ike(new).encryption = Ike(ir).encryption /\ Ike(new).integrity = Ike(ir).integrity
      /\ Ike(ir).key_length = 256 => Ike(new).key_length = 256
      /\ Ike(new).dh_group = 19
  BY <1>1 DEF TransformIR, Or
<1>3. Keeps(ir, new)
  BY <1>1, <1>2 DEF Keeps, Cured, Esp
<1>4. Cured(TPL_NIST_004, new)
  BY <1>2, TemplatesDiffer DEF Cured
<1> QED  BY <1>1, <1>3, <1>4 DEF new

LEMMA SecrecyCured ==
  ASSUME NEW ir, One(ir)
  PROVE  LET new == _transform_pfs(ir) IN
         One(new) /\ Keeps(ir, new) /\ Cured(TPL_PFS_001, new)
<1> DEFINE new == _transform_pfs(ir)
<1>1. /\ One(new) /\ Version(new) = Version(ir) /\ Ike(new) = Ike(ir)
      /\ Kid(new).pfs_dh_group = 19 /\ Esp(new).encryption = Esp(ir).encryption
  BY PfsAdded
<1> HIDE DEF new
<1>2. Keeps(ir, new)
  BY <1>1 DEF Keeps, Cured
<1>3. Cured(TPL_PFS_001, new)
  BY <1>1, TemplatesDiffer DEF Cured
<1> QED  BY <1>1, <1>2, <1>3 DEF new

LEMMA ReplayCured ==
  ASSUME NEW ir, One(ir)
  PROVE  LET new == _transform_replay(ir) IN
         One(new) /\ Keeps(ir, new) /\ Cured(TPL_REPLAY_001, new)
<1> DEFINE new == _transform_replay(ir)
<1>1. /\ One(new) /\ Version(new) = Version(ir) /\ Ike(new) = Ike(ir)
      /\ Kid(new).pfs_dh_group = Kid(ir).pfs_dh_group /\ Esp(new) = Esp(ir)
  BY WindowOpened
<1> HIDE DEF new
<1>2. Keeps(ir, new)
  BY <1>1 DEF Keeps, Cured
<1>3. Cured(TPL_REPLAY_001, new)
  BY TemplatesDiffer DEF Cured
<1> QED  BY <1>1, <1>2, <1>3 DEF new

LEMMA VersionCured ==
  ASSUME NEW ir, One(ir)
  PROVE  LET new == _transform_ikev2(ir) IN
         One(new) /\ Keeps(ir, new) /\ Cured(TPL_RFC_7296_01, new)
<1> DEFINE new == _transform_ikev2(ir)
<1>1. One(new) /\ Version(new) = 2 /\ Ike(new) = Ike(ir) /\ Kid(new) = Kid(ir)
  BY VersionRaised
<1> HIDE DEF new
<1>2. Keeps(ir, new)
  BY <1>1 DEF Keeps, Cured, Esp
<1>3. Cured(TPL_RFC_7296_01, new)
  BY <1>1, TemplatesDiffer DEF Cured
<1> QED  BY <1>1, <1>2, <1>3 DEF new

LEMMA NullCured ==
  ASSUME NEW ir, One(ir)
  PROVE  LET new == _transform_null(ir) IN
         One(new) /\ Keeps(ir, new) /\ Cured(TPL_RFC_8221_01, new)
<1> DEFINE new == _transform_null(ir)
<1>1. /\ One(new) /\ Version(new) = Version(ir) /\ Ike(new) = Ike(ir)
      /\ Kid(new).pfs_dh_group = Or(Kid(ir).pfs_dh_group, 19)
      /\ \E g : Esp(new) = IF Has(Esp(ir).encryption, {"null"}) THEN GcmEsp(g) ELSE Esp(ir)
  BY NullReplaced
<1> HIDE DEF new
<1>2. ~Has(Esp(new).encryption, {"null"})
  BY <1>1, NewNames DEF GcmEsp, TransformIR
<1>3. Kid(ir).pfs_dh_group = 19 => Kid(new).pfs_dh_group = 19
  BY <1>1 DEF Or
<1>4. Keeps(ir, new)
  BY <1>1, <1>2, <1>3 DEF Keeps, Cured
<1>5. Cured(TPL_RFC_8221_01, new)
  BY <1>2, TemplatesDiffer DEF Cured
<1> QED  BY <1>1, <1>4, <1>5 DEF new

\* Every template cures what it is for and undoes no other.
LEMMA TemplateCures ==
  ASSUME NEW ir, One(ir), NEW t \in Templates
  PROVE  LET new == transformer(t, ir) IN
         One(new) /\ Keeps(ir, new) /\ Cured(t, new)
<1>1. \/ t = TPL_NIST_001 \/ t = TPL_NIST_002 \/ t = TPL_NIST_003 \/ t = TPL_NIST_004
      \/ t = TPL_PFS_001 \/ t = TPL_REPLAY_001 \/ t = TPL_RFC_7296_01 \/ t = TPL_RFC_8221_01
  BY DEF Templates
<1>2. CASE t = TPL_NIST_001
  BY <1>2, Transformers, DesCured
<1>3. CASE t = TPL_NIST_002
  BY <1>3, Transformers, KeyLengthCured
<1>4. CASE t = TPL_NIST_003
  BY <1>4, Transformers, IntegrityCured
<1>5. CASE t = TPL_NIST_004
  BY <1>5, Transformers, GroupCured
<1>6. CASE t = TPL_PFS_001
  BY <1>6, Transformers, SecrecyCured
<1>7. CASE t = TPL_REPLAY_001
  BY <1>7, Transformers, ReplayCured
<1>8. CASE t = TPL_RFC_7296_01
  BY <1>8, Transformers, VersionCured
<1>9. CASE t = TPL_RFC_8221_01
  BY <1>9, Transformers, NullCured
<1> QED  BY <1>1, <1>2, <1>3, <1>4, <1>5, <1>6, <1>7, <1>8, <1>9

LEMMA TemplateApplied ==
  ASSUME NEW ir, One(ir), NEW r
  PROVE  LET new == ApplyTemplate(ir, r) IN
         /\ One(new) /\ Keeps(ir, new)
         /\ TemplateFor(r) # {} => \E t \in TemplateFor(r) : Cured(t, new)
<1>1. CASE TemplateFor(r) = {}
  BY <1>1 DEF ApplyTemplate, Keeps
<1>2. CASE TemplateFor(r) # {}
  <2> DEFINE t == CHOOSE t \in TemplateFor(r) : TRUE
  <2>1. t \in TemplateFor(r)
    BY <1>2
  <2>2. TemplateFor(r) \subseteq Templates
    BY DEF TemplateFor
  <2>3. ApplyTemplate(ir, r) = transformer(t, ir)
    BY <1>2 DEF ApplyTemplate
  <2> HIDE DEF t
  <2> QED  BY <2>1, <2>2, <2>3, TemplateCures
<1> QED  BY <1>1, <1>2

LEMMA ObservedModel ==
  ASSUME NEW snapshot
  PROVE  One(to_configuration_ir(snapshot))
<1> DEFINE ir == to_configuration_ir(snapshot)
           c == ir.connections[1]
           ch == c.children[1]
<1>1. Single(ir.connections) /\ ir.secrets = 1
  BY DEF to_configuration_ir, ConfigurationIR, Single
<1>2. Single(c.ike_proposals) /\ Single(c.children)
  BY DEF to_configuration_ir, ConfigurationIR, ConnectionConfigurationIR, Single
<1>3. Single(ch.esp_proposals)
  BY DEF to_configuration_ir, ConfigurationIR, ConnectionConfigurationIR,
         ChildSAConfigurationIR, Single
<1> HIDE DEF ir
<1>4. One(ir)
  BY <1>1, <1>2, <1>3 DEF One
<1> QED  BY <1>4 DEF ir

LEMMA OrderHasAll ==
  ASSUME NEW S, IsFiniteSet(S), NEW order \in SetToSeqs(S)
  PROVE  \E n \in Nat : /\ DOMAIN order = 1..n
                        /\ \A r \in S : \E k \in 1..n : order[k] = r
<1> DEFINE n == Cardinality(S)
<1>1. n \in Nat
  BY FS_CardinalityType
<1>2. order \in [1..n -> S] /\ \A i, j \in 1..n : i # j => order[i] # order[j]
  BY DEF SetToSeqs
<1>3. order \in Injection(1..n, S)
  BY <1>2 DEF Injection, IsInjective
<1>4. Cardinality(1..n) = n
  BY <1>1, FS_Interval
<1>5. order \in Surjection(1..n, S)
  BY <1>3, <1>4, FS_Injection
<1> HIDE DEF n
<1>6. \A r \in S : \E k \in 1..n : order[k] = r
  BY <1>5 DEF Surjection
<1> QED  BY <1>1, <1>2, <1>6

Fixing == INSTANCE Folding WITH Step <- ApplyTemplate

\* Whatever the order, the generated proposal is cured of every finding.
LEMMA ProposalCured ==
  ASSUME NEW snapshot, NEW S, IsFiniteSet(S), NEW order \in SetToSeqs(S)
  PROVE  LET ir == generate_remediation_proposal(snapshot, order) IN
         /\ One(ir)
         /\ \A r \in S : TemplateFor(r) # {} => \E t \in TemplateFor(r) : Cured(t, ir)
<1> DEFINE base == to_configuration_ir(snapshot)
<1>0. One(base)
  BY ObservedModel
<1> HIDE DEF base
<1>1. PICK n \in Nat : /\ DOMAIN order = 1..n
                       /\ \A r \in S : \E k \in 1..n : order[k] = r
  BY OrderHasAll
<1>2. PICK f : /\ f[0] = base
               /\ \A k \in 1..n : f[k] = ApplyTemplate(f[k-1], order[k])
               /\ Fixing!Folded(base, order) = f[n]
  <2>1. \E f : Fixing!ByPrefix(f, base, order, n) /\ Fixing!Folded(base, order) = f[n]
    BY <1>1, Fixing!FoldLeftByPrefix
  <2> QED  BY <2>1 DEF Fixing!ByPrefix
<1>3. generate_remediation_proposal(snapshot, order) = f[n]
  BY <1>2 DEF FoldLeft, MapThenFoldSet, Fixing!FoldLeft, Fixing!MapThenFoldSet, Max,
              Fixing!Max, Fixing!Folded, generate_remediation_proposal, base
<1> DEFINE CuredOf(k) == \A j \in 1..k : TemplateFor(order[j]) # {} =>
                            \E t \in TemplateFor(order[j]) : Cured(t, f[k])
           T == {k \in Nat : k <= n => One(f[k]) /\ CuredOf(k)}
<1>4. 0 \in T
  BY <1>0, <1>2
<1>5. ASSUME NEW k \in Nat, k \in T PROVE k + 1 \in T
  <2> SUFFICES ASSUME k + 1 <= n PROVE One(f[k + 1]) /\ CuredOf(k + 1)
    OBVIOUS
  <2>1. k + 1 \in 1..n /\ (k + 1) - 1 = k /\ k <= n
    OBVIOUS
  <2>2. One(f[k]) /\ CuredOf(k)
    BY <1>5, <2>1
  <2>3. f[k + 1] = ApplyTemplate(f[k], order[k + 1])
    BY <1>2, <2>1
  <2> DEFINE r == order[k + 1]
             new == f[k + 1]
  <2>4. /\ One(new) /\ Keeps(f[k], new)
        /\ TemplateFor(r) # {} => \E t \in TemplateFor(r) : Cured(t, new)
    BY <2>2, <2>3, TemplateApplied
  <2>5. ASSUME NEW j \in 1..(k + 1), TemplateFor(order[j]) # {}
        PROVE  \E t \in TemplateFor(order[j]) : Cured(t, new)
    <3>1. CASE j = k + 1
      BY <2>4, <2>5, <3>1
    <3>2. CASE j \in 1..k
      <4>1. PICK t \in TemplateFor(order[j]) : Cured(t, f[k])
        BY <2>2, <2>5, <3>2
      <4>2. Cured(t, new)
        BY <2>4, <4>1 DEF Keeps
      <4> QED  BY <4>2
    <3> QED  BY <2>5, <3>1, <3>2
  <2> QED  BY <2>4, <2>5
<1>6. n \in T
  <2>1. Nat \subseteq T
    BY <1>4, <1>5, Fixing!Induction
  <2> HIDE DEF T
  <2> QED  BY <2>1
<1>7. One(f[n]) /\ CuredOf(n)
  BY <1>6
<1> QED  BY <1>1, <1>3, <1>7

-----------------------------------------------------------------------------
(* The projection of a cured configuration.                                *)

LEMMA FieldKeys ==
  /\ FieldKey.ike_version = "ike_session.ike_version"
  /\ FieldKey.ike_encryption = "ike_sa.encryption_algorithm"
  /\ FieldKey.ike_key_length = "ike_sa.key_length_bits"
  /\ FieldKey.ike_integrity = "ike_sa.integrity_algorithm"
  /\ FieldKey.ike_dh_group = "ike_sa.diffie_hellman_group"
  /\ FieldKey.child_mode = "child_sa.mode"
  /\ FieldKey.child_encryption = "child_sa.encryption_algorithm"
  /\ FieldKey.child_pfs_status = "child_sa.pfs_status"
  /\ FieldKey.child_pfs_dh_group = "child_sa.pfs_dh_group"
  /\ FieldKey.child_replay_window = "child_sa.replay_window_size"
BY DEF FieldKey

LEMMA TemplateKeys ==
  /\ TPL_NIST_001.fact_key = FieldKey.ike_encryption
  /\ TPL_NIST_002.fact_key = FieldKey.ike_key_length
  /\ TPL_NIST_003.fact_key = FieldKey.ike_integrity
  /\ TPL_NIST_004.fact_key = FieldKey.ike_dh_group
  /\ TPL_PFS_001.fact_key = FieldKey.child_pfs_status
  /\ TPL_REPLAY_001.fact_key = "esp_flow.sequence_monotonic"
  /\ TPL_RFC_7296_01.fact_key = FieldKey.ike_version
  /\ TPL_RFC_8221_01.fact_key = FieldKey.child_encryption
BY DEF TPL_NIST_001, TPL_NIST_002, TPL_NIST_003, TPL_NIST_004, TPL_PFS_001,
       TPL_REPLAY_001, TPL_RFC_7296_01, TPL_RFC_8221_01, Template

IntegrityOf(p) ==
  Or(p.integrity, IF Has(p.encryption, {"gcm", "aesgcm"}) THEN AEAD ELSE SHA256)
SecrecyOf(ch) == IF ch.pfs_dh_group = None THEN "DISABLED" ELSE "ENABLED"

\* The facts of a configuration with one of each.
LEMMA FactKinds ==
  ASSUME NEW ir, NEW fact \in FactsOf(ir), One(ir)
  PROVE  LET p == Ike(ir)
             ch == Kid(ir)
         IN  \/ fact = Fact("esp_flow.sequence_monotonic", TRUE)
             \/ fact = Fact(FieldKey.ike_version, VersionName(Version(ir)))
             \/ fact = Fact(FieldKey.ike_encryption, p.encryption)
             \/ fact = Fact(FieldKey.ike_key_length, Or(p.key_length, 256))
             \/ fact = Fact(FieldKey.ike_integrity, IntegrityOf(p))
             \/ fact = Fact(FieldKey.ike_dh_group, p.dh_group)
             \/ fact = Fact(FieldKey.child_mode, ch.mode)
             \/ fact = Fact(FieldKey.child_encryption, Esp(ir).encryption)
             \/ fact = Fact(FieldKey.child_pfs_status, SecrecyOf(ch))
             \/ fact = Fact(FieldKey.child_pfs_dh_group, ch.pfs_dh_group)
             \/ fact = Fact(FieldKey.child_replay_window, ch.replay_window)
<1> DEFINE p == Ike(ir)
           ch == Kid(ir)
           v == VersionName(Version(ir))
<1>1. /\ ir.connections # <<>> /\ ir.connections[1].ike_proposals # <<>>
      /\ ir.connections[1].children # <<>>
  BY OneHasFirst
<1>2. \/ fact = Fact("esp_flow.sequence_monotonic", TRUE)
      \/ fact = Fact(FieldKey.ike_version, v)
      \/ fact \in FactsOfIke(p) \/ fact \in FactsOfChild(ch)
  BY <1>1 DEF FactsOf, Ike, Kid, Version
<1> HIDE DEF p, v
<1> QED  BY <1>2 DEF FactsOfIke, FactsOfChild, IntegrityOf, SecrecyOf, Esp, p, v

\* Each key has one value.
LEMMA FactValues ==
  ASSUME NEW ir, NEW fact \in FactsOf(ir), One(ir)
  PROVE  /\ fact.key = FieldKey.ike_encryption => fact.value = Ike(ir).encryption
         /\ fact.key = FieldKey.ike_key_length => fact.value = Or(Ike(ir).key_length, 256)
         /\ fact.key = FieldKey.ike_integrity => fact.value = IntegrityOf(Ike(ir))
         /\ fact.key = FieldKey.ike_dh_group => fact.value = Ike(ir).dh_group
         /\ fact.key = FieldKey.ike_version => fact.value = VersionName(Version(ir))
         /\ fact.key = FieldKey.child_encryption => fact.value = Esp(ir).encryption
         /\ fact.key = FieldKey.child_pfs_status => fact.value = SecrecyOf(Kid(ir))
BY FactKinds, FieldKeys DEF Fact

\* The projection always has the sequence numbers in order.
LEMMA OrderValue ==
  ASSUME NEW ir, NEW fact \in FactsOf(ir), One(ir), fact.key = "esp_flow.sequence_monotonic"
  PROVE  fact = Fact("esp_flow.sequence_monotonic", TRUE)
BY FactKinds, FieldKeys DEF Fact

\* What is said of one comparison of one fact.
LEMMA OneComparison ==
  ASSUME NEW rule, NEW fact, rule.assertion.form = "leaf"
  PROVE  LET a == rule.assertion IN
         EvalCondition(a, Entry(a.field, fact)) = evaluate_operator(a.op, fact.value, a.expected)
<1> DEFINE a == rule.assertion
           m == Entry(a.field, fact)
           x == evaluate_operator(a.op, fact.value, a.expected)
<1>1. States(a, m) = {x}
  BY DEF States, Leaves, EvalLeaf, Observed, Entry
<1>2. x \in {"TRUE", "FALSE", "UNKNOWN"}
  BY DEF evaluate_operator, Truth, Compare
<1> HIDE DEF m, x, a
<1>3. kleene_all({x}) = x
  BY <1>2 DEF kleene_all
<1>4. a.form = "leaf"
  BY DEF a
<1>5. EvalCondition(a, m) = x
  BY <1>1, <1>3, <1>4 DEF EvalCondition
<1> QED  BY <1>5 DEF m, x, a

LEMMA EvaluationAt ==
  ASSUME NEW rule, NEW fs, NEW e \in Range(Evaluations(rule, fs))
  PROVE  \E i \in DOMAIN fs : /\ fs[i].key = rule.assertion.field
                              /\ e = _evaluate_single_subject(rule, Entry(rule.assertion.field, fs[i]))
BY DEF Range, Evaluations, OfKey

LEMMA FailsOnlyFalse ==
  ASSUME NEW rule, NEW m, _evaluate_single_subject(rule, m).compliance_state = "FAIL"
  PROVE  EvalCondition(rule.assertion, m) = "FALSE"
BY DEF _evaluate_single_subject, Verdict

\* What a template leaves does not fail its rule.
LEMMA CuredPasses ==
  ASSUME NEW r \in DOMAIN Rules, NEW t \in TemplateFor(r), NEW ir, One(ir), Cured(t, ir),
         NEW fact \in FactsOf(ir), fact.key = t.fact_key
  PROVE  LET a == Rules[r].assertion
         IN  evaluate_operator(a.op, fact.value, a.expected) # "FALSE"
<1> DEFINE a == Rules[r].assertion
           x == fact.value
<1>1. PassesTemplate(t, a)
  BY BundleAssumption
<1> HIDE DEF a
<1>2. \/ t = TPL_NIST_001 \/ t = TPL_NIST_002 \/ t = TPL_NIST_003 \/ t = TPL_NIST_004
      \/ t = TPL_PFS_001 \/ t = TPL_REPLAY_001 \/ t = TPL_RFC_7296_01 \/ t = TPL_RFC_8221_01
  BY DEF TemplateFor, Templates
<1>3. ASSUME NEW words, a.op = "not_in_set", \A name \in a.expected : Has(name, words),
             ~Has(x, words)
      PROVE  evaluate_operator(a.op, x, a.expected) # "FALSE"
  <2>1. x \notin a.expected
    BY <1>3
  <2> QED  BY <1>3, <2>1 DEF evaluate_operator, Truth
<1>4. CASE t = TPL_NIST_001
  <2> DEFINE words == {"des"}
  <2>1. x = Ike(ir).encryption
    BY <1>4, FactValues, TemplateKeys
  <2>2. ~Has(Ike(ir).encryption, words)
    BY <1>4 DEF Cured
  <2>3. a.op = "not_in_set" /\ \A name \in a.expected : Has(name, words)
    BY <1>1, <1>4 DEF PassesTemplate
  <2> HIDE DEF words
  <2>4. ~Has(x, words)
    BY <2>1, <2>2
  <2> QED  BY <1>3, <2>3, <2>4 DEF a
<1>5. CASE t = TPL_NIST_002
  <2>1. x = 256
    BY <1>5, FactValues, TemplateKeys DEF Cured, Or
  <2>2. evaluate_operator(a.op, 256, a.expected) = "TRUE"
    BY <1>1, <1>5 DEF PassesTemplate
  <2> QED  BY <2>1, <2>2 DEF a
<1>6. CASE t = TPL_NIST_003
  <2>1. x = SHA256
    BY <1>6, FactValues, TemplateKeys, InputAssumption DEF Cured, Or, IntegrityOf
  <2>2. evaluate_operator(a.op, SHA256, a.expected) = "TRUE"
    BY <1>1, <1>6 DEF PassesTemplate
  <2> QED  BY <2>1, <2>2 DEF a
<1>7. CASE t = TPL_NIST_004
  <2>1. x = 19
    BY <1>7, FactValues, TemplateKeys DEF Cured
  <2>2. evaluate_operator(a.op, 19, a.expected) = "TRUE"
    BY <1>1, <1>7 DEF PassesTemplate
  <2> QED  BY <2>1, <2>2 DEF a
<1>8. CASE t = TPL_PFS_001
  <2>1. x = "ENABLED"
    BY <1>8, FactValues, TemplateKeys, InputAssumption DEF Cured, SecrecyOf
  <2>2. evaluate_operator(a.op, "ENABLED", a.expected) = "TRUE"
    BY <1>1, <1>8 DEF PassesTemplate
  <2> QED  BY <2>1, <2>2 DEF a
<1>9. CASE t = TPL_REPLAY_001
  <2>1. x = TRUE
    BY <1>9, OrderValue, TemplateKeys DEF Fact
  <2>2. evaluate_operator(a.op, TRUE, a.expected) = "TRUE"
    BY <1>1, <1>9 DEF PassesTemplate
  <2> QED  BY <2>1, <2>2 DEF a
<1>10. CASE t = TPL_RFC_7296_01
  <2>1. x = "IKEv2"
    BY <1>10, FactValues, TemplateKeys DEF Cured, VersionName
  <2>2. evaluate_operator(a.op, "IKEv2", a.expected) = "TRUE"
    BY <1>1, <1>10 DEF PassesTemplate
  <2> QED  BY <2>1, <2>2 DEF a
<1>11. CASE t = TPL_RFC_8221_01
  <2> DEFINE words == {"null"}
  <2>1. x = Esp(ir).encryption
    BY <1>11, FactValues, TemplateKeys
  <2>2. ~Has(Esp(ir).encryption, words)
    BY <1>11 DEF Cured
  <2>3. a.op = "not_in_set" /\ \A name \in a.expected : Has(name, words)
    BY <1>1, <1>11 DEF PassesTemplate
  <2> HIDE DEF words
  <2>4. ~Has(x, words)
    BY <2>1, <2>2
  <2> QED  BY <1>3, <2>3, <2>4 DEF a
<1> QED  BY <1>2, <1>4, <1>5, <1>6, <1>7, <1>8, <1>9, <1>10, <1>11 DEF a

LEMMA CuredNotFailing ==
  ASSUME NEW r \in DOMAIN Rules, NEW t \in TemplateFor(r), NEW ir, One(ir), Cured(t, ir)
  PROVE  r \notin Failing(synthesize_projected_facts(ir))
<1> DEFINE fs == synthesize_projected_facts(ir)
           rule == Rules[r]
           a == rule.assertion
<1>1. fs \in Seq(FactsOf(ir))
  BY ProjectedAre
<1>2. a.form = "leaf" /\ a.field = t.fact_key
  BY BundleAssumption DEF PassesTemplate
<1> HIDE DEF fs, rule
<1>3. ASSUME NEW e \in Range(Evaluations(rule, fs))
      PROVE  e.compliance_state # "FAIL"
  <2>1. PICK i \in DOMAIN fs : /\ fs[i].key = a.field
                               /\ e = _evaluate_single_subject(rule, Entry(a.field, fs[i]))
    BY EvaluationAt
  <2>2. fs[i] \in FactsOf(ir)
    BY <1>1, ElementOfSeq
  <2> DEFINE fact == fs[i]
             m == Entry(a.field, fact)
  <2>3. fact \in FactsOf(ir) /\ fact.key = t.fact_key
    BY <1>2, <2>1, <2>2
  <2>4. evaluate_operator(a.op, fact.value, a.expected) # "FALSE"
    BY <2>3, CuredPasses DEF rule
  <2>5. EvalCondition(a, m) = evaluate_operator(a.op, fact.value, a.expected)
    BY <1>2, OneComparison
  <2> HIDE DEF m
  <2>6. e = _evaluate_single_subject(rule, m)
    BY <2>1 DEF m
  <2> QED  BY <2>4, <2>5, <2>6, FailsOnlyFalse
<1> QED  BY <1>3 DEF Failing, Judged, fs, rule

-----------------------------------------------------------------------------
(* The rows.                                                               *)

TwinFields == {"proposal_hash", "rendered_proposed_config", "kind", "text_diff",
               "semantic_diff", "projected_score", "audit"}
Columns == {"text_diff", "semantic_diff", "projected_score", "audit"}

\* The obligations are those of templates; all that they are for is resolved.
AuditOK(audit) == \A o \in audit.proof_obligations : \E t \in Templates : o.target_rule = t.rule_id
AuditFixed(audit) == \A o \in audit.proof_obligations : o.target_finding \in audit.resolved

TwinOK(twin) ==
  /\ DOMAIN twin = TwinFields
  /\ TextOK(twin.rendered_proposed_config)
  /\ AuditOK(twin.audit)
  /\ twin.kind = "POLICY_GENERATED_PROPOSED" => AuditFixed(twin.audit)

ColumnsOK(row) ==
  \/ row = <<>>
  \/ DOMAIN row = Columns /\ AuditOK(row.audit) /\ AuditFixed(row.audit)

LEMMA SingleRow == ASSUME NEW s, Single(s) PROVE Row(s) /\ DOMAIN s = {1}
<1>1. <<s[1]>> = [i \in 1..1 |-> <<s[1]>>[i]] /\ DOMAIN <<s[1]>> = {1}
  OBVIOUS
<1>2. Row(<<s[1]>>)
  BY <1>1 DEF Row
<1> QED  BY <1>1, <1>2 DEF Single

LEMMA OneShaped == ASSUME NEW ir, One(ir) PROVE Shaped(ir)
BY SingleRow DEF One, Shaped, ShapedConn

LEMMA ReadShaped == ASSUME NEW text, TextOK(text) PROVE Shaped(parse_text(text))
BY TextRead DEF ConnsOK, ConnOK, Shaped, ShapedConn

\* A projection has obligations of templates.
LEMMA ProjectionMade ==
  ASSUME NEW snapshot, NEW ir, NEW baseline, NEW score, Shaped(ir)
  PROVE  LET sim == run_projection(snapshot, ir, baseline, score) IN
         /\ sim.rendered_proposed_config = render(ir) /\ TextOK(render(ir))
         /\ AuditOK(sim.audit)
         /\ sim.audit.proof_obligations = Obligations(baseline)
         /\ sim.audit.resolved = baseline \ Failing(synthesize_projected_facts(ir))
<1> DEFINE sim == run_projection(snapshot, ir, baseline, score)
<1>1. /\ sim.rendered_proposed_config = render(ir)
      /\ sim.audit.proof_obligations = Obligations(baseline)
      /\ sim.audit.resolved = baseline \ Failing(synthesize_projected_facts(ir))
  BY DEF run_projection
<1> HIDE DEF sim
<1>2. ASSUME NEW o \in Obligations(baseline)
      PROVE  \E t \in Templates : o.target_rule = t.rule_id
  <2>1. PICK r \in baseline : \E t \in TemplateFor(r) :
           o = [target_finding |-> r, target_rule |-> t.rule_id, fact_key |-> t.fact_key]
    BY DEF Obligations
  <2>2. TemplateFor(r) \subseteq Templates
    BY DEF TemplateFor
  <2> QED  BY <2>1, <2>2
<1>3. AuditOK(sim.audit)
  BY <1>1, <1>2 DEF AuditOK
<1> QED  BY <1>1, <1>3, Rendered DEF sim

LEMMA GeneratedFixed ==
  ASSUME NEW snapshot, NEW baseline, baseline \subseteq DOMAIN Rules,
         NEW order \in SetToSeqs(baseline), NEW score
  PROVE  LET ir == generate_remediation_proposal(snapshot, order)
             sim == run_projection(snapshot, ir, baseline, score)
         IN  Shaped(ir) /\ AuditFixed(sim.audit)
<1> DEFINE ir == generate_remediation_proposal(snapshot, order)
           sim == run_projection(snapshot, ir, baseline, score)
<1>1. IsFiniteSet(baseline)
  BY BundleAssumption, FS_Subset
<1>2. /\ One(ir)
      /\ \A r \in baseline : TemplateFor(r) # {} => \E t \in TemplateFor(r) : Cured(t, ir)
  BY <1>1, ProposalCured
<1> HIDE DEF ir
<1>3. Shaped(ir)
  BY <1>2, OneShaped
<1>4. /\ sim.audit.proof_obligations = Obligations(baseline)
      /\ sim.audit.resolved = baseline \ Failing(synthesize_projected_facts(ir))
  BY <1>3, ProjectionMade
<1> HIDE DEF sim
<1>5. ASSUME NEW o \in Obligations(baseline)
      PROVE  o.target_finding \in baseline \ Failing(synthesize_projected_facts(ir))
  <2>1. PICK r \in baseline : \E t \in TemplateFor(r) :
           o = [target_finding |-> r, target_rule |-> t.rule_id, fact_key |-> t.fact_key]
    BY DEF Obligations
  <2>2. PICK u \in TemplateFor(r) : Cured(u, ir)
    BY <1>2, <2>1
  <2>3. r \notin Failing(synthesize_projected_facts(ir))
    BY <1>2, <2>2, CuredNotFailing
  <2> QED  BY <2>1, <2>3
<1>6. AuditFixed(sim.audit)
  BY <1>4, <1>5 DEF AuditFixed
<1> QED  BY <1>3, <1>6 DEF ir, sim

LEMMA ColumnsMade ==
  ASSUME NEW sim, NEW assessable
  PROVE  LET row == Projected(sim, assessable) IN
         /\ DOMAIN row = Columns
         /\ AuditOK(sim.audit) => AuditOK(row.audit)
         /\ AuditFixed(sim.audit) => AuditFixed(row.audit)
<1> DEFINE row == Projected(sim, assessable)
           a == sim.audit
           b == [a EXCEPT !.baseline_score = None, !.projected_score = None]
<1>1. DOMAIN row = Columns
  BY DEF Projected, Columns
<1>2. row.audit = a \/ row.audit = b
  BY DEF Projected
<1>3. "proof_obligations" # "baseline_score" /\ "proof_obligations" # "projected_score"
  OBVIOUS
<1>4. b.proof_obligations = a.proof_obligations /\ b.resolved = a.resolved
  OBVIOUS
<1> HIDE DEF row, a, b
<1>5. AuditOK(a) => AuditOK(row.audit)
  BY <1>2, <1>4 DEF AuditOK
<1>6. AuditFixed(a) => AuditFixed(row.audit)
  BY <1>2, <1>4 DEF AuditFixed
<1> QED  BY <1>1, <1>5, <1>6 DEF row, a

LEMMA TwinMade ==
  ASSUME NEW sim, NEW assessable, NEW kind, TextOK(sim.rendered_proposed_config),
         AuditOK(sim.audit), kind = "POLICY_GENERATED_PROPOSED" => AuditFixed(sim.audit)
  PROVE  LET twin == NewTwin(sim, assessable, kind) IN TwinOK(twin) /\ twin.kind = kind
<1> DEFINE row == Projected(sim, assessable)
           twin == NewTwin(sim, assessable, kind)
<1>1. /\ DOMAIN row = Columns /\ AuditOK(row.audit)
      /\ kind = "POLICY_GENERATED_PROPOSED" => AuditFixed(row.audit)
  BY ColumnsMade
<1> HIDE DEF row
<1>2. /\ DOMAIN twin = TwinFields
      /\ twin.rendered_proposed_config = sim.rendered_proposed_config
      /\ twin.kind = kind /\ twin.audit = row.audit
  BY <1>1 DEF NewTwin, Updated, row, Columns, TwinFields
<1> HIDE DEF twin
<1>3. TwinOK(twin)
  BY <1>1, <1>2 DEF TwinOK
<1> QED  BY <1>2, <1>3 DEF twin

LEMMA TwinReconciled ==
  ASSUME NEW twin, NEW row, TwinOK(twin), ColumnsOK(row)
  PROVE  TwinOK(Updated(twin, row))
<1> DEFINE new == Updated(twin, row)
<1>1. CASE row = <<>>
  <2>1. DOMAIN row = {}
    BY <1>1
  <2>2. /\ DOMAIN new = TwinFields /\ new.audit = twin.audit /\ new.kind = twin.kind
        /\ new.rendered_proposed_config = twin.rendered_proposed_config
    BY <2>1 DEF Updated, TwinOK, TwinFields
  <2> HIDE DEF new
  <2>3. TwinOK(new)
    BY <2>2 DEF TwinOK
  <2> QED  BY <2>3 DEF new
<1>2. CASE DOMAIN row = Columns /\ AuditOK(row.audit) /\ AuditFixed(row.audit)
  <2>1. /\ DOMAIN new = TwinFields /\ new.audit = row.audit
        /\ new.rendered_proposed_config = twin.rendered_proposed_config
    BY <1>2 DEF Updated, TwinOK, TwinFields, Columns
  <2> HIDE DEF new
  <2>2. TwinOK(new)
    BY <1>2, <2>1 DEF TwinOK
  <2> QED  BY <2>2 DEF new
<1> QED  BY <1>1, <1>2 DEF ColumnsOK

-----------------------------------------------------------------------------
(* The judgement after a run.                                              *)

\* Facts by place; an observed key length is a number.
PostOK(post) ==
  /\ \E n \in Nat : DOMAIN post \subseteq 1..n
  /\ \A i \in DOMAIN post : post[i].key = FieldKey.ike_key_length =>
                               post[i].value \in DOMAIN Number \cup {None}

LEMMA LengthProjected ==
  ASSUME NEW ir, ConnsOK(ir.connections), NEW fact \in FactsOf(ir),
         fact.key = FieldKey.ike_key_length
  PROVE  fact.value \in DOMAIN Number
<1> DEFINE c == ir.connections[1]
           p == c.ike_proposals[1]
<1>1. c.ike_proposals # <<>> /\ ir.connections # <<>> => p.key_length \in Lengths
  <2> SUFFICES ASSUME c.ike_proposals # <<>>, ir.connections # <<>>
               PROVE  p.key_length \in Lengths
    OBVIOUS
  <2>1. 1 \in DOMAIN ir.connections
    BY RowHasFirst DEF ConnsOK
  <2>2. ConnOK(c)
    BY <2>1 DEF ConnsOK
  <2>3. 1 \in DOMAIN c.ike_proposals
    BY <2>2, RowHasFirst DEF ConnOK
  <2> QED  BY <2>2, <2>3 DEF ConnOK
<1>2. \/ fact = Fact("esp_flow.sequence_monotonic", TRUE)
      \/ \E v : fact = Fact(FieldKey.ike_version, v)
      \/ ir.connections # <<>> /\ c.ike_proposals # <<>> /\ fact \in FactsOfIke(p)
      \/ fact \in FactsOfChild(c.children[1])
  BY DEF FactsOf
<1> HIDE DEF p, c
<1>3. fact # Fact("esp_flow.sequence_monotonic", TRUE)
  BY FieldKeys DEF Fact
<1>4. \A v : fact # Fact(FieldKey.ike_version, v)
  BY FieldKeys DEF Fact
<1>5. fact \notin FactsOfChild(c.children[1])
  BY FieldKeys DEF Fact, FactsOfChild
<1>6. /\ ir.connections # <<>> /\ c.ike_proposals # <<>> /\ fact \in FactsOfIke(p)
  BY <1>2, <1>3, <1>4, <1>5
<1>7. \/ fact = Fact(FieldKey.ike_encryption, p.encryption)
      \/ fact = Fact(FieldKey.ike_key_length, Or(p.key_length, 256))
      \/ fact = Fact(FieldKey.ike_integrity, IntegrityOf(p))
      \/ fact = Fact(FieldKey.ike_dh_group, p.dh_group)
  BY <1>6 DEF FactsOfIke, IntegrityOf
<1>8. fact.value = Or(p.key_length, 256)
  BY <1>7, FieldKeys DEF Fact
<1> QED  BY <1>1, <1>6, <1>8, BundleAssumption DEF Or, Lengths

LEMMA ProjectedPost ==
  ASSUME NEW text, TextOK(text)
  PROVE  PostOK(synthesize_projected_facts(parse_text(text)))
<1> DEFINE ir == parse_text(text)
           fs == synthesize_projected_facts(ir)
<1>1. ConnsOK(ir.connections)
  BY TextRead
<1>2. fs \in Seq(FactsOf(ir))
  BY ProjectedAre
<1> HIDE DEF fs, ir
<1>3. DOMAIN fs = 1..Len(fs) /\ Len(fs) \in Nat
  BY <1>2
<1>4. \A i \in DOMAIN fs : fs[i] \in FactsOf(ir)
  BY <1>2, <1>3, ElementOfSeq
<1>5. \A i \in DOMAIN fs : fs[i].key = FieldKey.ike_key_length => fs[i].value \in DOMAIN Number
  BY <1>1, <1>4, LengthProjected
<1>6. PostOK(fs)
  BY <1>3, <1>5 DEF PostOK
<1> QED  BY <1>6 DEF fs, ir

LEMMA PostWithout ==
  ASSUME NEW fs, PostOK(fs), NEW keys
  PROVE  PostOK(Without(fs, keys))
<1> DEFINE post == Without(fs, keys)
<1>1. DOMAIN post \subseteq DOMAIN fs /\ \A i \in DOMAIN post : post[i] = fs[i]
  BY DEF Without, Restrict
<1> HIDE DEF post
<1>2. PostOK(post)
  BY <1>1 DEF PostOK
<1> QED  BY <1>2 DEF post

LEMMA AllResolved ==
  ASSUME NEW outcomes, NEW regression, NEW healthy, NEW analysed,
         Overall(outcomes, regression, healthy, analysed) = "RESOLVED"
  PROVE  outcomes = {"RESOLVED"}
BY DEF Overall

LEMMA OneResolved ==
  ASSUME NEW o, NEW failing, NEW entry, NEW analysed,
         Outcome(o, failing, entry, analysed) = "RESOLVED"
  PROVE  o.target_rule \notin failing /\ entry.evidence_state # "UNKNOWN"
BY DEF Outcome, PostState, evaluate_post_evidence

LEMMA MaxOfPlaces ==
  ASSUME NEW n \in Nat, NEW s \in SUBSET (1..n), s # {}
  PROVE  Max(s) \in s
<1>1. Max(s) = Reading!Max(s)
  BY DEF Max, Reading!Max
<1> QED  BY <1>1, Reading!MaxOfSubset

\* The evidence of an entry is that of an evaluation.
LEMMA EntryObserved ==
  ASSUME NEW post, PostOK(post), NEW judged \in BOOLEAN, NEW early,
         NEW r \in {t.rule_id : t \in Templates},
         PostEntries(post, judged, early)[r].evidence_state # "UNKNOWN"
  PROVE  /\ judged /\ r \in DOMAIN Rules
         /\ \E e \in Range(Evaluations(Rules[r], post)) : e.evidence_state # "UNKNOWN"
<1> DEFINE evals == IF judged /\ r \in DOMAIN Rules THEN Evaluations(Rules[r], post) ELSE <<>>
           rest == DOMAIN evals \ early
           last == Max(rest)
<1>1. PostEntries(post, judged, early)[r] =
         IF rest = {} THEN [value |-> None, evidence_state |-> "UNKNOWN"]
         ELSE [value |-> post[last].value, evidence_state |-> evals[last].evidence_state]
  BY DEF PostEntries
<1> HIDE DEF last
<1>2. rest # {}
  BY <1>1
<1>3. judged /\ r \in DOMAIN Rules
  <2>1. DOMAIN <<>> = {}
    OBVIOUS
  <2> QED  BY <1>2, <2>1
<1>4. evals = Evaluations(Rules[r], post)
  BY <1>3
<1>5. DOMAIN evals \subseteq DOMAIN post
  BY <1>4 DEF Evaluations, OfKey
<1> HIDE DEF evals
<1>6. PICK n \in Nat : DOMAIN post \subseteq 1..n
  BY DEF PostOK
<1>7. last \in DOMAIN evals
  <2>1. rest \in SUBSET (1..n)
    BY <1>5, <1>6
  <2> QED  BY <1>2, <2>1, MaxOfPlaces DEF last
<1>8. evals[last].evidence_state # "UNKNOWN"
  BY <1>1, <1>2
<1> QED  BY <1>3, <1>4, <1>7, <1>8 DEF Range

\* A decisive rule that had its evidence passed or failed.
LEMMA DecisiveDecides ==
  ASSUME NEW rule, Decisive(rule), NEW fact, fact.key = rule.assertion.field,
         fact.key = FieldKey.ike_key_length => fact.value \in DOMAIN Number \cup {None},
         _evaluate_single_subject(rule, Entry(rule.assertion.field, fact)).evidence_state # "UNKNOWN"
  PROVE  _evaluate_single_subject(rule, Entry(rule.assertion.field, fact)).compliance_state
            \in {"PASS", "FAIL"}
<1> DEFINE a == rule.assertion
           m == Entry(a.field, fact)
           e == _evaluate_single_subject(rule, m)
<1>1. Applies(rule, m)
  BY DEF Decisive, Applies
<1>2. Missing(rule, m) = {}
  <2>1. Verdict(rule, m) # "NOT_APPLICABLE"
    BY <1>1 DEF Verdict
  <2> HIDE DEF m
  <2>2. Missing(rule, m) # {} => e.evidence_state = "UNKNOWN"
    BY <2>1 DEF _evaluate_single_subject
  <2> QED  BY <2>2 DEF m
<1>3. m[a.field] = fact
  BY DEF Entry
<1>4. fact.value # None
  BY <1>2, <1>3 DEF Missing, Decisive
<1>5. EvalCondition(a, m) = evaluate_operator(a.op, fact.value, a.expected)
  BY OneComparison DEF Decisive
<1>6. \/ a.op \in {"equals", "not_equals", "in_set", "not_in_set"}
      \/ /\ a.op \in NumericOperator /\ a.expected \in DOMAIN Number
         /\ fact.value \in DOMAIN Number
  BY <1>4 DEF Decisive
<1> HIDE DEF a, m
<1>7. evaluate_operator(a.op, fact.value, a.expected) \in {"TRUE", "FALSE"}
  BY <1>4, <1>6 DEF evaluate_operator, Truth, NumericOperator, Compare
<1>8. Verdict(rule, m) \in {"PASS", "FAIL"}
  BY <1>1, <1>2, <1>5, <1>7 DEF Verdict, a
<1>9. e.compliance_state = Verdict(rule, m)
  BY DEF _evaluate_single_subject
<1> QED  BY <1>8, <1>9 DEF a, m

\* What VerifiedIsObserved says of one run.
ObservedResult(v) ==
  v.result.result = "RESOLVED" =>
     /\ v.judged
     /\ \A o \in DOMAIN v.result.claims : /\ o.target_rule \in Judged(v.post, "PASS")
                                          /\ o.target_rule \notin Failing(v.post)

LEMMA ResolvedIsObserved ==
  ASSUME NEW obligations, \A o \in obligations : \E t \in Templates : o.target_rule = t.rule_id,
         NEW post, PostOK(post), NEW judged \in BOOLEAN, NEW baseline, NEW healthy, NEW analysed,
         NEW early, NEW result,
         result = compare(obligations, baseline, IF judged THEN Failing(post) ELSE {},
                          PostEntries(post, judged, early), healthy, analysed)
  PROVE  result.result = "RESOLVED" =>
           /\ judged
           /\ \A o \in DOMAIN result.claims : /\ o.target_rule \in Judged(post, "PASS")
                                              /\ o.target_rule \notin Failing(post)
<1> SUFFICES ASSUME result.result = "RESOLVED"
             PROVE  /\ judged
                    /\ \A o \in DOMAIN result.claims : /\ o.target_rule \in Judged(post, "PASS")
                                                       /\ o.target_rule \notin Failing(post)
  OBVIOUS
<1> DEFINE failing == IF judged THEN Failing(post) ELSE {}
           entries == PostEntries(post, judged, early)
           claims == [o \in obligations |-> Outcome(o, failing, entries[o.target_rule], analysed)]
           new == failing \ baseline
<1>1. /\ result.claims = claims
      /\ result.result = Overall(Range(claims), Blocking(new), healthy, analysed)
  BY DEF compare
<1>2. Range(claims) = {"RESOLVED"}
  <2> HIDE DEF claims, new
  <2> QED  BY <1>1, AllResolved
<1>3. DOMAIN claims = obligations
  OBVIOUS
<1>4. ASSUME NEW o \in obligations
      PROVE  judged /\ o.target_rule \in Judged(post, "PASS") /\ o.target_rule \notin Failing(post)
  <2> DEFINE r == o.target_rule
  <2>1. claims[o] = Outcome(o, failing, entries[r], analysed)
    OBVIOUS
  <2>2. claims[o] = "RESOLVED"
    BY <1>2, <1>3 DEF Range
  <2> HIDE DEF claims, entries, failing
  <2>3. r \notin failing /\ entries[r].evidence_state # "UNKNOWN"
    <3> DEFINE entry == entries[r]
    <3>1. Outcome(o, failing, entry, analysed) = "RESOLVED"
      BY <2>1, <2>2
    <3> HIDE DEF entry
    <3>2. o.target_rule \notin failing /\ entry.evidence_state # "UNKNOWN"
      BY <3>1, OneResolved
    <3> QED  BY <3>2 DEF entry
  <2>4. PICK t \in Templates : r = t.rule_id
    OBVIOUS
  <2>5. r \in {u.rule_id : u \in Templates}
    BY <2>4
  <2> HIDE DEF r
  <2>6. /\ judged /\ r \in DOMAIN Rules
        /\ \E e \in Range(Evaluations(Rules[r], post)) : e.evidence_state # "UNKNOWN"
    <3>1. PostEntries(post, judged, early)[r].evidence_state # "UNKNOWN"
      BY <2>3 DEF entries
    <3>2. PostOK(post)
      OBVIOUS
    <3> QED  BY <2>5, <3>1, <3>2, EntryObserved
  <2>7. r \notin Failing(post)
    BY <2>3, <2>6 DEF failing
  <2>8. Decisive(Rules[r])
    BY <2>4, <2>6, BundleAssumption
  <2> DEFINE rule == Rules[r]
             field == rule.assertion.field
  <2>9. PICK e \in Range(Evaluations(rule, post)) : e.evidence_state # "UNKNOWN"
    BY <2>6
  <2>10. PICK i \in DOMAIN post : /\ post[i].key = field
                                 /\ e = _evaluate_single_subject(rule, Entry(field, post[i]))
    BY EvaluationAt
  <2>11. post[i].key = FieldKey.ike_key_length => post[i].value \in DOMAIN Number \cup {None}
    BY DEF PostOK
  <2>12. e.compliance_state \in {"PASS", "FAIL"}
    <3> HIDE DEF rule
    <3>1. Decisive(rule)
      BY <2>8 DEF rule
    <3> DEFINE fact == post[i]
    <3>2. fact.key = FieldKey.ike_key_length => fact.value \in DOMAIN Number \cup {None}
      BY <2>11
    <3>3. fact.key = rule.assertion.field
      BY <2>10
    <3>4. e = _evaluate_single_subject(rule, Entry(rule.assertion.field, fact))
      BY <2>10
    <3> HIDE DEF fact
    <3> QED  BY <2>9, <3>1, <3>2, <3>3, <3>4, DecisiveDecides
  <2>13. e.compliance_state # "FAIL"
    BY <2>6, <2>7 DEF Failing, Judged
  <2>14. r \in Judged(post, "PASS")
    BY <2>6, <2>12, <2>13 DEF Judged
  <2> QED  BY <2>6, <2>7, <2>14 DEF r
<1>5. obligations # {}
  <2> HIDE DEF failing, entries
  <2>1. obligations = {} => Range(claims) = {}
    BY DEF Range
  <2> QED  BY <1>2, <2>1
<1>6. judged
  BY <1>4, <1>5
<1> HIDE DEF claims
<1> QED  BY <1>1, <1>3, <1>4, <1>6

-----------------------------------------------------------------------------
(* The invariant of the planning.                                          *)

FactsOK(fs) == Row(fs) /\ PostOK(fs)

\* places: of the twins there are.
RequestOK(q, places) ==
  \/ q = Idle
  \/ q = [at |-> "posted"]
  \/ /\ q.at = "read" /\ q.findings \subseteq DOMAIN Rules
     /\ q.custom = None \/ TextOK(q.custom)
  \/ /\ q.at = "write"
     /\ \/ q.twin = 0 /\ TwinOK(q.row)
        \/ q.twin # 0 /\ q.twin \in places /\ ColumnsOK(q.row)

ShownOK(s, places) ==
  s = NothingShown \/ (s.twin \in places /\ TextOK(s.rendered_proposed_config))

RunOK(run, places) ==
  /\ run.twin \in places
  /\ DOMAIN run = {"twin", "status", "approval", "verification"}
  /\ run.verification = None \/ ObservedResult(run.verification)

PlanningInv ==
  /\ FactsOK(capture) /\ FactsOK(facts)
  /\ Row(twins) /\ \A i \in DOMAIN twins : TwinOK(twins[i])
  /\ request = [o \in Operators |-> request[o]]
  /\ \A o \in Operators : RequestOK(request[o], DOMAIN twins)
  /\ shown = [o \in Operators |-> shown[o]]
  /\ \A o \in Operators : ShownOK(shown[o], DOMAIN twins)
  /\ Row(runs) /\ \A i \in DOMAIN runs : RunOK(runs[i], DOMAIN twins)

LEMMA ListedRow == ASSUME NEW s, Listed(s) PROVE Row(s) /\ DOMAIN s = 1..Len(s)
BY DEF Listed, Row

LEMMA EmptyPost == FactsOK(<<>>)
<1>1. DOMAIN <<>> = {} /\ {} \subseteq 1..0
  OBVIOUS
<1>2. PostOK(<<>>)
  BY <1>1 DEF PostOK
<1> QED  BY <1>2, EmptyRow DEF FactsOK

LEMMA CaptureOK == ASSUME NEW c \in Captures PROVE FactsOK(c)
<1>1. Row(c) /\ DOMAIN c = 1..Len(c) /\ Len(c) \in Nat
  BY InputAssumption, ListedRow DEF Listed
<1>2. PostOK(c)
  BY <1>1, InputAssumption DEF PostOK
<1> QED  BY <1>1, <1>2 DEF FactsOK

LEMMA PostedOK == ASSUME NEW text \in Texts PROVE TextOK(text)
<1>1. Row(text)
  BY InputAssumption, ListedRow
<1>2. \A i \in DOMAIN text : LineOK(text[i])
  BY InputAssumption, ListedRow DEF LineOK
<1> QED  BY <1>1, <1>2 DEF TextOK

LEMMA PlanningInit_Inv == PlanningInit => PlanningInv
<1> SUFFICES ASSUME PlanningInit PROVE PlanningInv
  OBVIOUS
<1> USE DEF PlanningInit
<1>1. FactsOK(capture) /\ FactsOK(facts)
  BY CaptureOK, EmptyPost
<1>2. Row(twins) /\ Row(runs) /\ DOMAIN twins = {} /\ DOMAIN runs = {}
  BY EmptyRow
<1>3. /\ request = [o \in Operators |-> request[o]]
      /\ \A o \in Operators : RequestOK(request[o], DOMAIN twins)
  BY DEF RequestOK
<1>4. /\ shown = [o \in Operators |-> shown[o]]
      /\ \A o \in Operators : ShownOK(shown[o], DOMAIN twins)
  BY DEF ShownOK
<1> QED  BY <1>1, <1>2, <1>3, <1>4 DEF PlanningInv

LEMMA MorePlaces ==
  ASSUME NEW P, NEW Q, P \subseteq Q
  PROVE  /\ \A q : RequestOK(q, P) => RequestOK(q, Q)
         /\ \A s : ShownOK(s, P) => ShownOK(s, Q)
         /\ \A run : RunOK(run, P) => RunOK(run, Q)
<1>1. \A q : RequestOK(q, P) => RequestOK(q, Q)
  BY DEF RequestOK
<1>2. \A s : ShownOK(s, P) => ShownOK(s, Q)
  BY DEF ShownOK
<1>3. \A run : RunOK(run, P) => RunOK(run, Q)
  BY DEF RunOK
<1> QED  BY <1>1, <1>2, <1>3

\* One request changes, and twins are only added.
LEMMA RequestChanged ==
  ASSUME PlanningInv, NEW o \in Operators, NEW q, NEW Q, DOMAIN twins \subseteq Q,
         request' = [request EXCEPT ![o] = q], RequestOK(q, Q)
  PROVE  /\ request' = [p \in Operators |-> request'[p]]
         /\ \A p \in Operators : RequestOK(request'[p], Q)
<1>1. request = [p \in Operators |-> request[p]]
  BY DEF PlanningInv
<1>2. \A p \in Operators : RequestOK(request[p], Q)
  BY MorePlaces DEF PlanningInv
<1>3. \A p \in Operators : request'[p] = IF p = o THEN q ELSE request[p]
  BY <1>1
<1>4. request' = [p \in Operators |-> request'[p]]
  BY <1>1
<1> QED  BY <1>2, <1>3, <1>4

\* Nothing but one request changes.
LEMMA OnlyRequest ==
  ASSUME PlanningInv, NEW o \in Operators, NEW q,
         request' = [request EXCEPT ![o] = q], RequestOK(q, DOMAIN twins),
         capture' = capture, facts' = facts, twins' = twins, shown' = shown, runs' = runs
  PROVE  PlanningInv'
<1>1. /\ request' = [p \in Operators |-> request'[p]]
      /\ \A p \in Operators : RequestOK(request'[p], DOMAIN twins)
  BY RequestChanged
<1> QED  BY <1>1 DEF PlanningInv

LEMMA Reconstruct_Inv == PlanningInv /\ Reconstruct => PlanningInv'
BY DEF PlanningInv, Reconstruct

LEMMA Assess_Inv == PlanningInv /\ Assess => PlanningInv'
BY DEF PlanningInv, Assess

LEMMA FindingsAreRules == Findings \subseteq DOMAIN Rules
BY DEF Findings, Failing, Judged

LEMMA BeginGet_Inv ==
  ASSUME PlanningInv, NEW o \in Operators, BeginGet(o)
  PROVE  PlanningInv'
<1> DEFINE q == [at |-> "read", custom |-> None, findings |-> Findings]
<1>1. RequestOK(q, DOMAIN twins)
  BY FindingsAreRules DEF RequestOK
<1>2. /\ request' = [request EXCEPT ![o] = q]
      /\ capture' = capture /\ facts' = facts /\ twins' = twins /\ shown' = shown /\ runs' = runs
  BY DEF BeginGet
<1> HIDE DEF q
<1> QED  BY <1>1, <1>2, OnlyRequest

LEMMA BeginPost_Inv ==
  ASSUME PlanningInv, NEW o \in Operators, BeginPost(o)
  PROVE  PlanningInv'
<1>1. PICK text \in {shown[o].rendered_proposed_config} \cup Texts :
        request' = [request EXCEPT ![o] = [at |-> "read", custom |-> text, findings |-> Findings]]
  BY DEF BeginPost
<1>2. TextOK(text)
  <2>1. ShownOK(shown[o], DOMAIN twins) /\ shown[o] # NothingShown
    BY DEF PlanningInv, BeginPost
  <2>2. TextOK(shown[o].rendered_proposed_config)
    BY <2>1 DEF ShownOK
  <2> QED  BY <2>2, PostedOK
<1> DEFINE q == [at |-> "read", custom |-> text, findings |-> Findings]
<1>3. RequestOK(q, DOMAIN twins)
  BY <1>2, FindingsAreRules DEF RequestOK
<1>4. /\ request' = [request EXCEPT ![o] = q]
      /\ capture' = capture /\ facts' = facts /\ twins' = twins /\ shown' = shown /\ runs' = runs
  BY <1>1 DEF BeginPost
<1> HIDE DEF q
<1> QED  BY <1>3, <1>4, OnlyRequest

LEMMA RowLast ==
  ASSUME NEW s, Row(s), s # <<>>
  PROVE  Len(s) \in DOMAIN s /\ Len(s) # 0
<1>1. PICK n \in Nat : s = [i \in 1..n |-> s[i]]
  BY DEF Row
<1>2. Len(s) = n /\ DOMAIN s = 1..n
  BY <1>1
<1>3. n # 0
  <2>1. n = 0 => 1 \notin DOMAIN s
    BY <1>2
  <2> QED  BY <2>1, RowHasFirst
<1> QED  BY <1>2, <1>3

LEMMA ReadRest_Inv ==
  ASSUME PlanningInv, NEW o \in Operators, ReadRest(o)
  PROVE  PlanningInv'
<1> DEFINE q == request[o]
           snapshot == build_snapshot(facts)
           assessable == facts # <<>> \/ Linked
           score == BaselineScore
           Generate(order) == run_projection(snapshot,
                                generate_remediation_proposal(snapshot, order), q.findings, score)
           posted == run_projection(snapshot, parse_text(q.custom), q.findings, score)
           Plan(twin, row) == request' = [request EXCEPT ![o] =
                               [at |-> "write", twin |-> twin, row |-> row]]
<1>1. /\ q.at = "read"
      /\ capture' = capture /\ facts' = facts /\ twins' = twins /\ shown' = shown /\ runs' = runs
  BY DEF ReadRest
<1>2. \/ q.custom # None /\ Plan(0, NewTwin(posted, assessable, "USER_PROPOSED"))
      \/ /\ q.custom = None
         /\ \E order \in SetToSeqs(q.findings) :
               Plan(0, NewTwin(Generate(order), assessable, "POLICY_GENERATED_PROPOSED"))
      \/ /\ q.custom = None /\ twins # <<>>
         /\ \E order \in SetToSeqs(q.findings) :
               Plan(Len(twins), Projected(Generate(order), assessable))
      \/ /\ q.custom = None /\ twins # <<>> /\ Plan(Len(twins), <<>>)
  BY DEF ReadRest
<1>3. q.findings \subseteq DOMAIN Rules /\ (q.custom = None \/ TextOK(q.custom))
  BY <1>1 DEF PlanningInv, RequestOK, Idle
<1>4. ASSUME NEW twin, NEW row, Plan(twin, row),
             \/ twin = 0 /\ TwinOK(row)
             \/ twin # 0 /\ twin \in DOMAIN twins /\ ColumnsOK(row)
      PROVE  PlanningInv'
  <2> DEFINE w == [at |-> "write", twin |-> twin, row |-> row]
  <2>1. RequestOK(w, DOMAIN twins)
    BY <1>4 DEF RequestOK
  <2>2. request' = [request EXCEPT ![o] = w]
    BY <1>4
  <2> HIDE DEF w
  <2> QED  BY <1>1, <2>1, <2>2, OnlyRequest
<1>5. ASSUME NEW order \in SetToSeqs(q.findings)
      PROVE  /\ TextOK(Generate(order).rendered_proposed_config)
             /\ AuditOK(Generate(order).audit) /\ AuditFixed(Generate(order).audit)
  <2> DEFINE ir == generate_remediation_proposal(snapshot, order)
             baseline == q.findings
  <2> HIDE DEF snapshot, score
  <2>1. Shaped(ir) /\ AuditFixed(Generate(order).audit)
    BY <1>3, GeneratedFixed
  <2> HIDE DEF ir, baseline
  <2>2. LET sim == run_projection(snapshot, ir, baseline, score) IN
        /\ sim.rendered_proposed_config = render(ir) /\ TextOK(render(ir)) /\ AuditOK(sim.audit)
    BY <2>1, ProjectionMade
  <2> QED  BY <2>1, <2>2 DEF ir, baseline
<1> HIDE DEF Plan
<1>6. CASE q.custom # None /\ Plan(0, NewTwin(posted, assessable, "USER_PROPOSED"))
  <2> DEFINE text == q.custom
             ir == parse_text(text)
  <2>1. Shaped(ir)
    BY <1>3, <1>6, ReadShaped
  <2> HIDE DEF snapshot, score, ir
  <2>2. /\ posted.rendered_proposed_config = render(ir) /\ TextOK(render(ir))
        /\ AuditOK(posted.audit)
    <3> DEFINE baseline == q.findings
    <3>1. posted = run_projection(snapshot, ir, baseline, score)
      BY DEF ir
    <3> HIDE DEF baseline, posted
    <3> QED  BY <2>1, <3>1, ProjectionMade
  <2> HIDE DEF posted, assessable
  <2> DEFINE kind == "USER_PROPOSED"
  <2>3. TextOK(posted.rendered_proposed_config)
    BY <2>2
  <2>4. TwinOK(NewTwin(posted, assessable, kind))
    BY <2>2, <2>3, TwinMade
  <2> QED  BY <1>4, <1>6, <2>4
<1>7. CASE \E order \in SetToSeqs(q.findings) :
              Plan(0, NewTwin(Generate(order), assessable, "POLICY_GENERATED_PROPOSED"))
  <2>1. PICK order \in SetToSeqs(q.findings) :
              Plan(0, NewTwin(Generate(order), assessable, "POLICY_GENERATED_PROPOSED"))
    BY <1>7
  <2> DEFINE sim == Generate(order)
             kind == "POLICY_GENERATED_PROPOSED"
  <2>2. TextOK(sim.rendered_proposed_config) /\ AuditOK(sim.audit) /\ AuditFixed(sim.audit)
    BY <1>5
  <2> HIDE DEF sim, assessable
  <2>3. TwinOK(NewTwin(sim, assessable, kind))
    BY <2>2, TwinMade
  <2>4. Plan(0, NewTwin(sim, assessable, kind))
    BY <2>1 DEF sim
  <2> QED  BY <1>4, <2>3, <2>4
<1>8. ASSUME twins # <<>> PROVE Len(twins) \in DOMAIN twins /\ Len(twins) # 0
  BY <1>8, RowLast DEF PlanningInv
<1>9. CASE /\ q.custom = None /\ twins # <<>>
           /\ \E order \in SetToSeqs(q.findings) :
                 Plan(Len(twins), Projected(Generate(order), assessable))
  <2>1. PICK order \in SetToSeqs(q.findings) :
              Plan(Len(twins), Projected(Generate(order), assessable))
    BY <1>9
  <2> DEFINE sim == Generate(order)
             row == Projected(sim, assessable)
  <2>2. AuditOK(sim.audit) /\ AuditFixed(sim.audit)
    BY <1>5
  <2> HIDE DEF sim, assessable
  <2>3. ColumnsOK(row)
    BY <2>2, ColumnsMade DEF ColumnsOK
  <2>4. Plan(Len(twins), row)
    BY <2>1 DEF sim
  <2> HIDE DEF row
  <2> QED  BY <1>4, <1>8, <1>9, <2>3, <2>4
<1>10. CASE q.custom = None /\ twins # <<>> /\ Plan(Len(twins), <<>>)
  <2> DEFINE row == <<>>
  <2>1. ColumnsOK(row)
    BY DEF ColumnsOK
  <2>2. Plan(Len(twins), row)
    BY <1>10
  <2> HIDE DEF row
  <2> QED  BY <1>4, <1>8, <1>10, <2>1, <2>2
<1> QED  BY <1>2, <1>6, <1>7, <1>9, <1>10

LEMMA RowEnds ==
  ASSUME NEW s, Row(s), NEW e
  PROVE  LET t == Append(s, e) IN
         /\ Len(s) + 1 \in DOMAIN t /\ t[Len(s) + 1] = e /\ DOMAIN s \subseteq DOMAIN t
<1>1. PICK n \in Nat : s = [i \in 1..n |-> s[i]]
  BY DEF Row
<1> DEFINE t == Append(s, e)
<1>2. Len(s) = n /\ DOMAIN s = 1..n
  BY <1>1
<1>3. DOMAIN t = 1..(n + 1) /\ t[n + 1] = e
  BY <1>1, <1>2
<1>4. n + 1 \in 1..(n + 1) /\ 1..n \subseteq 1..(n + 1)
  OBVIOUS
<1> HIDE DEF t
<1> QED  BY <1>2, <1>3, <1>4 DEF t

LEMMA RowExcept ==
  ASSUME NEW s, Row(s), NEW i \in DOMAIN s, NEW e
  PROVE  LET t == [s EXCEPT ![i] = e] IN
         /\ Row(t) /\ DOMAIN t = DOMAIN s
         /\ \A j \in DOMAIN s : t[j] = IF j = i THEN e ELSE s[j]
BY DEF Row

LEMMA Shows ==
  ASSUME NEW i, NEW twin, TwinOK(twin), NEW places, i \in places
  PROVE  ShownOK(TwinResponse(i, twin), places)
<1> DEFINE s == TwinResponse(i, twin)
<1>1. s.twin = i /\ s.rendered_proposed_config = twin.rendered_proposed_config
  BY DEF TwinResponse, Updated, TwinOK, TwinFields
<1> HIDE DEF s
<1>2. ShownOK(s, places)
  BY <1>1 DEF ShownOK, TwinOK
<1> QED  BY <1>2 DEF s

LEMMA CommitTwin_Inv ==
  ASSUME PlanningInv, NEW o \in Operators, CommitTwin(o)
  PROVE  PlanningInv'
<1> DEFINE q == request[o]
           i == IF q.twin = 0 THEN Len(twins) + 1 ELSE q.twin
           row == IF q.twin = 0 THEN q.row ELSE Updated(twins[i], q.row)
           posted == q.twin = 0 /\ q.row.kind = "USER_PROPOSED"
           next == IF posted THEN [at |-> "posted"] ELSE Idle
           response == TwinResponse(i, row)
<1>1. /\ q.at = "write"
      /\ twins' = IF q.twin = 0 THEN Append(twins, row) ELSE [twins EXCEPT ![i] = row]
      /\ request' = [request EXCEPT ![o] = next]
      /\ shown' = IF posted THEN shown ELSE [shown EXCEPT ![o] = response]
      /\ capture' = capture /\ facts' = facts /\ runs' = runs
  BY DEF CommitTwin
<1>2. \/ q.twin = 0 /\ TwinOK(q.row)
      \/ q.twin # 0 /\ q.twin \in DOMAIN twins /\ ColumnsOK(q.row)
  BY <1>1 DEF PlanningInv, RequestOK, Idle
<1>3. TwinOK(row)
  BY <1>2, TwinReconciled DEF PlanningInv
<1>4. /\ Row(twins') /\ DOMAIN twins \subseteq DOMAIN twins' /\ i \in DOMAIN twins'
      /\ \A j \in DOMAIN twins' : TwinOK(twins'[j])
  <2>0. Row(twins) /\ \A j \in DOMAIN twins : TwinOK(twins[j])
    BY DEF PlanningInv
  <2> HIDE DEF row
  <2>1. CASE q.twin = 0
    <3>1. twins' = Append(twins, row) /\ i = Len(twins) + 1
      BY <1>1, <2>1
    <3>2. Row(twins') /\ \A j \in DOMAIN twins' :
             (j \in DOMAIN twins /\ twins'[j] = twins[j]) \/ twins'[j] = row
      BY <2>0, <3>1, RowAppend
    <3>3. Len(twins) + 1 \in DOMAIN twins' /\ DOMAIN twins \subseteq DOMAIN twins'
      BY <2>0, <3>1, RowEnds
    <3>4. i \in DOMAIN twins'
      BY <3>1, <3>3
    <3> QED  BY <1>3, <2>0, <3>2, <3>3, <3>4
  <2>2. CASE q.twin # 0
    <3>1. i \in DOMAIN twins /\ twins' = [twins EXCEPT ![i] = row]
      BY <1>1, <1>2, <2>2
    <3> HIDE DEF i
    <3>2. /\ Row(twins') /\ DOMAIN twins' = DOMAIN twins
          /\ \A j \in DOMAIN twins : twins'[j] = IF j = i THEN row ELSE twins[j]
      BY <2>0, <3>1, RowExcept
    <3> QED  BY <1>3, <2>0, <3>1, <3>2
  <2> QED  BY <2>1, <2>2
<1>5. /\ request' = [p \in Operators |-> request'[p]]
      /\ \A p \in Operators : RequestOK(request'[p], DOMAIN twins')
  <2>1. RequestOK(next, DOMAIN twins')
    BY DEF RequestOK
  <2> HIDE DEF next
  <2> QED  BY <1>1, <1>4, <2>1, RequestChanged
<1>6. /\ shown' = [p \in Operators |-> shown'[p]]
      /\ \A p \in Operators : ShownOK(shown'[p], DOMAIN twins')
  <2>0. shown = [p \in Operators |-> shown[p]]
    BY DEF PlanningInv
  <2>1. \A p \in Operators : ShownOK(shown[p], DOMAIN twins')
    BY <1>4, MorePlaces DEF PlanningInv
  <2> HIDE DEF row, i
  <2>2. ShownOK(response, DOMAIN twins')
    BY <1>3, <1>4, Shows
  <2> HIDE DEF response, posted
  <2>3. CASE shown' = shown
    BY <2>0, <2>1, <2>3
  <2>4. CASE shown' = [shown EXCEPT ![o] = response]
    <3>1. \A p \in Operators : shown'[p] = IF p = o THEN response ELSE shown[p]
      BY <2>0, <2>4
    <3>2. shown' = [p \in Operators |-> shown'[p]]
      BY <2>0, <2>4
    <3> QED  BY <2>1, <2>2, <3>1, <3>2
  <2> QED  BY <1>1, <2>3, <2>4
<1>7. \A j \in DOMAIN runs : RunOK(runs[j], DOMAIN twins')
  BY <1>4, MorePlaces DEF PlanningInv
<1>8. FactsOK(capture) /\ FactsOK(facts) /\ Row(runs)
  BY DEF PlanningInv
<1> HIDE DEF q, i, row, posted, next, response
<1> QED  BY <1>1, <1>4, <1>5, <1>6, <1>7, <1>8 DEF PlanningInv

LEMMA ApplyProposal_Inv ==
  ASSUME PlanningInv, NEW o \in Operators, NEW confirmed, ApplyProposal(o, confirmed)
  PROVE  PlanningInv'
<1> DEFINE s == shown[o]
           run == [twin |-> s.twin, status |-> "CREATED",
                   approval |-> [approved_proposal_hash |-> s.proposal_hash,
                                 diff |-> twins[s.twin].text_diff,
                                 projection |-> twins[s.twin].audit],
                   verification |-> None]
<1>1. /\ s # NothingShown /\ runs' = Append(runs, run)
      /\ capture' = capture /\ facts' = facts /\ twins' = twins /\ request' = request
      /\ shown' = shown
  BY DEF ApplyProposal
<1>2. s.twin \in DOMAIN twins
  BY <1>1 DEF PlanningInv, ShownOK
<1>3. RunOK(run, DOMAIN twins)
  BY <1>2 DEF RunOK
<1> HIDE DEF run, s
<1>4. Row(runs) /\ \A j \in DOMAIN runs : RunOK(runs[j], DOMAIN twins)
  BY DEF PlanningInv
<1>5. /\ Row(runs')
      /\ \A j \in DOMAIN runs' :
           (j \in DOMAIN runs /\ runs'[j] = runs[j]) \/ runs'[j] = run
  BY <1>1, <1>4, RowAppend
<1>6. \A j \in DOMAIN runs' : RunOK(runs'[j], DOMAIN twins)
  BY <1>3, <1>4, <1>5
<1> QED  BY <1>1, <1>5, <1>6 DEF PlanningInv

LEMMA Verify_Inv ==
  ASSUME PlanningInv, NEW i \in DOMAIN runs, NEW keys,
         NEW applied \in BOOLEAN, NEW judged \in BOOLEAN, NEW healthy \in BOOLEAN,
         NEW analysed \in BOOLEAN, NEW early,
         Verify(i, applied, keys, early, judged, healthy, analysed)
  PROVE  PlanningInv'
<1> DEFINE run == runs[i]
           twin == twins[run.twin]
           fs == IF applied
                 THEN synthesize_projected_facts(parse_text(twin.rendered_proposed_config))
                 ELSE facts
           post == Without(fs, keys)
           failing == IF judged THEN Failing(post) ELSE {}
           obligations == twin.audit.proof_obligations
           result == compare(obligations, Findings, failing, PostEntries(post, judged, early),
                             healthy, analysed)
           v == [result |-> result, post |-> post, judged |-> judged]
           back == [run EXCEPT !.status = "ROLLED_BACK"]
           done == [run EXCEPT !.status = "COMPLETED", !.verification = v]
           new == IF result.has_security_regression THEN back ELSE done
<1>1. /\ runs' = [runs EXCEPT ![i] = new]
      /\ capture' = capture /\ facts' = facts /\ twins' = twins /\ request' = request
      /\ shown' = shown
  BY DEF Verify, PostFacts
<1>2. RunOK(run, DOMAIN twins)
  BY DEF PlanningInv
<1>3. TwinOK(twin)
  BY <1>2 DEF PlanningInv, RunOK
<1>4. PostOK(post)
  <2> HIDE DEF twin
  <2>1. applied => PostOK(fs)
    BY <1>3, ProjectedPost DEF TwinOK
  <2>2. ~applied => PostOK(fs)
    BY DEF PlanningInv, FactsOK
  <2> HIDE DEF fs
  <2> QED  BY <2>1, <2>2, PostWithout
<1>5. \A o \in obligations : \E t \in Templates : o.target_rule = t.rule_id
  BY <1>3 DEF TwinOK, AuditOK
<1>6. ObservedResult(v)
  <2> HIDE DEF post, obligations
  <2> DEFINE baseline == Findings
  <2>1. result = compare(obligations, baseline, IF judged THEN Failing(post) ELSE {},
                         PostEntries(post, judged, early), healthy, analysed)
    OBVIOUS
  <2> HIDE DEF baseline, result
  <2>2. result.result = "RESOLVED" =>
           /\ judged
           /\ \A o \in DOMAIN result.claims : /\ o.target_rule \in Judged(post, "PASS")
                                              /\ o.target_rule \notin Failing(post)
    BY <1>4, <1>5, <2>1, ResolvedIsObserved
  <2>3. v.result = result /\ v.post = post
    OBVIOUS
  <2>4. v.judged = judged
    OBVIOUS
  <2>5. result.result = "RESOLVED" => v.judged
    BY <2>2
  <2> HIDE DEF v
  <2> QED  BY <2>2, <2>3, <2>5 DEF ObservedResult
<1> HIDE DEF run, result, v
<1>7. RunOK(back, DOMAIN twins) /\ RunOK(done, DOMAIN twins)
  BY <1>2, <1>6 DEF RunOK
<1>8. RunOK(new, DOMAIN twins)
  BY <1>7
<1> HIDE DEF new
<1>9. Row(runs) /\ \A j \in DOMAIN runs : RunOK(runs[j], DOMAIN twins)
  BY DEF PlanningInv
<1>10. /\ Row(runs') /\ DOMAIN runs' = DOMAIN runs
       /\ \A j \in DOMAIN runs : runs'[j] = IF j = i THEN new ELSE runs[j]
  BY <1>1, <1>9, RowExcept
<1>11. \A j \in DOMAIN runs' : RunOK(runs'[j], DOMAIN twins)
  BY <1>8, <1>9, <1>10
<1> QED  BY <1>1, <1>10, <1>11 DEF PlanningInv

LEMMA PlanningNext_Inv == PlanningInv /\ [PlanningNext]_planningVars => PlanningInv'
<1> SUFFICES ASSUME PlanningInv, [PlanningNext]_planningVars PROVE PlanningInv'
  OBVIOUS
<1>1. CASE Reconstruct
  BY <1>1, Reconstruct_Inv
<1>2. CASE Assess
  BY <1>2, Assess_Inv
<1>3. ASSUME NEW o \in Operators, BeginGet(o) PROVE PlanningInv'
  BY <1>3, BeginGet_Inv
<1>4. ASSUME NEW o \in Operators, BeginPost(o) PROVE PlanningInv'
  BY <1>4, BeginPost_Inv
<1>5. ASSUME NEW o \in Operators, ReadRest(o) PROVE PlanningInv'
  BY <1>5, ReadRest_Inv
<1>6. ASSUME NEW o \in Operators, CommitTwin(o) PROVE PlanningInv'
  BY <1>6, CommitTwin_Inv
<1>7. ASSUME NEW o \in Operators, NEW confirmed \in BOOLEAN, ApplyProposal(o, confirmed)
      PROVE  PlanningInv'
  BY <1>7, ApplyProposal_Inv
<1>8. ASSUME NEW i \in DOMAIN runs, NEW keys \in SUBSET Unobserved,
             NEW applied \in BOOLEAN, NEW judged \in BOOLEAN, NEW healthy \in BOOLEAN,
             NEW analysed \in BOOLEAN, NEW early,
             Verify(i, applied, keys, early, judged, healthy, analysed)
      PROVE  PlanningInv'
  BY <1>8, Verify_Inv
<1>9. CASE UNCHANGED planningVars
  <2>1. /\ capture' = capture /\ facts' = facts /\ twins' = twins /\ request' = request
        /\ shown' = shown /\ runs' = runs
    BY <1>9 DEF planningVars
  <2> QED  BY <2>1 DEF PlanningInv
<1> QED  BY <1>1, <1>2, <1>3, <1>4, <1>5, <1>6, <1>7, <1>8, <1>9 DEF PlanningNext

\* The invariant of the requests, the twins and the runs.
THEOREM PlanningInvariant == PlanningSpec => []PlanningInv
<1> QED  BY PlanningInit_Inv, PlanningNext_Inv, PTL DEF PlanningSpec

\* Whatever the bundle, the captures and the order of the findings: the
\* projection of a generated proposal leaves no rule failing that a template
\* targets, and no reconciliation takes that back.
THEOREM ProposalsFixTargets == PlanningSpec => []GeneratedFixesTargets
<1>1. PlanningInv => GeneratedFixesTargets
  BY DEF PlanningInv, TwinOK, AuditFixed, GeneratedFixesTargets, Targeted
<1> QED  BY <1>1, PlanningInvariant, PTL

\* A run is reported as resolved only if its capture was assessed and every
\* obligation's rule passed on observed evidence and failed nowhere in it.
THEOREM ResolvedOnEvidence == PlanningSpec => []VerifiedIsObserved
<1>1. PlanningInv => VerifiedIsObserved
  BY DEF PlanningInv, RunOK, ObservedResult, VerifiedIsObserved
<1> QED  BY <1>1, PlanningInvariant, PTL

=============================================================================
