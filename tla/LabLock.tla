------------------------------ MODULE LabLock ------------------------------
(***************************************************************************)
(* The file mutex lab/runtime/lab.lock that serialises everything that     *)
(* touches the strongSwan testbed: LabResourceTracker.acquire_lock and     *)
(* release_lock, and the lock check of the remediation preflight.          *)
(*                                                                         *)
(* One tracker object belongs to one run and acquires the lock at most     *)
(* once, so a run also names the tracker and the inode its write_text may  *)
(* create.  Every run executes on a host: the runs that share the API      *)
(* server's event loop have one host (acquire_lock is synchronous code, so *)
(* nothing else of that loop executes while it is inside), a CLI run is a  *)
(* host of its own.                                                        *)
(***************************************************************************)
EXTENDS Naturals, FiniteSets

CONSTANTS
  Runs,         \* runs (remediation runs and lab experiments)
  Hosts,        \* operating-system processes that execute runs
  HostOf,       \* [Runs -> Hosts]
  Remediation,  \* the runs that are remediation runs; the rest are experiments
  NoCleanup,    \* the experiments started with --no-cleanup
  LongHolds,    \* may a lock file grow older than 600 seconds?
  Crashes,      \* may a host die?
  IOFaults,     \* the runs whose write or unlink of the lock file may raise OSError
  NoRun         \* absence of a run or of an inode

ASSUME LockAssumption ==
  /\ HostOf \in [Runs -> Hosts]
  /\ Remediation \subseteq Runs
  /\ NoCleanup \subseteq Runs \ Remediation
  /\ LongHolds \in BOOLEAN
  /\ Crashes \in BOOLEAN
  /\ IOFaults \subseteq Runs
  /\ NoRun \notin Runs

VARIABLES
  pc,       \* pc[r]: where run r is
  entry,    \* the inode the directory entry lab.lock names, or NoRun
  stamp,    \* stamp[i]: what inode i holds: nothing, a fresh or an old TIMESTAMP
  fd        \* fd[r]: the inode run r's write_text has open, or NoRun

lockVars == <<pc, entry, stamp, fd>>

(***************************************************************************)
(* Where a run is.  "idle" .. "ready" precede acquire_lock; "try" and      *)
(* "again" are the loop head on the first and on later iterations; "open"  *)
(* and "write" are the two halves of write_text; "inspect" and "recover"   *)
(* are the stale check; "held" is the body that runs under the lock.       *)
(***************************************************************************)
Acquiring == {"try", "again", "open", "write", "inspect", "recover"}
Final     == {"done", "refused", "crashed"}
PCs       == {"idle", "ready", "held"} \cup Acquiring \cup Final

Stamps == {"empty", "fresh", "old"}

\* TypeOK.  The types of the variables; a descriptor of lab.lock is open
\* exactly between the two halves of write_text.
TypeOK ==
  /\ pc \in [Runs -> PCs]
  /\ entry \in Runs \cup {NoRun}
  /\ stamp \in [Runs -> Stamps]
  /\ fd \in [Runs -> Runs \cup {NoRun}]
  /\ \A r \in Runs : fd[r] \in Runs <=> pc[r] = "write"

Init ==
  /\ pc = [r \in Runs |-> "idle"]
  /\ entry = NoRun
  /\ stamp = [r \in Runs |-> "empty"]
  /\ fd = [r \in Runs |-> NoRun]

-----------------------------------------------------------------------------
Goto(r, to) == pc' = [pc EXCEPT ![r] = to]

(***************************************************************************)
(* A run may take a step of its own only while no other run of its host is *)
(* inside acquire_lock, whose loop sleeps with time.sleep and so keeps the *)
(* event loop.                                                             *)
(***************************************************************************)
Scheduled(r) ==
  \A q \in Runs \ {r} : HostOf[q] = HostOf[r] => pc[q] \notin Acquiring

(***************************************************************************)
(* run_preflight_checks, check 5: a remediation run does not go on when    *)
(* the lock file exists, whatever its age.                                 *)
(***************************************************************************)
Preflight(r) ==
  /\ pc[r] = "idle"
  /\ r \in Remediation
  /\ Scheduled(r)
  /\ Goto(r, IF entry = NoRun THEN "ready" ELSE "refused")
  /\ UNCHANGED <<entry, stamp, fd>>

\* replay_scenario on a host that is not ready ends before the lock.
DoctorRefuses(r) ==
  /\ pc[r] = "idle"
  /\ r \notin Remediation
  /\ Scheduled(r)
  /\ Goto(r, "refused")
  /\ UNCHANGED <<entry, stamp, fd>>

\* Experiments do not look at the lock; remediation runs arrive from Preflight.
CallAcquire(r) ==
  /\ IF r \in Remediation THEN pc[r] = "ready" ELSE pc[r] = "idle"
  /\ Scheduled(r)
  /\ Goto(r, "try")
  /\ UNCHANGED <<entry, stamp, fd>>

\* if not self.lock_file.exists()
TestFree(r) ==
  /\ pc[r] \in {"try", "again"}
  /\ Goto(r, IF entry = NoRun THEN "open" ELSE "inspect")
  /\ UNCHANGED <<entry, stamp, fd>>

\* write_text opens with mode "w": it creates the file or truncates the one
\* that meanwhile exists.
OpenForWrite(r) ==
  /\ pc[r] = "open"
  /\ LET inode == IF entry = NoRun THEN r ELSE entry
     IN /\ entry' = inode
        /\ stamp' = [stamp EXCEPT ![inode] = "empty"]
        /\ fd' = [fd EXCEPT ![r] = inode]
  /\ Goto(r, "write")

\* ... then writes PID, RUN_ID and TIMESTAMP through the open descriptor.
WriteStamp(r) ==
  /\ pc[r] = "write"
  /\ stamp' = [stamp EXCEPT ![fd[r]] = "fresh"]
  /\ fd' = [fd EXCEPT ![r] = NoRun]
  /\ Goto(r, "held")
  /\ UNCHANGED entry

\* write_text raises OSError while opening or while writing: "except OSError:
\* pass", and the iteration goes on with the stale check.
WriteFails(r) ==
  /\ r \in IOFaults
  /\ pc[r] \in {"open", "write"}
  /\ fd' = [fd EXCEPT ![r] = NoRun]
  /\ Goto(r, "inspect")
  /\ UNCHANGED <<entry, stamp>>

(***************************************************************************)
(* The stale check reads the file.  A missing file raises and is ignored;  *)
(* a file without a TIMESTAMP line counts as written at time 0.            *)
(***************************************************************************)
InspectAge(r) ==
  /\ pc[r] = "inspect"
  /\ Goto(r, IF entry /= NoRun /\ stamp[entry] /= "fresh" THEN "recover" ELSE "again")
  /\ UNCHANGED <<entry, stamp, fd>>

\* self.lock_file.unlink(missing_ok=True); continue
ForceRecovery(r) ==
  /\ pc[r] = "recover"
  /\ entry' = NoRun
  /\ Goto(r, "again")
  /\ UNCHANGED <<stamp, fd>>

\* Mutant of GiveUp: the loop condition never becomes false.
GiveUp_Never(r) == FALSE /\ UNCHANGED lockVars

\* The loop ends after timeout_sec: LabConcurrencyError.
GiveUp(r) ==
  /\ pc[r] = "again"
  /\ Goto(r, "refused")
  /\ UNCHANGED <<entry, stamp, fd>>

\* Mutant of ReleaseLock: the finally block forgets the unlink.
ReleaseLock_Forgotten(r) ==
  /\ pc[r] = "held"
  /\ Scheduled(r)
  /\ Goto(r, "done")
  /\ UNCHANGED <<entry, stamp, fd>>

(***************************************************************************)
(* release_lock: unlink whatever lab.lock now names.  The caller has       *)
(* _acquired_lock; nothing compares RUN_ID.                                *)
(***************************************************************************)
ReleaseLock(r) ==
  /\ pc[r] = "held"
  /\ r \notin NoCleanup
  /\ Scheduled(r)
  /\ entry' = NoRun
  /\ Goto(r, "done")
  /\ UNCHANGED <<stamp, fd>>

\* An experiment with cleanup_after false ends without release_lock.
EndWithoutCleanup(r) ==
  /\ pc[r] = "held"
  /\ r \in NoCleanup
  /\ Goto(r, "done")
  /\ UNCHANGED <<entry, stamp, fd>>

\* release_lock only warns about an OSError; the run ends all the same.
ReleaseFails(r) ==
  /\ r \in IOFaults \ NoCleanup
  /\ pc[r] = "held"
  /\ Scheduled(r)
  /\ Goto(r, "done")
  /\ UNCHANGED <<entry, stamp, fd>>

\* Six hundred seconds pass over a written lock file.
Expire(i) ==
  /\ LongHolds
  /\ stamp[i] = "fresh"
  /\ stamp' = [stamp EXCEPT ![i] = "old"]
  /\ UNCHANGED <<pc, entry, fd>>

\* A host dies with the runs it was executing; the lock file stays.  A run
\* that was not started yet ("idle") meets the restarted process.
Crash(h) ==
  /\ Crashes
  /\ \E r \in Runs : HostOf[r] = h /\ pc[r] \notin Final \cup {"idle"}
  /\ pc' = [r \in Runs |->
              IF HostOf[r] = h /\ pc[r] \notin Final \cup {"idle"} THEN "crashed" ELSE pc[r]]
  /\ fd' = [r \in Runs |-> IF HostOf[r] = h THEN NoRun ELSE fd[r]]
  /\ UNCHANGED <<entry, stamp>>

AcquireStep(r) ==
  \/ TestFree(r) \/ OpenForWrite(r) \/ WriteStamp(r) \/ WriteFails(r)
  \/ InspectAge(r) \/ ForceRecovery(r) \/ GiveUp(r)

RunStep(r) ==
  \/ Preflight(r) \/ DoctorRefuses(r) \/ CallAcquire(r) \/ AcquireStep(r)
  \/ ReleaseLock(r) \/ EndWithoutCleanup(r) \/ ReleaseFails(r)

\* Every run has ended one way or another.
Finished == (\A r \in Runs : pc[r] \in Final) /\ UNCHANGED lockVars

Next ==
  \/ \E r \in Runs : RunStep(r)
  \/ \E i \in Runs : Expire(i)
  \/ \E h \in Hosts : Crash(h)
  \/ Finished

Spec == Init /\ [][Next]_lockVars

(***************************************************************************)
(* Fairness: a process keeps executing its runs (every command under the   *)
(* lock has a timeout), and the wall clock ends the acquire loop: a run    *)
(* cannot be at the loop head for ever without the condition failing.      *)
(***************************************************************************)
Fairness ==
  \A r \in Runs : WF_lockVars(RunStep(r)) /\ SF_lockVars(GiveUp(r))

FairSpec == Spec /\ Fairness

-----------------------------------------------------------------------------
(***************************************************************************)
(* MutualExclusion.  Two runs are never under the lock at the same time:   *)
(* "Prevents concurrent lab executions via a filesystem mutex lock".       *)
(***************************************************************************)
MutualExclusion ==
  \A r, q \in Runs : pc[r] = "held" /\ pc[q] = "held" => r = q

(***************************************************************************)
(* OwnLockFile.  While a run is under the lock, lab.lock is the file this  *)
(* run wrote, so that the unlink of release_lock, which compares nothing,  *)
(* removes the run's own file.                                             *)
(***************************************************************************)
OwnLockFile ==
  \A r \in Runs : pc[r] = "held" => entry = r

(***************************************************************************)
(* NoOrphanLock.  A lock file outlives the run that created it only if     *)
(* that run's process died, it was started with --no-cleanup or its own    *)
(* file operations may fail: no interleaving of acquire_lock and           *)
(* release_lock, not even a race, a stale takeover or the I/O error of     *)
(* another run, leaves one behind.                                         *)
(***************************************************************************)
NoOrphanLock ==
  entry /= NoRun =>
    \/ pc[entry] \in {"write", "held", "crashed"}
    \/ entry \in NoCleanup \cup IOFaults

(***************************************************************************)
(* RunsEnd.  No run waits for the lock for ever: each one that started     *)
(* reaches its end, acquired, refused or crashed.                          *)
(***************************************************************************)
RunsEnd ==
  \A r \in Runs : pc[r] \in Acquiring \cup {"ready", "held"} ~> pc[r] \in Final
=============================================================================
