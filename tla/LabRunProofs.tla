---------------------------- MODULE LabRunProofs ----------------------------
(***************************************************************************)
(* For the lock of module LabLock, any number of runs and processes:       *)
(*                                                                         *)
(*   TypeCorrect    the type invariant;                                    *)
(*   OneHostMutex   with one process and no lock older than 600 seconds    *)
(*                  the lock excludes, even if the process dies and is     *)
(*                  restarted and file operations fail;                    *)
(*   NoLeak         only a crash, --no-cleanup or a run's own I/O error    *)
(*                  leaves a lock file behind, whatever number of          *)
(*                  processes compete.                                     *)
(*                                                                         *)
(* For experiments, any runs, scenarios and hosts:                         *)
(*                                                                         *)
(* LeftInv: what a run has on the host its tracker knows, or the cleanup   *)
(* tried to remove in vain, unless its process died.                       *)
(*                                                                         *)
(* CableInv: while nobody swept, the ends of the cable a run is about to   *)
(* move lie in the host's namespace under its name, and no other end has   *)
(* that device name there.                                                 *)
(*                                                                         *)
(* JudgeInv: what a run has observed did happen to it, and a VALIDATED     *)
(* status rests on what it has observed.                                   *)
(*                                                                         *)
(* LabStepsAreLockSteps: to the lock file, an experiment does nothing but  *)
(* what module LabLock says, whose theorems so hold of experiments.        *)
(***************************************************************************)
EXTENDS LabRun, TLAPS

-----------------------------------------------------------------------------
(* The lock.                                                               *)

USE DEF Acquiring, Final, PCs, Stamps

LEMMA TypeInductive == TypeOK /\ [Next]_lockVars => TypeOK'
<1> SUFFICES ASSUME TypeOK, [Next]_lockVars
             PROVE  TypeOK'
  OBVIOUS
<1> USE LockAssumption DEF TypeOK
<1>1. CASE UNCHANGED lockVars
  BY <1>1 DEF lockVars
<1>2. ASSUME NEW r \in Runs, RunStep(r)
      PROVE  TypeOK'
  <2>1. CASE Preflight(r) \/ DoctorRefuses(r) \/ CallAcquire(r)
    BY <2>1 DEF Preflight, DoctorRefuses, CallAcquire, Goto
  <2>2. CASE TestFree(r) \/ InspectAge(r) \/ ForceRecovery(r) \/ GiveUp(r)
    BY <2>2 DEF TestFree, InspectAge, ForceRecovery, GiveUp, Goto
  <2>3. CASE OpenForWrite(r)
    BY <2>3 DEF OpenForWrite, Goto
  <2>4. CASE WriteStamp(r) \/ WriteFails(r)
    BY <2>4 DEF WriteStamp, WriteFails, Goto
  <2>5. CASE ReleaseLock(r) \/ EndWithoutCleanup(r) \/ ReleaseFails(r)
    BY <2>5 DEF ReleaseLock, EndWithoutCleanup, ReleaseFails, Goto
  <2> QED  BY <1>2, <2>1, <2>2, <2>3, <2>4, <2>5 DEF RunStep, AcquireStep
<1>3. ASSUME NEW i \in Runs, Expire(i)
      PROVE  TypeOK'
  BY <1>3 DEF Expire
<1>4. ASSUME NEW h \in Hosts, Crash(h)
      PROVE  TypeOK'
  BY <1>4 DEF Crash
<1>5. CASE Finished
  BY <1>5 DEF Finished, lockVars
<1> QED  BY <1>1, <1>2, <1>3, <1>4, <1>5 DEF Next

(***************************************************************************)
(* TypeCorrect.  Every reachable state of the lock protocol is well typed. *)
(***************************************************************************)
THEOREM TypeCorrect == Spec => []TypeOK
<1>1. Init => TypeOK
  BY LockAssumption DEF Init, TypeOK
<1> QED  BY <1>1, TypeInductive, PTL DEF Spec

-----------------------------------------------------------------------------
\* One process executes every run and no lock file grows old.
OneHost ==
  /\ \A r, q \in Runs : HostOf[r] = HostOf[q]
  /\ ~LongHolds

(***************************************************************************)
(* The strengthening of MutualExclusion.  Only one run is inside           *)
(* acquire_lock, and what that run last saw of the lock file is still so,  *)
(* because nothing else of its process runs; a holder's file is in place   *)
(* and carries a fresh stamp, so nobody may force its recovery.            *)
(***************************************************************************)
OneInside ==
  \A r, q \in Runs : pc[r] \in Acquiring /\ pc[q] \in Acquiring => r = q

HolderFile ==
  \A r \in Runs : pc[r] = "held" => entry = r /\ stamp[r] = "fresh"

SeesTruth ==
  \A r \in Runs :
    /\ pc[r] = "open" => entry = NoRun
    /\ pc[r] = "write" => entry = r /\ fd[r] = r
    /\ pc[r] = "recover" => \A q \in Runs : pc[q] /= "held"

LockInv == TypeOK /\ OneInside /\ HolderFile /\ SeesTruth

LEMMA LockInvInductive ==
  ASSUME OneHost
  PROVE  LockInv /\ [Next]_lockVars => LockInv'
<1> SUFFICES ASSUME LockInv, [Next]_lockVars
             PROVE  OneInside' /\ HolderFile' /\ SeesTruth'
  BY TypeInductive DEF LockInv
<1> USE LockAssumption, OneHost DEF LockInv, TypeOK, OneInside, HolderFile, SeesTruth, OneHost
<1>1. CASE UNCHANGED lockVars
  BY <1>1 DEF lockVars
<1>2. ASSUME NEW r \in Runs, RunStep(r)
      PROVE  OneInside' /\ HolderFile' /\ SeesTruth'
  <2>1. CASE Preflight(r) \/ DoctorRefuses(r)
    BY <2>1 DEF Preflight, DoctorRefuses, Goto
  <2>2. CASE CallAcquire(r)
    BY <2>2 DEF CallAcquire, Scheduled, Goto
  <2>3. CASE TestFree(r)
    BY <2>3 DEF TestFree, Goto
  <2>4. CASE OpenForWrite(r)
    BY <2>4 DEF OpenForWrite, Goto
  <2>5. CASE WriteStamp(r)
    BY <2>5 DEF WriteStamp, Goto
  <2>6. CASE WriteFails(r)
    BY <2>6 DEF WriteFails, Goto
  <2>7. CASE InspectAge(r)
    BY <2>7 DEF InspectAge, Goto
  <2>8. CASE ForceRecovery(r)
    BY <2>8 DEF ForceRecovery, Goto
  <2>9. CASE GiveUp(r)
    BY <2>9 DEF GiveUp, Goto
  <2>10. CASE ReleaseLock(r)
    BY <2>10 DEF ReleaseLock, Scheduled, Goto
  <2>11. CASE ReleaseFails(r) \/ EndWithoutCleanup(r)
    BY <2>11 DEF ReleaseFails, EndWithoutCleanup, Goto
  <2> QED  BY <1>2, <2>1, <2>2, <2>3, <2>4, <2>5, <2>6, <2>7, <2>8, <2>9, <2>10, <2>11
           DEF RunStep, AcquireStep
<1>3. ASSUME NEW i \in Runs, Expire(i)
      PROVE  FALSE
  BY <1>3 DEF Expire
<1>4. ASSUME NEW h \in Hosts, Crash(h)
      PROVE  OneInside' /\ HolderFile' /\ SeesTruth'
  BY <1>4 DEF Crash
<1>5. CASE Finished
  BY <1>5 DEF Finished, lockVars
<1> QED  BY <1>1, <1>2, <1>3, <1>4, <1>5 DEF Next

(***************************************************************************)
(* OneHostMutex.  All runs on the API server's event loop, no lock older   *)
(* than 600 seconds: acquire_lock excludes, although it tests for the file *)
(* and writes it in two steps, and a run under the lock owns the file its  *)
(* release_lock unlinks.                                                   *)
(***************************************************************************)
THEOREM OneHostMutex ==
  ASSUME OneHost
  PROVE  Spec => [](MutualExclusion /\ OwnLockFile)
<1>1. Init => LockInv
  BY LockAssumption DEF Init, LockInv, TypeOK, OneInside, HolderFile, SeesTruth
<1>2. LockInv => MutualExclusion /\ OwnLockFile
  BY DEF LockInv, HolderFile, MutualExclusion, OwnLockFile
<1>3. LockInv /\ [Next]_lockVars => LockInv'
  BY LockInvInductive, OneHost
<1> QED  BY <1>1, <1>2, <1>3, PTL DEF Spec

-----------------------------------------------------------------------------
LEMMA NoOrphanInductive == TypeOK /\ NoOrphanLock /\ [Next]_lockVars => NoOrphanLock'
<1> SUFFICES ASSUME TypeOK, NoOrphanLock, [Next]_lockVars
             PROVE  NoOrphanLock'
  OBVIOUS
<1> USE LockAssumption DEF TypeOK, NoOrphanLock
<1>1. CASE UNCHANGED lockVars
  BY <1>1 DEF lockVars
<1>2. ASSUME NEW r \in Runs, RunStep(r)
      PROVE  NoOrphanLock'
  <2>1. CASE OpenForWrite(r) \/ WriteStamp(r)
    BY <2>1 DEF OpenForWrite, WriteStamp, Goto
  <2>2. CASE ForceRecovery(r) \/ ReleaseLock(r)
    BY <2>2 DEF ForceRecovery, ReleaseLock
  <2>3. CASE \/ Preflight(r) \/ DoctorRefuses(r) \/ CallAcquire(r) \/ TestFree(r)
             \/ InspectAge(r) \/ GiveUp(r)
    BY <2>3 DEF Preflight, DoctorRefuses, CallAcquire, TestFree, InspectAge, GiveUp, Goto
  <2>4. CASE WriteFails(r) \/ ReleaseFails(r) \/ EndWithoutCleanup(r)
    BY <2>4 DEF WriteFails, ReleaseFails, EndWithoutCleanup, Goto
  <2> QED  BY <1>2, <2>1, <2>2, <2>3, <2>4 DEF RunStep, AcquireStep
<1>3. CASE (\E i \in Runs : Expire(i)) \/ (\E h \in Hosts : Crash(h)) \/ Finished
  BY <1>3 DEF Expire, Crash, Finished, lockVars
<1> QED  BY <1>1, <1>2, <1>3 DEF Next

(***************************************************************************)
(* NoLeak.  Every path of acquire_lock and release_lock, interleaved with  *)
(* any number of other processes, even while the lock excludes nobody      *)
(* (race or stale takeover), leaves a lock file only to a run that is      *)
(* going to unlink it, to one whose process died, to one that was told not *)
(* to clean up, or to one whose own write or unlink may raise OSError.     *)
(***************************************************************************)
THEOREM NoLeak == Spec => []NoOrphanLock
<1>1. Init => NoOrphanLock
  BY DEF Init, NoOrphanLock
<1> QED  BY <1>1, NoOrphanInductive, TypeCorrect, PTL DEF Spec

HIDE DEF Acquiring, Final, PCs, Stamps

-----------------------------------------------------------------------------
(* The scripts: every pair of veth ends is moved as soon as it is made.    *)

Row(s) == \E S : s \in Seq(S)

\* A link is followed by the moves of its ends, and a move follows its link.
Chained(s) ==
  /\ Row(s)
  /\ \A i \in 1..Len(s) : s[i].op = "link" =>
       /\ i + 2 <= Len(s) /\ s[i].a # s[i].b
       /\ s[i + 1].op = "move" /\ s[i + 1].dev = s[i].a
       /\ s[i + 2].op = "move" /\ s[i + 2].dev = s[i].b
  /\ \A i \in 1..Len(s) : s[i].op = "move" =>
       \/ i - 1 \in 1..Len(s) /\ s[i - 1].op = "link"
       \/ i - 2 \in 1..Len(s) /\ s[i - 2].op = "link"

LEMMA RowsJoin ==
  ASSUME NEW s, NEW t, Row(s), Row(t)
  PROVE  /\ Row(s \o t) /\ Len(s) \in Nat /\ Len(t) \in Nat
         /\ Len(s \o t) = Len(s) + Len(t)
         /\ \A i \in 1..Len(s) : (s \o t)[i] = s[i]
         /\ \A i \in 1..Len(t) : (s \o t)[Len(s) + i] = t[i]
<1>1. PICK S, T : s \in Seq(S) /\ t \in Seq(T)
  BY DEF Row
<1>2. s \in Seq(S \cup T) /\ t \in Seq(S \cup T)
  BY <1>1
<1>3. s \o t \in Seq(S \cup T)
  BY <1>2
<1> QED  BY <1>2, <1>3 DEF Row

LEMMA ChainsJoin ==
  ASSUME NEW s, NEW t, Chained(s), Chained(t)
  PROVE  Chained(s \o t)
<1> DEFINE u == s \o t
           m == Len(s)
           n == Len(t)
<1>1. /\ Row(u) /\ m \in Nat /\ n \in Nat /\ Len(u) = m + n
      /\ \A i \in 1..m : u[i] = s[i]
      /\ \A i \in 1..n : u[m + i] = t[i]
  BY RowsJoin DEF Chained
<1>2. \A i \in 1..(m + n) : i \in 1..m \/ (i - m \in 1..n /\ i = m + (i - m))
  BY <1>1
<1> HIDE DEF u
<1>3. ASSUME NEW i \in 1..(m + n), u[i].op = "link"
      PROVE  /\ i + 2 <= m + n /\ u[i].a # u[i].b
             /\ u[i + 1].op = "move" /\ u[i + 1].dev = u[i].a
             /\ u[i + 2].op = "move" /\ u[i + 2].dev = u[i].b
  <2>1. CASE i \in 1..m
    <3>1. /\ i + 2 <= m /\ s[i].a # s[i].b
          /\ s[i + 1].op = "move" /\ s[i + 1].dev = s[i].a
          /\ s[i + 2].op = "move" /\ s[i + 2].dev = s[i].b
      BY <1>1, <1>3, <2>1 DEF Chained
    <3>2. i + 1 \in 1..m /\ i + 2 \in 1..m
      BY <1>1, <2>1, <3>1
    <3> QED  BY <1>1, <2>1, <3>1, <3>2
  <2>2. CASE i - m \in 1..n /\ i = m + (i - m)
    <3> DEFINE j == i - m
    <3>1. j \in 1..n /\ u[i] = t[j]
      BY <1>1, <2>2
    <3> HIDE DEF j
    <3>2. /\ j + 2 <= n /\ t[j].a # t[j].b
          /\ t[j + 1].op = "move" /\ t[j + 1].dev = t[j].a
          /\ t[j + 2].op = "move" /\ t[j + 2].dev = t[j].b
      BY <1>3, <3>1 DEF Chained
    <3>3. j + 1 \in 1..n /\ j + 2 \in 1..n
      BY <1>1, <3>1, <3>2
    <3>4. u[m + (j + 1)] = t[j + 1] /\ u[m + (j + 2)] = t[j + 2]
      BY <1>1, <3>3
    <3>5. m + (j + 1) = i + 1 /\ m + (j + 2) = i + 2 /\ i + 2 <= m + n
      BY <1>1, <3>2, <3>1 DEF j
    <3> QED  BY <3>1, <3>2, <3>4, <3>5
  <2> QED  BY <1>2, <2>1, <2>2
<1>4. ASSUME NEW i \in 1..(m + n), u[i].op = "move"
      PROVE  \/ i - 1 \in 1..(m + n) /\ u[i - 1].op = "link"
             \/ i - 2 \in 1..(m + n) /\ u[i - 2].op = "link"
  <2>1. CASE i \in 1..m
    <3>1. \/ i - 1 \in 1..m /\ s[i - 1].op = "link"
          \/ i - 2 \in 1..m /\ s[i - 2].op = "link"
      BY <1>1, <1>4, <2>1 DEF Chained
    <3> QED  BY <1>1, <3>1
  <2>2. CASE i - m \in 1..n /\ i = m + (i - m)
    <3> DEFINE j == i - m
    <3>1. j \in 1..n /\ u[i] = t[j]
      BY <1>1, <2>2
    <3>2. i - 1 = m + (j - 1) /\ i - 2 = m + (j - 2)
      BY <1>1
    <3> HIDE DEF j
    <3>3. \/ j - 1 \in 1..n /\ t[j - 1].op = "link"
          \/ j - 2 \in 1..n /\ t[j - 2].op = "link"
      BY <1>4, <3>1 DEF Chained
    <3>4. CASE j - 1 \in 1..n /\ t[j - 1].op = "link"
      <4>1. u[i - 1] = t[j - 1]
        BY <1>1, <3>2, <3>4
      <4>2. i - 1 \in 1..(m + n)
        BY <1>1, <3>2, <3>4
      <4> QED  BY <3>4, <4>1, <4>2
    <3>5. CASE j - 2 \in 1..n /\ t[j - 2].op = "link"
      <4>1. u[i - 2] = t[j - 2]
        BY <1>1, <3>2, <3>5
      <4>2. i - 2 \in 1..(m + n)
        BY <1>1, <3>2, <3>5
      <4> QED  BY <3>5, <4>1, <4>2
    <3> QED  BY <3>3, <3>4, <3>5
  <2> QED  BY <1>2, <2>1, <2>2
<1>5. Len(u) = m + n
  BY <1>1
<1> HIDE DEF m, n
<1>6. \A i \in 1..Len(u) : u[i].op = "link" =>
        /\ i + 2 <= Len(u) /\ u[i].a # u[i].b
        /\ u[i + 1].op = "move" /\ u[i + 1].dev = u[i].a
        /\ u[i + 2].op = "move" /\ u[i + 2].dev = u[i].b
  BY <1>3, <1>5
<1>7. \A i \in 1..Len(u) : u[i].op = "move" =>
        \/ i - 1 \in 1..Len(u) /\ u[i - 1].op = "link"
        \/ i - 2 \in 1..Len(u) /\ u[i - 2].op = "link"
  BY <1>4, <1>5
<1>8. Chained(u)
  BY <1>1, <1>6, <1>7 DEF Chained
<1> QED  BY <1>8 DEF u

LEMMA PlainChained ==
  ASSUME NEW s, Row(s), \A i \in 1..Len(s) : s[i].op \notin {"link", "move"}
  PROVE  Chained(s)
BY DEF Chained

LEMMA OneChained ==
  ASSUME NEW c, c.op \notin {"link", "move"}
  PROVE  Chained(<<c>>)
<1>1. <<c>> \in Seq({c})
  OBVIOUS
<1>2. Row(<<c>>)
  BY <1>1 DEF Row
<1> QED  BY <1>2, PlainChained

LEMMA ThreeChained ==
  ASSUME NEW x, NEW y, NEW z,
         \A c \in {x, y, z} : c.op \notin {"link", "move"}
  PROVE  Chained(<<x, y, z>>)
<1> DEFINE s == <<x, y, z>>
<1>1. s \in Seq({x, y, z})
  OBVIOUS
<1>2. Len(s) = 3 /\ s[1] = x /\ s[2] = y /\ s[3] = z
  OBVIOUS
<1> HIDE DEF s
<1>3. \A i \in 1..Len(s) : s[i].op \notin {"link", "move"}
  BY <1>2
<1>4. Chained(s)
  BY <1>1, <1>3, PlainChained DEF Row
<1> QED  BY <1>4 DEF s

LEMMA NoneChained == Chained(<<>>)
<1>1. <<>> \in Seq({})
  OBVIOUS
<1>2. Row(<<>>)
  BY <1>1 DEF Row
<1> QED  BY <1>2, PlainChained

LEMMA LinkChained ==
  ASSUME NEW a, NEW at, NEW b, NEW bt, a # b
  PROVE  Chained(Link(a, at, b, bt))
<1> DEFINE x == [op |-> "link", a |-> a, b |-> b]
           y == [op |-> "move", dev |-> a, ns |-> at]
           z == [op |-> "move", dev |-> b, ns |-> bt]
<1>1. /\ x.op = "link" /\ x.a = a /\ x.b = b
      /\ y.op = "move" /\ y.dev = a /\ z.op = "move" /\ z.dev = b
  OBVIOUS
<1>2. Link(a, at, b, bt) = <<x, y, z>>
  BY DEF Link
<1> HIDE DEF x, y, z
<1> DEFINE s == <<x, y, z>>
<1>3. s \in Seq({x, y, z})
  OBVIOUS
<1>4. Len(s) = 3 /\ s[1] = x /\ s[2] = y /\ s[3] = z
  OBVIOUS
<1> HIDE DEF s
<1>5. \A i \in 1..Len(s) : i = 1 \/ i = 2 \/ i = 3
  BY <1>4
<1>6. \A i \in 1..Len(s) : s[i].op = "link" => i = 1
  BY <1>1, <1>4, <1>5
<1>7. \A i \in 1..Len(s) : s[i].op = "move" =>
        \/ i - 1 \in 1..Len(s) /\ s[i - 1].op = "link"
        \/ i - 2 \in 1..Len(s) /\ s[i - 2].op = "link"
  BY <1>1, <1>4, <1>5
<1>8. Row(s)
  BY <1>3 DEF Row
<1>9. Chained(s)
  BY <1>1, <1>4, <1>6, <1>7, <1>8 DEF Chained
<1> QED  BY <1>2, <1>9 DEF s

LEMMA ScriptChained ==
  ASSUME NEW r \in Runs
  PROVE  Chained(Script(r))
<1>1. Chained(setup_tunnel_topology)
  BY OneChained, LinkChained, ChainsJoin DEF setup_tunnel_topology
<1>2. Chained(setup_transport_topology)
  BY OneChained, LinkChained, ChainsJoin DEF setup_transport_topology
<1>3. Chained(Topology(ScenarioOf[r]))
  BY <1>1, <1>2 DEF Topology
<1>4. ASSUME NEW p PROVE Chained(PeerSteps(p))
  <2> DEFINE x == [op |-> "prepare", peer |-> p]
             y == [op |-> "charon", peer |-> p]
             z == [op |-> "load", peer |-> p]
  <2>1. x.op \notin {"link", "move"} /\ y.op \notin {"link", "move"} /\ z.op \notin {"link", "move"}
    OBVIOUS
  <2>2. PeerSteps(p) = <<x, y, z>>
    BY DEF PeerSteps
  <2> HIDE DEF x, y, z
  <2> QED  BY <2>1, <2>2, ThreeChained
<1>5. Chained(<<[op |-> "netem", ns |-> "wan", iface |-> "br-wan"]>>)
  BY OneChained
<1>6. Chained(<<WanCapture>>)
  BY OneChained DEF WanCapture
<1>7. Chained(PlainCapture(r))
  <2>1. ASSUME NEW w, NEW n, NEW i
        PROVE  Chained(<<[op |-> "capture", what |-> w, ns |-> n, iface |-> i]>>)
    BY OneChained
  <2> QED  BY <2>1, NoneChained DEF PlainCapture
<1>8. Chained(<<[op |-> "initiate"], [op |-> "poll"], [op |-> "traffic"], [op |-> "collect"]>>)
  <2> DEFINE x == [op |-> "initiate"]
             y == [op |-> "poll"]
             z == [op |-> "traffic"]
             w == [op |-> "collect"]
  <2>1. /\ x.op \notin {"link", "move"} /\ y.op \notin {"link", "move"}
        /\ z.op \notin {"link", "move"} /\ w.op \notin {"link", "move"}
    OBVIOUS
  <2> HIDE DEF x, y, z, w
  <2> DEFINE s == <<x, y, z, w>>
  <2>2. s \in Seq({x, y, z, w})
    OBVIOUS
  <2>3. Len(s) = 4 /\ s[1] = x /\ s[2] = y /\ s[3] = z /\ s[4] = w
    OBVIOUS
  <2> HIDE DEF s
  <2>4. \A i \in 1..Len(s) : s[i].op \notin {"link", "move"}
    BY <2>1, <2>3
  <2>5. Chained(s)
    BY <2>2, <2>4, PlainChained DEF Row
  <2> QED  BY <2>5 DEF s, x, y, z, w
<1> QED  BY <1>3, <1>4, <1>5, <1>6, <1>7, <1>8, ChainsJoin, NoneChained DEF Script

-----------------------------------------------------------------------------
(* What the runs have on the host.                                         *)

\* From f to g only the value at r changes, and becomes v.
Moves(f, g, r, v) ==
  DOMAIN g = DOMAIN f /\ g[r] = v /\ \A q \in DOMAIN f : q # r => g[q] = f[q]

LEMMA MovesTo ==
  ASSUME NEW f, NEW r \in DOMAIN f, NEW v, NEW g, g = [f EXCEPT ![r] = v]
  PROVE  Moves(f, g, r, v)
BY DEF Moves

LEMMA StaysAt ==
  ASSUME NEW f, NEW r, NEW g, g = f
  PROVE  Moves(f, g, r, f[r])
BY DEF Moves

\* A run r at place at of the lock and stg of its body, with tracker t.
RunOK(r, at, stg, t, stored) ==
  /\ at = "crashed" => stg = "start"
  /\ stg \in {"start", "script", "final"} /\ at # "crashed" => r \notin stored
  /\ stg = "ended" /\ r \in stored \ NoCleanup => t.netns = {} /\ t.pids = {} /\ t.paths = {}
  /\ DOMAIN t = {"netns", "pids", "paths"} /\ t.netns \subseteq {r} \X NamespaceNames

LeftInv ==
  /\ DOMAIN pc = Runs /\ DOMAIN stage = Runs /\ DOMAIN tracker = Runs
  /\ \A r \in Runs : RunOK(r, pc[r], stage[r], tracker[r], manifests)
  /\ manifests \subseteq Runs /\ netns \subseteq Runs \X NamespaceNames
  /\ \A n \in netns : pc[n[1]] # "crashed" => n \in tracker[n[1]].netns \cup undone
  /\ \A p \in procs : p[1] \in Runs /\ (pc[p[1]] # "crashed" => p \in tracker[p[1]].pids \cup undone)
  /\ \A f \in files : /\ f[1] \in Runs
                      /\ pc[f[1]] # "crashed" /\ f[2] = "conf" =>
                           f[3] \in tracker[f[1]].paths \/ f \in undone

\* What a cleanup tried in vain stays on record.
Remembers == undone \subseteq undone'

\* A step of run r whose tracker t then knows everything it has.
LEMMA LeftMoves ==
  ASSUME LeftInv, Remembers, NEW r \in Runs, NEW at, NEW stg, NEW t,
         pc[r] # "crashed",
         Moves(pc, pc', r, at), Moves(stage, stage', r, stg), Moves(tracker, tracker', r, t),
         manifests' \in {manifests, manifests \cup {r}},
         RunOK(r, at, stg, t, manifests'),
         \A n \in netns' : (n \in netns /\ (n[1] # r \/ n \in undone')) \/ n \in t.netns,
         \A p \in procs' : \/ p \in procs /\ (p[1] # r \/ p \in undone')
                           \/ p[1] = r /\ p \in t.pids,
         \A f \in files' : \/ f \in files /\ (f[1] # r \/ f \in undone')
                           \/ f[1] = r /\ (f[2] = "conf" => f[3] \in t.paths)
  PROVE  LeftInv'
<1>1. /\ DOMAIN pc' = Runs /\ DOMAIN stage' = Runs /\ DOMAIN tracker' = Runs
      /\ pc'[r] = at /\ stage'[r] = stg /\ tracker'[r] = t
      /\ \A q \in Runs \ {r} : pc'[q] = pc[q] /\ stage'[q] = stage[q] /\ tracker'[q] = tracker[q]
  BY DEF LeftInv, Moves
<1>2. \A q \in Runs : RunOK(q, pc'[q], stage'[q], tracker'[q], manifests')
  <2> SUFFICES ASSUME NEW q \in Runs, q # r
               PROVE  RunOK(q, pc'[q], stage'[q], tracker'[q], manifests')
    BY <1>1
  <2>1. RunOK(q, pc[q], stage[q], tracker[q], manifests)
    BY DEF LeftInv
  <2> QED  BY <1>1, <2>1 DEF RunOK
<1>3. t.netns \subseteq {r} \X NamespaceNames
  BY DEF RunOK
<1>4. manifests' \subseteq Runs /\ netns' \subseteq Runs \X NamespaceNames
  BY <1>3 DEF LeftInv
<1>5. \A n \in netns' : pc'[n[1]] # "crashed" => n \in tracker'[n[1]].netns \cup undone'
  <2> SUFFICES ASSUME NEW n \in netns', pc'[n[1]] # "crashed"
               PROVE  n \in tracker'[n[1]].netns \cup undone'
    OBVIOUS
  <2>1. n[1] \in Runs
    BY <1>4
  <2>2. CASE n \in netns /\ n[1] # r
    BY <1>1, <2>1, <2>2 DEF LeftInv, Remembers
  <2>3. CASE n \in t.netns
    BY <1>1, <1>3, <2>3
  <2> QED  BY <2>2, <2>3
<1>6. \A p \in procs' : p[1] \in Runs /\ (pc'[p[1]] # "crashed" => p \in tracker'[p[1]].pids \cup undone')
  <2> SUFFICES ASSUME NEW p \in procs'
               PROVE  p[1] \in Runs /\ (pc'[p[1]] # "crashed" => p \in tracker'[p[1]].pids \cup undone')
    OBVIOUS
  <2>1. CASE p \in procs /\ p[1] # r
    BY <1>1, <2>1 DEF LeftInv, Remembers
  <2>2. CASE p[1] = r /\ p \in t.pids
    BY <1>1, <2>2
  <2>3. CASE p \in procs /\ p \in undone'
    BY <2>3 DEF LeftInv
  <2> QED  BY <2>1, <2>2, <2>3
<1>7. \A f \in files' : /\ f[1] \in Runs
                        /\ pc'[f[1]] # "crashed" /\ f[2] = "conf" =>
                             f[3] \in tracker'[f[1]].paths \/ f \in undone'
  <2> SUFFICES ASSUME NEW f \in files'
               PROVE  /\ f[1] \in Runs
                      /\ pc'[f[1]] # "crashed" /\ f[2] = "conf" =>
                           f[3] \in tracker'[f[1]].paths \/ f \in undone'
    OBVIOUS
  <2>1. CASE f \in files /\ f[1] # r
    BY <1>1, <2>1 DEF LeftInv, Remembers
  <2>2. CASE f[1] = r /\ (f[2] = "conf" => f[3] \in t.paths)
    BY <1>1, <2>2
  <2>3. CASE f \in files /\ f \in undone'
    BY <2>3 DEF LeftInv
  <2> QED  BY <2>1, <2>2, <2>3
<1> QED  BY <1>1, <1>2, <1>4, <1>5, <1>6, <1>7 DEF LeftInv

\* One whose tracker learns nothing, for it has nothing new but plain files.
LEMMA LeftStays ==
  ASSUME LeftInv, Remembers, NEW r \in Runs, NEW at, NEW stg,
         pc[r] # "crashed",
         Moves(pc, pc', r, at), Moves(stage, stage', r, stg), UNCHANGED tracker,
         manifests' \in {manifests, manifests \cup {r}},
         RunOK(r, at, stg, tracker[r], manifests'),
         netns' \subseteq netns, procs' \subseteq procs,
         \A f \in files' : f \in files \/ (f[1] = r /\ f[2] # "conf")
  PROVE  LeftInv'
<1> DEFINE t == tracker[r]
<1>1. Moves(tracker, tracker', r, t)
  BY StaysAt
<1>2. \A n \in netns' : (n \in netns /\ (n[1] # r \/ n \in undone')) \/ n \in t.netns
  BY DEF LeftInv, Remembers
<1>3. \A p \in procs' : \/ p \in procs /\ (p[1] # r \/ p \in undone')
                        \/ p[1] = r /\ p \in t.pids
  BY DEF LeftInv, Remembers
<1>4. \A f \in files' : \/ f \in files /\ (f[1] # r \/ f \in undone')
                        \/ f[1] = r /\ (f[2] = "conf" => f[3] \in t.paths)
  BY DEF LeftInv, Remembers
<1>5. RunOK(r, at, stg, t, manifests')
  OBVIOUS
<1> HIDE DEF t
<1> QED  BY <1>1, <1>2, <1>3, <1>4, <1>5, LeftMoves

\* A command of the script ends with Advance or Raise.
LEMMA ScriptMoves ==
  ASSUME LeftInv, Remembers, NEW r \in Runs, Body(r), stage[r] = "script", Advance(r) \/ Raise(r)
  PROVE  /\ pc[r] = "held" /\ Moves(pc, pc', r, "held")
         /\ \E stg \in {"script", "final"} : Moves(stage, stage', r, stg)
<1>1. pc[r] = "held" /\ pc' = pc
  BY DEF Body, lockVars
<1>2. Moves(pc, pc', r, "held")
  BY <1>1, StaysAt
<1>3. CASE Advance(r)
  <2>1. stage' = stage
    BY <1>3 DEF Advance
  <2>2. Moves(stage, stage', r, "script")
    BY <2>1, StaysAt
  <2> QED  BY <1>1, <1>2, <2>2
<1>4. CASE Raise(r)
  <2>1. stage' = [stage EXCEPT ![r] = "final"]
    BY <1>4 DEF Raise
  <2>2. Moves(stage, stage', r, "final")
    BY <2>1, MovesTo DEF LeftInv
  <2> QED  BY <1>1, <1>2, <2>2
<1> QED  BY <1>3, <1>4

\* Commands that register nothing and create nothing that has to be.
LEMMA PlainCommands ==
  ASSUME LeftInv, Remembers, NEW r \in Runs, Body(r), stage[r] = "script", Advance(r) \/ Raise(r),
         UNCHANGED tracker, UNCHANGED manifests,
         netns' \subseteq netns, procs' \subseteq procs,
         \A f \in files' : f \in files \/ (f[1] = r /\ f[2] # "conf")
  PROVE  LeftInv'
<1>1. /\ pc[r] = "held" /\ Moves(pc, pc', r, "held")
      /\ \E stg \in {"script", "final"} : Moves(stage, stage', r, stg)
  BY ScriptMoves
<1>2. PICK stg \in {"script", "final"} : Moves(stage, stage', r, stg)
  BY <1>1
<1>3. RunOK(r, "held", stg, tracker[r], manifests')
  BY <1>1, <1>2 DEF LeftInv, RunOK
<1>4. manifests' \in {manifests, manifests \cup {r}}
  OBVIOUS
<1> QED  BY <1>1, <1>2, <1>3, <1>4, LeftStays

\* Commands whose tracker t is told of all they create.
LEMMA TrackedCommands ==
  ASSUME LeftInv, Remembers, NEW r \in Runs, Body(r), stage[r] = "script", Advance(r) \/ Raise(r),
         NEW t, Moves(tracker, tracker', r, t), UNCHANGED manifests,
         DOMAIN t = {"netns", "pids", "paths"}, t.netns \subseteq {r} \X NamespaceNames,
         tracker[r].netns \subseteq t.netns, tracker[r].pids \subseteq t.pids,
         tracker[r].paths \subseteq t.paths,
         \A n \in netns' : n \in netns \/ n \in t.netns,
         \A p \in procs' : p \in procs \/ (p[1] = r /\ p \in t.pids),
         \A f \in files' : f \in files \/ (f[1] = r /\ (f[2] = "conf" => f[3] \in t.paths))
  PROVE  LeftInv'
<1>1. /\ pc[r] = "held" /\ Moves(pc, pc', r, "held")
      /\ \E stg \in {"script", "final"} : Moves(stage, stage', r, stg)
  BY ScriptMoves
<1>2. PICK stg \in {"script", "final"} : Moves(stage, stage', r, stg)
  BY <1>1
<1>3. RunOK(r, "held", stg, t, manifests')
  BY <1>1, <1>2 DEF LeftInv, RunOK
<1>4. manifests' \in {manifests, manifests \cup {r}}
  OBVIOUS
<1>5. \A n \in netns' : (n \in netns /\ (n[1] # r \/ n \in undone')) \/ n \in t.netns
  BY <1>1 DEF LeftInv, Remembers
<1>6. \A p \in procs' : \/ p \in procs /\ (p[1] # r \/ p \in undone')
                        \/ p[1] = r /\ p \in t.pids
  BY <1>1 DEF LeftInv, Remembers
<1>7. \A f \in files' : \/ f \in files /\ (f[1] # r \/ f \in undone')
                        \/ f[1] = r /\ (f[2] = "conf" => f[3] \in t.paths)
  BY <1>1 DEF LeftInv, Remembers
<1>8. pc[r] # "crashed"
  BY <1>1
<1> QED  BY <1>1, <1>2, <1>3, <1>4, <1>5, <1>6, <1>7, <1>8, LeftMoves

TrackerFields == {"netns", "pids", "paths"}

LEMMA Tracks ==
  ASSUME LeftInv, Remembers, NEW r \in Runs, NEW what \in TrackerFields, NEW things, Track(r, what, things)
  PROVE  \E t : /\ Moves(tracker, tracker', r, t) /\ DOMAIN t = TrackerFields
                /\ t[what] = tracker[r][what] \cup things
                /\ \A o \in TrackerFields \ {what} : t[o] = tracker[r][o]
<1> DEFINE u == tracker[r]
           t == [u EXCEPT ![what] = @ \cup things]
<1>1. tracker' = [tracker EXCEPT ![r] = t]
  BY DEF Track
<1>2. DOMAIN tracker = Runs /\ DOMAIN u = TrackerFields
  BY DEF LeftInv, RunOK, TrackerFields
<1>3. /\ DOMAIN t = TrackerFields /\ t[what] = u[what] \cup things
      /\ \A o \in TrackerFields \ {what} : t[o] = u[o]
  <2> HIDE DEF u
  <2> QED  BY <1>2
<1> HIDE DEF t
<1>4. Moves(tracker, tracker', r, t)
  BY <1>1, <1>2, MovesTo
<1> QED  BY <1>3, <1>4

LEMMA FewIn ==
  ASSUME NEW S, NEW a \in S, NEW b \in S, NEW c \in S, NEW d \in S, NEW e \in S
  PROVE  /\ Len(<<a, b, c, d, e>>) = 5 /\ \A i \in 1..5 : <<a, b, c, d, e>>[i] \in S
         /\ Len(<<a, b, c>>) = 3 /\ \A i \in 1..3 : <<a, b, c>>[i] \in S
<1>1. /\ \A i \in 1..5 : i = 1 \/ i = 2 \/ i = 3 \/ i = 4 \/ i = 5
      /\ \A i \in 1..3 : i = 1 \/ i = 2 \/ i = 3
  OBVIOUS
<1> DEFINE s == <<a, b, c, d, e>>
           t == <<a, b, c>>
<1>2. Len(s) = 5 /\ s[1] = a /\ s[2] = b /\ s[3] = c /\ s[4] = d /\ s[5] = e
  OBVIOUS
<1>3. Len(t) = 3 /\ t[1] = a /\ t[2] = b /\ t[3] = c
  OBVIOUS
<1> HIDE DEF s, t
<1>4. /\ Len(s) = 5 /\ \A i \in 1..5 : s[i] \in S
      /\ Len(t) = 3 /\ \A i \in 1..3 : t[i] \in S
  BY <1>1, <1>2, <1>3
<1> QED  BY <1>4 DEF s, t

\* The namespaces of a run have its name.
LEMMA NamespacesOfRun ==
  ASSUME NEW r \in Runs, NEW k \in 0..Len(OwnNamespaces(r))
  PROVE  /\ AllNamespaces(r) \subseteq {r} \X NamespaceNames
         /\ FirstNamespaces(r, k) \subseteq AllNamespaces(r)
<1> DEFINE names == Namespaces(ScenarioOf[r].topology)
<1>1. Len(names) \in Nat /\ \A i \in 1..Len(names) : names[i] \in NamespaceNames
  <2>1. names = <<"cli", "gwa", "wan", "gwb", "srv">> \/ names = <<"peera", "wan", "peerb">>
    BY DEF Namespaces
  <2>2. {"cli", "gwa", "wan", "gwb", "srv", "peera", "peerb"} \subseteq NamespaceNames
    BY DEF NamespaceNames
  <2> HIDE DEF names
  <2> QED  BY <2>1, <2>2, FewIn
<1> HIDE DEF names
<1> DEFINE own == OwnNamespaces(r)
<1>2. own = [i \in 1..Len(names) |-> <<r, names[i]>>]
  BY DEF OwnNamespaces, names
<1> HIDE DEF own
<1>3. Len(own) = Len(names) /\ \A i \in 1..Len(names) : own[i] = <<r, names[i]>>
  BY <1>1, <1>2
<1>4. ASSUME NEW i \in 1..Len(own) PROVE own[i] \in {r} \X NamespaceNames
  <2>1. own[i] = <<r, names[i]>> /\ names[i] \in NamespaceNames
    BY <1>1, <1>3
  <2> QED  BY <2>1
<1>5. k \in 0..Len(own)
  BY DEF own
<1>6. /\ {own[i] : i \in 1..Len(own)} \subseteq {r} \X NamespaceNames
      /\ {own[i] : i \in 1..k} \subseteq {own[i] : i \in 1..Len(own)}
  BY <1>1, <1>3, <1>4, <1>5
<1> QED  BY <1>6 DEF AllNamespaces, FirstNamespaces, own

LEMMA AddNamespacesLeft ==
  ASSUME LeftInv, Remembers, NEW r \in Runs, AddNamespaces(r)
  PROVE  LeftInv'
<1>1. /\ stage[r] = "script" /\ Body(r)
      /\ Advance(r) \/ Raise(r)
      /\ Track(r, "netns", AllNamespaces(r))
      /\ UNCHANGED procs /\ UNCHANGED files /\ UNCHANGED manifests
  BY DEF AddNamespaces, AtCmd
<1>2. PICK k \in 0..Len(OwnNamespaces(r)) : netns' = netns \cup FirstNamespaces(r, k)
  BY DEF AddNamespaces
<1>3. PICK t : /\ Moves(tracker, tracker', r, t) /\ DOMAIN t = TrackerFields
               /\ t["netns"] = tracker[r]["netns"] \cup AllNamespaces(r)
               /\ \A o \in TrackerFields \ {"netns"} : t[o] = tracker[r][o]
  BY <1>1, Tracks DEF TrackerFields
<1>4. /\ DOMAIN t = {"netns", "pids", "paths"}
      /\ t.netns = tracker[r].netns \cup AllNamespaces(r)
      /\ t.pids = tracker[r].pids /\ t.paths = tracker[r].paths
  BY <1>3 DEF TrackerFields
<1>5. t.netns \subseteq {r} \X NamespaceNames
  BY <1>4, NamespacesOfRun, <1>2 DEF LeftInv, RunOK
<1>6. \A n \in netns' : n \in netns \/ n \in t.netns
  BY <1>2, <1>4, NamespacesOfRun
<1>7. /\ tracker[r].netns \subseteq t.netns /\ tracker[r].pids \subseteq t.pids
      /\ tracker[r].paths \subseteq t.paths
  BY <1>4
<1>8. \A p \in procs' : p \in procs \/ (p[1] = r /\ p \in t.pids)
  BY <1>1
<1>9. \A f \in files' : f \in files \/ (f[1] = r /\ (f[2] = "conf" => f[3] \in t.paths))
  BY <1>1
<1> QED  BY <1>1, <1>3, <1>4, <1>5, <1>6, <1>7, <1>8, <1>9, TrackedCommands

LEMMA PreparePeerLeft ==
  ASSUME LeftInv, Remembers, NEW r \in Runs, PreparePeer(r)
  PROVE  LeftInv'
<1> DEFINE peer == Cmd(r).peer
           dir  == <<r, "dir", peer>>
           conf == <<r, "conf", peer>>
<1>1. /\ stage[r] = "script" /\ Body(r)
      /\ Advance(r) \/ Raise(r)
      /\ UNCHANGED netns /\ UNCHANGED procs /\ UNCHANGED manifests
      /\ \/ files' \subseteq files \cup {dir, conf} /\ Track(r, "paths", {peer})
         \/ files' \subseteq files \cup {dir} /\ UNCHANGED tracker
  BY DEF PreparePeer, AtCmd
<1> HIDE DEF peer
<1>2. CASE files' \subseteq files \cup {dir, conf} /\ Track(r, "paths", {peer})
  <2>1. PICK t : /\ Moves(tracker, tracker', r, t) /\ DOMAIN t = TrackerFields
                 /\ t["paths"] = tracker[r]["paths"] \cup {peer}
                 /\ \A o \in TrackerFields \ {"paths"} : t[o] = tracker[r][o]
    BY <1>2, Tracks DEF TrackerFields
  <2>2. /\ DOMAIN t = {"netns", "pids", "paths"}
        /\ t.paths = tracker[r].paths \cup {peer}
        /\ t.pids = tracker[r].pids /\ t.netns = tracker[r].netns
    BY <2>1 DEF TrackerFields
  <2>3. t.netns \subseteq {r} \X NamespaceNames
    BY <2>2 DEF LeftInv, RunOK
  <2>4. \A f \in files' : f \in files \/ (f[1] = r /\ (f[2] = "conf" => f[3] \in t.paths))
    BY <1>2, <2>2
  <2>5. /\ \A n \in netns' : n \in netns \/ n \in t.netns
        /\ \A p \in procs' : p \in procs \/ (p[1] = r /\ p \in t.pids)
    BY <1>1
  <2>6. /\ tracker[r].netns \subseteq t.netns /\ tracker[r].pids \subseteq t.pids
        /\ tracker[r].paths \subseteq t.paths
    BY <2>2
  <2> QED  BY <1>1, <2>1, <2>2, <2>3, <2>4, <2>5, <2>6, TrackedCommands
<1>3. CASE files' \subseteq files \cup {dir} /\ UNCHANGED tracker
  <2>1. \A f \in files' : f \in files \/ (f[1] = r /\ f[2] # "conf")
    BY <1>3
  <2> QED  BY <1>1, <1>3, <2>1, PlainCommands
<1> QED  BY <1>1, <1>2, <1>3

\* A process that is started is one the tracker has been told of.
LEMMA ProcessStarts ==
  ASSUME LeftInv, Remembers, NEW r \in Runs, Body(r), stage[r] = "script", Advance(r) \/ Raise(r),
         NEW proc, proc[1] = r, Track(r, "pids", {proc}),
         UNCHANGED netns, UNCHANGED manifests, procs' \subseteq procs \cup {proc},
         \A f \in files' : f \in files \/ (f[1] = r /\ f[2] # "conf")
  PROVE  LeftInv'
<1>1. PICK t : /\ Moves(tracker, tracker', r, t) /\ DOMAIN t = TrackerFields
               /\ t["pids"] = tracker[r]["pids"] \cup {proc}
               /\ \A o \in TrackerFields \ {"pids"} : t[o] = tracker[r][o]
  BY Tracks DEF TrackerFields
<1>2. /\ DOMAIN t = {"netns", "pids", "paths"}
      /\ t.pids = tracker[r].pids \cup {proc}
      /\ t.paths = tracker[r].paths /\ t.netns = tracker[r].netns
  BY <1>1 DEF TrackerFields
<1>3. t.netns \subseteq {r} \X NamespaceNames
  BY <1>2 DEF LeftInv, RunOK
<1>4. \A p \in procs' : p \in procs \/ (p[1] = r /\ p \in t.pids)
  BY <1>2
<1>5. /\ \A n \in netns' : n \in netns \/ n \in t.netns
      /\ \A f \in files' : f \in files \/ (f[1] = r /\ (f[2] = "conf" => f[3] \in t.paths))
  OBVIOUS
<1>6. /\ tracker[r].netns \subseteq t.netns /\ tracker[r].pids \subseteq t.pids
      /\ tracker[r].paths \subseteq t.paths
  BY <1>2
<1> QED  BY <1>1, <1>2, <1>3, <1>4, <1>5, <1>6, TrackedCommands

LEMMA StartCharonLeft ==
  ASSUME LeftInv, Remembers, NEW r \in Runs, StartCharon(r)
  PROVE  LeftInv'
<1> DEFINE proc == <<r, Daemon(Cmd(r).peer), PeerNs(ScenarioOf[r], Cmd(r).peer)>>
<1>1. /\ stage[r] = "script" /\ Body(r)
      /\ Advance(r) \/ Raise(r)
      /\ UNCHANGED netns /\ UNCHANGED files /\ UNCHANGED manifests
      /\ Track(r, "pids", {proc})
      /\ procs' = procs \cup {proc} \/ UNCHANGED procs
  BY DEF StartCharon, AtCmd, RunChecked
<1>2. proc[1] = r
  OBVIOUS
<1> HIDE DEF proc
<1>3. procs' \subseteq procs \cup {proc}
  BY <1>1
<1>4. \A f \in files' : f \in files \/ (f[1] = r /\ f[2] # "conf")
  BY <1>1
<1> QED  BY <1>1, <1>2, <1>3, <1>4, ProcessStarts

LEMMA StartCaptureLeft ==
  ASSUME LeftInv, Remembers, NEW r \in Runs, StartCapture(r)
  PROVE  LeftInv'
<1> DEFINE proc == <<r, Cmd(r).what, Cmd(r).ns>>
           pcap == <<r, "pcap", Cmd(r).what>>
<1>1. /\ stage[r] = "script" /\ Body(r)
      /\ Advance(r) \/ Raise(r)
      /\ UNCHANGED netns /\ UNCHANGED manifests
      /\ \/ procs' = procs \cup {proc} /\ files' = files \cup {pcap} /\ Track(r, "pids", {proc})
         \/ UNCHANGED procs /\ UNCHANGED tracker /\ UNCHANGED files
  BY DEF StartCapture, AtCmd
<1>2. proc[1] = r /\ pcap[1] = r /\ pcap[2] # "conf"
  OBVIOUS
<1> HIDE DEF proc, pcap
<1>3. CASE procs' = procs \cup {proc} /\ files' = files \cup {pcap} /\ Track(r, "pids", {proc})
  <2>1. procs' \subseteq procs \cup {proc}
    BY <1>3
  <2>2. \A f \in files' : f \in files \/ (f[1] = r /\ f[2] # "conf")
    BY <1>2, <1>3
  <2> QED  BY <1>1, <1>2, <1>3, <2>1, <2>2, ProcessStarts
<1>4. CASE UNCHANGED procs /\ UNCHANGED tracker /\ UNCHANGED files
  BY <1>1, <1>4, PlainCommands
<1> QED  BY <1>1, <1>3, <1>4

\* The other commands of the script.
LEMMA ScriptLeft ==
  ASSUME LeftInv, Remembers, NEW r \in Runs,
         \/ AddLink(r) \/ MoveLink(r) \/ ConfigureInside(r) \/ ApplyImpairment(r)
         \/ LoadConfiguration(r) \/ Initiate(r) \/ PollSa(r) \/ Ping(r) \/ RunWorkload(r)
  PROVE  LeftInv'
<1>1. /\ stage[r] = "script" /\ Body(r)
      /\ Advance(r) \/ Raise(r)
      /\ UNCHANGED netns /\ UNCHANGED procs /\ UNCHANGED files
      /\ UNCHANGED tracker /\ UNCHANGED manifests
  BY DEF AddLink, MoveLink, ConfigureInside, ApplyImpairment, LoadConfiguration, Initiate,
         PollSa, Ping, RunWorkload, AtCmd, RunChecked
<1> QED  BY <1>1, PlainCommands

LEMMA CollectEvidenceLeft ==
  ASSUME LeftInv, Remembers, NEW r \in Runs, CollectEvidence(r)
  PROVE  LeftInv'
<1>1. /\ stage[r] = "script" /\ pc[r] = "held" /\ pc' = pc
      /\ stage' = [stage EXCEPT ![r] = "final"]
      /\ UNCHANGED netns /\ UNCHANGED tracker /\ UNCHANGED manifests
      /\ procs' \subseteq procs
      /\ files' = files \cup CopiedCaptures(r) \/ UNCHANGED files
  BY DEF CollectEvidence, AtCmd, Body, lockVars, Kill, Raise
<1>2. \A f \in files' : f \in files \/ (f[1] = r /\ f[2] # "conf")
  BY <1>1 DEF CopiedCaptures
<1>3. Moves(pc, pc', r, "held") /\ Moves(stage, stage', r, "final")
  BY <1>1, StaysAt, MovesTo DEF LeftInv
<1>4. RunOK(r, "held", "final", tracker[r], manifests')
  BY <1>1 DEF LeftInv, RunOK
<1>5. pc[r] # "crashed" /\ manifests' \in {manifests, manifests \cup {r}}
  BY <1>1
<1>6. netns' \subseteq netns
  BY <1>1
<1> QED  BY <1>1, <1>2, <1>3, <1>4, <1>5, <1>6, LeftStays

\* A step of run r at the lock alone.
LEMMA LockMoves ==
  ASSUME DOMAIN pc = Runs, NEW r \in Runs,
         \/ CallAcquire(r) \/ AcquireStep(r)
         \/ ReleaseLock(r) \/ ReleaseFails(r) \/ EndWithoutCleanup(r)
  PROVE  pc[r] # "crashed" /\ \E at \in PCs \ {"crashed"} : Moves(pc, pc', r, at)
<1>1. pc[r] # "crashed" /\ \E at \in PCs \ {"crashed"} : pc' = [pc EXCEPT ![r] = at]
  <2>1. ASSUME CallAcquire(r) PROVE pc[r] \in {"ready", "idle"} /\ pc' = [pc EXCEPT ![r] = "try"]
    BY <2>1 DEF CallAcquire, Goto
  <2>2. ASSUME ReleaseLock(r) \/ ReleaseFails(r) \/ EndWithoutCleanup(r)
        PROVE  pc[r] = "held" /\ pc' = [pc EXCEPT ![r] = "done"]
    BY <2>2 DEF ReleaseLock, ReleaseFails, EndWithoutCleanup, Goto
  <2>3. ASSUME AcquireStep(r)
        PROVE  /\ pc[r] \in Acquiring
               /\ \E at \in Acquiring \cup {"held", "refused"} : pc' = [pc EXCEPT ![r] = at]
    BY <2>3 DEF AcquireStep, TestFree, OpenForWrite, WriteStamp, WriteFails, InspectAge,
                ForceRecovery, GiveUp, Goto, Acquiring
  <2> QED  BY <2>1, <2>2, <2>3 DEF PCs, Acquiring, Final
<1> QED  BY <1>1, MovesTo

LEMMA LockStepLeft ==
  ASSUME LeftInv, Remembers, NEW r \in Runs, LockStep(r)
  PROVE  LeftInv'
<1>1. /\ CallAcquire(r) \/ AcquireStep(r)
      /\ UNCHANGED stage /\ UNCHANGED tracker /\ UNCHANGED netns /\ UNCHANGED procs
      /\ UNCHANGED files /\ UNCHANGED manifests
  BY DEF LockStep, labVars
<1>2. pc[r] # "crashed" /\ \E at \in PCs \ {"crashed"} : Moves(pc, pc', r, at)
  BY <1>1, LockMoves DEF LeftInv
<1>3. PICK at \in PCs \ {"crashed"} : Moves(pc, pc', r, at)
  BY <1>2
<1>4. Moves(stage, stage', r, stage[r])
  BY <1>1, StaysAt
<1>5. RunOK(r, at, stage[r], tracker[r], manifests')
  BY <1>1, <1>2, <1>3 DEF LeftInv, RunOK
<1>6. /\ netns' \subseteq netns /\ procs' \subseteq procs
      /\ \A f \in files' : f \in files \/ (f[1] = r /\ f[2] # "conf")
      /\ manifests' \in {manifests, manifests \cup {r}}
  BY <1>1
<1> QED  BY <1>1, <1>2, <1>3, <1>4, <1>5, <1>6, LeftStays

LEMMA ReplayBlockedLeft ==
  ASSUME LeftInv, Remembers, NEW r \in Runs, ReplayBlocked(r)
  PROVE  LeftInv'
<1>1. /\ pc[r] = "idle" /\ pc' = [pc EXCEPT ![r] = "refused"]
      /\ UNCHANGED stage /\ UNCHANGED tracker /\ UNCHANGED netns /\ UNCHANGED procs
      /\ UNCHANGED files /\ UNCHANGED manifests
  BY DEF ReplayBlocked, DoctorRefuses, Goto
<1>2. Moves(pc, pc', r, "refused") /\ Moves(stage, stage', r, stage[r])
  BY <1>1, MovesTo, StaysAt DEF LeftInv
<1>3. RunOK(r, "refused", stage[r], tracker[r], manifests')
  BY <1>1 DEF LeftInv, RunOK
<1>4. /\ netns' \subseteq netns /\ procs' \subseteq procs /\ pc[r] # "crashed"
      /\ \A f \in files' : f \in files \/ (f[1] = r /\ f[2] # "conf")
      /\ manifests' \in {manifests, manifests \cup {r}}
  BY <1>1
<1> QED  BY <1>1, <1>2, <1>3, <1>4, LeftStays

LEMMA DoctorLeft ==
  ASSUME LeftInv, Remembers, NEW r \in Runs, Doctor(r)
  PROVE  LeftInv'
<1>1. /\ stage[r] = "start" /\ pc[r] = "held" /\ pc' = pc
      /\ \E stg \in {"script", "final"} : stage' = [stage EXCEPT ![r] = stg]
      /\ UNCHANGED tracker /\ UNCHANGED netns /\ UNCHANGED procs
      /\ UNCHANGED files /\ UNCHANGED manifests
  BY DEF Doctor, Body, lockVars
<1>2. PICK stg \in {"script", "final"} : stage' = [stage EXCEPT ![r] = stg]
  BY <1>1
<1>3. Moves(stage, stage', r, stg)
  BY <1>2, MovesTo DEF LeftInv
<1>4. RunOK(r, "held", stg, tracker[r], manifests')
  BY <1>1 DEF LeftInv, RunOK
<1>5. /\ netns' \subseteq netns /\ procs' \subseteq procs /\ pc[r] # "crashed"
      /\ \A f \in files' : f \in files \/ (f[1] = r /\ f[2] # "conf")
      /\ manifests' \in {manifests, manifests \cup {r}}
  BY <1>1
<1>6. Moves(pc, pc', r, "held")
  BY <1>1, StaysAt
<1> QED  BY <1>1, <1>3, <1>4, <1>5, <1>6, LeftStays

LEMMA WriteManifestLeft ==
  ASSUME LeftInv, Remembers, NEW r \in Runs, WriteManifest(r)
  PROVE  LeftInv'
<1>1. /\ stage[r] = "final" /\ pc[r] = "held" /\ pc' = pc
      /\ stage' = [stage EXCEPT ![r] = "stored"] /\ manifests' = manifests \cup {r}
      /\ UNCHANGED tracker /\ UNCHANGED netns /\ UNCHANGED procs /\ UNCHANGED files
  BY DEF WriteManifest, Body, lockVars
<1>2. Moves(pc, pc', r, "held") /\ Moves(stage, stage', r, "stored")
  BY <1>1, MovesTo, StaysAt DEF LeftInv
<1>3. RunOK(r, "held", "stored", tracker[r], manifests')
  BY <1>1 DEF LeftInv, RunOK
<1>4. /\ netns' \subseteq netns /\ procs' \subseteq procs /\ pc[r] # "crashed"
      /\ \A f \in files' : f \in files \/ (f[1] = r /\ f[2] # "conf")
      /\ manifests' \in {manifests, manifests \cup {r}}
  BY <1>1
<1> QED  BY <1>1, <1>2, <1>3, <1>4, LeftStays

\* The end of a run without a manifest, or without cleanup.
LEMMA EndLeft ==
  ASSUME LeftInv, Remembers, NEW r \in Runs, ManifestFails(r) \/ KeepEverything(r)
  PROVE  LeftInv'
<1>1. /\ ReleaseFails(r) \/ EndWithoutCleanup(r)
      /\ stage[r] = "final" \/ r \in NoCleanup
      /\ stage' = [stage EXCEPT ![r] = "ended"]
      /\ UNCHANGED tracker /\ UNCHANGED netns /\ UNCHANGED procs
      /\ UNCHANGED files /\ UNCHANGED manifests
  BY DEF ManifestFails, KeepEverything, EndWithoutCleanup
<1>2. pc[r] # "crashed" /\ \E at \in PCs \ {"crashed"} : Moves(pc, pc', r, at)
  BY <1>1, LockMoves DEF LeftInv
<1>3. PICK at \in PCs \ {"crashed"} : Moves(pc, pc', r, at)
  BY <1>2
<1>4. Moves(stage, stage', r, "ended")
  BY <1>1, MovesTo DEF LeftInv
<1>5. RunOK(r, at, "ended", tracker[r], manifests')
  BY <1>1, <1>2, <1>3 DEF LeftInv, RunOK
<1>6. /\ netns' \subseteq netns /\ procs' \subseteq procs
      /\ \A f \in files' : f \in files \/ (f[1] = r /\ f[2] # "conf")
      /\ manifests' \in {manifests, manifests \cup {r}}
  BY <1>1
<1> QED  BY <1>1, <1>2, <1>3, <1>4, <1>5, <1>6, LeftStays

\* The cleanup empties one field of the tracker.
LEMMA Forgets ==
  ASSUME LeftInv, Remembers, NEW r \in Runs, NEW what \in TrackerFields,
         tracker' = [tracker EXCEPT ![r][what] = {}]
  PROVE  \E t : /\ Moves(tracker, tracker', r, t) /\ DOMAIN t = TrackerFields
                /\ t[what] = {} /\ \A o \in TrackerFields \ {what} : t[o] = tracker[r][o]
<1> DEFINE u == tracker[r]
           t == [u EXCEPT ![what] = {}]
<1>1. tracker' = [tracker EXCEPT ![r] = t]
  OBVIOUS
<1>2. DOMAIN tracker = Runs /\ DOMAIN u = TrackerFields
  BY DEF LeftInv, RunOK, TrackerFields
<1>3. /\ DOMAIN t = TrackerFields /\ t[what] = {}
      /\ \A o \in TrackerFields \ {what} : t[o] = u[o]
  <2> HIDE DEF u
  <2> QED  BY <1>2
<1> HIDE DEF t
<1>4. Moves(tracker, tracker', r, t)
  BY <1>1, <1>2, MovesTo
<1> QED  BY <1>3, <1>4

LEMMA CleanupPidsLeft ==
  ASSUME LeftInv, Remembers, NEW r \in Runs, CleanupPids(r)
  PROVE  LeftInv'
<1>1. /\ stage[r] = "stored" /\ pc[r] = "held" /\ pc' = pc
      /\ procs' \subseteq procs /\ \A p \in procs' : p \in tracker[r].pids => p \in undone'
      /\ tracker' = [tracker EXCEPT ![r]["pids"] = {}]
      /\ UNCHANGED stage /\ UNCHANGED netns /\ UNCHANGED files /\ UNCHANGED manifests
  BY DEF CleanupPids, Body, lockVars, Kill
<1>2. PICK t : /\ Moves(tracker, tracker', r, t) /\ DOMAIN t = TrackerFields
               /\ t["pids"] = {}
               /\ \A o \in TrackerFields \ {"pids"} : t[o] = tracker[r][o]
  BY <1>1, Forgets DEF TrackerFields
<1>3. /\ DOMAIN t = {"netns", "pids", "paths"} /\ t.netns = tracker[r].netns
      /\ t.pids = {} /\ t.paths = tracker[r].paths
  BY <1>2 DEF TrackerFields
<1>4. Moves(pc, pc', r, "held") /\ Moves(stage, stage', r, "stored")
  BY <1>1, StaysAt
<1>5. RunOK(r, "held", "stored", t, manifests')
  BY <1>1, <1>3 DEF LeftInv, RunOK
<1>6. \A n \in netns' : (n \in netns /\ (n[1] # r \/ n \in undone')) \/ n \in t.netns
  BY <1>1, <1>3 DEF LeftInv, Remembers
<1>7. \A p \in procs' : \/ p \in procs /\ (p[1] # r \/ p \in undone')
                        \/ p[1] = r /\ p \in t.pids
  BY <1>1, <1>3 DEF LeftInv, Remembers
<1>8. \A f \in files' : \/ f \in files /\ (f[1] # r \/ f \in undone')
                        \/ f[1] = r /\ (f[2] = "conf" => f[3] \in t.paths)
  BY <1>1, <1>3 DEF LeftInv, Remembers
<1>9. pc[r] # "crashed" /\ manifests' \in {manifests, manifests \cup {r}}
  BY <1>1
<1> QED  BY <1>2, <1>4, <1>5, <1>6, <1>7, <1>8, <1>9, LeftMoves

LEMMA CleanupNamespacesLeft ==
  ASSUME LeftInv, Remembers, NEW r \in Runs, CleanupNamespaces(r)
  PROVE  LeftInv'
<1>1. /\ stage[r] = "stored" /\ pc[r] = "held" /\ pc' = pc
      /\ netns' \subseteq netns /\ \A n \in netns' : n \in tracker[r].netns => n \in undone'
      /\ procs' \subseteq procs
      /\ tracker' = [tracker EXCEPT ![r]["netns"] = {}]
      /\ UNCHANGED stage /\ UNCHANGED files /\ UNCHANGED manifests
  BY DEF CleanupNamespaces, Body, lockVars, DeleteNamespaces, Kill
<1>2. PICK t : /\ Moves(tracker, tracker', r, t) /\ DOMAIN t = TrackerFields
               /\ t["netns"] = {}
               /\ \A o \in TrackerFields \ {"netns"} : t[o] = tracker[r][o]
  BY <1>1, Forgets DEF TrackerFields
<1>3. /\ DOMAIN t = {"netns", "pids", "paths"} /\ t.netns = {}
      /\ t.pids = tracker[r].pids /\ t.paths = tracker[r].paths
  BY <1>2 DEF TrackerFields
<1>4. Moves(pc, pc', r, "held") /\ Moves(stage, stage', r, "stored")
  BY <1>1, StaysAt
<1>5. RunOK(r, "held", "stored", t, manifests')
  BY <1>1, <1>3 DEF LeftInv, RunOK
<1>6. \A n \in netns' : (n \in netns /\ (n[1] # r \/ n \in undone')) \/ n \in t.netns
  BY <1>1, <1>3 DEF LeftInv, Remembers
<1>7. \A p \in procs' : \/ p \in procs /\ (p[1] # r \/ p \in undone')
                        \/ p[1] = r /\ p \in t.pids
  BY <1>1, <1>3 DEF LeftInv, Remembers
<1>8. \A f \in files' : \/ f \in files /\ (f[1] # r \/ f \in undone')
                        \/ f[1] = r /\ (f[2] = "conf" => f[3] \in t.paths)
  BY <1>1, <1>3 DEF LeftInv, Remembers
<1>9. pc[r] # "crashed" /\ manifests' \in {manifests, manifests \cup {r}}
  BY <1>1
<1> QED  BY <1>2, <1>4, <1>5, <1>6, <1>7, <1>8, <1>9, LeftMoves

LEMMA CleanupPathsLeft ==
  ASSUME LeftInv, Remembers, NEW r \in Runs, CleanupPaths(r)
  PROVE  LeftInv'
<1>1. /\ stage[r] = "stored" /\ tracker[r].pids = {} /\ tracker[r].netns = {}
      /\ ReleaseLock(r) \/ ReleaseFails(r)
      /\ files' \subseteq files
      /\ \A f \in files' : f[1] = r /\ f[2] = "conf" /\ f[3] \in tracker[r].paths => f \in undone'
      /\ stage' = [stage EXCEPT ![r] = "ended"]
      /\ tracker' = [tracker EXCEPT ![r]["paths"] = {}]
      /\ UNCHANGED netns /\ UNCHANGED procs /\ UNCHANGED manifests
  BY DEF CleanupPaths
<1>2. PICK t : /\ Moves(tracker, tracker', r, t) /\ DOMAIN t = TrackerFields
               /\ t["paths"] = {}
               /\ \A o \in TrackerFields \ {"paths"} : t[o] = tracker[r][o]
  BY <1>1, Forgets DEF TrackerFields
<1>3. /\ DOMAIN t = {"netns", "pids", "paths"}
      /\ t.netns = {} /\ t.pids = {} /\ t.paths = {}
  BY <1>1, <1>2 DEF TrackerFields
<1>4. pc[r] # "crashed" /\ \E at \in PCs \ {"crashed"} : Moves(pc, pc', r, at)
  BY <1>1, LockMoves DEF LeftInv
<1>5. PICK at \in PCs \ {"crashed"} : Moves(pc, pc', r, at)
  BY <1>4
<1>6. Moves(stage, stage', r, "ended")
  BY <1>1, MovesTo DEF LeftInv
<1>8. RunOK(r, at, "ended", t, manifests')
  BY <1>3, <1>5 DEF RunOK
<1>9. \A n \in netns' : (n \in netns /\ (n[1] # r \/ n \in undone')) \/ n \in t.netns
  BY <1>1, <1>4 DEF LeftInv, Remembers
<1>10. \A p \in procs' : \/ p \in procs /\ (p[1] # r \/ p \in undone')
                         \/ p[1] = r /\ p \in t.pids
  <2> SUFFICES ASSUME NEW p \in procs', p[1] = r PROVE p \in undone'
    BY <1>1
  <2>1. p \in tracker[r].pids \cup undone
    BY <1>1, <1>4 DEF LeftInv
  <2> QED  BY <1>1, <2>1 DEF Remembers
<1>11. \A f \in files' : \/ f \in files /\ (f[1] # r \/ f \in undone')
                         \/ f[1] = r /\ (f[2] = "conf" => f[3] \in t.paths)
  BY <1>1, <1>4 DEF LeftInv, Remembers
<1>12. manifests' \in {manifests, manifests \cup {r}}
  BY <1>1
<1> QED  BY <1>2, <1>4, <1>5, <1>6, <1>8, <1>9, <1>10, <1>11, <1>12, LeftMoves

\* Nothing a run has outlives what a sweep removes.
LEMMA SweepLeft ==
  ASSUME LeftInv, Remembers, CleanStale \/ SweepNamespaces
  PROVE  LeftInv'
<1>1. /\ pc' = pc /\ netns' \subseteq netns /\ procs' \subseteq procs
      /\ UNCHANGED stage /\ UNCHANGED tracker /\ UNCHANGED files /\ UNCHANGED manifests
  BY DEF CleanStale, SweepNamespaces, DeleteNamespaces, Kill, lockVars
<1> QED  BY <1>1 DEF LeftInv, Remembers

\* The death of the process of some runs, that forget all they knew.
LEMMA DiesMoves ==
  ASSUME DOMAIN pc = Runs, NEW h \in Hosts, RunDies(h)
  PROVE  /\ DOMAIN pc' = Runs
         /\ \A r \in Runs : pc'[r] = pc[r] \/ pc'[r] = "crashed"
         /\ \A r \in Runs : pc[r] = "crashed" => pc'[r] = "crashed"
<1>1. pc' = [r \in Runs |-> IF HostOf[r] = h /\ pc[r] \notin Final \cup {"idle"}
                              THEN "crashed" ELSE pc[r]]
  BY DEF RunDies, Crash
<1> QED  BY <1>1

LEMMA DiesLeft ==
  ASSUME LeftInv, Remembers, NEW h \in Hosts, RunDies(h)
  PROVE  LeftInv'
<1>1. /\ DOMAIN pc' = Runs
      /\ \A r \in Runs : pc'[r] = pc[r] \/ pc'[r] = "crashed"
      /\ \A r \in Runs : pc[r] = "crashed" => pc'[r] = "crashed"
  BY DiesMoves DEF LeftInv
<1>2. /\ stage' = [r \in Runs |-> IF pc'[r] = "crashed" THEN "start" ELSE stage[r]]
      /\ tracker' = [r \in Runs |-> IF pc'[r] = "crashed" THEN NothingTracked ELSE tracker[r]]
      /\ UNCHANGED netns /\ UNCHANGED procs /\ UNCHANGED files /\ UNCHANGED manifests
  BY DEF RunDies
<1>3. ASSUME NEW r \in Runs PROVE RunOK(r, pc'[r], stage'[r], tracker'[r], manifests')
  <2>1. CASE pc'[r] = "crashed"
    <3>1. stage'[r] = "start" /\ tracker'[r] = NothingTracked
      BY <1>2, <2>1
    <3>2. DOMAIN NothingTracked = TrackerFields /\ NothingTracked.netns = {}
      BY DEF NothingTracked, TrackerFields
    <3> QED  BY <2>1, <3>1, <3>2 DEF RunOK, TrackerFields
  <2>2. CASE pc'[r] # "crashed"
    <3>1. stage'[r] = stage[r] /\ tracker'[r] = tracker[r] /\ pc'[r] = pc[r] /\ manifests' = manifests
      BY <1>1, <1>2, <2>2
    <3>2. RunOK(r, pc[r], stage[r], tracker[r], manifests)
      BY DEF LeftInv
    <3> QED  BY <3>1, <3>2
  <2> QED  BY <2>1, <2>2
<1>4. \A r \in Runs : pc'[r] # "crashed" => tracker'[r] = tracker[r] /\ pc[r] # "crashed"
  BY <1>1, <1>2
<1>5. DOMAIN stage' = Runs /\ DOMAIN tracker' = Runs
  BY <1>2
<1>6. /\ manifests' \subseteq Runs /\ netns' \subseteq Runs \X NamespaceNames
      /\ \A n \in netns' : pc'[n[1]] # "crashed" => n \in tracker'[n[1]].netns \cup undone'
  BY <1>2, <1>4 DEF LeftInv, Remembers
<1>7. \A p \in procs' : p[1] \in Runs /\ (pc'[p[1]] # "crashed" => p \in tracker'[p[1]].pids \cup undone')
  BY <1>2, <1>4 DEF LeftInv, Remembers
<1>8. \A f \in files' : /\ f[1] \in Runs
                        /\ pc'[f[1]] # "crashed" /\ f[2] = "conf" =>
                             f[3] \in tracker'[f[1]].paths \/ f \in undone'
  BY <1>2, <1>4 DEF LeftInv, Remembers
<1> QED  BY <1>1, <1>3, <1>5, <1>6, <1>7, <1>8 DEF LeftInv

LEMMA LeftStarts == LabInit => LeftInv
<1> SUFFICES ASSUME LabInit PROVE LeftInv
  OBVIOUS
<1>1. /\ pc = [r \in Runs |-> "idle"] /\ stage = [r \in Runs |-> "start"]
      /\ tracker = [r \in Runs |-> NothingTracked]
      /\ netns = {} /\ procs = {} /\ files = {} /\ manifests = {}
  BY DEF LabInit, Init
<1>2. DOMAIN NothingTracked = TrackerFields /\ NothingTracked.netns = {}
  BY DEF NothingTracked, TrackerFields
<1>3. \A r \in Runs : RunOK(r, pc[r], stage[r], tracker[r], manifests)
  BY <1>1, <1>2 DEF RunOK, TrackerFields
<1> QED  BY <1>1, <1>3 DEF LeftInv

LEMMA NothingForgotten == [LabNext]_vars => Remembers
<1> SUFFICES ASSUME [LabNext]_vars PROVE Remembers
  OBVIOUS
<1> USE DEF Remembers
<1>1. ASSUME NEW r \in Runs, ExperimentStep(r) PROVE Remembers
  <2>1. ASSUME ReplayBlocked(r) \/ LockStep(r) PROVE Remembers
    BY <2>1 DEF ReplayBlocked, LockStep, labVars
  <2>2. ASSUME SetupStep(r) PROVE Remembers
    BY <2>2 DEF SetupStep, Doctor, AddNamespaces, AddLink, MoveLink, ConfigureInside,
                ApplyImpairment, PreparePeer, StartCharon, LoadConfiguration, StartCapture
  <2>3. ASSUME MeasureStep(r) PROVE Remembers
    BY <2>3 DEF MeasureStep, Initiate, PollSa, Ping, RunWorkload, CollectEvidence
  <2>4. ASSUME EndStep(r) PROVE Remembers
    BY <2>4 DEF EndStep, WriteManifest, ManifestFails, CleanupPids, CleanupNamespaces,
                CleanupPaths, KeepEverything
  <2> QED  BY <1>1, <2>1, <2>2, <2>3, <2>4 DEF ExperimentStep
<1> QED  BY <1>1 DEF LabNext, RunDies, CleanStale, SweepNamespaces, AllEnded, vars, labVars

LEMMA LeftInductive == LeftInv /\ [LabNext]_vars => LeftInv'
<1> SUFFICES ASSUME LeftInv, [LabNext]_vars PROVE LeftInv'
  OBVIOUS
<1>0. Remembers
  BY NothingForgotten
<1>1. ASSUME NEW r \in Runs, ExperimentStep(r) PROVE LeftInv'
  <2>1. ASSUME SetupStep(r) PROVE LeftInv'
    BY <1>0, <2>1, DoctorLeft, AddNamespacesLeft, ScriptLeft, PreparePeerLeft, StartCharonLeft,
       StartCaptureLeft DEF SetupStep
  <2>2. ASSUME MeasureStep(r) PROVE LeftInv'
    BY <1>0, <2>2, ScriptLeft, CollectEvidenceLeft DEF MeasureStep
  <2>3. ASSUME EndStep(r) PROVE LeftInv'
    BY <1>0, <2>3, WriteManifestLeft, EndLeft, CleanupPidsLeft, CleanupNamespacesLeft,
       CleanupPathsLeft DEF EndStep
  <2> QED  BY <1>0, <1>1, <2>1, <2>2, <2>3, ReplayBlockedLeft, LockStepLeft DEF ExperimentStep
<1>2. ASSUME AllEnded \/ UNCHANGED vars PROVE LeftInv'
  <2>1. UNCHANGED pc /\ UNCHANGED stage /\ UNCHANGED tracker /\ UNCHANGED netns
        /\ UNCHANGED procs /\ UNCHANGED files /\ UNCHANGED manifests /\ UNCHANGED undone
    BY <1>2 DEF AllEnded, vars, lockVars, labVars
  <2> QED  BY <2>1 DEF LeftInv
<1> QED  BY <1>0, <1>1, <1>2, DiesLeft, SweepLeft DEF LabNext

-----------------------------------------------------------------------------
(* The cables.                                                             *)

\* The end x, still in the host's namespace, of the pair that command c of r made.
WireEnd(r, x, c) == [dev |-> x, place |-> Host, pair |-> <<r, c.a>>]

\* What r has there after k commands, before it moves it.
Laid(r, k, ends) ==
  /\ k \in 1..Len(Script(r)) /\ Script(r)[k].op = "link" =>
       /\ WireEnd(r, Script(r)[k].a, Script(r)[k]) \in ends
       /\ WireEnd(r, Script(r)[k].b, Script(r)[k]) \in ends
  /\ k - 1 \in 1..Len(Script(r)) /\ Script(r)[k - 1].op = "link" =>
       WireEnd(r, Script(r)[k - 1].b, Script(r)[k - 1]) \in ends

OneName(ends) ==
  \A d, e \in ends : d.place = Host /\ e.place = Host /\ d.dev = e.dev => d = e

OwnPlaces(ends) == \A d \in ends : d.place # Host => d.place[1] = d.pair[1]

\* How far a run is in its script.
At(stg, k) == k \in Nat /\ (stg # "script" => k = 0)

CableInv ==
  /\ DOMAIN stage = Runs /\ DOMAIN step = Runs
  /\ \A r \in Runs : At(stage[r], step[r])
  /\ sweeps \in Nat /\ (sweep # {} => sweeps # 0)
  /\ \A d \in devs : DOMAIN d = {"dev", "place", "pair"}
  /\ OneName(devs)
  /\ sweeps = 0 => OwnPlaces(devs)
  /\ sweeps = 0 => \A r \in Runs : stage[r] = "script" => Laid(r, step[r], devs)

\* A step of run r that leaves the cables of the others where they are.
LEMMA CableMoves ==
  ASSUME CableInv, NEW r \in Runs, NEW stg, NEW k,
         Moves(stage, stage', r, stg), Moves(step, step', r, k), At(stg, k),
         UNCHANGED sweep, UNCHANGED sweeps, OneName(devs'),
         \A d \in devs' : DOMAIN d = {"dev", "place", "pair"},
         sweeps = 0 => OwnPlaces(devs'),
         sweeps = 0 => \A q \in Runs \ {r} : stage[q] = "script" => Laid(q, step[q], devs'),
         sweeps = 0 /\ stg = "script" => Laid(r, k, devs')
  PROVE  CableInv'
<1>1. /\ DOMAIN stage' = Runs /\ DOMAIN step' = Runs /\ stage'[r] = stg /\ step'[r] = k
      /\ \A q \in Runs \ {r} : stage'[q] = stage[q] /\ step'[q] = step[q]
  BY DEF CableInv, Moves
<1>2. \A q \in Runs : At(stage'[q], step'[q])
  BY <1>1 DEF CableInv
<1>3. sweeps' = 0 => \A q \in Runs : stage'[q] = "script" => Laid(q, step'[q], devs')
  <2> SUFFICES ASSUME sweeps = 0, NEW q \in Runs, stage'[q] = "script"
               PROVE  Laid(q, step'[q], devs')
    OBVIOUS
  <2>1. CASE q = r
    BY <1>1, <2>1
  <2>2. CASE q # r
    BY <1>1, <2>2
  <2> QED  BY <2>1, <2>2
<1> QED  BY <1>1, <1>2, <1>3 DEF CableInv

\* One that is about something else.
LEMMA CableQuiet ==
  ASSUME CableInv, NEW r \in Runs, NEW stg, NEW k,
         Moves(stage, stage', r, stg), Moves(step, step', r, k), At(stg, k),
         UNCHANGED sweep, UNCHANGED sweeps, UNCHANGED devs,
         sweeps = 0 /\ stg = "script" => Laid(r, k, devs)
  PROVE  CableInv'
<1>1. /\ OneName(devs') /\ (sweeps = 0 => OwnPlaces(devs'))
      /\ \A d \in devs' : DOMAIN d = {"dev", "place", "pair"}
  BY DEF CableInv
<1>2. sweeps = 0 => \A q \in Runs \ {r} : stage[q] = "script" => Laid(q, step[q], devs')
  BY DEF CableInv
<1>3. sweeps = 0 /\ stg = "script" => Laid(r, k, devs')
  OBVIOUS
<1> QED  BY <1>1, <1>2, <1>3, CableMoves

\* Where r is in its script, and what the commands around it are.
LEMMA AtCommand ==
  ASSUME CableInv, NEW r \in Runs, NEW op, AtCmd(r, op)
  PROVE  /\ step[r] \in Nat /\ step[r] + 1 \in 1..Len(Script(r))
         /\ Cmd(r) = Script(r)[step[r] + 1] /\ Cmd(r).op = op
         /\ step[r] \in 1..Len(Script(r)) /\ Script(r)[step[r]].op = "link" =>
              /\ op = "move" /\ Cmd(r).dev = Script(r)[step[r]].a
              /\ Script(r)[step[r]].a # Script(r)[step[r]].b
         /\ op = "link" => Cmd(r).a # Cmd(r).b
         /\ op = "move" =>
              \/ /\ step[r] \in 1..Len(Script(r)) /\ Script(r)[step[r]].op = "link"
                 /\ Cmd(r).dev = Script(r)[step[r]].a
              \/ /\ step[r] - 1 \in 1..Len(Script(r)) /\ Script(r)[step[r] - 1].op = "link"
                 /\ Cmd(r).dev = Script(r)[step[r] - 1].b
<1> DEFINE s == Script(r)
           k == step[r]
<1>1. Chained(s)
  BY ScriptChained
<1>2. k \in Nat /\ k < Len(s) /\ s[k + 1].op = op
  BY DEF CableInv, At, AtCmd
<1>3. Cmd(r) = s[k + 1]
  BY DEF Cmd
<1> HIDE DEF s, k
<1>4. Len(s) \in Nat
  <2>1. PICK S : s \in Seq(S)
    BY <1>1 DEF Chained, Row
  <2> QED  BY <2>1
<1>5. k + 1 \in 1..Len(s)
  BY <1>2, <1>4
<1>6. k \in 1..Len(s) /\ s[k].op = "link" =>
        op = "move" /\ s[k + 1].dev = s[k].a /\ s[k].a # s[k].b
  BY <1>1, <1>2 DEF Chained
<1>7. op = "link" => s[k + 1].a # s[k + 1].b
  BY <1>1, <1>2, <1>5 DEF Chained
<1>8. op = "move" => \/ k \in 1..Len(s) /\ s[k].op = "link" /\ s[k + 1].dev = s[k].a
                     \/ k - 1 \in 1..Len(s) /\ s[k - 1].op = "link" /\ s[k + 1].dev = s[k - 1].b
  <2> SUFFICES ASSUME op = "move"
               PROVE  \/ k \in 1..Len(s) /\ s[k].op = "link" /\ s[k + 1].dev = s[k].a
                      \/ k - 1 \in 1..Len(s) /\ s[k - 1].op = "link" /\ s[k + 1].dev = s[k - 1].b
    OBVIOUS
  <2>1. /\ (k + 1) - 1 = k /\ (k + 1) - 2 = k - 1 /\ (k - 1) + 2 = k + 1
    BY <1>2
  <2>2. \/ (k + 1) - 1 \in 1..Len(s) /\ s[(k + 1) - 1].op = "link"
        \/ (k + 1) - 2 \in 1..Len(s) /\ s[(k + 1) - 2].op = "link"
    BY <1>1, <1>2, <1>5 DEF Chained
  <2>3. CASE k \in 1..Len(s) /\ s[k].op = "link"
    BY <1>6, <2>3
  <2>4. CASE k - 1 \in 1..Len(s) /\ s[k - 1].op = "link"
    <3>1. s[(k - 1) + 2].dev = s[k - 1].b
      BY <1>1, <2>4 DEF Chained
    <3> QED  BY <2>1, <2>4, <3>1
  <2> QED  BY <2>1, <2>2, <2>3, <2>4
<1> QED  BY <1>2, <1>3, <1>5, <1>6, <1>7, <1>8 DEF s, k

\* The next command, when it is no move and no link.
LEMMA LaidNext ==
  ASSUME CableInv, NEW r \in Runs, NEW op, op # "move", AtCmd(r, op), NEW ends,
         op = "link" => /\ WireEnd(r, Cmd(r).a, Cmd(r)) \in ends
                        /\ WireEnd(r, Cmd(r).b, Cmd(r)) \in ends
  PROVE  Laid(r, step[r] + 1, ends)
<1>1. /\ step[r] \in Nat /\ Cmd(r) = Script(r)[step[r] + 1] /\ Cmd(r).op = op
      /\ ~ (step[r] \in 1..Len(Script(r)) /\ Script(r)[step[r]].op = "link")
  BY AtCommand
<1>2. (step[r] + 1) - 1 = step[r]
  BY <1>1
<1> QED  BY <1>1, <1>2 DEF Laid

LEMMA ScriptEnds ==
  ASSUME CableInv, NEW r \in Runs, stage[r] = "script", Advance(r) \/ Raise(r)
  PROVE  \E stg, k : /\ Moves(stage, stage', r, stg) /\ Moves(step, step', r, k) /\ At(stg, k)
                     /\ stg = "script" => k = step[r] + 1
<1>1. CASE Advance(r)
  <2>1. stage' = stage /\ step' = [step EXCEPT ![r] = step[r] + 1]
    BY <1>1 DEF Advance
  <2>2. Moves(stage, stage', r, "script")
    BY <2>1, StaysAt
  <2>3. Moves(step, step', r, step[r] + 1)
    BY <2>1, MovesTo DEF CableInv
  <2>4. At("script", step[r] + 1)
    BY DEF CableInv, At
  <2> QED  BY <2>2, <2>3, <2>4
<1>2. CASE Raise(r)
  <2>1. stage' = [stage EXCEPT ![r] = "final"] /\ step' = [step EXCEPT ![r] = 0]
    BY <1>2 DEF Raise
  <2>2. Moves(stage, stage', r, "final")
    BY <2>1, MovesTo DEF CableInv
  <2>3. Moves(step, step', r, 0)
    BY <2>1, MovesTo DEF CableInv
  <2>4. At("final", 0)
    BY DEF At
  <2> QED  BY <2>2, <2>3, <2>4
<1> QED  BY <1>1, <1>2

LEMMA CableCommand ==
  ASSUME CableInv, NEW r \in Runs, NEW op, op \notin {"link", "move"}, AtCmd(r, op),
         Advance(r) \/ Raise(r), UNCHANGED devs, UNCHANGED sweep, UNCHANGED sweeps
  PROVE  CableInv'
<1>1. stage[r] = "script"
  BY DEF AtCmd
<1>2. PICK stg, k : /\ Moves(stage, stage', r, stg) /\ Moves(step, step', r, k) /\ At(stg, k)
                    /\ stg = "script" => k = step[r] + 1
  BY <1>1, ScriptEnds
<1>3. Laid(r, step[r] + 1, devs)
  BY LaidNext
<1> QED  BY <1>2, <1>3, CableQuiet

LEMMA CommandCables ==
  ASSUME CableInv, NEW r \in Runs,
         \/ AddNamespaces(r) \/ ConfigureInside(r) \/ ApplyImpairment(r)
         \/ PreparePeer(r) \/ StartCharon(r) \/ LoadConfiguration(r) \/ StartCapture(r)
         \/ Initiate(r) \/ PollSa(r) \/ Ping(r) \/ RunWorkload(r)
  PROVE  CableInv'
<1>1. /\ \E op \in {"netns", "inside", "netem", "prepare", "charon", "load", "capture",
                    "initiate", "poll", "traffic"} : AtCmd(r, op)
      /\ Advance(r) \/ Raise(r)
      /\ UNCHANGED devs /\ UNCHANGED sweep /\ UNCHANGED sweeps
  BY DEF AddNamespaces, ConfigureInside, ApplyImpairment, PreparePeer, StartCharon,
         LoadConfiguration, StartCapture, Initiate, PollSa, Ping, RunWorkload, RunChecked
<1> QED  BY <1>1, CableCommand

LEMMA AddLinkCables ==
  ASSUME CableInv, NEW r \in Runs, AddLink(r)
  PROVE  CableInv'
<1> DEFINE c == Cmd(r)
           new == {WireEnd(r, c.a, c), WireEnd(r, c.b, c)}
<1>1. /\ AtCmd(r, "link") /\ stage[r] = "script"
      /\ Advance(r) \/ Raise(r)
      /\ UNCHANGED sweep /\ UNCHANGED sweeps
      /\ \/ {c.a, c.b} \cap HostDevs = {} /\ devs' = devs \cup new
         \/ UNCHANGED devs /\ Raise(r)
  <2>1. {[dev |-> d, place |-> Host, pair |-> <<r, c.a>>] : d \in {c.a, c.b}} = new
    BY DEF WireEnd
  <2> HIDE DEF new
  <2> QED  BY <2>1 DEF AddLink, AtCmd, RunChecked
<1>2. PICK stg, k : /\ Moves(stage, stage', r, stg) /\ Moves(step, step', r, k) /\ At(stg, k)
                    /\ stg = "script" => k = step[r] + 1
  BY <1>1, ScriptEnds
<1>3. CASE {c.a, c.b} \cap HostDevs = {} /\ devs' = devs \cup new
  <2>1. c.a # c.b
    BY <1>1, AtCommand
  <2>2. \A d \in devs : d.place = Host => d.dev # c.a /\ d.dev # c.b
    BY <1>3 DEF HostDevs
  <2>3. \A d \in new : d.place = Host /\ d.pair = <<r, c.a>> /\ d.dev \in {c.a, c.b}
    BY DEF WireEnd
  <2>4. \A d, e \in new : d.dev = e.dev => d = e
    BY <2>1 DEF WireEnd
  <2>5. WireEnd(r, c.a, c) \in new /\ WireEnd(r, c.b, c) \in new
    OBVIOUS
  <2> HIDE DEF new, c
  <2>6. OneName(devs')
    <3> SUFFICES ASSUME NEW d \in devs \cup new, NEW e \in devs \cup new,
                        d.place = Host, e.place = Host, d.dev = e.dev
                 PROVE  d = e
      BY <1>3 DEF OneName
    <3>1. CASE d \in devs /\ e \in devs
      BY <3>1 DEF CableInv, OneName
    <3>2. CASE d \in new /\ e \in new
      BY <2>4, <3>2
    <3>3. CASE (d \in devs /\ e \in new) \/ (d \in new /\ e \in devs)
      BY <2>2, <2>3, <3>3
    <3> QED  BY <3>1, <3>2, <3>3
  <2>7. sweeps = 0 => OwnPlaces(devs')
    BY <1>3, <2>3 DEF CableInv, OwnPlaces
  <2>8. sweeps = 0 => \A q \in Runs \ {r} : stage[q] = "script" => Laid(q, step[q], devs')
    BY <1>3 DEF CableInv, Laid
  <2>9. Laid(r, step[r] + 1, devs')
    BY <1>1, <1>3, <2>5, LaidNext DEF c
  <2>10. \A d \in devs' : DOMAIN d = {"dev", "place", "pair"}
    BY <1>3 DEF CableInv, WireEnd, new
  <2> QED  BY <1>1, <1>2, <2>6, <2>7, <2>8, <2>9, <2>10, CableMoves
<1>4. CASE UNCHANGED devs /\ Raise(r)
  <2>1. stg # "script"
    BY <1>2, <1>4 DEF Raise, Moves, CableInv
  <2> QED  BY <1>1, <1>2, <1>4, <2>1, CableQuiet
<1> QED  BY <1>1, <1>3, <1>4

\* The device that r moves is an end of r's own pair.
LEMMA OwnEnd ==
  ASSUME CableInv, NEW r \in Runs, AtCmd(r, "move"), sweeps = 0
  PROVE  \E w \in devs : /\ w.dev = Cmd(r).dev /\ w.place = Host /\ w.pair[1] = r
                         /\ \A d \in devs : d.dev = Cmd(r).dev /\ d.place = Host => d = w
<1>1. Laid(r, step[r], devs)
  BY DEF CableInv, AtCmd
<1>2. \E c : WireEnd(r, Cmd(r).dev, c) \in devs
  <2>1. CASE /\ step[r] \in 1..Len(Script(r)) /\ Script(r)[step[r]].op = "link"
             /\ Cmd(r).dev = Script(r)[step[r]].a
    BY <1>1, <2>1 DEF Laid
  <2>2. CASE /\ step[r] - 1 \in 1..Len(Script(r)) /\ Script(r)[step[r] - 1].op = "link"
             /\ Cmd(r).dev = Script(r)[step[r] - 1].b
    BY <1>1, <2>2 DEF Laid
  <2> QED  BY <2>1, <2>2, AtCommand
<1>3. PICK c : WireEnd(r, Cmd(r).dev, c) \in devs
  BY <1>2
<1> DEFINE w == WireEnd(r, Cmd(r).dev, c)
<1>4. w.dev = Cmd(r).dev /\ w.place = Host /\ w.pair[1] = r
  BY DEF WireEnd
<1> HIDE DEF w
<1>5. w \in devs
  BY <1>3 DEF w
<1>6. \A d \in devs : d.dev = Cmd(r).dev /\ d.place = Host => d = w
  BY <1>4, <1>5 DEF CableInv, OneName
<1> QED  BY <1>4, <1>5, <1>6

\* ip link set: the ends called x in the host's namespace go to place.
LEMMA EndsMoved ==
  ASSUME NEW x, NEW place, NEW new,
         new = {IF d.dev = x /\ d.place = Host THEN [d EXCEPT !.place = place] ELSE d : d \in devs},
         \A d \in devs : DOMAIN d = {"dev", "place", "pair"}
  PROVE  /\ \A d \in devs : ~ (d.dev = x /\ d.place = Host) => d \in new
         /\ \A e \in new : \/ e \in devs /\ ~ (e.dev = x /\ e.place = Host)
                           \/ /\ DOMAIN e = {"dev", "place", "pair"} /\ e.place = place
                              /\ \E d \in devs : d.dev = x /\ d.place = Host /\ e.pair = d.pair
<1>1. ASSUME NEW d \in devs, NEW e, e = [d EXCEPT !.place = place]
      PROVE  DOMAIN e = {"dev", "place", "pair"} /\ e.place = place /\ e.pair = d.pair
  BY <1>1
<1>2. \A d \in devs : ~ (d.dev = x /\ d.place = Host) => d \in new
  OBVIOUS
<1>3. ASSUME NEW e \in new
      PROVE  \/ e \in devs /\ ~ (e.dev = x /\ e.place = Host)
             \/ /\ DOMAIN e = {"dev", "place", "pair"} /\ e.place = place
                /\ \E d \in devs : d.dev = x /\ d.place = Host /\ e.pair = d.pair
  <2>1. PICK d \in devs : e = IF d.dev = x /\ d.place = Host THEN [d EXCEPT !.place = place] ELSE d
    OBVIOUS
  <2>2. CASE d.dev = x /\ d.place = Host
    <3>1. e = [d EXCEPT !.place = place]
      BY <2>1, <2>2
    <3> QED  BY <1>1, <2>2, <3>1
  <2>3. CASE ~ (d.dev = x /\ d.place = Host)
    BY <2>1, <2>3
  <2> QED  BY <2>2, <2>3
<1> QED  BY <1>2, <1>3

LEMMA MoveLinkCables ==
  ASSUME LeftInv, CableInv, NEW r \in Runs, MoveLink(r)
  PROVE  CableInv'
<1> DEFINE x == Cmd(r).dev
           place == <<r, Cmd(r).ns>>
<1>1. /\ AtCmd(r, "move") /\ stage[r] = "script"
      /\ Advance(r) \/ Raise(r)
      /\ UNCHANGED sweep /\ UNCHANGED sweeps
      /\ \/ /\ place \in netns
            /\ devs' = {IF d.dev = x /\ d.place = Host THEN [d EXCEPT !.place = place] ELSE d : d \in devs}
         \/ UNCHANGED devs /\ Raise(r)
  BY DEF MoveLink, AtCmd, RunChecked, Exists
<1>2. PICK stg, k : /\ Moves(stage, stage', r, stg) /\ Moves(step, step', r, k) /\ At(stg, k)
                    /\ stg = "script" => k = step[r] + 1
  BY <1>1, ScriptEnds
<1>3. CASE /\ place \in netns
           /\ devs' = {IF d.dev = x /\ d.place = Host THEN [d EXCEPT !.place = place] ELSE d : d \in devs}
  <2>1. place # Host /\ place[1] = r
    BY <1>3, LabAssumption DEF LeftInv
  <2>2. \A d \in devs : DOMAIN d = {"dev", "place", "pair"}
    BY DEF CableInv
  <2> HIDE DEF place
  <2>3. /\ \A d \in devs : ~ (d.dev = x /\ d.place = Host) => d \in devs'
        /\ \A e \in devs' : \/ e \in devs /\ ~ (e.dev = x /\ e.place = Host)
                            \/ /\ DOMAIN e = {"dev", "place", "pair"} /\ e.place = place
                               /\ \E d \in devs : d.dev = x /\ d.place = Host /\ e.pair = d.pair
    <3> DEFINE new == devs'
    <3>1. new = {IF d.dev = x /\ d.place = Host THEN [d EXCEPT !.place = place] ELSE d : d \in devs}
      BY <1>3
    <3> HIDE DEF new, x
    <3>2. /\ \A d \in devs : ~ (d.dev = x /\ d.place = Host) => d \in new
          /\ \A e \in new : \/ e \in devs /\ ~ (e.dev = x /\ e.place = Host)
                            \/ /\ DOMAIN e = {"dev", "place", "pair"} /\ e.place = place
                               /\ \E d \in devs : d.dev = x /\ d.place = Host /\ e.pair = d.pair
      BY <2>2, <3>1, EndsMoved
    <3> QED  BY <3>2 DEF new
  <2>4. OneName(devs')
    <3>1. \A e \in devs' : e.place = Host => e \in devs
      BY <2>1, <2>3
    <3> QED  BY <3>1 DEF CableInv, OneName
  <2>5. sweeps = 0 => OwnPlaces(devs')
    <3> SUFFICES ASSUME sweeps = 0, NEW e \in devs', e.place # Host
                 PROVE  e.place[1] = e.pair[1]
      BY DEF OwnPlaces
    <3>1. CASE e \in devs
      BY <3>1 DEF CableInv, OwnPlaces
    <3>2. CASE e.place = place /\ \E d \in devs : d.dev = x /\ d.place = Host /\ e.pair = d.pair
      <4>1. PICK d \in devs : d.dev = x /\ d.place = Host /\ e.pair = d.pair
        BY <3>2
      <4>2. d.pair[1] = r
        BY <1>1, <4>1, OwnEnd
      <4> QED  BY <2>1, <3>2, <4>1, <4>2
    <3> QED  BY <2>3, <3>1, <3>2
  <2>6. \A d \in devs : d.dev # x => d \in devs'
    BY <2>3
  <2>7. sweeps = 0 => \A d \in devs : d.pair[1] # r => d \in devs'
    BY <1>1, <2>3, OwnEnd
  <2>8. sweeps = 0 => \A q \in Runs \ {r} : stage[q] = "script" => Laid(q, step[q], devs')
    <3> SUFFICES ASSUME sweeps = 0, NEW q \in Runs \ {r}, stage[q] = "script"
                 PROVE  Laid(q, step[q], devs')
      OBVIOUS
    <3>1. Laid(q, step[q], devs)
      BY DEF CableInv
    <3>2. \A y, c : WireEnd(q, y, c) \in devs => WireEnd(q, y, c) \in devs'
      <4> SUFFICES ASSUME NEW y, NEW c, WireEnd(q, y, c) \in devs
                   PROVE  WireEnd(q, y, c) \in devs'
        OBVIOUS
      <4>1. WireEnd(q, y, c).pair[1] = q
        BY DEF WireEnd
      <4> QED  BY <2>7, <4>1
    <3> QED  BY <3>1, <3>2 DEF Laid
  <2>9. sweeps = 0 /\ stg = "script" => Laid(r, k, devs')
    <3> SUFFICES ASSUME sweeps = 0, stg = "script"
                 PROVE  Laid(r, k, devs')
      OBVIOUS
    <3>1. /\ k = step[r] + 1 /\ step[r] \in Nat /\ k - 1 = step[r]
          /\ Cmd(r) = Script(r)[k] /\ Cmd(r).op = "move"
      BY <1>1, <1>2, AtCommand
    <3>2. ASSUME k - 1 \in 1..Len(Script(r)), Script(r)[k - 1].op = "link"
          PROVE  WireEnd(r, Script(r)[k - 1].b, Script(r)[k - 1]) \in devs'
      <4> DEFINE c == Script(r)[step[r]]
      <4>1. Laid(r, step[r], devs)
        BY <1>1 DEF CableInv
      <4>2. WireEnd(r, c.b, c) \in devs /\ x = c.a /\ c.a # c.b
        BY <1>1, <3>1, <3>2, <4>1, AtCommand DEF Laid
      <4>3. WireEnd(r, c.b, c).dev = c.b
        BY DEF WireEnd
      <4>4. WireEnd(r, c.b, c) \in devs'
        BY <2>6, <4>2, <4>3
      <4> QED  BY <3>1, <4>4
    <3> QED  BY <3>1, <3>2 DEF Laid
  <2>10. \A d \in devs' : DOMAIN d = {"dev", "place", "pair"}
    BY <2>2, <2>3
  <2> QED  BY <1>1, <1>2, <2>4, <2>5, <2>8, <2>9, <2>10, CableMoves
<1>4. CASE UNCHANGED devs /\ Raise(r)
  <2>1. stg # "script"
    BY <1>2, <1>4 DEF Raise, Moves, CableInv
  <2> QED  BY <1>1, <1>2, <1>4, <2>1, CableQuiet
<1> QED  BY <1>1, <1>3, <1>4

\* With the namespaces of a run that is past its script go ends of that run.
LEMMA CleanupNamespacesCables ==
  ASSUME LeftInv, CableInv, NEW r \in Runs, CleanupNamespaces(r)
  PROVE  CableInv'
<1>1. /\ stage[r] = "stored"
      /\ \E gone \in SUBSET tracker[r].netns :
           devs' = {d \in devs : \A e \in devs : e.pair = d.pair => e.place \notin gone}
      /\ UNCHANGED stage /\ UNCHANGED step /\ UNCHANGED sweep /\ UNCHANGED sweeps
  BY DEF CleanupNamespaces, DeleteNamespaces
<1>2. Moves(stage, stage', r, "stored") /\ Moves(step, step', r, step[r]) /\ At("stored", step[r])
  BY <1>1, StaysAt DEF CableInv
<1>3. tracker[r].netns \subseteq {r} \X NamespaceNames /\ Host \notin tracker[r].netns
  BY LabAssumption DEF LeftInv, RunOK
<1>7. PICK gone \in SUBSET tracker[r].netns :
             devs' = {d \in devs : \A e \in devs : e.pair = d.pair => e.place \notin gone}
  BY <1>1
<1>4. sweeps = 0 => \A d \in devs : d.pair[1] # r => d \in devs'
  <2> SUFFICES ASSUME sweeps = 0, NEW d \in devs, d.pair[1] # r, NEW e \in devs, e.pair = d.pair
               PROVE  e.place \notin gone
    BY <1>7
  <2>1. e.place # Host => e.place[1] = e.pair[1]
    BY DEF CableInv, OwnPlaces
  <2> QED  BY <1>3, <2>1
<1>5. sweeps = 0 => \A q \in Runs \ {r} : stage[q] = "script" => Laid(q, step[q], devs')
  <2> SUFFICES ASSUME sweeps = 0, NEW q \in Runs \ {r}, stage[q] = "script"
               PROVE  Laid(q, step[q], devs')
    OBVIOUS
  <2>1. Laid(q, step[q], devs)
    BY DEF CableInv
  <2>2. \A y, c : WireEnd(q, y, c) \in devs => WireEnd(q, y, c) \in devs'
    <3> SUFFICES ASSUME NEW y, NEW c, WireEnd(q, y, c) \in devs
                 PROVE  WireEnd(q, y, c) \in devs'
      OBVIOUS
    <3>1. WireEnd(q, y, c).pair[1] = q
      BY DEF WireEnd
    <3> QED  BY <1>4, <3>1
  <2> QED  BY <2>1, <2>2 DEF Laid
<1>6. /\ OneName(devs') /\ (sweeps = 0 => OwnPlaces(devs'))
      /\ \A d \in devs' : DOMAIN d = {"dev", "place", "pair"}
  BY <1>7 DEF CableInv, OneName, OwnPlaces
<1> QED  BY <1>1, <1>2, <1>5, <1>6, CableMoves

\* The parts of an experiment before and after its script.
LEMMA EndCables ==
  ASSUME CableInv, NEW r \in Runs,
         \/ Doctor(r) \/ CollectEvidence(r) \/ WriteManifest(r) \/ ManifestFails(r)
         \/ CleanupPids(r) \/ CleanupPaths(r) \/ KeepEverything(r)
  PROVE  CableInv'
<1>1. UNCHANGED devs /\ UNCHANGED sweep /\ UNCHANGED sweeps
  BY DEF Doctor, CollectEvidence, WriteManifest, ManifestFails, CleanupPids, CleanupPaths,
         KeepEverything
<1>2. ASSUME CollectEvidence(r)
      PROVE  stage' = [stage EXCEPT ![r] = "final"] /\ step' = [step EXCEPT ![r] = 0]
  BY <1>2 DEF CollectEvidence, Raise
<1>3. ASSUME CleanupPids(r) PROVE stage[r] = "stored" /\ stage' = stage /\ step' = step
  BY <1>3 DEF CleanupPids
<1>4. ASSUME ~ CollectEvidence(r), ~ CleanupPids(r)
      PROVE  /\ stage[r] # "script" /\ step' = step
             /\ \E stg \in Stages : stage' = [stage EXCEPT ![r] = stg]
  BY <1>4 DEF Doctor, WriteManifest, ManifestFails, CleanupPaths, KeepEverything, Stages
<1>5. CASE CollectEvidence(r)
  <2>1. Moves(stage, stage', r, "final")
    BY <1>2, <1>5, MovesTo DEF CableInv
  <2>2. Moves(step, step', r, 0) /\ At("final", 0)
    BY <1>2, <1>5, MovesTo DEF CableInv, At
  <2> QED  BY <1>1, <2>1, <2>2, CableQuiet
<1>6. CASE CleanupPids(r)
  <2>1. Moves(stage, stage', r, "stored") /\ Moves(step, step', r, step[r])
    BY <1>3, <1>6, StaysAt
  <2>2. At("stored", step[r])
    BY <1>3, <1>6 DEF CableInv
  <2> QED  BY <1>1, <2>1, <2>2, CableQuiet
<1>7. CASE ~ CollectEvidence(r) /\ ~ CleanupPids(r)
  <2>1. PICK stg \in Stages : stage' = [stage EXCEPT ![r] = stg]
    BY <1>4, <1>7
  <2>2. Moves(stage, stage', r, stg)
    BY <2>1, MovesTo DEF CableInv
  <2>3. Moves(step, step', r, step[r])
    BY <1>4, <1>7, StaysAt
  <2>4. At(stg, step[r]) /\ step[r] = 0
    BY <1>4, <1>7 DEF CableInv, At
  <2>5. Laid(r, 0, devs)
    BY DEF Laid
  <2> QED  BY <1>1, <2>2, <2>3, <2>4, <2>5, CableQuiet
<1> QED  BY <1>5, <1>6, <1>7

\* Steps that leave the scripts and the devices alone.
LEMMA CableIdle ==
  ASSUME CableInv, UNCHANGED stage, UNCHANGED step, UNCHANGED devs,
         UNCHANGED sweep, UNCHANGED sweeps
  PROVE  CableInv'
BY DEF CableInv

\* Once somebody sweeps, nothing is said of the cables but their names.
LEMMA SweepCables ==
  ASSUME CableInv, CleanStale \/ SweepNamespaces
  PROVE  CableInv'
<1>3. UNCHANGED stage /\ UNCHANGED step /\ devs' \subseteq devs
  BY DEF CleanStale, SweepNamespaces, DeleteNamespaces
<1>4. sweeps' = sweeps + 1 \/ (sweep # {} /\ sweeps' = sweeps)
  BY DEF CleanStale, SweepNamespaces
<1>1. UNCHANGED stage /\ UNCHANGED step /\ devs' \subseteq devs /\ sweeps' \in Nat /\ sweeps' # 0
  BY <1>3, <1>4 DEF CableInv
<1>2. OneName(devs')
  BY <1>1 DEF CableInv, OneName
<1> QED  BY <1>1, <1>2 DEF CableInv

LEMMA DiesCables ==
  ASSUME CableInv, NEW h \in Hosts, RunDies(h)
  PROVE  CableInv'
<1>1. /\ stage' = [r \in Runs |-> IF pc'[r] = "crashed" THEN "start" ELSE stage[r]]
      /\ step' = [r \in Runs |-> IF pc'[r] = "crashed" THEN 0 ELSE step[r]]
      /\ UNCHANGED devs /\ UNCHANGED sweep /\ UNCHANGED sweeps
  BY DEF RunDies
<1>2. \A r \in Runs : At(stage'[r], step'[r])
  BY <1>1 DEF CableInv, At
<1>3. \A r \in Runs : stage'[r] = "script" => stage[r] = "script" /\ step'[r] = step[r]
  BY <1>1
<1>4. DOMAIN stage' = Runs /\ DOMAIN step' = Runs
  BY <1>1
<1>5. sweeps' = 0 => \A r \in Runs : stage'[r] = "script" => Laid(r, step'[r], devs')
  BY <1>1, <1>3 DEF CableInv
<1>6. OneName(devs') /\ (sweeps' = 0 => OwnPlaces(devs'))
  BY <1>1 DEF CableInv
<1> QED  BY <1>1, <1>2, <1>4, <1>5, <1>6 DEF CableInv

LEMMA CableStarts == LabInit => CableInv
<1> SUFFICES ASSUME LabInit PROVE CableInv
  OBVIOUS
<1>1. /\ stage = [r \in Runs |-> "start"] /\ step = [r \in Runs |-> 0]
      /\ devs = {} /\ sweep = {} /\ sweeps = 0
  BY DEF LabInit
<1> QED  BY <1>1 DEF CableInv, At, OneName, OwnPlaces

LEMMA CableInductive == LeftInv /\ CableInv /\ [LabNext]_vars => CableInv'
<1> SUFFICES ASSUME LeftInv, CableInv, [LabNext]_vars PROVE CableInv'
  OBVIOUS
<1>1. ASSUME NEW r \in Runs, ExperimentStep(r) PROVE CableInv'
  <2>1. ASSUME SetupStep(r) PROVE CableInv'
    BY <2>1, EndCables, CommandCables, AddLinkCables, MoveLinkCables DEF SetupStep
  <2>2. ASSUME MeasureStep(r) PROVE CableInv'
    BY <2>2, CommandCables, EndCables DEF MeasureStep
  <2>3. ASSUME EndStep(r) PROVE CableInv'
    BY <2>3, EndCables, CleanupNamespacesCables DEF EndStep
  <2>4. ASSUME ReplayBlocked(r) \/ LockStep(r) PROVE CableInv'
    <3>1. /\ UNCHANGED stage /\ UNCHANGED step /\ UNCHANGED devs
          /\ UNCHANGED sweep /\ UNCHANGED sweeps
      BY <2>4 DEF ReplayBlocked, LockStep, labVars
    <3> QED  BY <3>1, CableIdle
  <2> QED  BY <1>1, <2>1, <2>2, <2>3, <2>4 DEF ExperimentStep
<1>2. ASSUME AllEnded \/ UNCHANGED vars PROVE CableInv'
  <2>1. /\ UNCHANGED stage /\ UNCHANGED step /\ UNCHANGED devs
        /\ UNCHANGED sweep /\ UNCHANGED sweeps
    BY <1>2 DEF AllEnded, vars, labVars
  <2> QED  BY <2>1, CableIdle
<1> QED  BY <1>1, <1>2, DiesCables, SweepCables DEF LabNext

(***************************************************************************)
(* OwnLeftAlone.  Whatever commands fail or time out, those of the cleanup *)
(* included, however the lock is shared and whichever processes die: what  *)
(* a run whose cleanup is over has left of its namespaces, processes and   *)
(* pre-shared keys is what the cleanup gave its command for in vain, and   *)
(* unless someone swept no run has moved another run's cable.              *)
(***************************************************************************)
THEOREM OwnLeftAlone == LabSpec => []RunsKeepToTheirOwn
<1>1. LabInit => LeftInv /\ CableInv
  BY LeftStarts, CableStarts
<1>2. LeftInv /\ CableInv /\ [LabNext]_vars => LeftInv' /\ CableInv'
  BY LeftInductive, CableInductive
<1>3. LeftInv /\ CableInv => RunsKeepToTheirOwn
  <2> SUFFICES ASSUME LeftInv, CableInv PROVE RunsKeepToTheirOwn
    OBVIOUS
  <2>1. ASSUME NEW r \in manifests \ NoCleanup, stage[r] = "ended", r \in Runs
        PROVE  /\ \A n \in netns : n[1] = r => n \in undone
               /\ \A p \in procs : p[1] = r => p \in undone
               /\ \A f \in files : f[1] = r /\ f[2] = "conf" => f \in undone
    <3>1. /\ pc[r] # "crashed" /\ tracker[r].netns = {} /\ tracker[r].pids = {}
          /\ tracker[r].paths = {}
      BY <2>1 DEF LeftInv, RunOK
    <3> QED  BY <3>1 DEF LeftInv
  <2>2. sweeps = 0 => \A d \in devs : d.place # Host => d.place[1] = d.pair[1]
    BY DEF CableInv, OwnPlaces
  <2>3. manifests \subseteq Runs
    BY DEF LeftInv
  <2> QED  BY <2>1, <2>2, <2>3 DEF RunsKeepToTheirOwn
<1> QED  BY <1>1, <1>2, <1>3, PTL DEF LabSpec

-----------------------------------------------------------------------------
(* The verdicts.                                                           *)

\* The configurations of r's peers allow an IKE SA.
Agreed(r) ==
  IkeAgrees(render_peer_config(ScenarioOf[r], "a"), render_peer_config(ScenarioOf[r], "b"))

\* Run r at place at and stage stg, with the SA neg, has observed o; w really
\* happened, and st is its status.
JudgedAt(r, at, stg, neg, o, w, st) ==
  /\ DOMAIN o = {"sa", "probe", "packets", "workload"} /\ DOMAIN w = {"ike", "crossed"}
  /\ neg # "none" => Agreed(r)
  /\ o.sa => w.ike /\ Agreed(r)
  /\ o.probe => w.crossed # "nothing"
  /\ st = "VALIDATED" => at = "crashed" \/ stg \in {"final", "stored", "ended"}
  /\ st = "VALIDATED" /\ ScenarioOf[r].expected # "EXPECTED_REJECTION" =>
       w.ike /\ w.crossed # "nothing" /\ Agreed(r)

JudgeInv ==
  /\ DOMAIN pc = Runs /\ DOMAIN stage = Runs /\ DOMAIN status = Runs
  /\ DOMAIN sa = Runs /\ DOMAIN obs = Runs /\ DOMAIN ran = Runs
  /\ \A r \in Runs : JudgedAt(r, pc[r], stage[r], sa[r], obs[r], ran[r], status[r])

\* SAs stay or are lost.
FewerSas == DOMAIN sa' = Runs /\ \A r \in Runs : sa'[r] \in {sa[r], "none"}

LEMMA JudgeMoves ==
  ASSUME JudgeInv, NEW r \in Runs, NEW at, NEW stg, NEW o, NEW w, NEW st,
         Moves(pc, pc', r, at), Moves(stage, stage', r, stg), Moves(status, status', r, st),
         Moves(obs, obs', r, o), Moves(ran, ran', r, w),
         DOMAIN sa' = Runs, \A q \in Runs \ {r} : sa'[q] \in {sa[q], "none"},
         JudgedAt(r, at, stg, sa'[r], o, w, st)
  PROVE  JudgeInv'
<1>1. /\ DOMAIN pc' = Runs /\ DOMAIN stage' = Runs /\ DOMAIN status' = Runs
      /\ DOMAIN obs' = Runs /\ DOMAIN ran' = Runs
      /\ pc'[r] = at /\ stage'[r] = stg /\ status'[r] = st /\ obs'[r] = o /\ ran'[r] = w
      /\ \A q \in Runs \ {r} : /\ pc'[q] = pc[q] /\ stage'[q] = stage[q]
                               /\ status'[q] = status[q] /\ obs'[q] = obs[q] /\ ran'[q] = ran[q]
  BY DEF JudgeInv, Moves
<1>2. ASSUME NEW q \in Runs
      PROVE  JudgedAt(q, pc'[q], stage'[q], sa'[q], obs'[q], ran'[q], status'[q])
  <2>1. CASE q = r
    BY <1>1, <2>1
  <2>2. CASE q # r
    <3>1. JudgedAt(q, pc[q], stage[q], sa[q], obs[q], ran[q], status[q])
      BY DEF JudgeInv
    <3>2. sa'[q] = sa[q] \/ sa'[q] = "none"
      BY <2>2
    <3>3. JudgedAt(q, pc[q], stage[q], sa'[q], obs[q], ran[q], status[q])
      BY <3>1, <3>2 DEF JudgedAt
    <3> QED  BY <1>1, <2>2, <3>3
  <2> QED  BY <2>1, <2>2
<1> QED  BY <1>1, <1>2 DEF JudgeInv

\* A step of run r that observes nothing.
LEMMA JudgeQuiet ==
  ASSUME JudgeInv, NEW r \in Runs, NEW at, NEW stg, NEW st,
         Moves(pc, pc', r, at), Moves(stage, stage', r, stg), Moves(status, status', r, st),
         UNCHANGED obs, UNCHANGED ran, FewerSas,
         st = "VALIDATED" =>
           st = status[r] /\ (at = "crashed" \/ stg \in {"final", "stored", "ended"})
  PROVE  JudgeInv'
<1>1. Moves(obs, obs', r, obs[r]) /\ Moves(ran, ran', r, ran[r])
  BY StaysAt
<1>2. JudgedAt(r, pc[r], stage[r], sa[r], obs[r], ran[r], status[r])
  BY DEF JudgeInv
<1>3. sa'[r] = sa[r] \/ sa'[r] = "none"
  BY DEF FewerSas
<1>4. JudgedAt(r, at, stg, sa'[r], obs[r], ran[r], st)
  BY <1>2, <1>3 DEF JudgedAt
<1>5. DOMAIN sa' = Runs /\ \A q \in Runs \ {r} : sa'[q] \in {sa[q], "none"}
  BY DEF FewerSas
<1> QED  BY <1>1, <1>4, <1>5, JudgeMoves

\* While a run is before its verdict, it is not VALIDATED.
LEMMA NotYet ==
  ASSUME JudgeInv, NEW r \in Runs, pc[r] # "crashed", stage[r] \in {"start", "script"}
  PROVE  status[r] # "VALIDATED"
BY DEF JudgeInv, JudgedAt

LEMMA ScriptJudged ==
  ASSUME JudgeInv, NEW r \in Runs, stage[r] = "script", Body(r), Advance(r) \/ Raise(r)
  PROVE  /\ Moves(pc, pc', r, "held")
         /\ \E stg, st : /\ Moves(stage, stage', r, stg) /\ Moves(status, status', r, st)
                         /\ st # "VALIDATED"
<1>1. pc[r] = "held" /\ pc' = pc
  BY DEF Body, lockVars
<1>2. Moves(pc, pc', r, "held")
  BY <1>1, StaysAt
<1>3. CASE Advance(r)
  <2>1. stage' = stage /\ status' = status
    BY <1>3 DEF Advance
  <2>2. Moves(stage, stage', r, stage[r]) /\ Moves(status, status', r, status[r])
    BY <2>1, StaysAt
  <2>3. status[r] # "VALIDATED"
    BY <1>1, NotYet
  <2> QED  BY <1>2, <2>2, <2>3
<1>4. CASE Raise(r)
  <2>1. stage' = [stage EXCEPT ![r] = "final"] /\ status' = [status EXCEPT ![r] = "FAILED"]
    BY <1>4 DEF Raise
  <2>2. Moves(stage, stage', r, "final")
    BY <2>1, MovesTo DEF JudgeInv
  <2>3. Moves(status, status', r, "FAILED")
    BY <2>1, MovesTo DEF JudgeInv
  <2> QED  BY <1>2, <2>2, <2>3
<1> QED  BY <1>3, <1>4

LEMMA CommandJudged ==
  ASSUME JudgeInv, NEW r \in Runs,
         \/ AddNamespaces(r) \/ AddLink(r) \/ MoveLink(r) \/ ConfigureInside(r)
         \/ ApplyImpairment(r) \/ PreparePeer(r) \/ StartCharon(r) \/ LoadConfiguration(r)
         \/ StartCapture(r) \/ RunWorkload(r)
  PROVE  JudgeInv'
<1>1. /\ stage[r] = "script" /\ Body(r)
      /\ Advance(r) \/ Raise(r)
      /\ UNCHANGED obs /\ UNCHANGED ran /\ UNCHANGED sa
  BY DEF AddNamespaces, AddLink, MoveLink, ConfigureInside, ApplyImpairment, PreparePeer,
         StartCharon, LoadConfiguration, StartCapture, RunWorkload, RunChecked, AtCmd
<1>2. FewerSas
  BY <1>1 DEF FewerSas, JudgeInv
<1>3. PICK stg, st : /\ Moves(stage, stage', r, stg) /\ Moves(status, status', r, st)
                     /\ st # "VALIDATED"
  BY <1>1, ScriptJudged
<1>4. Moves(pc, pc', r, "held")
  BY <1>1, ScriptJudged
<1> QED  BY <1>1, <1>2, <1>3, <1>4, JudgeQuiet

\* What swanctl --initiate negotiates, the configurations allow.
LEMMA InitiateJudged ==
  ASSUME JudgeInv, NEW r \in Runs, Initiate(r)
  PROVE  JudgeInv'
<1>1. /\ stage[r] = "script" /\ Body(r) /\ Advance(r)
      /\ \E n \in Negotiations(r) : sa' = [sa EXCEPT ![r] = n]
      /\ UNCHANGED obs /\ UNCHANGED ran
  BY DEF Initiate, AtCmd
<1>2. PICK n \in Negotiations(r) : sa' = [sa EXCEPT ![r] = n]
  BY <1>1
<1>3. n # "none" => Agreed(r)
  <2>1. Configs(r)["a"] = render_peer_config(ScenarioOf[r], "a")
        /\ Configs(r)["b"] = render_peer_config(ScenarioOf[r], "b")
    BY DEF Configs, Peers
  <2>2. n # "none" => IkeAgrees(Configs(r)["a"], Configs(r)["b"])
    BY DEF Negotiations, ChildAgrees
  <2> QED  BY <2>1, <2>2 DEF Agreed
<1>4. PICK stg, st : /\ Moves(stage, stage', r, stg) /\ Moves(status, status', r, st)
                     /\ st # "VALIDATED"
  BY <1>1, ScriptJudged
<1>5. Moves(pc, pc', r, "held")
  BY <1>1, ScriptJudged
<1>6. Moves(obs, obs', r, obs[r]) /\ Moves(ran, ran', r, ran[r])
  BY <1>1, StaysAt
<1>7. DOMAIN sa' = Runs /\ sa'[r] = n /\ \A q \in Runs \ {r} : sa'[q] = sa[q]
  BY <1>2 DEF JudgeInv
<1>8. JudgedAt(r, "held", stg, sa'[r], obs[r], ran[r], st)
  BY <1>3, <1>4, <1>7 DEF JudgeInv, JudgedAt
<1>9. \A q \in Runs \ {r} : sa'[q] \in {sa[q], "none"}
  BY <1>7
<1> QED  BY <1>4, <1>5, <1>6, <1>7, <1>8, <1>9, JudgeMoves

\* A poll sees an SA that is there, and a probe that passes has crossed.
LEMMA PollJudged ==
  ASSUME JudgeInv, NEW r \in Runs, PollSa(r)
  PROVE  JudgeInv'
<1> DEFINE up == sa[r] # "none"
           seen == sa[r] # "none" /\ Exists(r, PeerNs(ScenarioOf[r], "a"))
           o == [obs[r] EXCEPT !.sa = seen]
           w == [ran[r] EXCEPT !.ike = up]
<1>1. /\ stage[r] = "script" /\ Body(r) /\ Advance(r)
      /\ obs' = [obs EXCEPT ![r] = o] /\ ran' = [ran EXCEPT ![r] = w]
      /\ UNCHANGED sa
  BY DEF PollSa, AtCmd
<1>2. JudgedAt(r, pc[r], stage[r], sa[r], obs[r], ran[r], status[r])
  BY DEF JudgeInv
<1>3. /\ DOMAIN o = {"sa", "probe", "packets", "workload"} /\ DOMAIN w = {"ike", "crossed"}
      /\ (o.sa => up) /\ w.ike = up /\ o.probe = obs[r].probe /\ w.crossed = ran[r].crossed
  BY <1>2 DEF JudgedAt
<1> HIDE DEF o, w
<1>4. PICK stg, st : /\ Moves(stage, stage', r, stg) /\ Moves(status, status', r, st)
                     /\ st # "VALIDATED"
  BY <1>1, ScriptJudged
<1>5. Moves(pc, pc', r, "held")
  BY <1>1, ScriptJudged
<1>6. Moves(obs, obs', r, o) /\ Moves(ran, ran', r, w)
  BY <1>1, MovesTo DEF JudgeInv
<1>7. sa[r] # "none" => Agreed(r)
  BY <1>2 DEF JudgedAt
<1>8. obs[r].probe => ran[r].crossed # "nothing"
  BY <1>2 DEF JudgedAt
<1>9. JudgedAt(r, "held", stg, sa'[r], o, w, st)
  BY <1>1, <1>3, <1>4, <1>7, <1>8 DEF JudgedAt
<1>10. DOMAIN sa' = Runs /\ \A q \in Runs \ {r} : sa'[q] \in {sa[q], "none"}
  BY <1>1 DEF JudgeInv
<1> QED  BY <1>4, <1>5, <1>6, <1>9, <1>10, JudgeMoves

LEMMA PingJudged ==
  ASSUME JudgeInv, NEW r \in Runs, Ping(r)
  PROVE  JudgeInv'
<1>1. PICK passed : /\ obs' = [obs EXCEPT ![r].probe = passed]
                    /\ ran' = [ran EXCEPT ![r].crossed =
                                 IF ~passed THEN "nothing" ELSE IF sa[r] = "child" THEN "esp" ELSE "clear"]
  BY DEF Ping
<1> DEFINE x == IF ~passed THEN "nothing" ELSE IF sa[r] = "child" THEN "esp" ELSE "clear"
<1>2. /\ obs' = [obs EXCEPT ![r].probe = passed]
      /\ ran' = [ran EXCEPT ![r].crossed = x]
      /\ passed => x # "nothing"
  BY <1>1
<1> HIDE DEF x
<1> DEFINE o == [obs[r] EXCEPT !.probe = passed]
           w == [ran[r] EXCEPT !.crossed = x]
<1>3. /\ stage[r] = "script" /\ Body(r) /\ Advance(r)
      /\ obs' = [obs EXCEPT ![r] = o] /\ ran' = [ran EXCEPT ![r] = w]
      /\ UNCHANGED sa
  BY <1>2 DEF Ping, AtCmd
<1>4. JudgedAt(r, pc[r], stage[r], sa[r], obs[r], ran[r], status[r])
  BY DEF JudgeInv
<1>5. /\ DOMAIN o = {"sa", "probe", "packets", "workload"} /\ DOMAIN w = {"ike", "crossed"}
      /\ o.sa = obs[r].sa /\ w.ike = ran[r].ike /\ o.probe = passed /\ w.crossed = x
  BY <1>4 DEF JudgedAt
<1> HIDE DEF o, w
<1>6. PICK stg, st : /\ Moves(stage, stage', r, stg) /\ Moves(status, status', r, st)
                     /\ st # "VALIDATED"
  BY <1>3, ScriptJudged
<1>7. Moves(pc, pc', r, "held")
  BY <1>3, ScriptJudged
<1>8. Moves(obs, obs', r, o) /\ Moves(ran, ran', r, w)
  BY <1>3, MovesTo DEF JudgeInv
<1>9. JudgedAt(r, "held", stg, sa'[r], o, w, st)
  BY <1>2, <1>3, <1>4, <1>5, <1>6 DEF JudgedAt
<1>10. DOMAIN sa' = Runs /\ \A q \in Runs \ {r} : sa'[q] \in {sa[q], "none"}
  BY <1>3 DEF JudgeInv
<1> QED  BY <1>6, <1>7, <1>8, <1>9, <1>10, JudgeMoves

\* A run is VALIDATED for what it has observed.
LEMMA VerdictNeeds ==
  ASSUME NEW s, NEW o, s.expected # "EXPECTED_REJECTION", Verdict(s, o) = "VALIDATED"
  PROVE  o.sa /\ o.probe
<1>1. CASE s.expected = "UNSUPPORTED_ENVIRONMENT"
  <2>1. Verdict(s, o) = "BLOCKED"
    BY <1>1 DEF Verdict
  <2> QED  BY <2>1
<1>2. CASE s.expected # "UNSUPPORTED_ENVIRONMENT" /\ ~ (s.expected \in {"SUCCESS", "EXPECTED_NEGATIVE"} /\ o.sa /\ o.probe)
  <2>1. Verdict(s, o) = "FAILED"
    BY <1>2 DEF Verdict
  <2> QED  BY <2>1
<1> QED  BY <1>1, <1>2

LEMMA CollectJudged ==
  ASSUME JudgeInv, NEW r \in Runs, CollectEvidence(r)
  PROVE  JudgeInv'
<1>1. /\ stage[r] = "script" /\ pc' = pc
      /\ stage' = [stage EXCEPT ![r] = "final"] /\ UNCHANGED ran
      /\ Kill({p \in procs : p[1] = r /\ p[2] \in {"wan", "plain"}})
  BY DEF CollectEvidence, AtCmd, Body, lockVars, Raise
<1>2. FewerSas
  BY <1>1 DEF FewerSas, Kill
<1>3. Moves(pc, pc', r, pc[r])
  BY <1>1, StaysAt
<1>4. Moves(stage, stage', r, "final")
  BY <1>1, MovesTo DEF JudgeInv
<1>5. CASE Raise(r) /\ UNCHANGED obs
  <2>1. status' = [status EXCEPT ![r] = "FAILED"]
    BY <1>5 DEF Raise
  <2>2. Moves(status, status', r, "FAILED")
    BY <2>1, MovesTo DEF JudgeInv
  <2> QED  BY <1>1, <1>2, <1>3, <1>4, <1>5, <2>2, JudgeQuiet
<1>6. CASE \E packets \in BOOLEAN :
             LET o == [obs[r] EXCEPT !.packets = packets]
             IN  /\ obs' = [obs EXCEPT ![r] = o]
                 /\ status' = [status EXCEPT ![r] =
                      IF Kind[r] = "session" THEN SessionVerdict(o) ELSE Verdict(ScenarioOf[r], o)]
  <2>1. PICK packets \in BOOLEAN :
             LET o == [obs[r] EXCEPT !.packets = packets]
             IN  /\ obs' = [obs EXCEPT ![r] = o]
                 /\ status' = [status EXCEPT ![r] =
                      IF Kind[r] = "session" THEN SessionVerdict(o) ELSE Verdict(ScenarioOf[r], o)]
    BY <1>6
  <2> DEFINE o == [obs[r] EXCEPT !.packets = packets]
             st == IF Kind[r] = "session" THEN SessionVerdict(o) ELSE Verdict(ScenarioOf[r], o)
  <2>2. obs' = [obs EXCEPT ![r] = o] /\ status' = [status EXCEPT ![r] = st]
    BY <2>1
  <2>3. JudgedAt(r, pc[r], stage[r], sa[r], obs[r], ran[r], status[r])
    BY DEF JudgeInv
  <2>4. /\ DOMAIN o = {"sa", "probe", "packets", "workload"}
        /\ o.sa = obs[r].sa /\ o.probe = obs[r].probe
    BY <2>3 DEF JudgedAt
  <2> HIDE DEF o
  <2>5. st = "VALIDATED" /\ ScenarioOf[r].expected # "EXPECTED_REJECTION" => o.sa /\ o.probe
    <3> DEFINE s == [expected |-> "SUCCESS"]
    <3>1. s.expected # "EXPECTED_REJECTION"
      OBVIOUS
    <3>2. SessionVerdict(o) = Verdict(s, o)
      BY DEF SessionVerdict
    <3> HIDE DEF s
    <3> QED  BY <3>1, <3>2, VerdictNeeds
  <2> HIDE DEF st
  <2>6. Moves(obs, obs', r, o) /\ Moves(status, status', r, st)
    BY <2>2, MovesTo DEF JudgeInv
  <2>7. Moves(ran, ran', r, ran[r])
    BY <1>1, StaysAt
  <2>8. sa'[r] = sa[r] \/ sa'[r] = "none"
    BY <1>2 DEF FewerSas
  <2>9. JudgedAt(r, pc[r], "final", sa'[r], o, ran[r], st)
    BY <2>3, <2>4, <2>5, <2>8 DEF JudgedAt
  <2>10. DOMAIN sa' = Runs /\ \A q \in Runs \ {r} : sa'[q] \in {sa[q], "none"}
    BY <1>2 DEF FewerSas
  <2> QED  BY <1>3, <1>4, <2>6, <2>7, <2>9, <2>10, JudgeMoves
<1> QED  BY <1>5, <1>6 DEF CollectEvidence

\* A step that observes nothing and leaves r where its verdict may stand.
LEMMA VerdictStands ==
  ASSUME JudgeInv, NEW r \in Runs, NEW at, NEW stg, pc[r] # "crashed",
         Moves(pc, pc', r, at), Moves(stage, stage', r, stg),
         stg \in {stage[r], "stored", "ended"},
         UNCHANGED status, UNCHANGED obs, UNCHANGED ran, FewerSas
  PROVE  JudgeInv'
<1>1. Moves(status, status', r, status[r])
  BY StaysAt
<1>2. status[r] = "VALIDATED" => stg \in {"final", "stored", "ended"}
  BY DEF JudgeInv, JudgedAt
<1> QED  BY <1>1, <1>2, JudgeQuiet

\* A host that is not ready gives no verdict but BLOCKED.
LEMMA BlockedJudged ==
  ASSUME JudgeInv, NEW r \in Runs, ReplayBlocked(r) \/ Doctor(r)
  PROVE  JudgeInv'
<1>1. UNCHANGED obs /\ UNCHANGED ran /\ UNCHANGED sa
  BY DEF ReplayBlocked, Doctor
<1>2. FewerSas
  BY <1>1 DEF FewerSas, JudgeInv
<1>3. CASE ReplayBlocked(r)
  <2>1. /\ pc' = [pc EXCEPT ![r] = "refused"] /\ stage' = stage
        /\ status' = [status EXCEPT ![r] = "BLOCKED"]
    BY <1>3 DEF ReplayBlocked, DoctorRefuses, Goto
  <2>2. /\ Moves(pc, pc', r, "refused") /\ Moves(stage, stage', r, stage[r])
        /\ Moves(status, status', r, "BLOCKED")
    BY <2>1, MovesTo, StaysAt DEF JudgeInv
  <2> QED  BY <1>1, <1>2, <2>2, JudgeQuiet
<1>4. CASE Doctor(r)
  <2>1. stage[r] = "start" /\ pc[r] = "held" /\ pc' = pc
    BY <1>4 DEF Doctor, Body, lockVars
  <2>2. \/ stage' = [stage EXCEPT ![r] = "script"] /\ status' = status
        \/ stage' = [stage EXCEPT ![r] = "final"] /\ status' = [status EXCEPT ![r] = "BLOCKED"]
    BY <1>4 DEF Doctor
  <2>3. Moves(pc, pc', r, "held") /\ status[r] # "VALIDATED"
    BY <2>1, StaysAt, NotYet
  <2>4. \E stg, st : /\ Moves(stage, stage', r, stg) /\ Moves(status, status', r, st)
                     /\ st # "VALIDATED"
    BY <2>2, <2>3, MovesTo, StaysAt DEF JudgeInv
  <2> QED  BY <1>1, <1>2, <2>3, <2>4, JudgeQuiet
<1> QED  BY <1>3, <1>4

\* At the lock, and when a run ends without its manifest or its cleanup.
LEMMA LockJudged ==
  ASSUME JudgeInv, NEW r \in Runs,
         LockStep(r) \/ ManifestFails(r) \/ KeepEverything(r) \/ CleanupPaths(r)
  PROVE  JudgeInv'
<1>1. /\ \/ CallAcquire(r) \/ AcquireStep(r)
         \/ ReleaseLock(r) \/ ReleaseFails(r) \/ EndWithoutCleanup(r)
      /\ stage' = stage \/ stage' = [stage EXCEPT ![r] = "ended"]
      /\ UNCHANGED status /\ UNCHANGED obs /\ UNCHANGED ran /\ UNCHANGED sa
  BY DEF LockStep, ManifestFails, KeepEverything, CleanupPaths, labVars
<1>2. pc[r] # "crashed" /\ \E at \in PCs \ {"crashed"} : Moves(pc, pc', r, at)
  BY <1>1, LockMoves DEF JudgeInv
<1>3. FewerSas
  BY <1>1 DEF FewerSas, JudgeInv
<1>4. \E stg \in {stage[r], "ended"} : Moves(stage, stage', r, stg)
  BY <1>1, MovesTo, StaysAt DEF JudgeInv
<1> QED  BY <1>1, <1>2, <1>3, <1>4, VerdictStands

LEMMA EndJudged ==
  ASSUME JudgeInv, NEW r \in Runs, WriteManifest(r) \/ CleanupPids(r) \/ CleanupNamespaces(r)
  PROVE  JudgeInv'
<1>1. /\ pc[r] = "held" /\ pc' = pc
      /\ stage' = stage \/ stage' = [stage EXCEPT ![r] = "stored"]
      /\ UNCHANGED status /\ UNCHANGED obs /\ UNCHANGED ran
      /\ UNCHANGED sa \/ \E victims : Kill(victims)
  BY DEF WriteManifest, CleanupPids, CleanupNamespaces, DeleteNamespaces, Body, lockVars
<1>2. FewerSas
  BY <1>1 DEF FewerSas, Kill, JudgeInv
<1>3. \E stg \in {stage[r], "stored"} : Moves(stage, stage', r, stg)
  BY <1>1, MovesTo, StaysAt DEF JudgeInv
<1>4. Moves(pc, pc', r, "held")
  BY <1>1, StaysAt
<1> QED  BY <1>1, <1>2, <1>3, <1>4, VerdictStands

\* A sweep takes SAs away and nothing else that a verdict rests on.
LEMMA SweepJudged ==
  ASSUME JudgeInv, CleanStale \/ SweepNamespaces
  PROVE  JudgeInv'
<1>1. /\ UNCHANGED pc /\ UNCHANGED stage /\ UNCHANGED status /\ UNCHANGED obs /\ UNCHANGED ran
      /\ UNCHANGED sa \/ \E victims : Kill(victims)
  BY DEF CleanStale, SweepNamespaces, DeleteNamespaces, lockVars
<1>2. FewerSas
  BY <1>1 DEF FewerSas, Kill, JudgeInv
<1>3. ASSUME NEW r \in Runs
      PROVE  JudgedAt(r, pc[r], stage[r], sa'[r], obs[r], ran[r], status[r])
  <2>1. JudgedAt(r, pc[r], stage[r], sa[r], obs[r], ran[r], status[r])
    BY DEF JudgeInv
  <2>2. sa'[r] = sa[r] \/ sa'[r] = "none"
    BY <1>2 DEF FewerSas
  <2> QED  BY <2>1, <2>2 DEF JudgedAt
<1>4. DOMAIN sa' = Runs
  BY <1>2 DEF FewerSas
<1> QED  BY <1>1, <1>3, <1>4 DEF JudgeInv

\* A run that dies is PENDING, or keeps the verdict it has stored.
LEMMA DiesJudged ==
  ASSUME JudgeInv, NEW h \in Hosts, RunDies(h)
  PROVE  JudgeInv'
<1>1. /\ DOMAIN pc' = Runs
      /\ \A r \in Runs : pc'[r] = pc[r] \/ pc'[r] = "crashed"
  BY DiesMoves DEF JudgeInv
<1>2. /\ stage' = [r \in Runs |-> IF pc'[r] = "crashed" THEN "start" ELSE stage[r]]
      /\ obs' = [r \in Runs |-> IF pc'[r] = "crashed" THEN NothingSeen ELSE obs[r]]
      /\ status' = [r \in Runs |-> IF r \in {q \in Runs : pc'[q] = "crashed"} \ manifests
                                     THEN "PENDING" ELSE status[r]]
      /\ UNCHANGED sa /\ UNCHANGED ran
  BY DEF RunDies
<1>3. ASSUME NEW r \in Runs
      PROVE  JudgedAt(r, pc'[r], stage'[r], sa[r], obs'[r], ran[r], status'[r])
  <2>1. JudgedAt(r, pc[r], stage[r], sa[r], obs[r], ran[r], status[r])
    BY DEF JudgeInv
  <2>2. CASE pc'[r] = "crashed"
    <3>1. stage'[r] = "start" /\ obs'[r] = NothingSeen
      BY <1>2, <2>2
    <3>2. status'[r] = "VALIDATED" => status[r] = "VALIDATED"
      BY <1>2
    <3>3. DOMAIN NothingSeen = {"sa", "probe", "packets", "workload"}
          /\ ~ NothingSeen.sa /\ ~ NothingSeen.probe
      BY DEF NothingSeen
    <3> HIDE DEF NothingSeen
    <3> QED  BY <2>1, <2>2, <3>1, <3>2, <3>3 DEF JudgedAt
  <2>3. CASE pc'[r] # "crashed"
    <3>1. /\ pc'[r] = pc[r] /\ stage'[r] = stage[r] /\ obs'[r] = obs[r]
          /\ status'[r] = status[r]
      BY <1>1, <1>2, <2>3
    <3> QED  BY <2>1, <3>1
  <2> QED  BY <2>2, <2>3
<1>4. /\ DOMAIN stage' = Runs /\ DOMAIN obs' = Runs /\ DOMAIN sa' = Runs /\ DOMAIN ran' = Runs
      /\ sa' = sa /\ ran' = ran
  BY <1>2 DEF JudgeInv
<1> QED  BY <1>1, <1>2, <1>3, <1>4 DEF JudgeInv

LEMMA JudgeStarts == LabInit => JudgeInv
<1> SUFFICES ASSUME LabInit PROVE JudgeInv
  OBVIOUS
<1> DEFINE w == [ike |-> FALSE, crossed |-> "nothing"]
<1>1. /\ pc = [r \in Runs |-> "idle"] /\ stage = [r \in Runs |-> "start"]
      /\ sa = [r \in Runs |-> "none"] /\ obs = [r \in Runs |-> NothingSeen]
      /\ status = [r \in Runs |-> "PENDING"]
      /\ ran = [r \in Runs |-> w]
  BY DEF LabInit, Init
<1>2. DOMAIN NothingSeen = {"sa", "probe", "packets", "workload"}
      /\ ~ NothingSeen.sa /\ ~ NothingSeen.probe
  BY DEF NothingSeen
<1>3. DOMAIN w = {"ike", "crossed"}
  OBVIOUS
<1> HIDE DEF w
<1>4. ASSUME NEW r \in Runs
      PROVE  JudgedAt(r, "idle", "start", "none", NothingSeen, w, "PENDING")
  BY <1>2, <1>3 DEF JudgedAt
<1> QED  BY <1>1, <1>4 DEF JudgeInv

LEMMA JudgeInductive == JudgeInv /\ [LabNext]_vars => JudgeInv'
<1> SUFFICES ASSUME JudgeInv, [LabNext]_vars PROVE JudgeInv'
  OBVIOUS
<1>1. ASSUME NEW r \in Runs, ExperimentStep(r) PROVE JudgeInv'
  <2>1. ASSUME SetupStep(r) PROVE JudgeInv'
    BY <2>1, BlockedJudged, CommandJudged DEF SetupStep
  <2>2. ASSUME MeasureStep(r) PROVE JudgeInv'
    BY <2>2, InitiateJudged, PollJudged, PingJudged, CommandJudged, CollectJudged DEF MeasureStep
  <2>3. ASSUME EndStep(r) PROVE JudgeInv'
    BY <2>3, EndJudged, LockJudged DEF EndStep
  <2> QED  BY <1>1, <2>1, <2>2, <2>3, BlockedJudged, LockJudged DEF ExperimentStep
<1>2. ASSUME AllEnded \/ UNCHANGED vars PROVE JudgeInv'
  <2>1. /\ UNCHANGED pc /\ UNCHANGED stage /\ UNCHANGED status
        /\ UNCHANGED sa /\ UNCHANGED obs /\ UNCHANGED ran
    BY <1>2 DEF AllEnded, vars, lockVars, labVars
  <2> QED  BY <2>1 DEF JudgeInv
<1> QED  BY <1>1, <1>2, DiesJudged, SweepJudged DEF LabNext

(***************************************************************************)
(* VerifiedRan.  A scenario that the API lists as VERIFIED, and that does  *)
(* not expect a rejection, has a stored run with that verdict in which an  *)
(* IKE SA stood when it was polled, the probe got through, and the two     *)
(* rendered configurations agree: whatever failed, died or was swept.      *)
(***************************************************************************)
THEOREM VerifiedRan == LabSpec => []VerifiedScenarioRan
<1>1. LabInit => LeftInv /\ JudgeInv
  BY LeftStarts, JudgeStarts
<1>2. LeftInv /\ JudgeInv /\ [LabNext]_vars => LeftInv' /\ JudgeInv'
  BY LeftInductive, JudgeInductive
<1>3. LeftInv /\ JudgeInv => VerifiedScenarioRan
  <2> SUFFICES ASSUME LeftInv, JudgeInv,
                      NEW s \in Scenarios, list_scenarios(s).is_verified,
                      s.expected # "EXPECTED_REJECTION"
               PROVE  \E r \in ManifestsOf(s) :
                        /\ status[r] = "VALIDATED"
                        /\ ran[r].ike /\ ran[r].crossed # "nothing"
                        /\ IkeAgrees(render_peer_config(s, "a"), render_peer_config(s, "b"))
    BY DEF VerifiedScenarioRan
  <2>1. list_scenarios(s).is_verified = ({r \in ManifestsOf(s) : status[r] = "VALIDATED"} # {})
    BY DEF list_scenarios
  <2>2. PICK r \in ManifestsOf(s) : status[r] = "VALIDATED"
    BY <2>1
  <2>3. r \in Runs /\ ScenarioOf[r] = s
    BY <2>2 DEF ManifestsOf, LeftInv
  <2>4. ran[r].ike /\ ran[r].crossed # "nothing" /\ Agreed(r)
    BY <2>2, <2>3 DEF JudgeInv, JudgedAt
  <2> QED  BY <2>2, <2>3, <2>4 DEF Agreed
<1> QED  BY <1>1, <1>2, <1>3, PTL DEF LabSpec

-----------------------------------------------------------------------------
(* The experiments and the lock protocol.                                  *)

LEMMA LabStepsAreLockSteps == [LabNext]_vars => [Next]_lockVars
<1> SUFFICES ASSUME [LabNext]_vars PROVE Next \/ UNCHANGED lockVars
  OBVIOUS
<1>1. ASSUME NEW r \in Runs, ExperimentStep(r) PROVE RunStep(r) \/ UNCHANGED lockVars
  <2>1. ASSUME ReplayBlocked(r) \/ LockStep(r) PROVE RunStep(r)
    BY <2>1 DEF ReplayBlocked, LockStep, RunStep
  <2>2. ASSUME SetupStep(r) PROVE UNCHANGED lockVars
    BY <2>2 DEF SetupStep, Doctor, AddNamespaces, AddLink, MoveLink, ConfigureInside,
                ApplyImpairment, PreparePeer, StartCharon, LoadConfiguration, StartCapture,
                AtCmd, Body
  <2>3. ASSUME MeasureStep(r) PROVE UNCHANGED lockVars
    BY <2>3 DEF MeasureStep, Initiate, PollSa, Ping, RunWorkload, CollectEvidence, AtCmd, Body
  <2>4. ASSUME EndStep(r) PROVE RunStep(r) \/ UNCHANGED lockVars
    BY <2>4 DEF EndStep, WriteManifest, ManifestFails, CleanupPids, CleanupNamespaces,
                CleanupPaths, KeepEverything, Body, RunStep
  <2> QED  BY <1>1, <2>1, <2>2, <2>3, <2>4 DEF ExperimentStep
<1>2. ASSUME NEW h \in Hosts, RunDies(h) PROVE Crash(h)
  BY <1>2 DEF RunDies
<1>3. ASSUME CleanStale \/ SweepNamespaces PROVE UNCHANGED lockVars
  BY <1>3 DEF CleanStale, SweepNamespaces
<1>4. ASSUME AllEnded \/ UNCHANGED vars PROVE UNCHANGED lockVars
  BY <1>4 DEF AllEnded, vars
<1> QED  BY <1>1, <1>2, <1>3, <1>4 DEF LabNext, Next

(***************************************************************************)
(* ExperimentsLeaveNoLock.  So an experiment, too, whatever command of it  *)
(* failed, leaves the lock file behind only when its process died, it was  *)
(* told not to clean up or its own file operations fail.                   *)
(***************************************************************************)
THEOREM ExperimentsLeaveNoLock == LabSpec => []NoOrphanLock
<1>1. LabInit => Init
  BY DEF LabInit
<1> QED  BY <1>1, LabStepsAreLockSteps, NoLeak, PTL DEF LabSpec, Spec

=============================================================================
