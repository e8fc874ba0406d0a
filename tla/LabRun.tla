------------------------------- MODULE LabRun -------------------------------
(***************************************************************************)
(* Lab experiments: ExperimentRunner.execute_scenario, replay_scenario and *)
(* execute_workload_session under the lock of module LabLock, the          *)
(* resources they create on the host (namespaces, veth pairs, daemons,     *)
(* captures, runtime directories), the LabResourceTracker that must remove *)
(* them, and the clean-stale command, which looks at no lock.              *)
(*                                                                         *)
(* An experiment is a script of commands (Script).  A command that is      *)
(* executed with check raises when it fails; a command that times out may  *)
(* have taken effect.  Experiments run from the command line, each in a    *)
(* process of its own; the body of a remediation run is another module.    *)
(* That a lock grows older than 600 seconds is left to LabLock.            *)
(***************************************************************************)
EXTENDS LabLock, Testbed

CONSTANTS
  Host,        \* the host's own network namespace
  Kind,        \* [Runs -> {"scenario", "replay", "session"}]
  ScenarioOf,  \* [Runs -> scenarios of module Testbed]
  Retain,      \* the workload sessions that keep the plaintext capture
  Missing,     \* the sets of doctor checks that may fail on this host
  MaxSweeps,   \* how often clean-stale may be called
  Stubborn     \* the resources <<r, name>> whose removal may fail

ASSUME LabAssumption ==
  /\ Remediation = {}
  /\ \A r, q \in Runs : HostOf[r] = HostOf[q] => r = q
  /\ Kind \in [Runs -> {"scenario", "replay", "session"}]
  /\ Retain \subseteq {r \in Runs : Kind[r] = "session"}
  /\ Missing \subseteq SUBSET DoctorChecks
  /\ MaxSweeps \in Nat
  /\ Host \notin Runs \X NamespaceNames

VARIABLES
  stage,     \* stage[r]: the part of the experiment's body that is next
  step,      \* step[r]: how many commands of the script in progress are done
  env,       \* the doctor checks that fail on this host
  netns,     \* the namespaces <<r, name>> that exist
  devs,      \* veth ends: [dev, place, pair], pair names the run and the link
  procs,     \* live processes <<r, what, namespace>>
  files,     \* files under /tmp: <<r, what>>
  tracker,   \* tracker[r]: what the LabResourceTracker of r has registered
  loaded,    \* the daemons <<r, peer>> that have their configuration
  sa,        \* sa[r]: what the daemons of r negotiated: "none", "ike", "child"
  obs,       \* obs[r]: what the manifest records of the run
  status,    \* status[r]: validation_status
  manifests, \* the runs whose manifest.json is stored
  sweep,     \* namespaces a clean-stale in progress has listed
  sweeps,    \* how many clean-stale commands were started
  ran,       \* what really happened: [ike, crossed], per run
  undone     \* what a cleanup gave a command for that did not remove it

labVars == <<stage, step, env, netns, devs, procs, files, tracker, loaded, sa,
             obs, status, manifests, sweep, sweeps, ran, undone>>
vars == <<lockVars, labVars>>

Stages == {"start", "doctor", "script", "final", "stored", "ended"}

\* The peers of r's scenario are prepared one after the other.
PeerSteps(p) ==
  <<[op |-> "prepare", peer |-> p], [op |-> "charon", peer |-> p], [op |-> "load", peer |-> p]>>

WanCapture == [op |-> "capture", what |-> "wan", ns |-> "wan", iface |-> "br-wan"]

(***************************************************************************)
(* The plaintext capture.  A scenario captures only in the tunnel          *)
(* topology; a session also in the transport topology, on an interface     *)
(* "v-pa-wan" that setup_transport_topology never creates.                 *)
(***************************************************************************)
PlainCapture(r) ==
  CASE ScenarioOf[r].topology = "TUNNEL_SITE_TO_SITE" ->
         <<[op |-> "capture", what |-> "plain", ns |-> "cli", iface |-> "v-cli-gw"]>>
    [] Kind[r] = "session" ->
         <<[op |-> "capture", what |-> "plain", ns |-> "peera", iface |-> "v-pa-wan"]>>
    [] OTHER -> <<>>

\* The body of execute_scenario and of execute_workload_session.
Script(r) ==
  LET s == ScenarioOf[r]
  IN Topology(s) \o PeerSteps("a") \o PeerSteps("b")
       \o (IF s.impaired THEN <<[op |-> "netem", ns |-> "wan", iface |-> "br-wan"]>> ELSE <<>>)
       \o <<WanCapture>> \o PlainCapture(r)
       \o <<[op |-> "initiate"], [op |-> "poll"], [op |-> "traffic"], [op |-> "collect"]>>

NothingTracked == [netns |-> {}, pids |-> {}, paths |-> {}]
NothingSeen    == [sa |-> FALSE, probe |-> FALSE, packets |-> FALSE, workload |-> FALSE]

LabInit ==
  /\ Init
  /\ stage = [r \in Runs |-> "start"]
  /\ step = [r \in Runs |-> 0]
  /\ env \in Missing
  /\ netns = {} /\ devs = {} /\ procs = {} /\ files = {} /\ loaded = {}
  /\ tracker = [r \in Runs |-> NothingTracked]
  /\ sa = [r \in Runs |-> "none"]
  /\ obs = [r \in Runs |-> NothingSeen]
  /\ status = [r \in Runs |-> "PENDING"]
  /\ manifests = {}
  /\ sweep = {} /\ sweeps = 0 /\ undone = {}
  /\ ran = [r \in Runs |-> [ike |-> FALSE, crossed |-> "nothing"]]

-----------------------------------------------------------------------------
Body(r)  == pc[r] = "held" /\ UNCHANGED lockVars
AtCmd(r, op) ==
  /\ stage[r] = "script"
  /\ step[r] < Len(Script(r))
  /\ Script(r)[step[r] + 1].op = op
  /\ Body(r)
Cmd(r) == Script(r)[step[r] + 1]

Advance(r) == step' = [step EXCEPT ![r] = @ + 1] /\ UNCHANGED <<stage, status>>

\* except Exception: validation_status = "FAILED"; raise, through finally.
Raise(r) ==
  /\ stage' = [stage EXCEPT ![r] = "final"]
  /\ status' = [status EXCEPT ![r] = "FAILED"]
  /\ step' = [step EXCEPT ![r] = 0]

\* SystemRunner.run with check: a failed command, or one that timed out,
\* raises; one that timed out may have taken effect.
RunChecked(r, possible, effect, noEffect) ==
  \/ possible /\ effect /\ Advance(r)
  \/ possible /\ effect /\ Raise(r)
  \/ noEffect /\ Raise(r)

\* ip netns exec needs the name; a namespace without it stands as long as a
\* process is in it.
Exists(r, n) == <<r, n>> \in netns
Stands(r, n) == Exists(r, n) \/ \E p \in procs : p[1] = r /\ p[3] = n
Alive(r, what) == \E p \in procs : p[1] = r /\ p[2] = what
Daemon(peer) == IF peer = "a" THEN "charon-a" ELSE "charon-b"
Ready(r, peer) == Alive(r, Daemon(peer)) /\ <<r, peer>> \in loaded
HostDevs == {d.dev : d \in {e \in devs : e.place = Host}}

\* SIGTERM, then SIGKILL: a daemon takes its configuration and its SAs with it.
Kill(victims) ==
  /\ procs' = procs \ victims
  /\ loaded' = {l \in loaded : \E p \in procs \ victims : p[1] = l[1] /\ p[2] = Daemon(l[2])}
  /\ sa' = [r \in Runs |->
              IF \E p \in victims : p[1] = r /\ p[2] = "charon-a" THEN "none" ELSE sa[r]]

\* Every command of a cleanup runs with check=False and its exceptions are
\* caught: a kill, an ip netns del or an rm may fail or time out.
Refused(things) == SUBSET {t \in things : <<t[1], t[2]>> \in Stubborn}

\* The processes that ip netns pids lists for some namespaces.
Within(names) == {p \in procs : <<p[1], p[3]>> \in names}

(***************************************************************************)
(* ip netns pids and kill, then ip netns del, for each namespace in turn,  *)
(* when kept stay under their names and alive live on.  A deleted          *)
(* namespace takes its devices along, out of reach if a process holds it;  *)
(* a veth end takes its peer.                                              *)
(***************************************************************************)
DeleteNamespaces(names, kept, alive) ==
  LET gone == names \ kept
  IN /\ netns' = netns \ gone
     /\ devs' = {d \in devs : \A e \in devs : e.pair = d.pair => e.place \notin gone}
     /\ Kill(Within(names \cap netns) \ alive)

-----------------------------------------------------------------------------
(***************************************************************************)
(* replay_scenario asks the doctor before anything else; a host that is    *)
(* not ready gives a BLOCKED manifest that is neither locked nor stored.   *)
(***************************************************************************)
ReplayBlocked(r) ==
  /\ Kind[r] = "replay" /\ ~DoctorReady(env)
  /\ DoctorRefuses(r)
  /\ status' = [status EXCEPT ![r] = "BLOCKED"]
  /\ UNCHANGED <<stage, step, env, netns, devs, procs, files, tracker, loaded, sa, obs,
                 manifests, sweep, sweeps, ran, undone>>

\* tracker.acquire_lock(run_id) precedes the try block.
LockStep(r) ==
  /\ Kind[r] = "replay" /\ pc[r] = "idle" => DoctorReady(env)
  /\ CallAcquire(r) \/ AcquireStep(r)
  /\ UNCHANGED labVars

\* doctor.check_environment: without it the run is BLOCKED and returns.
Doctor(r) ==
  /\ stage[r] = "start" /\ Body(r)
  /\ IF DoctorReady(env)
       THEN stage' = [stage EXCEPT ![r] = "script"] /\ UNCHANGED status
       ELSE /\ stage' = [stage EXCEPT ![r] = "final"]
            /\ status' = [status EXCEPT ![r] = "BLOCKED"]
  /\ UNCHANGED <<step, env, netns, devs, procs, files, tracker, loaded, sa, obs,
                 manifests, sweep, sweeps, ran, undone>>

-----------------------------------------------------------------------------
OwnNamespaces(r) ==
  LET names == Namespaces(ScenarioOf[r].topology)
  IN [i \in 1..Len(names) |-> <<r, names[i]>>]

FirstNamespaces(r, k) == {OwnNamespaces(r)[i] : i \in 1..k}
AllNamespaces(r) == FirstNamespaces(r, Len(OwnNamespaces(r)))

\* What is registered is what the cleanup will remove.
Track(r, what, things) == tracker' = [tracker EXCEPT ![r][what] = @ \cup things]

(***************************************************************************)
(* ip netns add and its loopback, for each namespace of the topology; any  *)
(* of the commands may be the one that fails.  The tracker knows all of    *)
(* them before the first one is created.                                   *)
(***************************************************************************)
AddNamespaces(r) ==
  /\ AtCmd(r, "netns")
  /\ Track(r, "netns", AllNamespaces(r))
  /\ \E k \in 0..Len(OwnNamespaces(r)) :
       /\ netns' = netns \cup FirstNamespaces(r, k)
       /\ (k = Len(OwnNamespaces(r)) /\ Advance(r)) \/ Raise(r)
  /\ UNCHANGED <<env, devs, procs, files, loaded, sa, obs, manifests, sweep, sweeps, ran, undone>>

\* ip link add A type veth peer name B, in the host's namespace: fails when
\* one of the names is taken there.  No veth pair is ever registered.
AddLink(r) ==
  /\ AtCmd(r, "link")
  /\ RunChecked(r, {Cmd(r).a, Cmd(r).b} \cap HostDevs = {},
       devs' = devs \cup {[dev |-> d, place |-> Host, pair |-> <<r, Cmd(r).a>>] :
                            d \in {Cmd(r).a, Cmd(r).b}},
       UNCHANGED devs)
  /\ UNCHANGED <<env, netns, procs, files, tracker, loaded, sa, obs, manifests, sweep, sweeps, ran, undone>>

\* ip link set DEV netns NS
MoveLink(r) ==
  /\ AtCmd(r, "move")
  /\ RunChecked(r, Cmd(r).dev \in HostDevs /\ Exists(r, Cmd(r).ns),
       devs' = {IF d.dev = Cmd(r).dev /\ d.place = Host
                  THEN [d EXCEPT !.place = <<r, Cmd(r).ns>>] ELSE d : d \in devs},
       UNCHANGED devs)
  /\ UNCHANGED <<env, netns, procs, files, tracker, loaded, sa, obs, manifests, sweep, sweeps, ran, undone>>

\* Bridge, addresses and routes: each command runs inside a namespace.
ConfigureInside(r) ==
  /\ AtCmd(r, "inside")
  /\ RunChecked(r, AllNamespaces(r) \subseteq netns, UNCHANGED netns, UNCHANGED netns)
  /\ UNCHANGED <<env, devs, procs, files, tracker, loaded, sa, obs, manifests, sweep, sweeps, ran, undone>>

\* NetemManager.apply_impairment on the WAN bridge, with which it goes.
ApplyImpairment(r) ==
  /\ AtCmd(r, "netem") /\ validate_safety(Cmd(r).iface)
  /\ RunChecked(r, Exists(r, Cmd(r).ns), UNCHANGED netns, UNCHANGED netns)
  /\ UNCHANGED <<env, devs, procs, files, tracker, loaded, sa, obs, manifests, sweep, sweeps, ran, undone>>

-----------------------------------------------------------------------------
(***************************************************************************)
(* prepare_peer_runtime: mkdir, register the directory, then write the     *)
(* configuration with the pre-shared key into it.                          *)
(***************************************************************************)
PreparePeer(r) ==
  /\ AtCmd(r, "prepare")
  /\ LET dir == <<r, "dir", Cmd(r).peer>>  conf == <<r, "conf", Cmd(r).peer>>
     IN \/ /\ files' = files \cup {dir, conf}
           /\ Track(r, "paths", {Cmd(r).peer})
           /\ Advance(r) \/ Raise(r)
        \/ /\ files' = files \cup {dir}   \* the directory stands, a write fails
           /\ Track(r, "paths", {Cmd(r).peer})
           /\ Raise(r)
        \/ /\ files' \in {files, files \cup {dir}}   \* mkdir fails or times out
           /\ UNCHANGED tracker
           /\ Raise(r)
  /\ UNCHANGED <<env, netns, devs, procs, loaded, sa, obs, manifests, sweep, sweeps, ran, undone>>

(***************************************************************************)
(* start_charon: Popen, register the pid, then poll the VICI socket for    *)
(* seven seconds.  A daemon that does not answer may still be alive.       *)
(***************************************************************************)
StartCharon(r) ==
  /\ AtCmd(r, "charon")
  /\ LET ns == PeerNs(ScenarioOf[r], Cmd(r).peer)
         proc == <<r, Daemon(Cmd(r).peer), ns>>
         starts == Exists(r, ns) /\ "strongswan_charon" \notin env
     IN /\ Track(r, "pids", {proc})
        /\ RunChecked(r, starts, procs' = procs \cup {proc}, UNCHANGED procs)
  /\ UNCHANGED <<env, netns, devs, files, loaded, sa, obs, manifests, sweep, sweeps, ran, undone>>

\* swanctl --load-all
LoadConfiguration(r) ==
  /\ AtCmd(r, "load")
  /\ RunChecked(r, Alive(r, Daemon(Cmd(r).peer)) /\ Exists(r, PeerNs(ScenarioOf[r], Cmd(r).peer)),
       loaded' = loaded \cup {<<r, Cmd(r).peer>>}, UNCHANGED loaded)
  /\ UNCHANGED <<env, netns, devs, procs, files, tracker, sa, obs, manifests, sweep, sweeps, ran, undone>>

\* Is there such an interface in the namespace?
HasInterface(r, ns, iface) ==
  /\ Exists(r, ns)
  /\ iface = "br-wan" \/ \E d \in devs : d.dev = iface /\ d.place = <<r, ns>>

(***************************************************************************)
(* CaptureManager.start_capture: the directory /tmp/{run_id}/captures is   *)
(* made and not registered; tcpdump on an interface that is not there ends *)
(* at once and the call raises before it registers anything.               *)
(***************************************************************************)
StartCapture(r) ==
  /\ AtCmd(r, "capture") /\ validate_safety(Cmd(r).iface)
  /\ LET proc == <<r, Cmd(r).what, Cmd(r).ns>>
     IN IF HasInterface(r, Cmd(r).ns, Cmd(r).iface)
          THEN \/ /\ procs' = procs \cup {proc}
                  /\ files' = files \cup {<<r, "pcap", Cmd(r).what>>}
                  /\ Track(r, "pids", {proc})
                  /\ Advance(r)
               \/ /\ UNCHANGED <<procs, tracker, files>>
                  /\ Raise(r)
          ELSE UNCHANGED <<procs, tracker, files>> /\ Raise(r)
  /\ UNCHANGED <<env, netns, devs, loaded, sa, obs, manifests, sweep, sweeps, ran, undone>>

-----------------------------------------------------------------------------
Configs(r) == [p \in Peers |-> render_peer_config(ScenarioOf[r], p)]

\* What swanctl --initiate can lead to.
Negotiations(r) ==
  LET c == Configs(r)
      up == /\ Ready(r, "a") /\ Ready(r, "b")
            /\ Exists(r, PeerNs(ScenarioOf[r], "a")) /\ Stands(r, "wan")
  IN {"none"} \cup (IF up /\ IkeAgrees(c["a"], c["b"]) THEN {"ike"} ELSE {})
              \cup (IF up /\ ChildAgrees(c["a"], c["b"]) THEN {"child"} ELSE {})

(***************************************************************************)
(* initiate_tunnel, without check.  When the configurations agree the IKE  *)
(* SA may come up with its Child SA, without it (the kernel refuses the    *)
(* transform, the exchange is lost), or not at all.                        *)
(***************************************************************************)
Initiate(r) ==
  /\ AtCmd(r, "initiate")
  /\ sa' \in {[sa EXCEPT ![r] = n] : n \in Negotiations(r)}
  /\ Advance(r)
  /\ UNCHANGED <<env, netns, devs, procs, files, tracker, loaded, obs, manifests, sweep, sweeps, ran, undone>>

\* Ten times swanctl --list-sas: "ESTABLISHED" (of the IKE SA) or "INSTALLED"
\* (of the Child SA) in its output.
PollSa(r) ==
  /\ AtCmd(r, "poll")
  /\ obs' = [obs EXCEPT ![r].sa = sa[r] /= "none" /\ Exists(r, PeerNs(ScenarioOf[r], "a"))]
  /\ ran' = [ran EXCEPT ![r].ike = sa[r] /= "none"]
  /\ Advance(r)
  /\ UNCHANGED <<env, netns, devs, procs, files, tracker, loaded, sa, manifests, sweep, sweeps, undone>>

(***************************************************************************)
(* The ping of execute_scenario.  The gateways forward and have a route to *)
(* each other's network (the peers share one), so without a Child SA the   *)
(* probe travels in the clear.                                             *)
(***************************************************************************)
Ping(r) ==
  /\ AtCmd(r, "traffic") /\ Kind[r] /= "session"
  /\ LET path == ProbeEnds(ScenarioOf[r]) \cup {"wan"} \cup {PeerNs(ScenarioOf[r], p) : p \in Peers}
         open == Exists(r, ProbeSource(ScenarioOf[r])) /\ \A n \in path : Stands(r, n)
     IN \E passed \in {FALSE, open} :
          /\ obs' = [obs EXCEPT ![r].probe = passed]
          /\ ran' = [ran EXCEPT ![r].crossed =
                       IF ~passed THEN "nothing" ELSE IF sa[r] = "child" THEN "esp" ELSE "clear"]
  /\ Advance(r)
  /\ UNCHANGED <<env, netns, devs, procs, files, tracker, loaded, sa, manifests, sweep, sweeps, undone>>

(***************************************************************************)
(* The workload of a session.  Without the SA it is skipped.  With it, the *)
(* call always raises: the servers call SystemRunner.run_background, which *)
(* does not exist, and run_client has no parameter client_ns.              *)
(***************************************************************************)
RunWorkload(r) ==
  /\ AtCmd(r, "traffic") /\ Kind[r] = "session"
  /\ IF obs[r].sa THEN Raise(r) ELSE Advance(r)
  /\ UNCHANGED <<env, netns, devs, procs, files, tracker, loaded, sa, obs, manifests, sweep, sweeps, ran, undone>>

\* A session leaves the plaintext capture behind unless asked to retain it.
CopiedCaptures(r) ==
  {<<r, "stored", w>> :
     w \in {"wan"} \cup (IF Kind[r] /= "session" \/ r \in Retain THEN {"plain"} ELSE {})}

\* stop_all, then the copies to storage.  The filter of the WAN capture
\* passes IKE as well as ESP: a negotiation suffices for a packet.
CollectEvidence(r) ==
  /\ AtCmd(r, "collect")
  /\ Kill({p \in procs : p[1] = r /\ p[2] \in {"wan", "plain"}})
  /\ \/ \E packets \in BOOLEAN :
          LET o == [obs[r] EXCEPT !.packets = packets]
          IN /\ obs' = [obs EXCEPT ![r] = o]
             /\ status' = [status EXCEPT ![r] =
                  IF Kind[r] = "session" THEN SessionVerdict(o) ELSE Verdict(ScenarioOf[r], o)]
             /\ stage' = [stage EXCEPT ![r] = "final"]
             /\ step' = [step EXCEPT ![r] = 0]
             /\ files' = files \cup CopiedCaptures(r)
     \/ Raise(r) /\ UNCHANGED <<obs, files>>   \* cp fails
  /\ UNCHANGED <<env, netns, devs, tracker, manifests, sweep, sweeps, ran, undone>>

-----------------------------------------------------------------------------
\* finally: manifest.json.
WriteManifest(r) ==
  /\ stage[r] = "final" /\ Body(r)
  /\ manifests' = manifests \cup {r}
  /\ stage' = [stage EXCEPT ![r] = "stored"]
  /\ UNCHANGED <<step, env, netns, devs, procs, files, tracker, loaded, sa, obs, status,
                 sweep, sweeps, ran, undone>>

\* The file cannot be written: the exception leaves the finally block before
\* the cleanup and before release_lock.
ManifestFails(r) ==
  /\ stage[r] = "final" /\ r \in IOFaults
  /\ ReleaseFails(r) \/ EndWithoutCleanup(r)
  /\ stage' = [stage EXCEPT ![r] = "ended"]
  /\ UNCHANGED <<step, env, netns, devs, procs, files, tracker, loaded, sa, obs, status,
                 manifests, sweep, sweeps, ran, undone>>

\* tracker.cleanup, first part: the registered processes, which are
\* forgotten whether they died or not.
CleanupPids(r) ==
  /\ stage[r] = "stored" /\ r \notin NoCleanup /\ Body(r)
  /\ tracker[r].pids /= {}
  /\ \E alive \in Refused(tracker[r].pids \cap procs) :
       /\ Kill(tracker[r].pids \ alive)
       /\ undone' = undone \cup alive
  /\ tracker' = [tracker EXCEPT ![r].pids = {}]
  /\ UNCHANGED <<stage, step, env, netns, devs, files, obs, status, manifests, sweep, sweeps, ran>>

\* Mutant of CleanupNamespaces: one try block around the loop, so that the
\* first removal that fails leaves the namespaces after it alone.
CleanupNamespaces_OneTry(r) ==
  /\ stage[r] = "stored" /\ r \notin NoCleanup /\ Body(r)
  /\ tracker[r].pids = {} /\ tracker[r].netns /= {}
  /\ \E kept \in SUBSET (tracker[r].netns \cap netns) : \E failed \in Refused(kept) :
       /\ (kept = {} /\ failed = {}) \/ Cardinality(failed) = 1
       /\ DeleteNamespaces(tracker[r].netns, kept, {})
       /\ undone' = undone \cup failed
  /\ tracker' = [tracker EXCEPT ![r].netns = {}]
  /\ UNCHANGED <<stage, step, env, files, obs, status, manifests, sweep, sweeps, ran>>

\* ... the registered namespaces with everything that runs in them ...
CleanupNamespaces(r) ==
  /\ stage[r] = "stored" /\ r \notin NoCleanup /\ Body(r)
  /\ tracker[r].pids = {} /\ tracker[r].netns /= {}
  /\ \E kept \in Refused(tracker[r].netns \cap netns), alive \in Refused(Within(tracker[r].netns \cap netns)) :
       /\ DeleteNamespaces(tracker[r].netns, kept, alive)
       /\ undone' = undone \cup kept \cup alive
  /\ tracker' = [tracker EXCEPT ![r].netns = {}]
  /\ UNCHANGED <<stage, step, env, files, obs, status, manifests, sweep, sweeps, ran>>

\* ... and rm -rf for every peer directory, /tmp/tt-{run_id}/{peer}, which
\* _is_safe_run_path accepts.
CleanupPaths(r) ==
  /\ stage[r] = "stored" /\ r \notin NoCleanup
  /\ tracker[r].pids = {} /\ tracker[r].netns = {}
  /\ LET peerFiles == {f \in files : f[1] = r /\ f[2] \in {"dir", "conf"} /\ f[3] \in tracker[r].paths}
     IN \E left \in Refused(peerFiles) :
          /\ files' = files \ (peerFiles \ left)
          /\ undone' = undone \cup left
  /\ tracker' = [tracker EXCEPT ![r].paths = {}]
  /\ stage' = [stage EXCEPT ![r] = "ended"]
  /\ ReleaseLock(r) \/ ReleaseFails(r)
  /\ UNCHANGED <<step, env, netns, devs, procs, loaded, sa, obs, status, manifests, sweep, sweeps, ran>>

\* --no-cleanup: everything stays, the lock too.
KeepEverything(r) ==
  /\ stage[r] = "stored"
  /\ EndWithoutCleanup(r)
  /\ stage' = [stage EXCEPT ![r] = "ended"]
  /\ UNCHANGED <<step, env, netns, devs, procs, files, tracker, loaded, sa, obs, status,
                 manifests, sweep, sweeps, ran, undone>>

-----------------------------------------------------------------------------
(***************************************************************************)
(* lab clean-stale: clean_all_stale_resources lists the namespaces and     *)
(* deletes every one with the prefix "tt-", whoever uses it.               *)
(***************************************************************************)
CleanStale ==
  /\ sweeps < MaxSweeps /\ sweep = {} /\ netns /= {}
  /\ sweep' = netns
  /\ sweeps' = sweeps + 1
  /\ UNCHANGED <<lockVars, stage, step, env, netns, devs, procs, files, tracker, loaded, sa,
                 obs, status, manifests, ran, undone>>

\* ... what was listed, and only that, is deleted some time later, with the
\* same commands.
SweepNamespaces ==
  /\ sweep /= {}
  /\ \E kept \in Refused(sweep \cap netns), alive \in Refused(Within(sweep \cap netns)) :
       DeleteNamespaces(sweep, kept, alive)
  /\ sweep' = {}
  /\ UNCHANGED <<lockVars, stage, step, env, files, tracker, obs, status, manifests, sweeps, ran, undone>>

\* The process of a run dies, and its memory with it; what it created stays.
RunDies(h) ==
  /\ Crash(h)
  /\ LET dead == {r \in Runs : pc'[r] = "crashed"}
         Lost(f, value) == [r \in Runs |-> IF r \in dead THEN value ELSE f[r]]
     IN /\ stage' = Lost(stage, "start")
        /\ step' = Lost(step, 0)
        /\ tracker' = Lost(tracker, NothingTracked)
        /\ obs' = Lost(obs, NothingSeen)
        /\ status' = [r \in Runs |-> IF r \in dead \ manifests THEN "PENDING" ELSE status[r]]
  /\ UNCHANGED <<env, netns, devs, procs, files, loaded, sa, manifests, sweep, sweeps, ran, undone>>

SetupStep(r) ==
  \/ Doctor(r) \/ AddNamespaces(r) \/ AddLink(r) \/ MoveLink(r) \/ ConfigureInside(r) \/ ApplyImpairment(r)
  \/ PreparePeer(r) \/ StartCharon(r) \/ LoadConfiguration(r) \/ StartCapture(r)

MeasureStep(r) ==
  \/ Initiate(r) \/ PollSa(r) \/ Ping(r) \/ RunWorkload(r) \/ CollectEvidence(r)

EndStep(r) ==
  \/ WriteManifest(r) \/ ManifestFails(r) \/ CleanupPids(r) \/ CleanupNamespaces(r)
  \/ CleanupPaths(r) \/ KeepEverything(r)

ExperimentStep(r) ==
  ReplayBlocked(r) \/ LockStep(r) \/ SetupStep(r) \/ MeasureStep(r) \/ EndStep(r)

AllEnded == (\A r \in Runs : pc[r] \in Final) /\ UNCHANGED vars

LabNext ==
  \/ \E r \in Runs : ExperimentStep(r)
  \/ \E h \in Hosts : RunDies(h)
  \/ CleanStale \/ SweepNamespaces
  \/ AllEnded

LabSpec == LabInit /\ [][LabNext]_vars
-----------------------------------------------------------------------------
(***************************************************************************)
(* The scenario list of the API (api/v1/lab): the stored manifests of a    *)
(* scenario, and VERIFIED as soon as one of them says VALIDATED.           *)
(***************************************************************************)
ManifestsOf(s) == {r \in manifests : ScenarioOf[r] = s}

list_scenarios(s) ==
  LET runs == ManifestsOf(s)
      validated == {r \in runs : status[r] = "VALIDATED"}
  IN [total_runs     |-> Cardinality(runs),
      validated_runs |-> Cardinality(validated),
      is_verified    |-> validated /= {},
      latest_run     |-> IF validated /= {} THEN validated ELSE runs]

Scenarios == {ScenarioOf[r] : r \in Runs}

get_lab_stats ==
  [verified  |-> Cardinality({s \in Scenarios : list_scenarios(s).is_verified}),
   manifests |-> Cardinality(manifests)]

(***************************************************************************)
(* RunsKeepToTheirOwn.  Whatever command of an experiment failed or timed  *)
(* out, and whoever swept the host meanwhile: once its cleanup is over,    *)
(* the namespaces, processes and files with the pre-shared key of that run *)
(* that are left are those for which the cleanup gave its command in vain, *)
(* none it never knew of and none because another removal failed           *)
(* ("strict resource accounting for all created Linux namespaces").  And   *)
(* although the veth names are the same in every run and the lock can be   *)
(* held twice, no run moves another run's cable into its own namespaces,   *)
(* unless clean-stale removed one in between.                              *)
(***************************************************************************)
RunsKeepToTheirOwn ==
  /\ \A r \in manifests \ NoCleanup : stage[r] = "ended" =>
       /\ \A n \in netns : n[1] = r => n \in undone
       /\ \A p \in procs : p[1] = r => p \in undone
       /\ \A f \in files : f[1] = r /\ f[2] = "conf" => f \in undone
  /\ sweeps = 0 =>
       \A d \in devs : d.place /= Host => d.place[1] = d.pair[1]

(***************************************************************************)
(* VerifiedScenarioRan.  A scenario the API lists as VERIFIED and that     *)
(* does not expect a rejection had a run in which the two daemons of that  *)
(* run, with the configurations rendered for it, agreed on an IKE SA and   *)
(* the probe got through: a ping that travels in the clear is not enough.  *)
(***************************************************************************)
VerifiedScenarioRan ==
  \A s \in Scenarios :
    list_scenarios(s).is_verified /\ s.expected /= "EXPECTED_REJECTION" =>
      \E r \in ManifestsOf(s) :
        /\ status[r] = "VALIDATED"
        /\ ran[r].ike /\ ran[r].crossed /= "nothing"
        /\ IkeAgrees(render_peer_config(s, "a"), render_peer_config(s, "b"))

=============================================================================
