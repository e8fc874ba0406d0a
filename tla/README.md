# TunnelTrace AI: TLA+ verification

TunnelTrace AI analyses IPsec/IKEv2 traffic: it takes packet captures, dissects
them, rebuilds IKE sessions, security associations and ESP flows, classifies the
flows, evaluates security policies, proposes a safer strongSwan configuration
and, on a lab testbed, applies it in a closed loop with backup, verification and
rollback. Beside that it monitors gateways continuously. The backend is a
FastAPI application (one asyncio event loop, SQLAlchemy sessions on PostgreSQL
or SQLite); the lab is a set of Linux network namespaces with strongSwan
daemons; a collector script runs on the gateways.

This directory holds TLA+ models of the parts whose correctness depends on the
order of steps, the TLC configurations that check them, and TLAPS proofs of
what matters most. `PROJECT.json` lists components, runs, the source lines
behind every definition, mutants, hazards, findings and theorems.

    tlc -workers 2 -config MCRemediationFaults.cfg MCRemediation
    tlapm RemediationProofs.tla

## 1. Inventory

Paths are relative to `src/`; `app/` stands for `backend/app/`.

### Components with state and concurrency

| Component | State | Operations | Meets | What makes it hard | What makes it correct |
|---|---|---|---|---|---|
| **Lab lock** `lab/agent/cleanup/tracker.py` | the file `lab.lock` with a time stamp | acquire (poll, stale recovery), release, preflight look | every remediation run and experiment | two processes, test and write are two steps, crashes, age | exclusion; no file left behind; nobody polls for ever |
| **Remediation runner** `app/remediation/runner.py` | run row, step journal, the gateway's file and daemon, backup, lock | about 40 awaited steps, handler, rollback, finally | lab lock, privileged agent, analysis pipeline | a fault or crash between any two steps; rollback on a broken session | a candidate never stays unannounced; COMPLETED and ROLLED_BACK tell the truth |
| **Analysis pipeline** `app/services/pipeline.py`, `app/protocol/service.py`, `app/reconstruction/engine.py`, `app/ml/service.py`, `app/api/v1/{analyses,security}` | AnalysisRun, observations, sessions/SAs/flows, inference rows, assessment | create, recompute, view, archive, delete | tshark, model bundle | concurrent requests on one run, swallowed exceptions, four commits, restarts | one reconstruction per run; one meaning of "current"; an assessment of the run's own evidence |
| **Continuous monitoring** `app/monitoring/`, `app/api/v1/monitoring/` | gateway, sensor, health, SA and event rows | register, revoke, ingest, pulse, health page | collector, WebSocket feed | autoflush off, column-wise UPDATEs, one commit per batch, replays | projections rest on stored events; losses are flagged; revocation is final |
| **Gateway collector** `scripts/gateway_collector.py` | sequence number, session id | poll, post, time out, restart | monitoring | gives up on a batch the server may still commit | sequence numbers reveal what was lost |
| **Privileged agent** `app/integrations/privileged_agent/local.py` | files, processes, captures of the host | one action per privileged call | runner, live capture, lab | partial effects of a failing action | a failing action is reported as failing |
| **Capture ingestion** `app/capture/` | staged and promoted files, Capture rows | upload, validate, deduplicate, promote | analysis pipeline, live capture | file and row are written apart; two uploads of one file | a row has its file; one row per hash |
| **Live capture** `app/api/v1/live_captures/`, `lab/agent/capture/` | tcpdump process, LiveCapture row | start, status, stop, promote | agent, ingestion | the process starts before its row exists; stop forgets before it stops | every tcpdump can be stopped; a stopped session ends |
| **Data lifecycle** `app/core/lifecycle.py` | staging directory, Capture rows | purge, backup | ingestion, pipeline | deletes files that a run may be reading | only unreferenced files go |
| **Configuration inventory** `app/inventory/` | snapshots, baseline flag, drift, certificates | import, designate, compare | discovery, vulnerability reports | two designations at once | one baseline per gateway |
| **Discovery, active probing** `app/discovery/`, `app/protocol/ike_scan/` | job and host rows | start, run, cancel, probe | vulnerability reports | names resolve differently later; a job written after a scan with what was read before it | a scan stays within its scope |
| **Vulnerability reports** `app/vulnerabilities/` | report and link rows | preview, import, correlate | discovery | hosts are added while a report is correlated | a link names the one host it can mean |
| **Remediation planning** `app/remediation/`, `app/api/v1/remediation/` | twins, proposals, approvals | get, edit, apply | assessment, runner | a twin made before the assessment committed is reconciled later | a proposal fixes its targets, also in its text |
| **Datasets** `app/datasets/`, `app/api/v1/datasets/`, `app/ml/dataset.py` | families, versions with counters, sessions, split rows | register, add, partition, build | captures, training | counters written back from a read; two partitions at once | counters and splits say what is stored; no session on two sides |
| **Forensic replay** `app/replay/` | child run, comparison | replay | pipeline | integrity of the capture, in-place JSON change | a replay compares like with like |
| **Reporting** `app/reporting/` | report row, artifact, hash | create, render, download | pipeline | PDF rendered later than the snapshot | the artifact is the snapshot's |
| **Lab experiments and resources** `lab/agent/` | namespaces, daemons, emulated links, manifest | run scenario, clean up | lab lock | cleanup of everything while a run is in progress | a run's resources are its own |
| **Analysis WebSocket** `app/api/v1/websocket/` | subscribers | subscribe, broadcast | pipeline | dropped connections | no state depends on it |

### Components that compute

| Component | What it computes | What makes it correct |
|---|---|---|
| Protocol extraction and normalisation `app/protocol/` | observations from tshark's JSON | every observation has a frame; nothing is invented |
| Reconstruction `app/reconstruction/` | sessions, SAs, flows from observations | a partition of the packets, independent of their order |
| Policy evaluation `app/security/policy/` | PASS, FAIL, UNKNOWN, ... from three-valued facts | UNKNOWN never turns into PASS or FAIL without evidence; monotone in information |
| Scoring, findings, risk `app/security/scoring`, `findings`, `risk` | scores with caps and floors | within 0..100; a further violation never improves a score |
| Templates, renderer, parser, comparator `app/remediation/` | candidate configuration and its text, projection, verdict of the comparison | the text says what the proposal says; "resolved" needs an observed improvement |
| Machine learning, AI analyst, threat intelligence, frontend, scripts | predictions, text, views | outside this project, see section 8 |

### How the components interact

An upload or a stopped live capture produces a Capture. A create or recompute
request executes the pipeline on it: dissection, reconstruction, inference,
assessment, each with its own commits and all on the request's session. The
security pages call the assessment stage too. An assessment's findings lead to
a proposal; an approved proposal is executed by the remediation runner, which
takes the lab lock, drives the agent, produces a post-change capture and runs
the pipeline on it. Experiments take the same lock in processes of their own.
Monitoring shares only the database and the gateways with the rest.

## 2. Plan

Done in this order, the most consequential behaviour first:

1. `LabLock`: the mutex everything on the testbed depends on.
2. `Remediation`, `RemediationContract`: the only code that changes a gateway.
3. `AnalysisPipeline`: the concurrent requests every other page reads from.
4. `Monitoring`: ingestion, projections, the collector.
5. `Reconstruction`, `PolicyLogic`, `Assessment`: what an analysis computes, from
   the frames of a capture to the verdicts, the score and the evidence graph.
6. `EvidenceStore`: where the bytes of captures come from and go to.
7. `Records`: what replays, reports and pages tell about an analysis.
8. `Inventory`, `Scanning`, `Datasets`: the registries beside the analyses.
9. `ConfigTwin`, `TwinProjection`, `RemediationPlanning`: from findings to an
   approved text, and the judgement of the evidence after it was applied.
10. `Testbed`, `LabRun`: experiments under the lock of `LabLock`.
11. `Normalization`, `CaptureAnalysis`: from the dissected packet to the report,
    in front of `Reconstruction` and `Assessment`.

Proofs follow the same order, and `Folding` carries those about folds. What is
left of them: `RenderedFixesTargets`, and liveness (section 5). After that, the gates of the AI analyst as operators, the rolling
capture of the collector, and a composition of `LabLock` with `Remediation`, whose
`OthersLock` stands in for it.

## 3. The modules

| Module | Role |
|---|---|
| `LabLock` | the lock protocol |
| `MCLabLock` | its instance: remediation runs on the API host, an experiment on a CLI host |
| `Testbed` | what an experiment builds, the peers' configurations, its verdict (operators) |
| `LabRun`, `MCLabRun` | experiments: extends `LabLock` and `Testbed`; an instance |
| `LabRunProofs` | proofs about `LabLock` and `LabRun`, and that the second keeps to the first |
| `Remediation` | one closed-loop run, its gateway, its journal |
| `RemediationContract` | what a remediation promises, four verdicts |
| `MCRemediation` | its instances |
| `RemediationProofs` | proofs about the run, the refinement included, and about `RemediationPlanning` |
| `AnalysisPipeline` | the requests on one capture |
| `MCAnalysisPipeline`, `AnalysisPipelineProofs` | instances and proofs |
| `Monitoring` | one sensor, its collector and the server |
| `MCMonitoring`, `MonitoringProofs` | an instance and proofs |
| `Normalization` | observations of dissected packets, the summary and its reading back |
| `Reconstruction` | sessions, SAs, Child SAs, streams and flows of a capture |
| `PolicyLogic` | the rule evaluator on one fact map |
| `Assessment` | facts, subjects, findings, score, risk, graph; one analysis as a state |
| `CaptureAnalysis` | `Normalization` composed with `Assessment` |
| `MCAssessment` | an instance of `CaptureAnalysis` |
| `AssessmentProofs` | proofs about `PolicyLogic`, `Reconstruction`, `Assessment`, `CaptureAnalysis` and `Records` |
| `Folding` | induction over the naturals, and what a fold from the left computes |
| `EvidenceStore`, `EvidenceStoreProofs` | uploads, live captures, purges: files and rows |
| `Records`, `MCRecords` | replay, reports and posture views over rows that change; an instance |
| `MCEvidenceStore` | an instance of `EvidenceStore` beside that of `Records` |
| `Inventory` | configuration snapshots, baseline, drift, certificates |
| `Scanning` | discovery, IKE probes, imported vulnerability reports |
| `Datasets` | dataset families, counters, splits, training sets |
| `MCAssets`, `AssetProofs` | instances of the last three; proofs about all three |
| `ConfigTwin` | configurations, renderer, parser, templates (operators) |
| `TwinProjection` | snapshot, projection, judgement (operators) |
| `RemediationPlanning`, `MCRemediationPlanning` | twins, proposals, approvals under concurrent requests |

### LabLock

`pc[r]` is where run `r` is; `entry` is the inode the directory entry
`lab.lock` names; `stamp[i]` is what inode `i` holds (nothing yet, a fresh or
an old time stamp); `fd[r]` is the inode the run's `write_text` has open. A
tracker acquires once, so an inode is named by the run that created it. Every
file operation is a step.

| Code | Action |
|---|---|
| `run_preflight_checks`, existence of `lab.lock` | `Preflight` |
| the doctor of a replay refuses | `DoctorRefuses` |
| call of `acquire_lock` | `CallAcquire` |
| `lock_file.exists()` | `TestFree` |
| `write_text`: open with truncation, then write | `OpenForWrite`, `WriteStamp`, `WriteFails` |
| stale check, forced recovery | `InspectAge`, `ForceRecovery` |
| end of the polling loop | `GiveUp` |
| `release_lock` | `ReleaseLock`, `ReleaseFails` |
| experiment with `cleanup_after=False` | `EndWithoutCleanup` |
| process death, passing of 600 s (external) | `Crash`, `Expire` |

Runs of one host are not interleaved inside `acquire_lock`, because it is
synchronous code on one event loop; runs of different hosts are. `IOFaults` is
the set of runs whose write or unlink may raise `OSError`.

### Testbed, LabRun

An experiment is a script of commands (`Script`): the namespaces and links of
its topology, the two peers' directories, daemons and configurations, the
impairment, the captures, initiate, poll, traffic, collection. `stage[r]` and
`step[r]` say where run `r` is in it. A command executed with `check` can fail
before it has an effect or raise (a time-out) after it (`RunChecked`). The host is
`netns`, `devs`, `procs`, `files`, with the links' fixed names in one name space;
`tracker[r]` is what the run has registered for its cleanup; `sa[r]` is what its
daemons negotiated from the configurations `Testbed` renders for them.

| Code | Actions |
|---|---|
| `replay_scenario`, doctor | `ReplayBlocked`, `Doctor` |
| `acquire_lock` | `LockStep`, the actions of `LabLock` |
| namespaces, links, netem | `AddNamespaces`, `AddLink`, `MoveLink`, `ConfigureInside`, `ApplyImpairment` |
| daemons and captures | `PreparePeer`, `StartCharon`, `LoadConfiguration`, `StartCapture` |
| measurement | `Initiate`, `PollSa`, `Ping`, `RunWorkload`, `CollectEvidence` |
| `finally` | `WriteManifest`, `ManifestFails`, `CleanupPids`, `CleanupNamespaces`, `CleanupPaths`, `KeepEverything` |
| `clean_all_stale_resources` | `CleanStale`, `SweepNamespaces` |
| death of a process (external) | `RunDies` |

Every command of a cleanup or a sweep runs without check, its exceptions are
caught and the tracker forgets what it was for: `Refused` are the removals among
those in `Stubborn` that fail or time out. A namespace whose name is gone stands
while a process that was not killed is in it (`Stands`).

`ran[r]` and `undone` are history variables: did an IKE SA exist, did the probe
cross inside ESP or in the clear; and what a cleanup gave its command for in vain.
The removal of a run's namespaces is one step; that a lock grows old is left to
`LabLock`.

### Remediation

One action per await of `execute_closed_loop_run`. `SetX` commits a status,
`RecordX` commits a journal row, the rest are agent calls and computations.
`OnRaise` says where an exception raised at each place goes: out of the
function before the `try`, into the handler inside it, into "rollback failed"
inside the rollback's own `try`, and to the `finally` clause in the rest of the
handler. `session` becomes "broken" when a commit fails and is never repaired,
since nobody calls `rollback()`. The gateway is `file`, `loaded`, `backup` and
`sas`: `Backup`, `Apply`, `Reload`, `Restore` and `ReloadRestored` change it, and
each may fail before or after its effect where the code allows that.
`VerifiedRestore` and `ReportsLoss` select between the answers of
`LocalPrivilegedAgentClient` and those the runner and its tests expect.
Preflight, the re-analysis and the comparison are free choices of outcome.
`Release` may keep the lock, as the code swallows an `OSError` of the unlink ("kept").
`OthersLock` is the rest of the world taking and returning `lab.lock`, and removing
one that is kept when it is old, which `LabLock` models.

`RemediationContract` knows only the gateway (`file`, `loaded`) and a verdict:
open, accepted (candidate in file and daemon), reverted (baseline in both),
declined (no candidate anywhere), operator (somebody has to look). While the
verdict is open the candidate may be installed over a baseline, put back and
loaded; a verdict is reached once, only over a gateway it describes, and the
gateway does not change after it. `StatusVerdict` is the refinement mapping from the
committed status.

### AnalysisPipeline

Runs and rows are named by the request that wrote them. `seen[p]` holds what
request `p` has read and will use after a later await: rows of other inferences,
observations, sessions, flows. `lock[r]` is the row lock that an uncommitted
UPDATE of run `r` takes in PostgreSQL at READ COMMITTED.

| Code | Actions |
|---|---|
| `create_analysis`, reuse, insertion | `Reuse`, `Create`, `InsertRun` |
| `recompute_analysis`, security pages, archive, delete | `Recompute`, `View`, `Archive`, `Delete` |
| `ProtocolForensicsService.execute_analysis` | `BeginProtocol`, `StoreObservations`, `ParserFails`, `ProtocolGone` |
| `ReconstructionEngine.execute_reconstruction` | `BeginReconstruction`, `CommitReconstruction`, `ReconstructionRaises` |
| `execute_flow_classification` | `BeginInference`, `Classify`, `InferenceRaises`, `CommitInference`, `InferenceRejected`, `InferenceGone` |
| `_ensure_assessment_executed` | `CheckAssessment`, `ReadSessions`, `ReadFlows`, `CommitAssessment`, `AssessmentRaises`, `AssessmentGone` |
| process stop and deployment of other versions (external) | `Restart` |

`Restart` ends every request and may change the versions of pipeline and
policy, which is when create stops reusing and recompute has a meaning.

### Monitoring

`health`, `rows`, `stored` are the committed tables. `req[h]` is a request being
ingested: its remaining events, the rows its session has read or added and the
columns it has changed. With autoflush off a query does not see what the
session has added (`Project`), and `Commit` writes only changed columns
(`Written`, `Saved`), so two overlapping requests mix their columns. `Clash` are
the unique constraints. The collector makes a batch (`Poll`), waits at most 10 s
(`TimesOut`), drops what failed and numbers on; `Restart` gives it a new session
and sequence number 0. `Replay` posts a batch again. `Authenticate`, `Refuse`,
`Examine`, `Project`, `Commit`, `CommitFails` are the steps of a handler. `LetIn`
says which batches get past authentication: those of an active sensor, those with
the token of another sensor of the gateway and scope (`deployed.shared`), and in the
unauthenticated local mode, which is the default, any without a token
(`deployed.local`); `deployed` is one of the `Deployments` and never changes. `Pulse`
and `PulseRegisters` the demonstration endpoint; `ReadHealth` and `MarkStale` the
health page with its second transaction; `RegisterGateway`, `RegisterSensor`,
`RevokeSensor` the administrator. `emitted`, `announced` and `base` are history
variables for the properties.

### Normalization, Reconstruction, PolicyLogic, Assessment, CaptureAnalysis

These are the computations of one analysis, which `AnalysisPipeline` treats as
rows read and written. A packet is a record of the layers tshark dissected;
`Normalization` has an operator per normalizer (IKE, ESP, AH, transport) with the
tables of names and the spellings of numbers, makes observations of packets, and
computes the summary twice: from the layers, when the run is made, and from the
stored rows, whenever it is read. A frame, for the rest, is a record of what was
observed in it (protocol, SPIs, exchange, message id, hosts, time, transforms).
Position is the frame number, and times need not follow it.

`Reconstruction` has an operator per step of `execute_reconstruction`:
`IkeEvents`, `correlate_session`, `build_parent_ike_sa` (only answers select),
`build_child_sas` (all directional SPIs of the capture, paired greedily, once
for each session), `build_directional_streams` (closed by the idle timeout) and
`pair_flows`. A loop is a fold of its body: `Noted`, `Paired`, `Placed`, `Joined`.
A dict is a sequence in insertion order, and `order_by` is `Sorted`: the k-th frame
has k - 1 others before it. `PolicyLogic` has the
three-valued connectives, the operators, and the three stages of
`_evaluate_single_subject`. Kleene's connectives are associative, commutative
and idempotent, so a list of values is the set of its members. `Assessment` has
the normalizer's facts, the choice of subjects and of the facts they are judged
by, findings, gaps, score, risk, threats and the graph's edges.

The state is one analysis (`name`, `capture`, `tables`, `report`). `Analyse` adds
a frame and does the whole analysis again, so TLC visits every capture over the
alphabet up to `MaxFrames`; in `CaptureAnalysis` that alphabet is what
`Normalization` makes of `Packets`. Three things are nondeterministic because the
code leaves them open: the order in which the session rows are read
(`RowOrders`), the observation that `parent_ike_encr` is first taken from
(`OfferedEncryption`), and which of several findings of a rule comes first
(`evaluate_risk` gives every tier that follows).

Left out: ports, byte counts, traffic selectors, `esp_flow.ip_version`, packet
lengths, frame times in ISO format, texts and hashes. `AssessmentAssumption` says
what the rules of `policies/rules` have in common and the model uses: a rule is
about one kind of subject, and none asks for `pfs_dh_group`. Conditions are at
most one group deep.

### EvidenceStore

Files are `tmp`, `stored`, `live`, rows are `catalog` (captures), `sess` (live
sessions) and `analysis` (queued runs); `active` is what the agent's
`CaptureManager` remembers, `proc` the tcpdump processes. The content of a file is
its hash. A request's `pc` walks through the awaits of its handler:
`UploadBegin`, `UploadStream`, `UploadValidate`, `UploadLookup`,
`UploadPromote`, `UploadCommit` or `UploadCommitFails`; `StopRead`, `StopPop`,
`StopKill`, `StopInspect`, `StopMove`, `StopAnalyse`, `StopCommit` or
`StopCommitFails`; the start of a session (`LiveStart`, `LiveStartCommit` or
`LiveStartCommitFails`), `Packet`, `TcpdumpEnds` (by itself),
`PurgeStaging`, `PurgeCapture` and `Crash` come in between. The hash that
`StopInspect` finds may be `Unknown`, since `sha256sum` runs without check. The status
endpoint shows what the agent remembers (`AgentStatus`) or, when the call to it
raises, the row (`ShownStatus`). `hurt` is a history variable: what a crash or a
failed commit cut short.

### Records

`truth` says what the original and the changed bytes of a capture show, as the
verdict of each check on each entity; `evidence`, `gen` and `rows` are what the
parent and the child run of a replay were extracted from, their reconstructions
and their assessments. `Disturb` changes or loses the file, `Recompute` rebuilds
the evidence, `AssessBegin` and `AssessCommit` append an assessment. `ReplayCheck`,
`ReplayRun`, `ReplayCompare` are the replay service; `SnapBegin` to `create_report`
are the snapshot's SELECTs one by one and the report's row; `get_report_bytes`
renders the PDF later. What the catalogue, the overview and the score and risk
endpoints show are operators of the state.

### Inventory, Scanning, Datasets

`Inventory` has the snapshots of gateways as sequences of rows, the concurrent
requests `inv[q]`, and the transactions of two databases: on SQLite `writer`
holds the one writer lock, on PostgreSQL an UPDATE sees the rows of its statement
and waits for changed ones only. `BaselineRead`, `BaselineDemote`,
`BaselineLocked`, `BaselineCommit` are `designate_baseline` statement by
statement; `parse` to `compute_canonical_digest` and `compare_snapshots` are the
parser from blocks and keys on, and the drift engine.

`Scanning` has numbered addresses, networks as aligned blocks, and one host name
whose address changes (`Rename`). `JobStart`, `RunScan`, `JobFinish`, `CancelRead`,
`CancelCommit`, `JobLost` are a discovery job, `ImportCheck`, `ImportCorrelate`,
`ImportCommit`, `PreviewReport` a report, `IkeProbe` a probe, which is one
transaction on the blocked event loop. `sent` is a history variable.

`Datasets` has two-step requests on the rows of families, versions, sessions and
splits: `SessionRead`, `SessionCommit` with the counters written back from what
was read, `PartitionRead`, `PartitionFind`, `PartitionCommit`, `TrainingRead`,
`TrainingLoad`. A shuffle is an arbitrary permutation, so an assignment is any
function with the right number of sessions per class and split. `contended` is a
history variable: the versions on which two requests of a kind overlapped.

### ConfigTwin, TwinProjection, RemediationPlanning

`ConfigTwin` has the intermediate representation with algorithm names as
sequences of tokens, the renderer, the parser and the eight templates;
`TwinProjection` the snapshot of the observed facts, the projection against the
active policy and the comparator's decision table. `RemediationPlanning` has one
analysis (`facts`, `assessed`) and its `twins`; a request reads the findings
(`BeginGet`, `BeginPost`), then facts, score and twin (`ReadRest`) and commits
last (`CommitTwin`), while the pipeline commits its stages. `ApplyProposal` approves
what was shown, `Verify` judges the evidence after the run, whose evaluations come in
any order (`early`: the last of a rule counts). The run itself is `Remediation`, where the comparison is a free choice of outcome.

## 4. Runs

| Run | Checks | Shows |
|---|---|---|
| `lock_mixed` | `NoOrphanLock`, `RunsEnd` | two remediation runs on one event loop and a `--no-cleanup` experiment in a second process, crashes, old locks, file errors of one run: only a crash, `--no-cleanup` or a run's own file error leaves a lock behind, and every run ends |
| `lab` | `RunsKeepToTheirOwn`, `VerifiedScenarioRan` | whatever command of an experiment's body fails or times out, whoever dies, holds the lock as well or sweeps the host: a finished cleanup leaves of its run only what it gave a command for in vain (and that happens, each kill, `ip netns del` and `rm` may fail), links stay in their run, and a VERIFIED scenario had an IKE SA and a probe that arrived |
| `rem_faults` | `JournalIsSaga`, `LockReturned`, `Contract` | with an agent that answers as the runner expects and every fault at every step: a journal that is a saga, a returned lock, and the run implements the contract |
| `rem_local` | `NoSilentCandidate`, `RunsDecide` | with the local agent and a working database no candidate stays unreported and every run ends in a terminal status |
| `rem_no_rollback` (violation) | `RollbackFailsOnlyOnFault` | the local agent never answers "verified", so every rollback is reported as failed and the daemon is not reloaded |
| `pipe_requests` | `OneReconstruction`, `AssessedOnOwnEvidence`, `RebuiltFromAll`, `RunsSettle` | a create and any second request, interleaved at every await, with failures of every stage and restarts |
| `mon_telemetry` | `CountedIsStored`, `SaRestsOnEvidence`, `LossIsFlagged`, `RevokedIsSilent` | batches lost, late, overlapping or replayed, with restarts, crashes, pulses, revocations and passed windows, on a server in the unauthenticated local mode, where a revoked sensor still gets in, and on one that requires a token, where of the batches in flight, replayed or pulsed around a revocation only those authenticated before it add anything |
| `assess` | `FlowsMatchTheCapture`, `OwnEvidenceDecides`, `PartialEvidenceSound`, `WeaknessFound`, `FindingsTraced`, `SummaryReadBack`, `ReportedIsSelected` | every capture of up to four packets of two tunnels in every order, from the dissected layers to the evidence graph: flows are what is on the wire, weak selections and replays become findings, no opening offer is taken for a selection, verdicts stand on partial evidence, findings lead back to frames, the summary reads back as it was counted |
| `evidence` | `EvidenceIntact`, `NothingStranded`, `RegisteredOnce`, `ReplayOfTheEvidence`, `FindingsNotPlayedDown` | uploads, and live sessions whose tcpdump may end, outlive its stop or not get hashed, under purges, a crash or a failed commit: every row is true of its file or says that it has no hash, only faults leave something behind, evidence is registered once unless uploads overlap; and while two requests assess, a recompute rebuilds and the file changes, a replay compares the evidence's own bytes and no view plays a finding down |
| `records_exact_match` (violation) | `SameEvidenceMatches` | two undisturbed runs over the same bytes, each assessed once, are never found to match |
| `assets` | `SummaryIsRight`, `DriftIsExact`, `ScanStaysInScope`, `LinksAreTrue`, `DatasetCounts`, `SplitsAreTrue` | overlapping inventory requests on two databases; discovery, cancellation and imports while a name changes its address; two clients on the datasets |
| `planning` | `GeneratedFixesTargets`, `RenderedFixesTargets`, `VerifiedIsObserved` | two operators ask for, edit and approve twins while the pipeline commits: a proposal fixes its targets in every order of the findings, its text says so too, and RESOLVED rests on observed evidence |

Every property of a passing run has a mutant in `PROJECT.json`: a changed
definition, the way a plausible bug would change it, under which TLC finds the
property violated.

### Bounds and why they are enough

- `lock_mixed`: two runs suffice for every race of the lock; the third lets one
  run act while two others disagree, which is what stale recovery needs. A tracker
  acquires once, so behaviours are finite without a counter.
- `lab`: two experiments, one in each topology, one impaired, one with
  `--no-cleanup`; `MaxSweeps = 1`. A host that lacks root and one that lacks
  nothing. Two runs are what it takes to confuse the fixed link names.
  The WAN namespace of the replay, the capture in it and the pre-shared keys are
  `Stubborn`: their removal may fail, in any combination. After a failed cleanup the
  other experiment does not begin (`Alone`), which bounds the run; a cleanup looks only
  at what is its own, and the theorem `OwnLeftAlone` has no such limit. A clean-stale
  may fail under both.
- `rem_*`: no bound. The constants are Boolean, and one run's state is finite.
  `rem_faults` switches on all faults; `rem_local` switches them off to show that
  what it promises needs nothing but a working database.
- `pipe_*`: two requests. Only a create can come first, so one is fixed to it;
  the second may be any of the five. Two is the least number at which a lost
  update, a stale read or a deleted row is possible; every shared row has at most
  two writers in the races listed under hazards. `Flows = 2` allows a partly
  classified reconstruction, `MaxReleases = 2` an old and a new version.
- `mon_telemetry`: two handlers, one connection (a batch of up to five events),
  and three batches with one incident or two with two, so that a replay or a pulse can
  follow a revocation (`Few`). Three batches are the least for a loss between
  two that arrive. `PulseSeq = 50` is larger than any sequence number the collector reaches,
  as a Unix time is. Handlers are interchangeable and the properties symmetric in
  them, so symmetry is sound (the temporal property is an action property).
- `assess`: four packets out of eleven (the IKE_SA_INIT exchanges of two tunnels, an
  IKE_AUTH, a rekeying proposed by the initiator with an unreadable message id, ESP in both directions with a repeated sequence number, a
  second SPI and a gap longer than the idle timeout, NAT traversal, unreadable
  fields). Two packets are an exchange and four are two of them, or one exchange
  with a pair of ESP directions; orders of arrival against time, repetitions and
  missing beginnings are all among the sequences. The eight rules have one
  subject kind each, all severities that occur, one shared root cause of two
  severities and a compound condition with an applicability. `CaptureNames` is
  {"nopfs"}, so that PFS has a verdict. Offers have one transform per type.
- `evidence`: two uploads, two stops of one session, one content beside a
  malformed one, one packet, one fault. Two requests of a kind are the races; a
  second fault can only hurt a second request. Either the uploads or a second session,
  whose tcpdump outlives its stop, come beside the first (`Apart`), so that a stream
  can be taken for the other's and a file grow after its hash. What is told of an
  analysis (`Records`) shares no table with that but the capture's, and is explored
  beside an empty store: a critical rule on two entities and a medium one, two
  assessments, one change, which are the bounds of `records_exact_match` too. Two entities are needed for a finding to hide behind another one
  of its rule, two assessments for a view to mix them.
- `assets`: three inventory requests on both databases (import, then baseline or
  drift or certificate; `LastDay = 2` lets a certificate expire), two discovery
  jobs, two imports and one probe over sixteen addresses with `TargetCap = 4` and
  one fault, two dataset clients with three sessions, two partitions, one
  training set. The three share no table, so a behaviour exercises one of them
  and their state spaces add up. Three sessions are the least at which both
  rounding and the cut at the class size matter. Clients are interchangeable.
- `planning`: two interchangeable operators, two requests, two twins, one run,
  the nine shipped rules the templates know, four captures. `Linked` and
  `Production` are FALSE: those twins may not be applied.
- Deadlock checking is off where the system may stop: a dead process, all
  requests answered, all batches posted, a capture of the greatest length.

### Fairness

`LabLock`: a process keeps executing its runs (every command under the lock has a
timeout), and the polling loop's wall-clock condition fails eventually, hence
strong fairness of `GiveUp`: a run returns to the loop head again and again, and
the clock does not wait. `Remediation`: weak fairness of the run's own steps,
since every awaited call has a timeout; none of crashes or other users of the
lock. `AnalysisPipeline`: weak fairness of each request's steps, which the event
loop provides. `Monitoring` states no liveness property: nothing there promises
that a batch arrives.

## 5. Proofs

All proofs are for every value of the constants that the named assumptions
(`LockAssumption`, `LabAssumption`, `RemediationAssumption`,
`PipelineAssumption`, `MonitoringAssumption`, `AssessmentAssumption`, `FrameAssumption`,
`CaptureAssumption`, `PacketAssumption`, `RecordsConstants`, `EvidenceConstants`, `ScanningConstants`, `DatasetConstants`,
`InventoryConstants`, `BundleAssumption`, `InputAssumption`) allow: any set of runs,
processes, requests, handlers, SPIs, frames or rules, any bound. `FrameAssumption` and
`InputAssumption` are about types: times and sequence numbers are numbers, lists are
sequences, and `None` is nothing else. `CaptureAssumption` lets a frame stand for one
packet, and `PacketAssumption` is about tshark: two versions of IP, a list below an IKE
layer, an SPI in every AH header. `BundleAssumption` and `AssessmentAssumption` are
what the rules of `policies/rules` have in common, `RecordsConstants` that there are
finitely many checks and rules, of the four severities. Where a theorem needs more, its
statement says so (`SpiTellsDirection`, `Configured`, `Digested`,
`Dated`, `ScanRequest`).

**Folding.** The code computes with loops over lists, the models with `FoldLeft`, and
the library's induction principles take an operator as parameter, which the provers
cannot instantiate. In `Folding` the step of the fold is a constant of the module, so
that an `INSTANCE` fixes it, and the statement to be shown by induction is a set of
naturals (`Induction`, from the library's theorem about minimal elements, `WFMin`).
`FoldLeftByPrefix`: a fold is the last value of a function on the prefixes, which
starts with the base and takes the step from one prefix to the next. An invariant of a
loop is then an invariant of that function.

**LabLock.** `TypeCorrect`. `OneHostMutex`: if all runs share one process and no
lock grows old, `MutualExclusion` and `OwnLockFile` hold although test and write
are apart, whatever crashes and file errors occur. Exclusion alone is not
inductive; `LockInv` adds that at most one run of the host is inside the
acquisition (`OneInside`), that a holder's file is the entry and not old
(`HolderFile`), and that what the run inside has seen of the file is still true
(`SeesTruth`). The first assumption is needed: with two processes both can see no
file.
`NoLeak`: any number of processes leaves no file behind except by a crash,
`--no-cleanup` or a file error of the run itself; it is inductive on top of
`TypeOK`.

**LabRun.** Three invariants, each inductive with no fact about the lock, so what
follows holds however the lock is shared. `LeftInv`: the namespaces, processes and
pre-shared keys a run has on the host are in its tracker, or a cleanup gave its command
for them in vain (`undone`), unless its process died; the code registers before it
creates, and a cleanup forgets what it tried to remove, one thing after the other. `CableInv` is about names: links are called the same in every run. While
nobody swept, a device name occurs once in the host's namespace (`OneName`), and the
ends of the cable that a run is about to move lie there under its own name (`Laid`).
That follows along the script because every link is followed by the moves of its two
ends (`ScriptChained`, proved for both topologies from how sequences are joined), and
because `ip link add` refuses a name that is taken. Without the restriction to a host
nobody swept the statement is false: a sweep can remove a run's cable between the link
and the move, and the next run's cable has its name. `JudgeInv`: an SA is only there
between configurations that agree, what a run has observed did happen to it, and a
VALIDATED status rests on what it has observed; a sweep can take SAs away and nothing
else. From them: `OwnLeftAlone`, `VerifiedRan`.

Every step of an experiment is one of `LabLock` or leaves `lab.lock` alone
(`LabStepsAreLockSteps`), by the way the actions are written; `NoLeak` therefore holds of
the experiments too (`ExperimentsLeaveNoLock`).

**Remediation.** `IInv == TypeOK /\ Region /\ VerdictOK /\ LockOK`. `Region` says
for each part of the program what may be in the file, the daemon and the backup
there; `VerdictOK` relates the committed terminal status to the gateway and says
that no step follows it that could disturb it; `LockOK` says where the lock is
held. From it: `BackupGuard`, `RollbackIsTrue`, `LockedMutation`, and
`Implements`, the refinement `Spec => C!ContractSpec`: initial states map to
initial states, each action to a step or a stutter of the contract.

The journal needs more: `SagaOK` says, for every place of the program, what the
journal is there: the successes of the first `n` steps on the way forward, some
number of successes in the handler, and the trigger after them in the rollback.
`OwnerOK` says whose the lock is. Most actions only move between places with the
same journal (`Stays`), so an action is one lemma away from its target. From
`SInv`: `SagaJournal` and `LockComesBack`. `NothingSilent` adds `TellsOK`: when no
commit fails, the run leaves through the bare `raise` only before the candidate is
installed, and reaches the `finally` clause only with a terminal status. It is a
theorem about `~DbFails`, the hypothesis of the run; with failing commits it is
false (section 6).

**AnalysisPipeline.** `IInv` strengthens `OneReconstruction` by `TargetOK` (a
request past its arrival works on a run that exists or existed), `FreshOK` (a
request that has not rebuilt has no rows) and `LockOK` (between its first UPDATE
and its commit a reconstruction is the only holder of the run's row lock). The
argument of `ReconstructionReplaces`: the DELETE sees every committed copy
because the row lock keeps other copies from being committed in between.

`EvidenceInv` carries the two properties about evidence. A run that exists has a
row, and a deleted one does not come back, so an early request's run is absent
(`RowsOK`). What a reconstruction has read is all there is (`ReadObsOK`): storing
observations needs the row lock that the reconstruction holds. Hence a stored
copy misses only observations of requests that have still to rebuild or have
failed (`CoverOK`), and a pipeline past its rebuilding finds at least one copy
(`StoredOK`) which has seen its own observations (`ReadRowsOK`). From it:
`OwnEvidenceAssessed`, `NothingLeftOut`.

**Monitoring.** `IInv` says that stored events have distinct identifiers, that
every SA row is backed by stored observed events (`RowsOK`), and that what each
handler holds is backed by what is stored or by what it will store in the same
commit (`HandlerOK`). The last is what makes the column-wise UPDATE go through:
each column written on its own was backed when it was read, and events are never
deleted. From it: `TypeCorrect`, `EvidenceBacked`, both with batches let in without a
token too, and `RevocationFinal`, where a token is required and no other serves
(`Strict`).

`CountInv` is about numbers: the counter a handler has read was covered by the
events stored then, its additions are covered by the events it will store in the
same commit, and a batch that contains a stored event clashes and rolls back, so
neither is counted twice (`CountsStored`). It needs that an identifier is minted
once (`Known`, `Unborn`), replays and lost batches included. `StreamInv`, for
`LossFlagged`, says while the collector runs for the first time that identifiers
and sequence numbers grow together, that the last number the server knows is the
one of a stored event, and that without a warning nothing made since the first
commit is missing below it, in the tables and in what each handler is about to
write. The attempt to prove it without the restriction to the first session
failed for a good reason: after a restart the new numbers may continue the old
ones, and the server cannot see what is missing.

**EvidenceStore.** `IInv == TypeOK /\ CatalogInv /\ UploadInv /\ StopInv /\
SessionInv`. `CatalogInv`: ids are unique, and each hash has an oldest row.
`UploadInv` and `StopInv` relate what a request has hashed to the file it hashed:
from the hashing on it is what the staging file holds, from the promotion on what
the stored file holds, and it is the hash of the row. For an upload that follows
from the staging file being its own. For a live capture the file is shared, and
tcpdump writes to it: only the one stop request that took the session out of the
agent's memory goes on with it (the second conjunct of `StopInv`), and it has
killed the process before it hashes; a process that survives (`Surviving`) has at
least the hashed packets in the file, which only grows. A hash that was not computed
is `Unknown` from then on. `SessionInv` says that a process, a file
and a row in CAPTURING that no fault hurt belong to a session the agent knows or
to a stop request still working on it. From it: `TypeCorrect`, `Intact`,
`Stranded`, `Registered`. `Surviving` is an arbitrary set of sessions here, and the
tcpdump of any session may end by itself.

**Datasets.** `DatasetInv == TypeOK /\ AddInv /\ SplitInv /\ TrainInv`. `AddInv`:
the counters of a version agree with each other, its `session_count` with the units
of its `class_distribution`, and never exceed what is registered; the row an addition
has read is still as true of the registered sessions as the version's own row, unless
two additions overlapped there. Writing back stale counters loses sessions, which keeps
the bound; where nothing overlapped the row that was read is exact, and so is the one
written. `SplitInv`: the rows a partition has drawn belong to its version and have one
split for a session, and the old rows it has found are all there are, unless two
partitions overlapped; then deleting what was found and adding what was drawn leaves
what the answer describes. `TrainInv`: the lists a training request has read are
isolated, and the groups it loads later are cut from them. From it: `CountsAgree`,
`SplitsKeepApart`.

**Scanning.** `ScopePermits` is about one request: what passes `validate_scope_request`
is finite, within the cap, without exclusions, and below the multicast addresses,
although `_validate_network_safety` looks only at the first and the last address of a
network. That is enough because a network that is no larger than the cap is aligned
with the boundaries (`Aligned`, arithmetic of blocks): one that begins below 224.0.0.0
ends there. `ScanInv` carries it over the job: nothing was sent before the scan began,
and what is sent then is what was authorised. `LinkInv`: what an import has matched is
true of the host rows while discovery appends to them, because a finding is mapped only
when its address has one row, and later rows are not the first (`Mapping`,
`LinkedLater`). From it: `ScopeKept`, `LinksStayTrue`. Both theorems are about any
requests whose targets are finitely many and lie in the address space (`ScanRequest`),
and any uploads and probes. `ScanningConstants` has the two boundaries as multiples
of every admitted block size: 224.0.0.0 and 240.0.0.0 are multiples of 2^28, far above
the default cap.

**Inventory.** `InventoryInv`: what a designation is about to demote are rows of its
snapshot's gateway, and while it holds SQLite's writer lock they are all the baselines
there are (`DesignationOK`); the snapshot designated last is among the baselines of its
gateway, and is all of them on SQLite (`BaselinesOK`); a certificate stored as expired has
expired, because days only pass (`CertsOK`). On PostgreSQL the first half is all there
is: every commit marks the row it designates, whatever it demotes, and two that did not
see each other's row leave two marked. On SQLite another request can neither mark nor
insert between a designation's UPDATE and its commit (`OneWriter`), so what the UPDATE
saw is still everything when it commits (`DesignationStays`). From it: `SummaryShown`,
for requests whose certificates have a last day (`Dated`) and any rows to begin with.

`DriftInv`: each row holds the digest of its own configuration, and each drift row is the
comparison of the two rows it names, whose configurations nothing changes later
(`KeptIn`). That is the easy half. The other is about the parser: the digests of two
texts are equal exactly when the texts configure the same (`Effective`), from the
folds over blocks and keys that build it, with defaults spelled out or left out and an
empty list of proposals counting as none. From it: `DriftShown`, for rows to begin with
that hold the digest of their configuration (`Digested`) and texts in which no key is
written without a value (`Configured`).

**PolicyLogic and Assessment.** `VerdictIsSound`: for every rule that tests values
and all fact maps, a verdict on part of the evidence is not reversed by the rest
(`NoReversal`). The argument follows the syntax: a leaf on less evidence is
UNKNOWN or has its final value (`LeafLemma`); the sets of leaf values of a group
are then related by `Refines`, which the connectives turn into the same fact
about groups; required keys stay present. Rules with `exists` or `not_exists` are
excluded, and have to be: they decide on absence. `PartialEvidence` carries it to
every report. `OwnEvidence`: `OwnEvidenceDecides` is not inductive by itself, a
report says nothing of where its records come from; the invariant `Consistent`
(the records are the evaluation of the report's facts over its tables, and no
fact is about the capture as a whole) is, and with it a verdict depends only on
the keys the rule looks at (`SameVerdict`), which the update of the global facts
takes from the subject.

**Reconstruction.** `TablesInv`: the tables are what `execute_reconstruction` makes of
the capture, with the sessions in any order (`RowOrders`). `FlowsMatch` then is about
three loops, each with the invariant of its fold. `StreamsMade`: the closed and the active
streams hold every frame seen so far, each in one stream; a stream is one direction of
one SPI, in processing order and without an idle gap. `PairsMade`: every key seen so far
is in a pair. `FlowsMade`: a stream is used exactly when a flow holds it, and no two
flows hold one. A flow under a Child SA is of its two SPIs because that is how it was
looked up. Its first premise, that the frames are taken in a strict order and each
once, rests on the ranks of `Sorted` (`OrderedLemma`). The hypothesis
`SpiTellsDirection`, that an SPI is used in one direction of one pair of hosts, is
needed: `child_sa_by_spis` is looked up by SPIs alone and would find a Child SA of
other hosts under the same ones.

**Findings.** `ReportMade`: the report is an assessment of the tables, for some
observation that the parent's cipher is taken from. `WeaknessIsFound`: a value is
`Known` if every fact of the subject with that key has it and one has. The selected
cipher is known, and so is "False" for a flow whose SPI's sequence numbers fall somewhere
(`FallingKnown`: the numbers of a stream are among those of its SPI, in the order of
the frames, so a fall between any two of them is a fall between neighbours). A rule that
asks for that key and nothing else then evaluates it and fails (`FailRecorded`).
`FindingsAreTraced`: a failed rule rests on an observed value of each field it asks for,
be it the subject's own or borrowed (`FailRests`); if the field is one that frames
carry, its fact names the frames of a session, and one of them carried the value
(`CarriedLemma`). A borrowed value comes from the last subject, but that too is a fact
with frames.

**Captures.** `SummaryIsReadBack`: the run counts layers in packets, the page counts
stored rows. The rows of a packet are of the protocols of its layers and no other
(`ProtocolsLemma`, one operator of `Normalization` after the other), so both counts sum
up the same positions. An AH header without a single field would be counted and leave no row;
that is what `PacketAssumption` excludes. `SelectionIsReported`: an algorithm in the
report was selected (`SelectedAnswered`), so a message with message id 0 that names the
responder's SPI carried it, and in the packet of that frame it is the value of an
observation of that transform (`TransformObserved`), beside one of the responder's SPI
(`ResponderObserved`). Nothing is said of who sent that message, for the code does not
look: any later message with a responder's SPI and id 0 is an answer to it, and an id
that it cannot read counts as 0.

**Records.** `RecordsInv == RowsInv /\ ReplayInv /\ SnapInv /\ ReportInv`. `RowsInv`:
every row, and every row about to be committed, is one that an assessment of some
evidence makes; its score, coverage and tier are therefore those of its findings
(`AssessedSound`). `ReplayInv`: a replay that got past its check has read the original
bytes; as long as the file holds them, the parent's evidence is of them, and after the
extraction the child's as well. `SnapInv`: the findings of a snapshot between whose
SELECTs no assessment committed are those of the run. `ReportInv`: both artifacts are
`Sound` (no tier below the worst finding unless it was torn, no score with less than half
coverage). From it: `ReplayIsOfTheEvidence`, `NoFindingPlayedDown`.

**Remediation planning.** `PlanningInv` says of every twin that its configuration was
generated from a snapshot for the findings it targets, or parsed from a text, and that
its projection is the one of that configuration; of every request in flight that what
it has read yields such a twin; and of every verification that it judged observed
evidence. `ProposalsFixTargets` rests on what the templates do. Each leaves the
configuration cured of what it is for (`Cured`: `DesCured`, `GroupCured`, ...) and undoes
no other's work (`Keeps`), so a fold over the findings in any order cures all of them
(`ProposalCured`, by `Folding`). The texts that are posted instead are parsed by a fold
too, which makes well-formed connections of well-formed lines (`TextOK`, `ConnsOK`). A
rule of a template that looks at a cured configuration does not fail (`PassesTemplate`).
`ResolvedOnEvidence` needs that those rules decide on values (`Decisive`): the comparator
says "resolved" only for a PASS, and such a rule passes on an observed fact of its own
field only.

**Without a run of their own.** The five `TypeCorrect`, `OneHostMutex`, `BackupGuard`,
`RollbackIsTrue`, `LockedMutation` and `VerdictIsSound` are proved for every value
of the constants; TLC was used on them while they were developed.
`ExperimentsLeaveNoLock` states a property that `lock_mixed` checks.

**Only model-checked.** Liveness (`RunsEnd`, `RunsDecide`, `RunsSettle`), which under
fairness is out of the prover's reach, and `RenderedFixesTargets`. The latter would need
that the parser inverts the renderer on everything that a template can have made: line by
line through the text, with a step of the parser's fold for each, and token by token
through the algorithm names. TLC goes through all orders of all findings there.

## 6. Where code and promise disagree

Two are exhibited by a run: a rollback that never verifies (`rem_no_rollback`, item 1)
and replays that never match (`records_exact_match`, item 15). No run states the others:
they are what the models do, met while they were written, and the properties are stated
around them.

The lab and the remediation run:

1. The local agent's `RESTORE_BACKUP` has no `verified` field, so automatic
   rollback never completes with it.
2. `acquire_lock` tests and writes in two steps and `release_lock` tests and
   unlinks in two (`tracker.py:70`, `:86`): two processes can both hold the lock,
   and one can unlink the other's file. Hence the assumption of `OneHostMutex`.
3. The preflight refuses on the existence of `lab.lock` alone, so the stale
   recovery of `acquire_lock` is never reached after a crash (`runner.py:174`).
4. The remediation handler commits `ROLLING_BACK` on the session whose commit has
   failed and never gets to the restore; `NoSilentCandidate` is stated for
   `DbFails = FALSE` and fails with `TRUE`.
5. The local agent reports `loss_pct`, the runner reads `packet_loss_pct`
   (`local.py:540`, `runner.py:405`): the loss limit is never applied.
6. An experiment's poll accepts the `ESTABLISHED` of the IKE SA alone, and the
   gateways forward in the clear: `VALIDATED` does not say that the probe crossed
   the tunnel (`experiment.py:195`, `:300`). An expected rejection is validated
   whenever no SA is seen.
7. The plaintext capture a manifest calls `[PURGED_PER_PRIVACY_POLICY]` is not
   deleted (`experiment.py:573`).
8. Veth pairs are not registered with the tracker; a failed move leaves one with a
   fixed name on the host. A manifest that cannot be written skips the cleanup and
   the release of the lock. A cleanup forgets what it failed to remove, and so does
   `release_lock` with a lock file it could not unlink.

Analyses:

9. A recompute does not re-assess: the old assessment stays beside the new
   evidence and policy version (`security/router.py:73`).
10. `evaluate_rule` fills the gaps in a subject's evidence with the facts of the
    subject that was evaluated last (`evaluator.py:111`).
11. Two inferences of one run that end together are both current
    (`ml/service.py:389`).
12. Whether a Child SA has PFS is decided by the name of the capture file or the
    run's id when no rekeying was captured (`normalizer.py:494`). The wire does not
    show it, so no property compares the two.
13. Notify type 16393 is shown as USE_TRANSPORT_MODE, which RFC 7296 gives 16391;
    an unreadable version becomes IKEv2, an unreadable message id 0. The PRF ids 4
    and 5 have one name.
14. The manifest export shows a score without asking for its coverage
    (`analyses/router.py:985`).

15. The forensic comparator looks evaluations up by subject ids and compares findings by
    hashes made with the analysis id (`comparator.py:182-198`, `findings/models.py:128`);
    all are new in every run, so two runs over the same bytes with an assessment each are
    never an `EXACT_MATCH`, which `docs/verification/REPLAY_AND_EVIDENCE_CHAIN.md:66`, the
    comparator's docstring and `test_forensic_exact_match` (with equal ids on both sides)
    promise: the run `records_exact_match`.

Live captures: the agent hashes the file, the router moves it, and nobody asks whether
tcpdump has ended; on WSL without a readable pid file it may go on, and the final bytes
that `live_captures/router.py:174` speaks of are others. A hash that could not be computed is registered as "unknown",
which every later replay refuses and the lineage shows as HASH_MISMATCH (`:224`). A session whose tcpdump has
ended by itself is shown as CAPTURING until it is stopped (`local.py:287`).

Monitoring: in the unauthenticated local mode, the default, a batch without a token is
ingested for any sensor, a revoked one too, and a token serves for every sensor of its
gateway and scope (`auth.py:98`, `:107`). Two Child SA events of one identity in one batch violate
`uq_gateway_sa_identity`, and the batch the agent announced is lost
(`monitoring/service.py:361`).

Planning: `_projection` counts a target as resolved when no fact makes a rule fail
(`twin.py:432`); two templates set a PFS group that is not in the ESP text; the runner
stores observed facts under keys that no rule asks for (`runner.py:573`); two
concurrent GETs create two twins; a second verification makes the latest one
unreadable (`router.py:710`); an approval may bind the diff of one proposal with
the hash of another (`remediation/router.py:318`).

Registries: `0.0.0.0/31` brings the unspecified address through discovery's check;
the host name of an IKE probe is not checked after it was resolved; concordance
with an analysis fails on a missing column after the probe was sent, and leaves no
row (`ike_scan/service.py:205`); purging a registered capture ends in an error
(`lifecycle.py:201`). Two overlapping partitions leave a session in two splits,
while `GET /splits` always claims verified isolation; a partition is committed
even when its own audit found overlap; a capture registered twice may be in two
splits, although the master document promises isolation per run and capture
(`docs/TUNNELTRACE_AI_MASTER_DOCUMENT.md:617`); nothing locks a version.

## 7. What the properties do not say

- Losses among the events made before the first commit, and losses after a restart
  of the collector, whose new numbers the server compares with those of the old
  process, cannot always be flagged by sequence numbers; `LossIsFlagged` is stated
  for the rest, and as long as the collector counts below the clock that a pulse
  writes into `last_sequence_number`.
- Of a session whose tcpdump outlives the stop (`Surviving`: on WSL without a readable
  pid file the kill misses) `EvidenceIntact` promises the hashed packets at the
  beginning of the file and `NothingStranded` no end of the process. Of a row without
  a hash nothing can be verified. That a session shown as CAPTURING is being captured
  is not promised at all, only that it can be stopped.
- `RevokedIsSilent` is about a server that requires a token and a sensor alone in its
  gateway's scope; what was authenticated before the revocation still goes in.
- `FindingsNotPlayedDown` excepts snapshots torn by a commit between their SELECTs, and
  the tiers that say the evidence is missing.
- `is_stale` may be set on a fresh row and is never cleared; no text forbids it.
- The state of an SA row may come from one event and its `last_event_id` from
  another; `SaRestsOnEvidence` says that each rests on stored evidence, not that they
  agree.
- The recovery query after a rollback is made and not judged. That evidence after
  a change is fresh holds only as long as the queries for it succeed
  (`runner.py:312`).
- An orphan ESP pair is stored under every session of the capture, and its flow
  under the last; `FlowsMatchTheCapture` is about flows and packets. Its theorem
  assumes that an SPI tells the direction (`SpiTellsDirection`).
- The risk tier follows the first finding of a root cause, the score the worst.
- Facts of Child SAs and flows carry no frames; `FindingsTraced` is stated for
  findings about sessions and SAs.
- A capture that begins with a response makes its sender the initiator; the
  transforms of that frame are not selections, and the SA stays without them.
  `ReportedIsSelected` does not say who sent the message that is taken for the answer:
  the initiator's own later proposal with an unreadable message id is one to the code.
- COMPLETED is committed after the dissection; no property says that the later
  stages of a COMPLETED run succeeded, and they need not have.
- `SummaryReadBack` is about the counters that the run and the page both have; the
  page's total counts the frames that left an observation, the run's all frames.
  An AH header without fields, which tshark does not make, would be counted by the
  run and leave no row. The total, the list of transforms and a key length of 0, which
  is read back as none, are not in the modelled summary.
- `RunsKeepToTheirOwn` leaves to a finished run what its cleanup gave a command for in
  vain; nothing retries. It speaks of links only as long as nobody swept the host. A
  sweep lists first and deletes then; a run's own deletion of its namespaces is
  one step. On WSL the tracker registers Windows pids; `corrupt_pct` is not
  applied; the workload and transport sessions have no caller that could use them.
- `RegisteredOnce` excepts uploads that overlap, `DatasetCounts` and
  `SplitsAreTrue` except requests of one kind that overlap on one version: the
  code has no lock or constraint there. A version and its sessions are read in one
  step, ratios are in hundredths.

## 8. Not modelled

Of components with a model:

- **Gateway collector:** its rolling capture. **Live capture, ingestion:** disk
  space and the footprint of the data lifecycle. **Inventory parsers:** tokens of
  configuration files and X.509; blocks and keys are where the model starts.
- **Active probing:** the concordance, which is unreachable (section 6).
- **Privileged agent:** LIST_INTERFACES and path checks. The actions of a
  remediation run are outcomes in `Remediation`; what capture and lab
  actions do is in `EvidenceStore`, `LabRun` and `Testbed`.
- **Protocol extraction:** the tshark process, its time limit and its output
  format; it answers, fails or times out.
- **Machine learning:** features, training, calibration and out-of-distribution
  scores are floating-point numbers, which TLC cannot enumerate usefully. The
  rows of an inference are in `AnalysisPipeline`, partitions in `Datasets`.
- **Datasets:** the planner's schedule, card texts, the external inventory, and
  the quality gate, which has no caller.
- **Application core:** settings, log redaction, seeds. Commit and rollback of a
  session are in every module that writes.

Components without one:

- **Policy bundles, fingerprintability, threat intelligence:** tables and
  formulas over one request's input.
- **AI analyst:** text matching around an external language model. Its gates are
  in the plan.
- **Analysis WebSocket, frontend, remaining read-only endpoints:** they read state
  and change none.
- **Scenario mutation, maintenance scripts:** tools.
- **External programs:** tshark, tcpdump, strongSwan, nmap, PostgreSQL, the
  language model: they answer, fail or time out; what the models assume of
  PostgreSQL and SQLAlchemy is marked external.

Abstractions of the modelled parts: an SPI, a configuration, an event's kind or
a time is a member of a small set; columns that are only displayed are left out;
messages and logging are left out. Identities in the inventory are compared as
written, the code lowers their case first; a snapshot without a digest, a "UNKNOWN"
string in a forensic fact and a fact key that names an observation do not occur. ESP
is dissected with its sequence number. SELECTs that nothing interleaves with in a way
the properties see are one step (`ReadRest`), and a template is applied once per rule.
