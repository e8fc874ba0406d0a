--------------------------- MODULE EvidenceStore ---------------------------
(***************************************************************************)
(* How packet captures enter the system and where their bytes are kept:    *)
(* streaming uploads (app/capture/ingestion.py, api/v1/captures), live     *)
(* captures through the privileged agent (api/v1/live_captures,            *)
(* lab/agent/capture/manager.py), the staging purge and the capture purge  *)
(* of core/lifecycle.py, and the integrity check that replay runs over a   *)
(* stored capture.                                                         *)
(*                                                                         *)
(* The bytes are in files, what is known of them in rows.  No transaction  *)
(* spans the two, and every await, subprocess or thread of a handler is a  *)
(* point where other handlers, the purge or a crash come in, so a request  *)
(* is a sequence of actions with its own program counter.                  *)
(*                                                                         *)
(* Abstractions: the bytes of an upload are one of Contents and its        *)
(* SHA-256 is that value; a live file is the number of packets in it.      *)
(* Limits: Faults crashes and failed commits, MaxPackets packets a live    *)
(* capture.                                                                *)
(***************************************************************************)
EXTENDS Naturals, Sequences, FiniteSets

CONSTANTS
    Contents,     \* well-formed capture files clients may upload
    Malformed,    \* a file the header check refuses, an empty or too large one too
    Uploads,      \* upload requests
    Stops,        \* requests to stop a live capture
    Sessions,     \* live capture sessions
    Surviving,    \* sessions whose tcpdump outlives the stop (WSL, pid file unread)
    PathAllowed,  \* does the live directory pass the agent's path check
    MaxPackets, Faults,
    None

Requests == Uploads \cup Stops

ASSUME EvidenceConstants ==
    /\ Uploads \cap Stops = {}
    /\ Malformed \notin Contents
    /\ Surviving \subseteq Sessions
    /\ PathAllowed \in BOOLEAN
    /\ MaxPackets \in Nat /\ Faults \in Nat
    /\ None \notin Sessions \cup Requests \cup Contents \cup {Malformed}

(***************************************************************************)
(* What a file holds, and so its SHA-256.                                  *)
(***************************************************************************)
Upload(c) == <<"upload", c, 0>>
Live(s, n) == <<"live", s, n>>
NoFile == <<"none", None, 0>>
Unknown == <<"unknown", None, 0>>     \* the hash recorded when none was computed

VARIABLES
    tmp,       \* storage/tmp/upload_<id>.tmp
    stored,    \* storage/captures/<id>/raw.pcap
    live,      \* storage/live/<session>/live.pcap
    catalog,   \* Capture rows, oldest first
    sess,      \* LiveCaptureSession rows: status and capture_id
    active,    \* CaptureManager.active_captures, the agent's memory
    proc,      \* sessions whose tcpdump runs, and the file it has open
    req,       \* what each request is doing
    analysis,  \* analysis runs queued for a capture
    purges,    \* captures a purge was requested for, with its outcome
    faults,    \* crashes and failed commits so far
    hurt       \* history: requests and sessions a crash or a failed commit cut short

vars == <<tmp, stored, live, catalog, sess, active, proc, req, analysis, purges, faults, hurt>>

Idle == [pc |-> "idle", what |-> None, hash |-> NoFile, seen |-> {}, answer |-> None]

Hashes == {catalog[i].hash : i \in 1..Len(catalog)}

Ids == {catalog[i].id : i \in 1..Len(catalog)}

Row(id) == catalog[CHOOSE i \in 1..Len(catalog) : catalog[i].id = id]

NoSession == [status |-> "NONE", capture |-> None]

Init ==
    /\ tmp = [u \in Uploads |-> NoFile]
    /\ stored = [r \in Requests |-> NoFile]
    /\ live = [s \in Sessions |-> NoFile]
    /\ catalog = <<>>
    /\ sess = [s \in Sessions |-> NoSession]
    /\ active = {}
    /\ proc = [s \in Sessions |-> None]
    /\ req = [r \in Requests |-> Idle]
    /\ analysis = {}
    /\ purges = [r \in Requests |-> "none"]
    /\ faults = 0
    /\ hurt = {}

Goto(r, pc) == req' = [req EXCEPT ![r].pc = pc]

Fails(r) == req' = [req EXCEPT ![r].pc = "failed"]

-----------------------------------------------------------------------------
(***************************************************************************)
(* Uploads.  The temporary file is opened and filled chunk by chunk, each  *)
(* chunk awaited: the file is there, with part of its bytes, while other   *)
(* requests run.  "seen" remembers the hashes registered when the request  *)
(* came in.                                                                *)
(***************************************************************************)
UploadBegin(u, c) ==
    /\ req[u].pc = "idle"
    /\ tmp' = [tmp EXCEPT ![u] = Upload(Malformed)]
    /\ req' = [req EXCEPT ![u] = [Idle EXCEPT !.pc = "stream", !.what = c, !.seen = Hashes]]
    /\ UNCHANGED <<stored, live, catalog, sess, active, proc, analysis, purges, faults, hurt>>

(* The last chunk is written.  When the staging purge has unlinked the     *)
(* file meanwhile the bytes go to a file without a name.                   *)
UploadStream(u) ==
    /\ req[u].pc = "stream"
    /\ tmp' = [tmp EXCEPT ![u] = IF @ = NoFile THEN NoFile ELSE Upload(req[u].what)]
    /\ req' = [req EXCEPT ![u].pc = "validate", ![u].hash = Upload(req[u].what)]
    /\ UNCHANGED <<stored, live, catalog, sess, active, proc, analysis, purges, faults, hurt>>

(* validate_capture_header and the size checks: what makes a file          *)
(* acceptable is its first bytes, not its name.                            *)
ValidHeader(h) == h \in {Upload(c) : c \in Contents}

(* Empty, too large or malformed files are refused, and so is a file that  *)
(* capinfos cannot find; when capinfos itself fails the metadata is empty  *)
(* and ingestion goes on.  A failure removes the temporary file.           *)
UploadValidate(u) ==
    /\ req[u].pc = "validate"
    /\ IF ValidHeader(req[u].hash) /\ tmp[u] # NoFile
       THEN Goto(u, "lookup") /\ UNCHANGED tmp
       ELSE Fails(u) /\ tmp' = [tmp EXCEPT ![u] = NoFile]
    /\ UNCHANGED <<stored, live, catalog, sess, active, proc, analysis, purges, faults, hurt>>

(* The oldest row with the hash, when there is one, is the answer and the  *)
(* temporary file goes.                                                    *)
Oldest(h) == catalog[CHOOSE i \in 1..Len(catalog) :
                        /\ catalog[i].hash = h
                        /\ \A j \in 1..(i - 1) : catalog[j].hash # h].id

UploadLookupKeepsFile(u) ==
    /\ req[u].pc = "lookup"
    /\ IF req[u].hash \in Hashes
       THEN req' = [req EXCEPT ![u].pc = "done", ![u].answer = Oldest(req[u].hash)]
       ELSE Goto(u, "promote")
    /\ UNCHANGED <<tmp, stored, live, catalog, sess, active, proc, analysis, purges, faults, hurt>>

UploadLookup(u) ==
    /\ req[u].pc = "lookup"
    /\ IF req[u].hash \in Hashes
       THEN /\ req' = [req EXCEPT ![u].pc = "done", ![u].answer = Oldest(req[u].hash)]
            /\ tmp' = [tmp EXCEPT ![u] = NoFile]
       ELSE Goto(u, "promote") /\ UNCHANGED tmp
    /\ UNCHANGED <<stored, live, catalog, sess, active, proc, analysis, purges, faults, hurt>>

(* os.replace moves the temporary file to captures/<id>/, or raises when   *)
(* it is gone.                                                             *)
UploadPromote(u) ==
    /\ req[u].pc = "promote"
    /\ IF tmp[u] = NoFile
       THEN Fails(u) /\ UNCHANGED <<tmp, stored>>
       ELSE /\ stored' = [stored EXCEPT ![u] = tmp[u]]
            /\ tmp' = [tmp EXCEPT ![u] = NoFile]
            /\ Goto(u, "commit")
    /\ UNCHANGED <<live, catalog, sess, active, proc, analysis, purges, faults, hurt>>

(* The row, with the hash computed while the chunks came in.  Nothing      *)
(* looks at the catalogue again: another request may have registered the   *)
(* same bytes since the lookup.                                            *)
UploadCommit(u) ==
    /\ req[u].pc = "commit"
    /\ catalog' = Append(catalog, [id |-> u, hash |-> req[u].hash, source |-> "OFFLINE_UPLOAD"])
    /\ req' = [req EXCEPT ![u].pc = "done", ![u].answer = u]
    /\ UNCHANGED <<tmp, stored, live, sess, active, proc, analysis, purges, faults, hurt>>

(* The commit fails: the handler removes the temporary file, which is no   *)
(* longer there, and the promoted file stays behind.                       *)
UploadCommitFails(u) ==
    /\ req[u].pc = "commit"
    /\ faults < Faults
    /\ faults' = faults + 1
    /\ hurt' = hurt \cup {u}
    /\ Fails(u)
    /\ UNCHANGED <<tmp, stored, live, catalog, sess, active, proc, analysis, purges>>

-----------------------------------------------------------------------------
(***************************************************************************)
(* Live captures.  The agent refuses protected and unlisted interfaces     *)
(* and directories outside the lab: nothing changes then.  Otherwise       *)
(* tcpdump runs and the agent remembers it before any row exists.          *)
(***************************************************************************)
validate_lab_path == PathAllowed

LiveStart(s) ==
    /\ sess[s].status = "NONE" /\ s \notin active /\ proc[s] = None
    /\ live[s] = NoFile      \* session ids are not used again
    /\ validate_lab_path
    /\ active' = active \cup {s}
    /\ proc' = [proc EXCEPT ![s] = s]
    /\ live' = [live EXCEPT ![s] = Live(s, 0)]
    /\ sess' = [sess EXCEPT ![s].status = "STARTING"]
    /\ UNCHANGED <<tmp, stored, catalog, req, analysis, purges, faults, hurt>>

LiveStartCommit(s) ==
    /\ sess[s].status = "STARTING"
    /\ sess' = [sess EXCEPT ![s].status = "CAPTURING"]
    /\ UNCHANGED <<tmp, stored, live, catalog, active, proc, req, analysis, purges, faults, hurt>>

(* Without its row the session cannot be stopped through the API, and      *)
(* tcpdump goes on.                                                        *)
LiveStartCommitFails(s) ==
    /\ sess[s].status = "STARTING"
    /\ faults < Faults
    /\ faults' = faults + 1
    /\ hurt' = hurt \cup {s}
    /\ sess' = [sess EXCEPT ![s].status = "NONE"]
    /\ UNCHANGED <<tmp, stored, live, catalog, active, proc, req, analysis, purges>>

(* A packet reaches tcpdump, which writes to the file it has open: the     *)
(* live file, or the stored one when it was moved under it.                *)
Packet(s) ==
    LET more(f) == IF f[3] < MaxPackets THEN Live(s, f[3] + 1) ELSE f IN
    /\ proc[s] # None
    /\ IF proc[s] = s
       THEN /\ live[s] # NoFile /\ live[s][3] < MaxPackets
            /\ live' = [live EXCEPT ![s] = more(@)] /\ UNCHANGED stored
       ELSE /\ stored[proc[s]][3] < MaxPackets
            /\ stored' = [stored EXCEPT ![proc[s]] = more(@)] /\ UNCHANGED live
    /\ UNCHANGED <<tmp, catalog, sess, active, proc, req, analysis, purges, faults, hurt>>

(* tcpdump ends by itself: the disk is full, the interface or its          *)
(* namespace is gone, someone killed it.  Nobody polls the process: the    *)
(* agent remembers the capture as before.                                  *)
TcpdumpEnds(s) ==
    /\ proc[s] # None
    /\ proc' = [proc EXCEPT ![s] = None]
    /\ UNCHANGED <<tmp, stored, live, catalog, sess, active, req, analysis, purges, faults, hurt>>

(* The agent's word: whether it remembers the capture, not whether tcpdump *)
(* runs.                                                                   *)
AgentStatus(s) == IF s \in active THEN "CAPTURING" ELSE "STOPPED"

(* What the status endpoint may answer: the agent's word or, when the call *)
(* to the agent raises, the row's.                                         *)
ShownStatus(s) == {AgentStatus(s), sess[s].status}

(* The stop request needs the session's row, in any status.                *)
StopRead(t, s) ==
    /\ req[t].pc = "idle"
    /\ sess[s].status \in {"CAPTURING", "COMPLETED"}
    /\ req' = [req EXCEPT ![t] = [Idle EXCEPT !.pc = "agent", !.what = s]]
    /\ UNCHANGED <<tmp, stored, live, catalog, sess, active, proc, analysis, purges, faults, hurt>>

\* Mutant of StopPop: an unknown capture is no error.
StopPopUnknown(t) ==
    /\ req[t].pc = "agent"
    /\ Goto(t, "kill")
    /\ active' = active \ {req[t].what}
    /\ UNCHANGED <<tmp, stored, live, catalog, sess, proc, analysis, purges, faults, hurt>>

(* stop_capture forgets the capture before it touches the process; an      *)
(* unknown capture is a KeyError and the request fails.                    *)
StopPop(t) ==
    LET s == req[t].what IN
    /\ req[t].pc = "agent"
    /\ IF s \in active THEN Goto(t, "kill") ELSE Fails(t)
    /\ active' = active \ {s}
    /\ UNCHANGED <<tmp, stored, live, catalog, sess, proc, analysis, purges, faults, hurt>>

\* Mutant of StopKill: the process is left to end by itself.
StopKillLeaves(t) ==
    /\ req[t].pc = "kill"
    /\ Goto(t, "inspect")
    /\ UNCHANGED <<tmp, stored, live, catalog, sess, active, proc, analysis, purges, faults, hurt>>

(* SIGINT, then SIGTERM, then SIGKILL.  Under WSL without a pid only the   *)
(* wrapper dies and tcpdump goes on.                                       *)
StopKill(t) ==
    LET s == req[t].what IN
    /\ req[t].pc = "kill"
    /\ proc' = [proc EXCEPT ![s] = IF s \in Surviving THEN @ ELSE None]
    /\ Goto(t, "inspect")
    /\ UNCHANGED <<tmp, stored, live, catalog, sess, active, analysis, purges, faults, hurt>>

(* The SHA-256 of the file as it is now.  sha256sum runs without a check   *)
(* and has 30 seconds: when it fails or times out, as it does without a    *)
(* file, there is no hash and the router writes "unknown".                 *)
StopInspect(t) ==
    /\ req[t].pc = "inspect"
    /\ \E h \in {Unknown, live[req[t].what]} \ {NoFile} :
          req' = [req EXCEPT ![t].pc = "move", ![t].hash = h]
    /\ UNCHANGED <<tmp, stored, live, catalog, sess, active, proc, analysis, purges, faults, hurt>>

(* The file moves to captures/<id>/; a process that has it open follows.   *)
StopMove(t) ==
    LET s == req[t].what IN
    /\ req[t].pc = "move"
    /\ stored' = [stored EXCEPT ![t] = live[s]]
    /\ live' = [live EXCEPT ![s] = NoFile]
    /\ proc' = [proc EXCEPT ![s] = IF @ = s THEN t ELSE @]
    /\ Goto(t, "commit")
    /\ UNCHANGED <<tmp, catalog, sess, active, analysis, purges, faults, hurt>>

(* One transaction: the Capture row and the session's completion.          *)
StopCommit(t) ==
    LET s == req[t].what IN
    /\ req[t].pc = "commit"
    /\ catalog' = Append(catalog, [id |-> t, hash |-> req[t].hash, source |-> "LIVE_CAPTURE"])
    /\ sess' = [sess EXCEPT ![s] = [status |-> "COMPLETED", capture |-> t]]
    /\ Goto(t, "analyse")
    /\ UNCHANGED <<tmp, stored, live, active, proc, analysis, purges, faults, hurt>>

(* The capture is already forgotten by the agent and its file moved: no    *)
(* further stop can succeed and the session stays CAPTURING.               *)
StopCommitFails(t) ==
    /\ req[t].pc = "commit"
    /\ faults < Faults
    /\ faults' = faults + 1
    /\ hurt' = hurt \cup {t, req[t].what}
    /\ Fails(t)
    /\ UNCHANGED <<tmp, stored, live, catalog, sess, active, proc, analysis, purges>>

(* A second transaction queues the analysis, which then runs in the        *)
(* request (module AnalysisPipeline).                                      *)
StopAnalyse(t) ==
    /\ req[t].pc = "analyse"
    /\ analysis' = analysis \cup {t}
    /\ req' = [req EXCEPT ![t].pc = "done", ![t].answer = t]
    /\ UNCHANGED <<tmp, stored, live, catalog, sess, active, proc, purges, faults, hurt>>

-----------------------------------------------------------------------------
(***************************************************************************)
(* The lifecycle manager, which runs beside the server.                    *)
(***************************************************************************)

(* Staging files older than the limit are unlinked, whoever has them open. *)
PurgeStaging(old) ==
    /\ old # {}
    /\ old \subseteq {u \in Uploads : tmp[u] # NoFile}
    /\ tmp' = [u \in Uploads |-> IF u \in old THEN NoFile ELSE tmp[u]]
    /\ UNCHANGED <<stored, live, catalog, sess, active, proc, req, analysis, purges, faults, hurt>>

(* purge_capture_artifact reads capture.sha256, which the Capture model    *)
(* does not have (its column is sha256_hash): the attribute error leaves   *)
(* the file and the row as they are.                                       *)
PurgeCapture(r) ==
    /\ r \in Ids
    /\ purges[r] = "none"
    /\ purges' = [purges EXCEPT ![r] = "error"]
    /\ UNCHANGED <<tmp, stored, live, catalog, sess, active, proc, req, analysis, faults, hurt>>

(* verify_capture_integrity: the bytes on disk against the recorded hash.  *)
IntegrityStatus(row) ==
    IF stored[row.id] = NoFile THEN "FILE_NOT_FOUND"
    ELSE IF stored[row.id] = row.hash THEN "VERIFIED" ELSE "HASH_MISMATCH"

Running(r) == req[r].pc \notin {"idle", "done", "failed"}

(* The server dies.  Requests and the agent's memory are gone; rows,       *)
(* files and tcpdump, a process of its own, are not.                       *)
Crash ==
    /\ faults < Faults
    /\ faults' = faults + 1
    /\ hurt' = hurt \cup {r \in Requests : Running(r)} \cup active
                    \cup {s \in Sessions : \E r \in Requests : Running(r) /\ req[r].what = s}
    /\ active' = {}
    /\ req' = [r \in Requests |-> IF Running(r) THEN [req[r] EXCEPT !.pc = "failed"] ELSE req[r]]
    /\ sess' = [s \in Sessions |->
                  IF sess[s].status = "STARTING" THEN [sess[s] EXCEPT !.status = "NONE"] ELSE sess[s]]
    /\ UNCHANGED <<tmp, stored, live, catalog, proc, analysis, purges>>

UploadStep(u) ==
    \/ \E c \in Contents \cup {Malformed} : UploadBegin(u, c)
    \/ UploadStream(u) \/ UploadValidate(u) \/ UploadLookup(u)
    \/ UploadPromote(u) \/ UploadCommit(u) \/ UploadCommitFails(u)

StopStep(t) ==
    \/ \E s \in Sessions : StopRead(t, s)
    \/ StopPop(t) \/ StopKill(t) \/ StopInspect(t) \/ StopMove(t)
    \/ StopCommit(t) \/ StopCommitFails(t) \/ StopAnalyse(t)

SessionStep(s) ==
    \/ LiveStart(s) \/ LiveStartCommit(s) \/ LiveStartCommitFails(s)
    \/ Packet(s) \/ TcpdumpEnds(s)

Next ==
    \/ \E u \in Uploads : UploadStep(u)
    \/ \E t \in Stops : StopStep(t)
    \/ \E s \in Sessions : SessionStep(s)
    \/ \E old \in SUBSET Uploads : PurgeStaging(old)
    \/ \E r \in Requests : PurgeCapture(r)
    \/ Crash

Spec == Init /\ [][Next]_vars

-----------------------------------------------------------------------------
(* Every Capture row is true of the bytes on disk: its file exists and has *)
(* the recorded SHA-256, whether it was uploaded or captured live, and     *)
(* whatever the staging purge, a crash, an ended tcpdump or a second       *)
(* request did meanwhile (ingestion.py:146, live_captures/router.py:215,   *)
(* manager.py:166).  A row whose hash could not be computed says so, and   *)
(* its file is there; a session whose tcpdump outlives the stop has at     *)
(* least the hashed packets in its file.                                   *)
EvidenceIntact ==
    \A i \in 1..Len(catalog) :
        LET row  == catalog[i]
            file == stored[row.id]
        IN  \/ IntegrityStatus(row) = "VERIFIED"
            \/ row.hash = Unknown /\ file # NoFile
            \/ /\ row.id \in Stops /\ req[row.id].what \in Surviving
               /\ file[2] = row.hash[2] /\ row.hash[3] <= file[3]

(* Nothing is left behind without a fault: a stored file without a row, a  *)
(* staging file, a session that may be shown as CAPTURING and is unknown   *)
(* to the agent, so that no stop can succeed any more, and a tcpdump the   *)
(* agent does not know of, all belong to a request that still runs or was  *)
(* cut short (manager.py:159, live_captures/router.py:108 and 152,         *)
(* ingestion.py:166).                                                      *)
NothingStranded ==
    LET Stoppable(s) == s \in active \/ \E t \in Stops : Running(t) /\ req[t].what = s IN
    /\ \A r \in Requests \ Ids : stored[r] # NoFile => Running(r) \/ r \in hurt
    /\ \A u \in Uploads : tmp[u] # NoFile => Running(u) \/ u \in hurt
    /\ \A s \in Sessions \ hurt : "CAPTURING" \in ShownStatus(s) => Stoppable(s)
    /\ \A s \in Sessions \ (hurt \cup Surviving) : proc[s] # None => Stoppable(s)

(* Evidence is registered once.  An upload is answered with a row of its   *)
(* own bytes, and with the row that was already there when those bytes     *)
(* were registered before it came in: only uploads that overlap can        *)
(* register the same bytes twice.  A completed live session names a row    *)
(* with a file of its own packets, and no two rows come from one session,  *)
(* however many stop requests race (ingestion.py:132,                      *)
(* live_captures/router.py:189).                                           *)
RegisteredOnce ==
    /\ \A u \in Uploads : req[u].pc = "done" =>
          /\ req[u].answer \in Ids
          /\ Row(req[u].answer).hash = req[u].hash
          /\ req[u].hash \in req[u].seen => req[u].answer # u
    /\ \A s \in Sessions : sess[s].status = "COMPLETED" =>
          /\ sess[s].capture \in Ids
          /\ stored[sess[s].capture][2] = s
    /\ \A t1, t2 \in Stops \cap Ids : req[t1].what = req[t2].what => t1 = t2

=============================================================================
