------------------------ MODULE EvidenceStoreProofs ------------------------
(***************************************************************************)
(* Evidence is registered once, is what was hashed, and nothing is left    *)
(* behind without a fault, for any number of uploads, sessions, stop       *)
(* requests, packets, purges and faults.                                   *)
(*                                                                         *)
(* The argument follows the bytes: what a request has hashed is what the   *)
(* file it is about to register holds (UploadInv, StopInv), because only   *)
(* the request that took a capture out of the agent's memory goes on with  *)
(* it and ends the process that writes to it (SessionInv).                 *)
(***************************************************************************)
EXTENDS EvidenceStore, SequenceTheorems, TLAPS

-----------------------------------------------------------------------------
(* The catalogue.                                                          *)

Hash == {Upload(c) : c \in Contents \cup {Malformed}}
          \cup {Live(s, n) : s \in Sessions, n \in Nat} \cup {NoFile, Unknown}

CaptureRow == [id : Requests, hash : Hash,
               source : {"OFFLINE_UPLOAD", "LIVE_CAPTURE"}]

HashesOf(cat) == {cat[i].hash : i \in 1..Len(cat)}
IdsOf(cat)    == {cat[i].id : i \in 1..Len(cat)}

\* The catalogue has a row of capture id with hash h.
Has(cat, id, h) == \E i \in 1..Len(cat) : cat[i].id = id /\ cat[i].hash = h

\* Row i is the oldest with its hash.
First(cat, i) == \A j \in 1..(i - 1) : cat[j].hash # cat[i].hash

CatalogInv ==
  /\ catalog \in Seq(CaptureRow)
  /\ \A i, j \in 1..Len(catalog) : catalog[i].id = catalog[j].id => i = j
  /\ \A i \in 1..Len(catalog) : \E j \in 1..Len(catalog) :
       catalog[j].hash = catalog[i].hash /\ First(catalog, j)

-----------------------------------------------------------------------------
(* The requests and the sessions.                                          *)

UploadPcs == {"idle", "stream", "validate", "lookup", "promote", "commit",
              "done", "failed"}
StopPcs   == {"idle", "agent", "kill", "inspect", "move", "commit", "analyse",
              "done", "failed"}
Statuses  == {"NONE", "STARTING", "CAPTURING", "COMPLETED"}
Request   == [pc : UploadPcs \cup StopPcs,
              what : Contents \cup {Malformed, None} \cup Sessions,
              hash : Hash, seen : SUBSET Hash, answer : Requests \cup {None}]

TypeOK ==
  /\ tmp \in [Uploads -> Hash] /\ stored \in [Requests -> Hash]
  /\ live \in [Sessions -> Hash]
  /\ sess \in [Sessions -> [status : Statuses, capture : Requests \cup {None}]]
  /\ active \subseteq Sessions
  /\ proc \in [Sessions -> Sessions \cup Stops \cup {None}]
  /\ req \in [Requests -> Request]

\* What an upload has hashed, in its staging file f or its promoted file g.
UploadFile(u, q, f, g, cut) ==
  /\ q.pc \in UploadPcs
  /\ q.pc = "stream" => q.what \in Contents \cup {Malformed}
  /\ q.pc \in {"idle", "commit", "done", "failed"} => f = NoFile \/ u \in cut
  /\ q.pc \in {"validate", "lookup", "promote", "commit"} =>
       \E c \in Contents \cup {Malformed} : q.hash = Upload(c)
  /\ q.pc \in {"validate", "lookup", "promote"} => f \in {NoFile, q.hash}
  /\ q.pc = "commit" => g = q.hash

\* What it has found, and its own row.
UploadRow(u, q, g, cat, cut) ==
  /\ q.seen \subseteq HashesOf(cat)
  /\ q.pc \in {"promote", "commit"} => q.hash \notin q.seen
  /\ q.pc = "done" => /\ Has(cat, q.answer, q.hash)
                      /\ q.hash \in q.seen => q.answer # u
  /\ u \in IdsOf(cat) => q.pc = "done"
  /\ \A h \in Hash : Has(cat, u, h) => g = h /\ h # NoFile
  /\ g # NoFile => q.pc = "commit" \/ u \in IdsOf(cat) \/ u \in cut

\* Upload u, with the requests that a fault has cut short.
UploadOK(u, q, f, g, cat, cut) ==
  UploadFile(u, q, f, g, cut) /\ UploadRow(u, q, g, cat, cut)

UploadInv ==
  \A u \in Uploads :
    UploadOK(u, req[u], tmp[u], stored[u], catalog, hurt)

\* A stop request that has taken its session out of the agent's memory.
Popped(q) == q.pc \in {"kill", "inspect", "move", "commit", "analyse", "done"}

\* Hash h may stand for file f of session s: it was not computed, or it is
\* the hash of the file, or the file of a surviving session has grown since.
Sound(s, h, f) ==
  /\ f # NoFile /\ f[2] = s
  /\ h = Unknown \/ (h[2] = s /\ h[3] <= f[3])
  /\ h \in {Unknown, f} \/ s \in Surviving

\* A stop request t: its request q, the file g it moved, and of its session
\* the status, its process and its live file; known is what the agent knows.
StopOK(t, q, g, cat, cut, status, known, pro, file) ==
  /\ q.pc \in StopPcs
  /\ q.pc # "idle" => q.what \in Sessions /\ status \in {"CAPTURING", "COMPLETED"}
  /\ Popped(q) \/ t \in IdsOf(cat) => q.what \notin known
  /\ q.pc \in {"kill", "inspect", "move"} => file # NoFile
  /\ q.pc \in {"inspect", "move", "commit"} /\ q.what \notin Surviving => pro = None
  /\ q.pc = "move" => Sound(q.what, q.hash, file)
  /\ q.pc = "commit" => Sound(q.what, q.hash, g)
  /\ t \in IdsOf(cat) => q.pc \in {"analyse", "done", "failed"}
  /\ \A h \in Hash : Has(cat, t, h) => Sound(q.what, h, g)
  /\ g # NoFile => q.pc = "commit" \/ t \in IdsOf(cat) \/ t \in cut

StopInv ==
  /\ \A t \in Stops : LET s == req[t].what IN
       StopOK(t, req[t], stored[t], catalog, hurt,
              sess[s].status, active, proc[s], live[s])
  /\ \A t, r \in Stops :
       /\ Popped(req[t]) \/ t \in Ids
       /\ Popped(req[r]) \/ r \in Ids
       /\ req[t].what = req[r].what
       => t = r

\* The request that will complete session s.
Stopping(q, s) == q.pc \in {"kill", "inspect", "move", "commit"} /\ q.what = s

SessionOK(s) ==
  /\ live[s] # NoFile => live[s][2] = s
  /\ s \in active => proc[s] \in {s, None} /\ live[s] # NoFile
  /\ sess[s].status = "STARTING" => s \in active
  /\ proc[s] \notin {s, None} =>
       /\ s \in Surviving /\ proc[s] \in Stops
       /\ req[proc[s]].pc # "idle" /\ req[proc[s]].what = s
       /\ stored[proc[s]] # NoFile
  /\ /\ s \notin active \cup hurt
     /\ sess[s].status = "CAPTURING" \/ (proc[s] # None /\ s \notin Surviving)
     => \E t \in Stops : Stopping(req[t], s)
  /\ sess[s].status = "COMPLETED" =>
       /\ sess[s].capture \in Stops \cap Ids
       /\ req[sess[s].capture].pc # "idle" /\ req[sess[s].capture].what = s

SessionInv == \A s \in Sessions : SessionOK(s)

IInv == TypeOK /\ CatalogInv /\ UploadInv /\ StopInv /\ SessionInv

-----------------------------------------------------------------------------
(* Lemmas on the catalogue.                                                *)

\* Catalogue dat is cat, with rows of request r added at most.
Extends(cat, dat, r) ==
  /\ HashesOf(cat) \subseteq HashesOf(dat)
  /\ IdsOf(cat) \subseteq IdsOf(dat)
  /\ \A x, h : Has(cat, x, h) => Has(dat, x, h)
  /\ \A x, h : x # r /\ Has(dat, x, h) => Has(cat, x, h)
  /\ \A x : x # r /\ x \in IdsOf(dat) => x \in IdsOf(cat)

LEMMA SameExtends ==
  ASSUME NEW cat, NEW r  PROVE Extends(cat, cat, r)
BY DEF Extends

LEMMA AppendRows ==
  ASSUME NEW cat \in Seq(CaptureRow), NEW row \in CaptureRow
  PROVE  LET dat == Append(cat, row) IN
           /\ dat \in Seq(CaptureRow) /\ Len(dat) = Len(cat) + 1
           /\ Len(cat) \in Nat
           /\ \A i \in 1..Len(cat) : dat[i] = cat[i]
           /\ dat[Len(cat) + 1] = row
           /\ \A i \in 1..Len(dat) : i \in 1..Len(cat) \/ i = Len(cat) + 1
<1>1. Len(cat) \in Nat  BY LenProperties
<1> QED  BY <1>1, AppendProperties

\* A row is added.
LEMMA AppendExtends ==
  ASSUME NEW cat \in Seq(CaptureRow), NEW row \in CaptureRow
  PROVE  LET dat == Append(cat, row) IN
           /\ Extends(cat, dat, row.id)
           /\ IdsOf(dat) = IdsOf(cat) \cup {row.id}
           /\ \A x, h : Has(dat, x, h) <=>
                Has(cat, x, h) \/ (x = row.id /\ h = row.hash)
<1> DEFINE dat == Append(cat, row)
           n == Len(cat) + 1
<1>1. /\ Len(dat) = n /\ Len(cat) \in Nat /\ dat[n] = row
      /\ \A i \in 1..Len(cat) : dat[i] = cat[i] /\ i \in 1..Len(dat)
      /\ n \in 1..Len(dat)
      /\ \A i \in 1..Len(dat) : i \in 1..Len(cat) \/ i = n
  BY AppendRows
<1> HIDE DEF dat, n
<1>2. \A x, h : Has(dat, x, h) <=>
        Has(cat, x, h) \/ (x = row.id /\ h = row.hash)
  BY <1>1 DEF Has
<1>3. HashesOf(cat) \subseteq HashesOf(dat)  BY <1>1 DEF HashesOf
<1>4. IdsOf(dat) = IdsOf(cat) \cup {row.id}  BY <1>1 DEF IdsOf
<1>5. Extends(cat, dat, row.id)  BY <1>2, <1>3, <1>4 DEF Extends
<1> QED  BY <1>2, <1>4, <1>5 DEF dat

\* The catalogue stays in order when a new capture is registered.
LEMMA AppendInv ==
  ASSUME CatalogInv, NEW row \in CaptureRow, row.id \notin Ids,
         catalog' = Append(catalog, row)
  PROVE  CatalogInv'
<1> DEFINE n == Len(catalog) + 1
<1>1. /\ catalog' \in Seq(CaptureRow) /\ Len(catalog') = n
      /\ Len(catalog) \in Nat /\ catalog'[n] = row
      /\ \A i \in 1..Len(catalog) : catalog'[i] = catalog[i]
      /\ \A i \in 1..Len(catalog') : i \in 1..Len(catalog) \/ i = n
  BY AppendRows DEF CatalogInv
<1>2. \A i \in 1..Len(catalog) : i \in 1..Len(catalog') /\ i \in Nat
  BY <1>1
<1>3. n \in 1..Len(catalog')  BY <1>1
<1> HIDE DEF n
<1>4. \A i \in 1..Len(catalog) : catalog[i].id # row.id  BY DEF Ids
<1>5. \A i, j \in 1..Len(catalog') : catalog'[i].id = catalog'[j].id => i = j
  BY <1>1, <1>4 DEF CatalogInv
<1>6. ASSUME NEW j \in 1..Len(catalog), First(catalog, j)
      PROVE  First(catalog', j)
  <2>1. \A k \in 1..(j - 1) : k \in 1..Len(catalog)  BY <1>1
  <2> QED  BY <1>1, <1>6, <2>1 DEF First
<1>7. \A i \in 1..Len(catalog) : \E j \in 1..Len(catalog') :
        catalog'[j].hash = catalog'[i].hash /\ First(catalog', j)
  BY <1>1, <1>2, <1>6 DEF CatalogInv
<1>8. \E j \in 1..Len(catalog') :
        catalog'[j].hash = row.hash /\ First(catalog', j)
  <2>1. CASE \E i \in 1..Len(catalog) : catalog[i].hash = row.hash
    BY <1>1, <1>7, <2>1
  <2>2. CASE \A i \in 1..Len(catalog) : catalog[i].hash # row.hash
    <3>1. \A k \in 1..(n - 1) : k \in 1..Len(catalog)  BY <1>1 DEF n
    <3>2. First(catalog', n)  BY <1>1, <2>2, <3>1 DEF First
    <3> QED  BY <1>1, <1>3, <3>2
  <2> QED  BY <2>1, <2>2
<1>9. \A i \in 1..Len(catalog') : \E j \in 1..Len(catalog') :
        catalog'[j].hash = catalog'[i].hash /\ First(catalog', j)
  <2> SUFFICES ASSUME NEW i \in 1..Len(catalog')
               PROVE  \E j \in 1..Len(catalog') :
                        catalog'[j].hash = catalog'[i].hash /\ First(catalog', j)
    OBVIOUS
  <2>1. CASE i \in 1..Len(catalog)  BY <1>7, <2>1
  <2>2. CASE i = n  BY <1>1, <1>8, <2>2
  <2> QED  BY <1>1, <2>1, <2>2
<1> QED  BY <1>1, <1>5, <1>9 DEF CatalogInv

\* What Row and Oldest find.
LEMMA RowHash ==
  ASSUME CatalogInv, NEW x, NEW h, Has(catalog, x, h)
  PROVE  x \in Ids /\ Row(x).hash = h
<1>1. PICK i \in 1..Len(catalog) : catalog[i].id = x /\ catalog[i].hash = h
  BY DEF Has
<1> DEFINE j == CHOOSE j \in 1..Len(catalog) : catalog[j].id = x
<1>2. j \in 1..Len(catalog) /\ catalog[j].id = x  BY <1>1
<1>3. j = i  BY <1>1, <1>2 DEF CatalogInv
<1> QED  BY <1>1, <1>3 DEF Ids, Row

LEMMA OldestFound ==
  ASSUME CatalogInv, NEW h \in Hashes
  PROVE  Has(catalog, Oldest(h), h) /\ Oldest(h) \in Ids /\ Oldest(h) \in Requests
<1>1. PICK i \in 1..Len(catalog) : catalog[i].hash = h  BY DEF Hashes
<1>2. PICK j \in 1..Len(catalog) : catalog[j].hash = h /\ First(catalog, j)
  BY <1>1 DEF CatalogInv
<1> DEFINE P(k) == /\ catalog[k].hash = h
                   /\ \A l \in 1..(k - 1) : catalog[l].hash # h
           k == CHOOSE m \in 1..Len(catalog) : P(m)
<1>3. P(j)  BY <1>2 DEF First
<1>4. k \in 1..Len(catalog) /\ P(k)
  <2> HIDE DEF P
  <2> QED  BY <1>3
<1>5. Oldest(h) = catalog[k].id  BY DEF Oldest
<1> HIDE DEF k
<1>6. catalog[k].id \in Requests
  <2>1. catalog \in Seq(CaptureRow)  BY DEF CatalogInv
  <2>2. catalog[k] \in CaptureRow  BY <1>4, <2>1, ElementOfSeq
  <2> QED  BY <2>2 DEF CaptureRow
<1> QED  BY <1>4, <1>5, <1>6 DEF Has, Ids

-----------------------------------------------------------------------------
(* Type correctness.                                                       *)

LEMMA HashValues ==
  /\ NoFile \in Hash /\ Unknown \in Hash
  /\ \A c \in Contents \cup {Malformed} : Upload(c) \in Hash
  /\ \A s \in Sessions, n \in Nat : Live(s, n) \in Hash
BY DEF Hash

\* Kinds of contents are told apart.
LEMMA HashKinds ==
  /\ \A c : Upload(c) # NoFile
  /\ \A s, n : Live(s, n) # NoFile /\ Live(s, n)[2] = s
  /\ \A s \in Sessions : NoFile[2] # s /\ Unknown[2] # s
<1>1. "upload" # "none" /\ "live" # "none"  OBVIOUS
<1>2. \A c : Upload(c)[1] = "upload"  BY DEF Upload
<1>3. \A s, n : Live(s, n)[1] = "live" /\ Live(s, n)[2] = s  BY DEF Live
<1>4. NoFile[1] = "none" /\ NoFile[2] = None /\ Unknown[2] = None
  BY DEF NoFile, Unknown
<1> QED  BY <1>1, <1>2, <1>3, <1>4, EvidenceConstants

\* How many packets a file holds.
LEMMA HashCount == \A h \in Hash : h[3] \in Nat
BY DEF Hash, Upload, Live, NoFile, Unknown

\* A file that is there can hold a packet more.
LEMMA MorePackets ==
  ASSUME NEW f \in Hash, NEW s \in Sessions
  PROVE  Live(s, f[3] + 1) \in Hash
<1>1. f[3] \in Nat  BY HashCount
<1> QED  BY <1>1, HashValues

LEMMA IdleRequest == Idle \in Request
BY HashValues DEF Idle, Request, UploadPcs

LEMMA UploadType ==
  ASSUME TypeOK, CatalogInv, UploadInv, NEW u \in Uploads, UploadStep(u)
  PROVE  TypeOK'
<1>0. /\ u \in Requests /\ req[u] \in Request /\ stored \in [Requests -> Hash]
      /\ tmp \in [Uploads -> Hash] /\ req \in [Requests -> Request]
      /\ tmp[u] \in Hash
  BY DEF TypeOK, Requests
<1>1. UNCHANGED <<live, sess, active, proc>>
  BY DEF UploadStep, UploadBegin, UploadStream, UploadValidate, UploadLookup,
         UploadPromote, UploadCommit, UploadCommitFails
<1>2. ASSUME NEW f \in Hash, tmp' = [tmp EXCEPT ![u] = f]
      PROVE  tmp' \in [Uploads -> Hash]
  BY <1>0, <1>2
<1>3. ASSUME NEW q \in Request, req' = [req EXCEPT ![u] = q]
      PROVE  req' \in [Requests -> Request]
  BY <1>0, <1>3
<1>4. ASSUME NEW c \in Contents \cup {Malformed}, UploadBegin(u, c)
      PROVE  TypeOK'
  <2>1. Hashes \subseteq Hash
    <3>1. catalog \in Seq(CaptureRow)  BY DEF CatalogInv
    <3>2. \A i \in 1..Len(catalog) : catalog[i] \in CaptureRow
      BY <3>1, ElementOfSeq
    <3> QED  BY <3>2 DEF Hashes, CaptureRow
  <2>2. [Idle EXCEPT !.pc = "stream", !.what = c, !.seen = Hashes] \in Request
    BY <2>1, IdleRequest DEF Request, UploadPcs
  <2>3. req' \in [Requests -> Request]
    BY <1>3, <1>4, <2>2 DEF UploadBegin
  <2>4. tmp' \in [Uploads -> Hash]
    BY <1>2, <1>4, HashValues DEF UploadBegin
  <2> QED  BY <1>1, <1>4, <2>3, <2>4 DEF UploadBegin, TypeOK
<1>5. ASSUME NEW pc \in UploadPcs  PROVE [req[u] EXCEPT !.pc = pc] \in Request
  BY <1>0 DEF Request
<1>6. CASE UploadValidate(u) \/ UploadLookup(u) \/ UploadPromote(u)
           \/ UploadCommitFails(u)
  <2>1. req' \in [Requests -> Request]
    <3>1. CASE \E pc \in {"failed", "lookup", "promote", "commit"} :
                 req' = [req EXCEPT ![u].pc = pc]
      BY <1>0, <1>3, <1>5, <3>1 DEF UploadPcs
    <3>2. CASE /\ req[u].hash \in Hashes
               /\ req' = [req EXCEPT ![u].pc = "done",
                                     ![u].answer = Oldest(req[u].hash)]
      <4> DEFINE q == [req[u] EXCEPT !.pc = "done", !.answer = Oldest(req[u].hash)]
      <4>1. Oldest(req[u].hash) \in Requests  BY <3>2, OldestFound
      <4>2. q \in Request  BY <1>0, <4>1 DEF Request, UploadPcs
      <4>3. req' = [req EXCEPT ![u] = q]  BY <1>0, <3>2
      <4> HIDE DEF q
      <4> QED  BY <1>3, <4>2, <4>3
    <3> QED  BY <1>6, <3>1, <3>2 DEF UploadValidate, UploadLookup, UploadPromote,
                UploadCommitFails, Fails, Goto
  <2>2. tmp' \in [Uploads -> Hash]
    <3>1. tmp' = tmp \/ tmp' = [tmp EXCEPT ![u] = NoFile]
      BY <1>6 DEF UploadValidate, UploadLookup, UploadPromote, UploadCommitFails
    <3> QED  BY <1>0, <1>2, <3>1, HashValues
  <2>3. stored' \in [Requests -> Hash]
    <3>1. stored' = stored \/ stored' = [stored EXCEPT ![u] = tmp[u]]
      BY <1>6 DEF UploadValidate, UploadLookup, UploadPromote, UploadCommitFails
    <3> QED  BY <1>0, <3>1
  <2> QED  BY <1>1, <2>1, <2>2, <2>3 DEF TypeOK
<1>7. CASE UploadStream(u)
  <2>1. req[u].pc = "stream"  BY <1>7 DEF UploadStream
  <2> DEFINE f == IF tmp[u] = NoFile THEN NoFile ELSE Upload(req[u].what)
  <2> DEFINE q == [req[u] EXCEPT !.pc = "validate", !.hash = Upload(req[u].what)]
  <2>2. req[u].what \in Contents \cup {Malformed}
    BY <2>1 DEF UploadInv, UploadOK, UploadFile
  <2>3. Upload(req[u].what) \in Hash /\ f \in Hash  BY <2>2, HashValues
  <2>4. q \in Request  BY <1>0, <2>3 DEF Request, UploadPcs
  <2>5. req' = [req EXCEPT ![u] = q] /\ tmp' = [tmp EXCEPT ![u] = f]
    BY <1>0, <1>7 DEF UploadStream
  <2> HIDE DEF q, f
  <2> QED  BY <1>1, <1>2, <1>3, <1>7, <2>3, <2>4, <2>5 DEF UploadStream, TypeOK
<1>8. CASE UploadCommit(u)
  <2> DEFINE q == [req[u] EXCEPT !.pc = "done", !.answer = u]
  <2>1. q \in Request  BY <1>0 DEF Request, UploadPcs
  <2>2. req' = [req EXCEPT ![u] = q]  BY <1>0, <1>8 DEF UploadCommit
  <2> HIDE DEF q
  <2> QED  BY <1>1, <1>3, <1>8, <2>1, <2>2 DEF UploadCommit, TypeOK
<1> QED  BY <1>4, <1>6, <1>7, <1>8 DEF UploadStep

LEMMA StopType ==
  ASSUME TypeOK, StopInv, NEW t \in Stops, StopStep(t)
  PROVE  TypeOK'
<1>0. /\ t \in Requests /\ req[t] \in Request /\ stored \in [Requests -> Hash]
      /\ live \in [Sessions -> Hash] /\ req \in [Requests -> Request]
      /\ sess \in [Sessions -> [status : Statuses, capture : Requests \cup {None}]]
      /\ proc \in [Sessions -> Sessions \cup Stops \cup {None}]
      /\ active \subseteq Sessions
  BY DEF TypeOK, Requests
<1>1. UNCHANGED tmp
  BY DEF StopStep, StopRead, StopPop, StopKill, StopInspect, StopMove, StopCommit,
         StopCommitFails, StopAnalyse
<1>2. ASSUME NEW q \in Request, req' = [req EXCEPT ![t] = q]
      PROVE  req' \in [Requests -> Request]
  BY <1>0, <1>2
<1>3. ASSUME NEW pc \in StopPcs, req' = [req EXCEPT ![t].pc = pc]
      PROVE  req' \in [Requests -> Request]
  BY <1>0, <1>3 DEF Request
<1>4. req[t].pc # "idle" => req[t].what \in Sessions
  BY DEF StopInv, StopOK
<1>5. ASSUME NEW s \in Sessions, StopRead(t, s)  PROVE TypeOK'
  <2>1. [Idle EXCEPT !.pc = "agent", !.what = s] \in Request
    BY IdleRequest DEF Request, StopPcs
  <2> QED  BY <1>0, <1>1, <1>2, <1>5, <2>1 DEF StopRead, TypeOK
<1>6. CASE StopPop(t) \/ StopCommitFails(t)
  <2>1. req' \in [Requests -> Request]
    BY <1>3, <1>6 DEF StopPop, StopCommitFails, Fails, Goto, StopPcs
  <2> QED  BY <1>0, <1>1, <1>6, <2>1 DEF StopPop, StopCommitFails, TypeOK
<1>7. CASE StopKill(t)
  <2>1. req' \in [Requests -> Request]  BY <1>3, <1>7 DEF StopKill, Goto, StopPcs
  <2>2. proc' \in [Sessions -> Sessions \cup Stops \cup {None}]
    BY <1>0, <1>7 DEF StopKill
  <2> QED  BY <1>1, <1>7, <2>1, <2>2 DEF StopKill, TypeOK
<1>8. CASE StopInspect(t)
  <2>1. req[t].what \in Sessions  BY <1>4, <1>8 DEF StopInspect
  <2>2. PICK h \in {Unknown, live[req[t].what]} :
          req' = [req EXCEPT ![t].pc = "move", ![t].hash = h]
    BY <1>8 DEF StopInspect
  <2> DEFINE q == [req[t] EXCEPT !.pc = "move", !.hash = h]
  <2>5. h \in Hash  BY <1>0, <2>1, <2>2, HashValues
  <2>3. q \in Request  BY <1>0, <2>5 DEF Request, StopPcs
  <2>4. req' = [req EXCEPT ![t] = q]  BY <1>0, <2>2
  <2> HIDE DEF q
  <2> QED  BY <1>1, <1>2, <1>8, <2>3, <2>4 DEF StopInspect, TypeOK
<1>9. CASE StopMove(t)
  <2>1. req[t].what \in Sessions  BY <1>4, <1>9 DEF StopMove
  <2>2. req' \in [Requests -> Request]  BY <1>3, <1>9 DEF StopMove, Goto, StopPcs
  <2>3. stored' \in [Requests -> Hash]  BY <1>0, <1>9, <2>1 DEF StopMove
  <2>4. live' \in [Sessions -> Hash]  BY <1>0, <1>9, HashValues DEF StopMove
  <2>5. proc' \in [Sessions -> Sessions \cup Stops \cup {None}]
    BY <1>0, <1>9 DEF StopMove
  <2> QED  BY <1>1, <1>9, <2>2, <2>3, <2>4, <2>5 DEF StopMove, TypeOK
<1>10. CASE StopCommit(t)
  <2>1. req' \in [Requests -> Request]  BY <1>3, <1>10 DEF StopCommit, Goto, StopPcs
  <2>2. sess' \in [Sessions -> [status : Statuses, capture : Requests \cup {None}]]
    BY <1>0, <1>10 DEF StopCommit, Statuses
  <2> QED  BY <1>1, <1>10, <2>1, <2>2 DEF StopCommit, TypeOK
<1>11. CASE StopAnalyse(t)
  <2> DEFINE q == [req[t] EXCEPT !.pc = "done", !.answer = t]
  <2>1. q \in Request  BY <1>0 DEF Request, StopPcs
  <2>2. req' = [req EXCEPT ![t] = q]  BY <1>0, <1>11 DEF StopAnalyse
  <2> HIDE DEF q
  <2> QED  BY <1>1, <1>2, <1>11, <2>1, <2>2 DEF StopAnalyse, TypeOK
<1> QED  BY <1>5, <1>6, <1>7, <1>8, <1>9, <1>10, <1>11 DEF StopStep

LEMMA OtherType ==
  ASSUME TypeOK, StopInv,
         \/ \E s \in Sessions : SessionStep(s)
         \/ \E old \in SUBSET Uploads : PurgeStaging(old)
         \/ \E r \in Requests : PurgeCapture(r)
         \/ Crash
  PROVE  TypeOK'
<1>0. /\ stored \in [Requests -> Hash] /\ tmp \in [Uploads -> Hash]
      /\ live \in [Sessions -> Hash] /\ req \in [Requests -> Request]
      /\ sess \in [Sessions -> [status : Statuses, capture : Requests \cup {None}]]
      /\ proc \in [Sessions -> Sessions \cup Stops \cup {None}]
      /\ active \subseteq Sessions
  BY DEF TypeOK
<1>1. ASSUME NEW s \in Sessions, LiveStart(s)  PROVE TypeOK'
  <2>1. live' \in [Sessions -> Hash]  BY <1>0, <1>1, HashValues DEF LiveStart
  <2>2. sess' \in [Sessions -> [status : Statuses, capture : Requests \cup {None}]]
    BY <1>0, <1>1 DEF LiveStart, Statuses
  <2>3. proc' \in [Sessions -> Sessions \cup Stops \cup {None}]
    BY <1>0, <1>1 DEF LiveStart
  <2> QED  BY <1>0, <1>1, <2>1, <2>2, <2>3 DEF LiveStart, TypeOK
<1>2. ASSUME NEW s \in Sessions, LiveStartCommit(s) \/ LiveStartCommitFails(s)
      PROVE  TypeOK'
  <2>1. sess' \in [Sessions -> [status : Statuses, capture : Requests \cup {None}]]
    BY <1>0, <1>2 DEF LiveStartCommit, LiveStartCommitFails, Statuses
  <2> QED  BY <1>0, <1>2, <2>1 DEF LiveStartCommit, LiveStartCommitFails, TypeOK
<1>3. ASSUME NEW s \in Sessions, Packet(s)  PROVE TypeOK'
  <2> DEFINE more(f) == IF f[3] < MaxPackets THEN Live(s, f[3] + 1) ELSE f
  <2>1. \A f \in Hash : more(f) \in Hash  BY MorePackets
  <2>2. \/ live' = [live EXCEPT ![s] = more(@)] /\ UNCHANGED stored
        \/ stored' = [stored EXCEPT ![proc[s]] = more(@)] /\ UNCHANGED live
    BY <1>3 DEF Packet
  <2> HIDE DEF more
  <2>3. live' \in [Sessions -> Hash] /\ stored' \in [Requests -> Hash]
    BY <1>0, <2>1, <2>2
  <2> QED  BY <1>0, <1>3, <2>3 DEF Packet, TypeOK
<1>7. ASSUME NEW s \in Sessions, TcpdumpEnds(s)  PROVE TypeOK'
  <2>1. proc' \in [Sessions -> Sessions \cup Stops \cup {None}]
    BY <1>0, <1>7 DEF TcpdumpEnds
  <2> QED  BY <1>0, <1>7, <2>1 DEF TcpdumpEnds, TypeOK
<1>4. CASE \E old \in SUBSET Uploads : PurgeStaging(old)
  BY <1>0, <1>4, HashValues DEF PurgeStaging, TypeOK
<1>5. CASE \E r \in Requests : PurgeCapture(r)
  BY <1>0, <1>5 DEF PurgeCapture, TypeOK
<1>6. CASE Crash
  <2>1. \A r \in Requests : [req[r] EXCEPT !.pc = "failed"] \in Request
    BY <1>0 DEF Request, StopPcs
  <2>2. req' \in [Requests -> Request]
    BY <1>0, <1>6, <2>1 DEF Crash
  <2>3. sess' \in [Sessions -> [status : Statuses, capture : Requests \cup {None}]]
    BY <1>0, <1>6 DEF Crash, Statuses
  <2> QED  BY <1>0, <1>6, <2>2, <2>3 DEF Crash, TypeOK
<1> QED  BY <1>1, <1>2, <1>3, <1>4, <1>5, <1>6, <1>7 DEF SessionStep

-----------------------------------------------------------------------------
(* What other requests may do meanwhile.                                   *)

\* Rows of others, a fault and the staging purge leave an upload in order.
LEMMA UploadMono ==
  ASSUME NEW u, NEW r, u # r, NEW q, NEW f, NEW e \in {f, NoFile}, NEW g,
         NEW cat, NEW dat, NEW cut, NEW hit, cut \subseteq hit, Extends(cat, dat, r),
         UploadOK(u, q, f, g, cat, cut)
  PROVE  UploadOK(u, q, e, g, dat, hit)
<1>1. /\ \A h : Has(dat, u, h) <=> Has(cat, u, h)
      /\ u \in IdsOf(dat) <=> u \in IdsOf(cat)
      /\ HashesOf(cat) \subseteq HashesOf(dat)
      /\ \A x, h : Has(cat, x, h) => Has(dat, x, h)
  BY DEF Extends
<1> QED  BY <1>1 DEF UploadOK, UploadFile, UploadRow

\* Rows of others and a fault leave a stop request in order; so does what
\* others do to its session when it is not the one that stops it.
LEMMA StopMono ==
  ASSUME NEW t, NEW r, t # r, NEW q, NEW g, NEW cat, NEW dat, NEW cut, NEW hit,
         NEW status, NEW mark, NEW known, NEW knows, NEW pro, NEW prog,
         NEW file, NEW left, cut \subseteq hit, Extends(cat, dat, r),
         q.pc # "idle" /\ status \in {"CAPTURING", "COMPLETED"} =>
           mark \in {"CAPTURING", "COMPLETED"},
         q.pc # "idle" /\ (Popped(q) \/ t \in IdsOf(cat)) =>
           (q.what \in knows => q.what \in known) /\ left = file /\ prog = pro,
         StopOK(t, q, g, cat, cut, status, known, pro, file)
  PROVE  StopOK(t, q, g, dat, hit, mark, knows, prog, left)
<1>1. /\ \A h : Has(dat, t, h) <=> Has(cat, t, h)
      /\ t \in IdsOf(dat) <=> t \in IdsOf(cat)
  BY DEF Extends
<1> QED  BY <1>1 DEF StopOK, Popped

-----------------------------------------------------------------------------
(* Uploads.                                                                *)

\* An upload without a row.
LEMMA UploadOpen ==
  ASSUME NEW u, NEW q, NEW g, NEW cat, NEW cut, u \notin IdsOf(cat),
         q.seen \subseteq HashesOf(cat), q.pc # "done",
         q.pc \in {"promote", "commit"} => q.hash \notin q.seen,
         g # NoFile => q.pc = "commit" \/ u \in cut
  PROVE  UploadRow(u, q, g, cat, cut)
<1>1. \A h : ~Has(cat, u, h)  BY DEF Has, IdsOf
<1> QED  BY <1>1 DEF UploadRow

LEMMA UploadUnregistered ==
  ASSUME NEW u, NEW q, NEW g, NEW cat, NEW cut, UploadRow(u, q, g, cat, cut),
         q.pc # "done"
  PROVE  /\ u \notin IdsOf(cat) /\ q.seen \subseteq HashesOf(cat)
         /\ q.pc \in {"promote", "commit"} => q.hash \notin q.seen
         /\ g # NoFile => q.pc = "commit" \/ u \in cut
BY DEF UploadRow

\* What an upload's own step does to it.
LEMMA UploadOwn ==
  ASSUME IInv, NEW u \in Uploads, UploadStep(u)
  PROVE  /\ UploadOK(u, req'[u], tmp'[u], stored'[u], catalog', hurt')
         /\ CatalogInv' /\ Extends(catalog, catalog', u)
<1>0. /\ u \in Requests /\ req \in [Requests -> Request] /\ req[u] \in Request
      /\ tmp \in [Uploads -> Hash] /\ stored \in [Requests -> Hash]
      /\ CatalogInv /\ catalog \in Seq(CaptureRow)
      /\ UploadOK(u, req[u], tmp[u], stored[u], catalog, hurt)
      /\ UploadFile(u, req[u], tmp[u], stored[u], hurt)
      /\ UploadRow(u, req[u], stored[u], catalog, hurt)
      /\ Hashes = HashesOf(catalog) /\ Ids = IdsOf(catalog)
  BY DEF IInv, TypeOK, Requests, UploadInv, UploadOK, Hashes, HashesOf, Ids, IdsOf, CatalogInv
<1>1. ASSUME catalog' = catalog
      PROVE  CatalogInv' /\ Extends(catalog, catalog', u)
  BY <1>0, <1>1, SameExtends DEF CatalogInv
<1>u. req[u].pc # "done" =>
        /\ u \notin IdsOf(catalog) /\ req[u].seen \subseteq HashesOf(catalog)
        /\ req[u].pc \in {"promote", "commit"} => req[u].hash \notin req[u].seen
        /\ stored[u] # NoFile => req[u].pc = "commit" \/ u \in hurt
  BY <1>0, UploadUnregistered
<1>2. ASSUME NEW c \in Contents \cup {Malformed}, UploadBegin(u, c)
      PROVE  UploadOK(u, req'[u], tmp'[u], stored'[u], catalog', hurt')
  <2>1. /\ req'[u] = [Idle EXCEPT !.pc = "stream", !.what = c, !.seen = Hashes]
        /\ stored' = stored /\ catalog' = catalog /\ hurt' = hurt
        /\ req[u].pc = "idle"
    BY <1>0, <1>2 DEF UploadBegin
  <2>2. /\ req'[u].pc = "stream" /\ req'[u].what = c /\ req'[u].seen = Hashes
    BY <2>1 DEF Idle
  <2> QED
    <3>11. UploadFile(u, req'[u], tmp'[u], stored'[u], hurt')
      BY <1>0, <2>1, <2>2 DEF UploadOK, UploadFile, UploadPcs
    <3> DEFINE q == req'[u]
               g == stored'[u]
               k == hurt'
    <3>1. /\ u \notin IdsOf(catalog) /\ q.pc # "done"
          /\ q.seen \subseteq HashesOf(catalog)
          /\ q.pc \in {"promote", "commit"} => q.hash \notin q.seen
          /\ g # NoFile => q.pc = "commit" \/ u \in k
      BY <1>0, <1>u, <2>1, <2>2
    <3> HIDE DEF q, g, k
    <3>2. UploadRow(u, q, g, catalog, k)  BY <3>1, UploadOpen
    <3>3. catalog' = catalog  BY <2>1
    <3>12. UploadRow(u, req'[u], stored'[u], catalog', hurt')
      BY Zenon, <3>2, <3>3 DEF q, g, k
    <3> QED  BY <3>11, <3>12 DEF UploadOK
<1>3. CASE UploadStream(u)
  <2>1. /\ req'[u].pc = "validate" /\ req'[u].hash = Upload(req[u].what)
        /\ req'[u].seen = req[u].seen
        /\ tmp'[u] = (IF tmp[u] = NoFile THEN NoFile ELSE Upload(req[u].what))
        /\ stored' = stored /\ catalog' = catalog /\ hurt' = hurt
        /\ req[u].pc = "stream"
    BY <1>0, <1>3 DEF UploadStream, Request
  <2> QED
    <3>11. UploadFile(u, req'[u], tmp'[u], stored'[u], hurt')
      BY <1>0, <2>1 DEF UploadOK, UploadFile, UploadPcs
    <3> DEFINE q == req'[u]
               g == stored'[u]
               k == hurt'
    <3>1. /\ u \notin IdsOf(catalog) /\ q.pc # "done"
          /\ q.seen \subseteq HashesOf(catalog)
          /\ q.pc \in {"promote", "commit"} => q.hash \notin q.seen
          /\ g # NoFile => q.pc = "commit" \/ u \in k
      BY <1>0, <1>u, <2>1
    <3> HIDE DEF q, g, k
    <3>2. UploadRow(u, q, g, catalog, k)  BY <3>1, UploadOpen
    <3>3. catalog' = catalog  BY <2>1
    <3>12. UploadRow(u, req'[u], stored'[u], catalog', hurt')
      BY Zenon, <3>2, <3>3 DEF q, g, k
    <3> QED  BY <1>1, <2>1, <3>11, <3>12 DEF UploadOK
<1>4. CASE UploadValidate(u)
  <2>1. /\ req'[u].hash = req[u].hash /\ req'[u].seen = req[u].seen
        /\ stored' = stored /\ catalog' = catalog /\ hurt' = hurt
        /\ req[u].pc = "validate"
        /\ \/ req'[u].pc = "lookup" /\ tmp'[u] = tmp[u]
           \/ req'[u].pc = "failed" /\ tmp'[u] = NoFile
    BY <1>0, <1>4 DEF UploadValidate, Request, Goto, Fails
  <2> QED
    <3>11. UploadFile(u, req'[u], tmp'[u], stored'[u], hurt')
      BY <1>0, <2>1 DEF UploadOK, UploadFile, UploadPcs
    <3> DEFINE q == req'[u]
               g == stored'[u]
               k == hurt'
    <3>1. /\ u \notin IdsOf(catalog) /\ q.pc # "done"
          /\ q.seen \subseteq HashesOf(catalog)
          /\ q.pc \in {"promote", "commit"} => q.hash \notin q.seen
          /\ g # NoFile => q.pc = "commit" \/ u \in k
      BY <1>0, <1>u, <2>1
    <3> HIDE DEF q, g, k
    <3>2. UploadRow(u, q, g, catalog, k)  BY <3>1, UploadOpen
    <3>3. catalog' = catalog  BY <2>1
    <3>12. UploadRow(u, req'[u], stored'[u], catalog', hurt')
      BY Zenon, <3>2, <3>3 DEF q, g, k
    <3> QED  BY <1>1, <2>1, <3>11, <3>12 DEF UploadOK
<1>5. CASE UploadLookup(u)
  <2>1. /\ req'[u].hash = req[u].hash /\ req'[u].seen = req[u].seen
        /\ stored' = stored /\ catalog' = catalog /\ hurt' = hurt
        /\ req[u].pc = "lookup"
        /\ \/ /\ req'[u].pc = "promote" /\ tmp'[u] = tmp[u]
              /\ req[u].hash \notin Hashes
           \/ /\ req'[u].pc = "done" /\ tmp'[u] = NoFile /\ req[u].hash \in Hashes
              /\ req'[u].answer = Oldest(req[u].hash)
    BY <1>0, <1>5 DEF UploadLookup, Request, Goto
  <2>2. UploadFile(u, req'[u], tmp'[u], stored'[u], hurt')
    BY <1>0, <2>1 DEF UploadFile, UploadPcs
  <2>3. stored'[u] = stored[u] /\ catalog' = catalog /\ hurt' = hurt
    BY <2>1
  <2> DEFINE q == req'[u]
  <2>4. UploadRow(u, q, stored[u], catalog, hurt)
    <3>1. CASE q.pc = "promote"
      <4>1. /\ u \notin IdsOf(catalog) /\ q.pc # "done"
            /\ q.seen \subseteq HashesOf(catalog) /\ q.hash \notin q.seen
            /\ stored[u] # NoFile => u \in hurt
        BY <1>0, <1>u, <2>1, <3>1
      <4> HIDE DEF q
      <4> QED  BY <4>1, UploadOpen
    <3>2. CASE q.pc = "done"
      <4>1. /\ Has(catalog, q.answer, q.hash) /\ q.answer \in IdsOf(catalog)
            /\ u \notin IdsOf(catalog) /\ q.seen \subseteq HashesOf(catalog)
            /\ stored[u] # NoFile => u \in hurt
        BY <1>0, <1>u, <2>1, <3>2, OldestFound
      <4> HIDE DEF q
      <4>2. \A h : ~Has(catalog, u, h)  BY <4>1 DEF Has, IdsOf
      <4>3. q.answer # u  BY <4>1, <4>2
      <4> QED  BY <3>2, <4>1, <4>2, <4>3 DEF UploadRow
    <3> QED  BY <2>1, <3>1, <3>2
  <2> HIDE DEF q
  <2>5. UploadRow(u, req'[u], stored'[u], catalog', hurt')
    BY Zenon, <2>3, <2>4 DEF q
  <2> QED  BY <1>1, <2>2, <2>3, <2>5 DEF UploadOK
<1>6. CASE UploadPromote(u)
  <2>1. /\ req'[u].hash = req[u].hash /\ req'[u].seen = req[u].seen
        /\ catalog' = catalog /\ hurt' = hurt
        /\ req[u].pc = "promote"
        /\ \/ /\ req'[u].pc = "failed" /\ tmp[u] = NoFile /\ tmp'[u] = NoFile
              /\ stored'[u] = stored[u]
           \/ /\ req'[u].pc = "commit" /\ tmp'[u] = NoFile /\ tmp[u] # NoFile
              /\ stored'[u] = tmp[u]
    BY <1>0, <1>6 DEF UploadPromote, Request, Goto, Fails
  <2>2. u \notin Ids /\ \A h : ~Has(catalog, u, h)
    <3>1. u \notin Ids  BY <1>0, <2>1 DEF UploadOK, UploadRow
    <3> QED  BY <3>1 DEF Has, Ids
  <2> QED
    <3>11. UploadFile(u, req'[u], tmp'[u], stored'[u], hurt')
      BY <1>0, <2>1, <2>2 DEF UploadOK, UploadFile, UploadPcs
    <3> DEFINE q == req'[u]
               g == stored'[u]
               k == hurt'
    <3>1. /\ u \notin IdsOf(catalog) /\ q.pc # "done"
          /\ q.seen \subseteq HashesOf(catalog)
          /\ q.pc \in {"promote", "commit"} => q.hash \notin q.seen
          /\ g # NoFile => q.pc = "commit" \/ u \in k
      BY <1>0, <1>u, <2>1
    <3> HIDE DEF q, g, k
    <3>2. UploadRow(u, q, g, catalog, k)  BY <3>1, UploadOpen
    <3>3. catalog' = catalog  BY <2>1
    <3>12. UploadRow(u, req'[u], stored'[u], catalog', hurt')
      BY Zenon, <3>2, <3>3 DEF q, g, k
    <3> QED  BY <1>1, <2>1, <3>11, <3>12 DEF UploadOK
<1>7. CASE UploadCommitFails(u)
  <2>1. /\ req'[u].hash = req[u].hash /\ req'[u].seen = req[u].seen
        /\ tmp' = tmp /\ stored' = stored /\ catalog' = catalog
        /\ req[u].pc = "commit"
        /\ req'[u].pc = "failed" /\ u \in hurt'
    BY <1>0, <1>7 DEF UploadCommitFails, Request, Fails
  <2> QED
    <3>11. UploadFile(u, req'[u], tmp'[u], stored'[u], hurt')
      BY <1>0, <2>1 DEF UploadOK, UploadFile, UploadPcs
    <3> DEFINE q == req'[u]
               g == stored'[u]
               k == hurt'
    <3>1. /\ u \notin IdsOf(catalog) /\ q.pc # "done"
          /\ q.seen \subseteq HashesOf(catalog)
          /\ q.pc \in {"promote", "commit"} => q.hash \notin q.seen
          /\ g # NoFile => q.pc = "commit" \/ u \in k
      BY <1>0, <1>u, <2>1
    <3> HIDE DEF q, g, k
    <3>2. UploadRow(u, q, g, catalog, k)  BY <3>1, UploadOpen
    <3>3. catalog' = catalog  BY <2>1
    <3>12. UploadRow(u, req'[u], stored'[u], catalog', hurt')
      BY Zenon, <3>2, <3>3 DEF q, g, k
    <3> QED  BY <1>1, <2>1, <3>11, <3>12 DEF UploadOK
<1>8. CASE UploadCommit(u)
  <2> DEFINE row == [id |-> u, hash |-> req[u].hash, source |-> "OFFLINE_UPLOAD"]
  <2>1. /\ req'[u].hash = req[u].hash /\ req'[u].seen = req[u].seen
        /\ UNCHANGED <<tmp, stored, hurt>> /\ req[u].pc = "commit"
        /\ req'[u].pc = "done" /\ req'[u].answer = u
        /\ catalog' = Append(catalog, row)
    BY <1>0, <1>8 DEF UploadCommit, Request
  <2>2. u \notin Ids  BY <1>0, <2>1 DEF UploadOK, UploadRow
  <2>3. row \in CaptureRow  BY <1>0 DEF CaptureRow, Request
  <2>4. row.id = u /\ row.hash = req[u].hash  OBVIOUS
  <2> HIDE DEF row
  <2>5. CatalogInv'  BY <1>0, <2>1, <2>2, <2>3, <2>4, AppendInv
  <2>6. /\ Extends(catalog, catalog', u)
        /\ IdsOf(catalog') = IdsOf(catalog) \cup {u}
        /\ \A x, h : Has(catalog', x, h) <=>
             Has(catalog, x, h) \/ (x = u /\ h = req[u].hash)
    BY <1>0, <2>1, <2>3, <2>4, AppendExtends
  <2>7. \A h : ~Has(catalog, u, h)  BY <2>2 DEF Has, Ids
  <2>8. /\ stored[u] = req[u].hash /\ req[u].hash \notin req[u].seen
        /\ req[u].seen \subseteq HashesOf(catalog)
        /\ tmp[u] = NoFile \/ u \in hurt
        /\ req[u].hash # NoFile
    BY <1>0, <2>1, HashKinds DEF UploadOK, UploadFile, UploadRow
  <2>9. HashesOf(catalog) \subseteq HashesOf(catalog')  BY <2>6 DEF Extends
  <2>10. UploadOK(u, req'[u], tmp'[u], stored'[u], catalog', hurt')
    BY <2>1, <2>6, <2>7, <2>8, <2>9 DEF UploadOK, UploadFile, UploadRow, UploadPcs
  <2> QED  BY <2>5, <2>6, <2>10
<1>9. \/ UploadCommit(u)
      \/ catalog' = catalog
  BY DEF UploadStep, UploadBegin, UploadStream, UploadValidate, UploadLookup,
         UploadPromote, UploadCommitFails
<1> QED  BY <1>1, <1>2, <1>3, <1>4, <1>5, <1>6, <1>7, <1>8, <1>9 DEF UploadStep

-----------------------------------------------------------------------------
(* Stop requests.                                                          *)

\* A stop request without a row.
LEMMA StopOpen ==
  ASSUME NEW t, NEW q, NEW g, NEW cat, NEW cut, NEW status, NEW known, NEW pro,
         NEW file, t \notin IdsOf(cat), q.pc \in StopPcs,
         q.pc # "idle" => q.what \in Sessions /\ status \in {"CAPTURING", "COMPLETED"},
         Popped(q) => q.what \notin known,
         q.pc \in {"kill", "inspect", "move"} => file # NoFile,
         q.pc \in {"inspect", "move", "commit"} /\ q.what \notin Surviving => pro = None,
         q.pc = "move" => Sound(q.what, q.hash, file),
         q.pc = "commit" => Sound(q.what, q.hash, g),
         g # NoFile => q.pc = "commit" \/ t \in cut
  PROVE  StopOK(t, q, g, cat, cut, status, known, pro, file)
<1>1. \A h : ~Has(cat, t, h)  BY DEF Has, IdsOf
<1> QED  BY <1>1 DEF StopOK

\* What is known of a stop request that has no row yet.
LEMMA StopUnregistered ==
  ASSUME NEW t, NEW q, NEW g, NEW cat, NEW cut, NEW status, NEW known, NEW pro,
         NEW file, StopOK(t, q, g, cat, cut, status, known, pro, file),
         q.pc \notin {"analyse", "done", "failed"}
  PROVE  /\ t \notin IdsOf(cat)
         /\ q.pc # "idle" => q.what \in Sessions /\ status \in {"CAPTURING", "COMPLETED"}
         /\ q.pc \in {"kill", "inspect", "move", "commit"} => q.what \notin known
         /\ q.pc \in {"kill", "inspect", "move"} => file # NoFile
         /\ q.pc \in {"inspect", "move", "commit"} /\ q.what \notin Surviving => pro = None
         /\ q.pc = "move" => Sound(q.what, q.hash, file)
         /\ q.pc = "commit" => Sound(q.what, q.hash, g)
         /\ g # NoFile => q.pc = "commit" \/ t \in cut
BY DEF StopOK, Popped

\* What a stop request's own step does to it.
LEMMA StopOwn ==
  ASSUME IInv, NEW t \in Stops, StopStep(t)
  PROVE  /\ LET s == req'[t].what IN
              StopOK(t, req'[t], stored'[t], catalog', hurt',
                     sess'[s].status, active', proc'[s], live'[s])
         /\ CatalogInv' /\ Extends(catalog, catalog', t)
<1> DEFINE p == req'[t]
           q == req[t]
           s == req[t].what
           x == req'[t].what
           New == StopOK(t, p, stored'[t], catalog', hurt',
                         sess'[x].status, active', proc'[x], live'[x])
<1>0. /\ t \in Requests /\ req \in [Requests -> Request] /\ q \in Request
      /\ stored \in [Requests -> Hash] /\ live \in [Sessions -> Hash]
      /\ proc \in [Sessions -> Sessions \cup Stops \cup {None}]
      /\ sess \in [Sessions -> [status : Statuses, capture : Requests \cup {None}]]
      /\ CatalogInv /\ catalog \in Seq(CaptureRow) /\ Ids = IdsOf(catalog)
      /\ StopOK(t, q, stored[t], catalog, hurt,
                sess[s].status, active, proc[s], live[s])
  BY DEF IInv, TypeOK, Requests, StopInv, Ids, IdsOf, CatalogInv
<1>1. ASSUME catalog' = catalog
      PROVE  CatalogInv' /\ Extends(catalog, catalog', t)
  BY <1>0, <1>1, SameExtends DEF CatalogInv
<1>u. q.pc \notin {"analyse", "done", "failed"} =>
        /\ t \notin IdsOf(catalog)
        /\ q.pc # "idle" => s \in Sessions /\ sess[s].status \in {"CAPTURING", "COMPLETED"}
        /\ q.pc \in {"kill", "inspect", "move", "commit"} => s \notin active
        /\ q.pc \in {"kill", "inspect", "move"} => live[s] # NoFile
        /\ q.pc \in {"inspect", "move", "commit"} /\ s \notin Surviving => proc[s] = None
        /\ q.pc = "move" => Sound(s, q.hash, live[s])
        /\ q.pc = "commit" => Sound(s, q.hash, stored[t])
        /\ stored[t] # NoFile => q.pc = "commit" \/ t \in hurt
  BY <1>0, StopUnregistered
<1>s. \A y \in Sessions :
        /\ live[y] # NoFile => live[y][2] = y
        /\ y \in active => live[y] # NoFile
  BY DEF IInv, SessionInv, SessionOK
<1>2. ASSUME NEW y \in Sessions, StopRead(t, y)  PROVE New
  <2>1. /\ q.pc = "idle" /\ p = [Idle EXCEPT !.pc = "agent", !.what = y]
        /\ sess[y].status \in {"CAPTURING", "COMPLETED"}
        /\ sess' = sess /\ stored' = stored /\ hurt' = hurt /\ catalog' = catalog
    BY <1>0, <1>2 DEF StopRead
  <2>2. p.pc = "agent" /\ p.what = y /\ x = y  BY <2>1 DEF Idle
  <2> DEFINE g == stored'[t]
             k == hurt'
             m == sess'[x].status
  <2>3. /\ t \notin IdsOf(catalog) /\ p.pc = "agent" /\ p.what \in Sessions
        /\ m \in {"CAPTURING", "COMPLETED"} /\ (g # NoFile => t \in k)
    BY <1>u, <2>1, <2>2
  <2> DEFINE a == active'
             r == proc'[x]
             f == live'[x]
  <2> HIDE DEF p, g, k, m, a, r, f
  <2>4. StopOK(t, p, g, catalog, k, m, a, r, f)
    BY <2>3, StopOpen DEF Popped, StopPcs
  <2>5. catalog' = catalog  BY <2>1
  <2> QED  BY Zenon, <2>4, <2>5 DEF g, k, m, a, r, f
<1>3. CASE StopPop(t)
  <2>1. /\ q.pc = "agent" /\ p.what = s /\ p.hash = q.hash
        /\ \/ s \in active /\ p.pc = "kill"
           \/ p.pc = "failed"
        /\ active' = active \ {s} /\ sess' = sess /\ stored' = stored
        /\ hurt' = hurt /\ catalog' = catalog /\ live' = live
    BY <1>0, <1>3 DEF StopPop, Goto, Fails, Request
  <2> DEFINE g == stored'[t]
             k == hurt'
             m == sess'[x].status
             a == active'
             r == proc'[x]
             f == live'[x]
  <2>3. /\ p.pc \in {"kill", "failed"} /\ p.what \in Sessions
        /\ m \in {"CAPTURING", "COMPLETED"} /\ p.what \notin a
        /\ p.pc = "kill" => f # NoFile
        /\ g # NoFile => t \in k
    BY <1>u, <1>s, <2>1
  <2>4. catalog' = catalog /\ t \notin IdsOf(catalog)  BY <1>u, <2>1
  <2> HIDE DEF p, g, k, m, a, r, f
  <2>5. StopOK(t, p, g, catalog, k, m, a, r, f)
    BY <2>3, <2>4, StopOpen DEF Popped, StopPcs
  <2>6. New  BY Zenon, <2>4, <2>5 DEF p, g, k, m, a, r, f
  <2> QED  BY <1>1, <2>4, <2>6 DEF p
<1>4. CASE StopKill(t)
  <2>1. /\ q.pc = "kill" /\ p.what = s /\ p.hash = q.hash /\ p.pc = "inspect"
        /\ proc' = [proc EXCEPT ![s] = IF s \in Surviving THEN @ ELSE None]
        /\ active' = active /\ sess' = sess /\ stored' = stored
        /\ hurt' = hurt /\ catalog' = catalog /\ live' = live
    BY <1>0, <1>4 DEF StopKill, Goto, Request
  <2> DEFINE g == stored'[t]
             k == hurt'
             m == sess'[x].status
             a == active'
             r == proc'[x]
             f == live'[x]
  <2>3. /\ p.pc = "inspect" /\ p.what \in Sessions
        /\ m \in {"CAPTURING", "COMPLETED"} /\ p.what \notin a /\ f # NoFile
        /\ p.what \notin Surviving => r = None
        /\ g # NoFile => t \in k
    BY <1>0, <1>u, <2>1
  <2>4. catalog' = catalog /\ t \notin IdsOf(catalog)  BY <1>u, <2>1
  <2> HIDE DEF p, g, k, m, a, r, f
  <2>5. StopOK(t, p, g, catalog, k, m, a, r, f)
    BY <2>3, <2>4, StopOpen DEF Popped, StopPcs
  <2>6. New  BY Zenon, <2>4, <2>5 DEF p, g, k, m, a, r, f
  <2> QED  BY <1>1, <2>4, <2>6 DEF p
<1>5. CASE StopInspect(t)
  <2>1. /\ q.pc = "inspect" /\ p.what = s /\ p.hash \in {Unknown, live[s]}
        /\ p.pc = "move"
        /\ active' = active /\ sess' = sess /\ stored' = stored /\ proc' = proc
        /\ hurt' = hurt /\ catalog' = catalog /\ live' = live
    BY <1>0, <1>u, <1>5 DEF StopInspect, Request
  <2> DEFINE g == stored'[t]
             k == hurt'
             m == sess'[x].status
             a == active'
             r == proc'[x]
             f == live'[x]
  <2>3. /\ p.pc = "move" /\ p.what \in Sessions
        /\ m \in {"CAPTURING", "COMPLETED"} /\ p.what \notin a /\ f # NoFile
        /\ Sound(p.what, p.hash, f)
        /\ p.what \notin Surviving => r = None
        /\ g # NoFile => t \in k
    <3>1. live[s][3] \in Nat  BY <1>0, <1>u, <2>1, HashCount
    <3>2. Sound(s, p.hash, live[s])  BY <1>u, <1>s, <2>1, <3>1 DEF Sound
    <3> QED  BY <1>u, <2>1, <3>2
  <2>4. catalog' = catalog /\ t \notin IdsOf(catalog)  BY <1>u, <2>1
  <2> HIDE DEF p, g, k, m, a, r, f
  <2>5. StopOK(t, p, g, catalog, k, m, a, r, f)
    BY <2>3, <2>4, StopOpen DEF Popped, StopPcs
  <2>6. New  BY Zenon, <2>4, <2>5 DEF p, g, k, m, a, r, f
  <2> QED  BY <1>1, <2>4, <2>6 DEF p
<1>6. CASE StopMove(t)
  <2>1. /\ q.pc = "move" /\ p.what = s /\ p.hash = q.hash /\ p.pc = "commit"
        /\ stored'[t] = live[s] /\ proc'[s] = (IF proc[s] = s THEN t ELSE proc[s])
        /\ active' = active /\ sess' = sess
        /\ hurt' = hurt /\ catalog' = catalog
    BY <1>0, <1>u, <1>6 DEF StopMove, Goto, Request
  <2> DEFINE g == stored'[t]
             k == hurt'
             m == sess'[x].status
             a == active'
             r == proc'[x]
             f == live'[x]
  <2>3. /\ p.pc = "commit" /\ p.what \in Sessions
        /\ m \in {"CAPTURING", "COMPLETED"} /\ p.what \notin a
        /\ Sound(p.what, p.hash, g)
        /\ p.what \notin Surviving => r = None
    BY <1>u, <2>1, EvidenceConstants
  <2>4. catalog' = catalog /\ t \notin IdsOf(catalog)  BY <1>u, <2>1
  <2> HIDE DEF p, g, k, m, a, r, f
  <2>5. StopOK(t, p, g, catalog, k, m, a, r, f)
    BY <2>3, <2>4, StopOpen DEF Popped, StopPcs
  <2>6. New  BY Zenon, <2>4, <2>5 DEF p, g, k, m, a, r, f
  <2> QED  BY <1>1, <2>4, <2>6 DEF p
<1>7. CASE StopCommitFails(t)
  <2>1. /\ q.pc = "commit" /\ p.what = s /\ p.hash = q.hash /\ p.pc = "failed"
        /\ active' = active /\ sess' = sess /\ t \in hurt' /\ catalog' = catalog
    BY <1>0, <1>7 DEF StopCommitFails, Fails, Request
  <2> DEFINE g == stored'[t]
             k == hurt'
             m == sess'[x].status
             a == active'
             r == proc'[x]
             f == live'[x]
  <2>3. /\ p.pc = "failed" /\ p.what \in Sessions
        /\ m \in {"CAPTURING", "COMPLETED"} /\ t \in k
    BY <1>u, <2>1
  <2>4. catalog' = catalog /\ t \notin IdsOf(catalog)  BY <1>u, <2>1
  <2> HIDE DEF p, g, k, m, a, r, f
  <2>5. StopOK(t, p, g, catalog, k, m, a, r, f)
    BY <2>3, <2>4, StopOpen DEF Popped, StopPcs
  <2>6. New  BY Zenon, <2>4, <2>5 DEF p, g, k, m, a, r, f
  <2> QED  BY <1>1, <2>4, <2>6 DEF p
<1>8. CASE StopCommit(t)
  <2> DEFINE row == [id |-> t, hash |-> q.hash, source |-> "LIVE_CAPTURE"]
             g == stored'[t]
             k == hurt'
             m == sess'[x].status
             a == active'
             r == proc'[x]
             f == live'[x]
             dat == catalog'
  <2>1. /\ q.pc = "commit" /\ p.what = s /\ p.hash = q.hash /\ p.pc = "analyse"
        /\ sess' = [sess EXCEPT ![s] = [status |-> "COMPLETED", capture |-> t]]
        /\ active' = active /\ stored' = stored /\ catalog' = Append(catalog, row)
    BY <1>0, <1>8 DEF StopCommit, Goto, Request
  <2>2. /\ t \notin Ids /\ s \in Sessions /\ sess'[s].status = "COMPLETED"
    BY <1>0, <1>u, <2>1
  <2>3. row \in CaptureRow /\ row.id = t /\ row.hash = q.hash
    BY <1>0 DEF CaptureRow, Request
  <2> HIDE DEF row
  <2>4. CatalogInv'  BY <1>0, <2>1, <2>2, <2>3, AppendInv
  <2>5. /\ Extends(catalog, dat, t)
        /\ IdsOf(dat) = IdsOf(catalog) \cup {t}
        /\ \A y, h : Has(dat, y, h) <=> Has(catalog, y, h) \/ (y = t /\ h = q.hash)
    BY <1>0, <2>1, <2>3, AppendExtends
  <2>6. \A h : ~Has(catalog, t, h)  BY <1>0, <2>2 DEF Has, IdsOf
  <2>7. /\ p.pc = "analyse" /\ p.what \in Sessions /\ m = "COMPLETED"
        /\ p.what \notin a /\ Sound(p.what, p.hash, g)
        /\ \A h : Has(dat, t, h) => h = p.hash
        /\ t \in IdsOf(dat)
    BY <1>u, <2>1, <2>2, <2>5, <2>6
  <2> HIDE DEF p, g, k, m, a, r, f, dat
  <2>8. StopOK(t, p, g, dat, k, m, a, r, f)
    BY <2>7 DEF StopOK, Popped, StopPcs
  <2>9. New  BY Zenon, <2>8 DEF p, g, k, m, a, r, f, dat
  <2> QED  BY Zenon, <2>4, <2>5, <2>9 DEF dat, p
<1>9. CASE StopAnalyse(t)
  <2> DEFINE g == stored'[t]
             k == hurt'
             m == sess'[x].status
             a == active'
             r == proc'[x]
             f == live'[x]
  <2>1. /\ q.pc = "analyse" /\ p.what = s /\ p.pc = "done"
        /\ active' = active /\ sess' = sess /\ stored' = stored
        /\ hurt' = hurt /\ catalog' = catalog
    BY <1>0, <1>9 DEF StopAnalyse, Request
  <2>2. /\ s \in Sessions /\ sess[s].status \in {"CAPTURING", "COMPLETED"}
        /\ s \notin active
        /\ \A h \in Hash : Has(catalog, t, h) => Sound(s, h, stored[t])
        /\ stored[t] # NoFile => t \in IdsOf(catalog) \/ t \in hurt
    BY <1>0, <2>1 DEF StopOK, Popped
  <2>3. /\ p.pc = "done" /\ p.what \in Sessions /\ m \in {"CAPTURING", "COMPLETED"}
        /\ p.what \notin a
        /\ \A h \in Hash : Has(catalog, t, h) => Sound(p.what, h, g)
        /\ g # NoFile => t \in IdsOf(catalog) \/ t \in k
    BY <2>1, <2>2
  <2>4. catalog' = catalog  BY <2>1
  <2> HIDE DEF p, g, k, m, a, r, f
  <2>5. StopOK(t, p, g, catalog, k, m, a, r, f)
    BY <2>3 DEF StopOK, Popped, StopPcs
  <2>6. New  BY Zenon, <2>4, <2>5 DEF p, g, k, m, a, r, f
  <2> QED  BY <1>1, <2>4, <2>6 DEF p
<1>10. ASSUME NEW y \in Sessions, StopRead(t, y)
       PROVE  CatalogInv' /\ Extends(catalog, catalog', t)
  BY <1>1, <1>10 DEF StopRead
<1>11. ASSUME NEW y \in Sessions, StopRead(t, y)
       PROVE  New /\ CatalogInv' /\ Extends(catalog, catalog', t)
  BY Zenon, <1>2, <1>10, <1>11
<1> HIDE DEF p, q
<1> QED
  BY Zenon, <1>3, <1>4, <1>5, <1>6, <1>7, <1>8, <1>9, <1>11 DEF StopStep, p

-----------------------------------------------------------------------------
(* The steps preserve the invariant.                                       *)

\* What an upload's step leaves alone.
LEMMA UploadLeaves ==
  ASSUME TypeOK, NEW u \in Uploads, UploadStep(u)
  PROVE  /\ live' = live /\ sess' = sess /\ active' = active /\ proc' = proc
         /\ hurt \subseteq hurt'
         /\ \A r \in Requests \ {u} : req'[r] = req[r] /\ stored'[r] = stored[r]
         /\ \A w \in Uploads \ {u} : tmp'[w] = tmp[w]
<1>0. /\ u \in Requests /\ req \in [Requests -> Request]
      /\ stored \in [Requests -> Hash] /\ tmp \in [Uploads -> Hash]
  BY DEF TypeOK, Requests
<1>1. /\ live' = live /\ sess' = sess /\ active' = active /\ proc' = proc
      /\ hurt \subseteq hurt'
  BY DEF UploadStep, UploadBegin, UploadStream, UploadValidate, UploadLookup,
         UploadPromote, UploadCommit, UploadCommitFails
<1>2. ASSUME NEW r \in Requests \ {u}
      PROVE  req'[r] = req[r] /\ stored'[r] = stored[r]
  BY <1>0, <1>2 DEF UploadStep, UploadBegin, UploadStream, UploadValidate,
     UploadLookup, UploadPromote, UploadCommit, UploadCommitFails, Goto, Fails
<1>3. ASSUME NEW w \in Uploads \ {u}  PROVE tmp'[w] = tmp[w]
  BY <1>0, <1>3 DEF UploadStep, UploadBegin, UploadStream, UploadValidate,
     UploadLookup, UploadPromote, UploadCommit, UploadCommitFails
<1> QED  BY <1>1, <1>2, <1>3

\* Uploads stay in order when their files do and rows of another request r
\* are added at most.
LEMMA UploadsKept ==
  ASSUME UploadInv, NEW r, Extends(catalog, catalog', r), hurt \subseteq hurt',
         NEW w \in Uploads, w # r, req'[w] = req[w], stored'[w] = stored[w],
         tmp'[w] \in {tmp[w], NoFile}
  PROVE  UploadOK(w, req'[w], tmp'[w], stored'[w], catalog', hurt')
<1> DEFINE dat == catalog'
           k == hurt'
           e == tmp'[w]
<1>1. /\ UploadOK(w, req[w], tmp[w], stored[w], catalog, hurt)
      /\ Extends(catalog, dat, r) /\ hurt \subseteq k /\ e \in {tmp[w], NoFile}
  BY DEF UploadInv
<1> HIDE DEF dat, k, e
<1>2. UploadOK(w, req[w], e, stored[w], dat, k)  BY <1>1, UploadMono
<1> QED  BY Zenon, <1>2 DEF dat, k, e

\* A stop request stays in order when another request r works, and nothing
\* happens to its session if it is the one to stop it.
LEMMA StopKept ==
  ASSUME StopInv, NEW r, Extends(catalog, catalog', r), hurt \subseteq hurt',
         NEW t \in Stops, t # r, req'[t] = req[t], stored'[t] = stored[t],
         NEW s, s = req[t].what,
         req[t].pc # "idle" /\ sess[s].status \in {"CAPTURING", "COMPLETED"} =>
           sess'[s].status \in {"CAPTURING", "COMPLETED"},
         req[t].pc # "idle" /\ (Popped(req[t]) \/ t \in Ids) =>
           /\ s \in active' => s \in active
           /\ live'[s] = live[s] /\ proc'[s] = proc[s]
  PROVE  LET x == req'[t].what IN
           StopOK(t, req'[t], stored'[t], catalog', hurt',
                  sess'[x].status, active', proc'[x], live'[x])
<1> DEFINE q == req[t]
           g == stored[t]
           dat == catalog'
           k == hurt'
           m == sess'[s].status
           a == active'
           p == proc'[s]
           f == live'[s]
<1>1. /\ StopOK(t, q, g, catalog, hurt, sess[s].status, active, proc[s], live[s])
      /\ Extends(catalog, dat, r) /\ hurt \subseteq k /\ q.what = s
      /\ q.pc # "idle" /\ sess[s].status \in {"CAPTURING", "COMPLETED"} =>
           m \in {"CAPTURING", "COMPLETED"}
  BY DEF StopInv
<1>2. q.pc # "idle" /\ (Popped(q) \/ t \in IdsOf(catalog)) =>
        (q.what \in a => q.what \in active) /\ f = live[s] /\ p = proc[s]
  BY DEF Ids, IdsOf
<1> HIDE DEF q, g, dat, k, m, a, p, f
<1>3. StopOK(t, q, g, dat, k, m, a, p, f)  BY <1>1, <1>2, StopMono
<1>4. req'[t] = q /\ req'[t].what = s /\ stored'[t] = g  BY DEF q, g
<1> QED  BY Zenon, <1>3, <1>4 DEF dat, k, m, a, p, f

\* A session stays in order when nothing happens to it, to its captures and
\* to the requests to stop it.
LEMMA SessionKept ==
  ASSUME SessionInv, NEW s \in Sessions,
         live'[s] = live[s], sess'[s] = sess[s], proc'[s] = proc[s],
         s \in active' <=> s \in active,
         hurt \subseteq hurt', Ids \subseteq Ids',
         \A t \in Stops : req[t].pc # "idle" /\ req[t].what = s =>
           /\ req'[t] = req[t]
           /\ stored[t] # NoFile => stored'[t] # NoFile
  PROVE  SessionOK(s)'
<1>1. /\ live[s] # NoFile => live[s][2] = s
      /\ s \in active => proc[s] \in {s, None} /\ live[s] # NoFile
      /\ sess[s].status = "STARTING" => s \in active
      /\ proc[s] \notin {s, None} =>
           /\ s \in Surviving /\ proc[s] \in Stops
           /\ req[proc[s]].pc # "idle" /\ req[proc[s]].what = s
           /\ stored[proc[s]] # NoFile
      /\ /\ s \notin active \cup hurt
         /\ sess[s].status = "CAPTURING" \/ (proc[s] # None /\ s \notin Surviving)
         => \E t \in Stops : Stopping(req[t], s)
      /\ sess[s].status = "COMPLETED" =>
           /\ sess[s].capture \in Stops \cap Ids
           /\ req[sess[s].capture].pc # "idle" /\ req[sess[s].capture].what = s
  BY DEF SessionInv, SessionOK
<1>2. sess[s].status = "COMPLETED" =>
        req'[sess[s].capture].pc # "idle" /\ req'[sess[s].capture].what = s
  BY <1>1
<1>3. (\E t \in Stops : Stopping(req[t], s)) => \E t \in Stops : Stopping(req'[t], s)
  BY DEF Stopping
<1>4. proc'[s] \notin {s, None} =>
        /\ s \in Surviving /\ proc'[s] \in Stops
        /\ req'[proc'[s]].pc # "idle" /\ req'[proc'[s]].what = s
        /\ stored'[proc'[s]] # NoFile
  BY <1>1
<1> QED  BY <1>1, <1>2, <1>3, <1>4 DEF SessionOK

\* A row of another request tells nothing new of the captures that are there.
LEMMA OthersKept ==
  ASSUME NEW r, r \notin Ids, Extends(catalog, catalog', r)
  PROVE  /\ Ids \subseteq Ids'
         /\ \A x \in Ids' : x = r \/ x \in Ids
<1> DEFINE dat == catalog'
<1>1. Ids = IdsOf(catalog) /\ Ids' = IdsOf(dat)  BY DEF Ids, IdsOf
<1> HIDE DEF dat
<1>2. Extends(catalog, dat, r)  BY Zenon DEF dat
<1>3. /\ IdsOf(catalog) \subseteq IdsOf(dat)
      /\ \A x, h : x # r /\ Has(dat, x, h) => Has(catalog, x, h)
      /\ \A x : x # r /\ x \in IdsOf(dat) => x \in IdsOf(catalog)
  BY <1>2 DEF Extends
<1>4. \A x \in Ids, h \in Hash : Has(dat, x, h) => Has(catalog, x, h)
  BY <1>3
<1> QED  BY <1>1, <1>3, <1>4 DEF dat

LEMMA UploadInductive ==
  ASSUME IInv, NEW u \in Uploads, UploadStep(u)
  PROVE  IInv'
<1>0. /\ TypeOK /\ CatalogInv /\ UploadInv /\ StopInv /\ SessionInv
      /\ u \in Requests /\ \A t \in Stops : t # u /\ t \in Requests \ {u}
      /\ \A w \in Uploads : w # u => w \in Requests \ {u}
  BY EvidenceConstants DEF IInv, Requests
<1>1. TypeOK'  BY <1>0, UploadType
<1>2. /\ UploadOK(u, req'[u], tmp'[u], stored'[u], catalog', hurt')
      /\ CatalogInv' /\ Extends(catalog, catalog', u)
  BY UploadOwn
<1>3. /\ live' = live /\ sess' = sess /\ active' = active /\ proc' = proc
      /\ hurt \subseteq hurt'
      /\ \A r \in Requests \ {u} : req'[r] = req[r] /\ stored'[r] = stored[r]
      /\ \A w \in Uploads \ {u} : tmp'[w] = tmp[w]
  BY <1>0, UploadLeaves
<1>4. u \notin Ids
  <2>1. req[u].pc # "done"
    BY DEF UploadStep, UploadBegin, UploadStream, UploadValidate, UploadLookup,
           UploadPromote, UploadCommit, UploadCommitFails
  <2>2. UploadRow(u, req[u], stored[u], catalog, hurt)
    BY <1>0 DEF UploadInv, UploadOK
  <2>3. u \notin IdsOf(catalog)  BY <2>1, <2>2, UploadUnregistered
  <2> QED  BY <2>3 DEF Ids, IdsOf
<1>5. /\ Ids \subseteq Ids'
      /\ \A x \in Ids' : x = u \/ x \in Ids
  BY <1>2, <1>4, OthersKept
<1>6. UploadInv'
  <2> SUFFICES ASSUME NEW w \in Uploads
               PROVE  UploadOK(w, req'[w], tmp'[w], stored'[w], catalog', hurt')
    BY DEF UploadInv
  <2>1. CASE w = u  BY Zenon, <1>2, <2>1
  <2>2. CASE w # u
    <3>1. /\ req'[w] = req[w] /\ stored'[w] = stored[w] /\ tmp'[w] \in {tmp[w], NoFile}
      BY <1>0, <1>3, <2>2
    <3> QED  BY <1>0, <1>2, <1>3, <2>2, <3>1, UploadsKept
  <2> QED  BY <2>1, <2>2
<1>7. \A t \in Stops : req'[t] = req[t] /\ stored'[t] = stored[t]
  BY <1>0, <1>3
<1>8. StopInv'
  <2>1. ASSUME NEW t \in Stops
        PROVE  LET x == req'[t].what IN
                 StopOK(t, req'[t], stored'[t], catalog', hurt',
                        sess'[x].status, active', proc'[x], live'[x])
    BY <1>0, <1>2, <1>3, <1>7, StopKept
  <2>2. \A t, r \in Stops :
          /\ Popped(req'[t]) \/ t \in Ids'
          /\ Popped(req'[r]) \/ r \in Ids'
          /\ req'[t].what = req'[r].what
          => t = r
    <3>1. \A t \in Stops : (Popped(req'[t]) \/ t \in Ids') => (Popped(req[t]) \/ t \in Ids)
      BY <1>0, <1>5, <1>7 DEF Popped
    <3> QED  BY <1>0, <1>7, <3>1 DEF StopInv
  <2> QED  BY <2>1, <2>2 DEF StopInv
<1>9. SessionInv'
  <2>1. \A s \in Sessions : SessionOK(s)'
    BY <1>0, <1>3, <1>5, <1>7, SessionKept
  <2> QED  BY <2>1 DEF SessionInv
<1> QED  BY <1>1, <1>2, <1>6, <1>8, <1>9 DEF IInv

\* What a stop request's step leaves alone.
LEMMA StopLeaves ==
  ASSUME TypeOK, StopInv, NEW t \in Stops, StopStep(t)
  PROVE  /\ tmp' = tmp /\ hurt \subseteq hurt' /\ active' \subseteq active
         /\ \A r \in Requests \ {t} : req'[r] = req[r] /\ stored'[r] = stored[r]
         /\ \A y \in Sessions :
              /\ sess[y].status \in {"CAPTURING", "COMPLETED"} =>
                   sess'[y].status \in {"CAPTURING", "COMPLETED"}
              /\ ~Popped(req[t]) => live'[y] = live[y] /\ proc'[y] = proc[y]
              /\ y # req[t].what =>
                   /\ live'[y] = live[y] /\ proc'[y] = proc[y] /\ sess'[y] = sess[y]
                   /\ y \in active' <=> y \in active
<1> DEFINE s == req[t].what
<1>0. /\ t \in Requests /\ req \in [Requests -> Request]
      /\ stored \in [Requests -> Hash] /\ live \in [Sessions -> Hash]
      /\ proc \in [Sessions -> Sessions \cup Stops \cup {None}]
      /\ sess \in [Sessions -> [status : Statuses, capture : Requests \cup {None}]]
      /\ req[t].pc # "idle" => s \in Sessions
  BY DEF TypeOK, Requests, StopInv, StopOK
<1>1. tmp' = tmp /\ hurt \subseteq hurt' /\ active' \subseteq active
  BY DEF StopStep, StopRead, StopPop, StopKill, StopInspect, StopMove,
         StopCommit, StopCommitFails, StopAnalyse
<1>2. ASSUME NEW r \in Requests \ {t}
      PROVE  req'[r] = req[r] /\ stored'[r] = stored[r]
  BY <1>0, <1>2 DEF StopStep, StopRead, StopPop, StopKill, StopInspect, StopMove,
     StopCommit, StopCommitFails, StopAnalyse, Goto, Fails
<1>3. ASSUME NEW y \in Sessions
      PROVE  /\ sess[y].status \in {"CAPTURING", "COMPLETED"} =>
                  sess'[y].status \in {"CAPTURING", "COMPLETED"}
             /\ y # s => sess'[y] = sess[y]
  <2>1. CASE sess' = sess  BY <2>1
  <2>2. CASE StopCommit(t)
    <3>1. sess' = [sess EXCEPT ![s] = [status |-> "COMPLETED", capture |-> t]]
      BY <2>2 DEF StopCommit
    <3> QED  BY <1>0, <3>1
  <2> QED
    BY <2>1, <2>2 DEF StopStep, StopRead, StopPop, StopKill, StopInspect, StopMove,
       StopCommitFails, StopAnalyse
<1>4. ASSUME NEW y \in Sessions
      PROVE  /\ ~Popped(req[t]) => live'[y] = live[y] /\ proc'[y] = proc[y]
             /\ y # s => live'[y] = live[y] /\ proc'[y] = proc[y]
  BY <1>0 DEF StopStep, StopRead, StopPop, StopKill, StopInspect, StopMove,
     StopCommit, StopCommitFails, StopAnalyse, Popped
<1>5. ASSUME NEW y \in Sessions, y # s  PROVE y \in active' <=> y \in active
  BY <1>5 DEF StopStep, StopRead, StopPop, StopKill, StopInspect, StopMove,
     StopCommit, StopCommitFails, StopAnalyse
<1> QED  BY <1>1, <1>2, <1>3, <1>4, <1>5

\* What a stop request does to its own session keeps it in order.
LEMMA StopSession ==
  ASSUME IInv, NEW t \in Stops, StopStep(t), NEW s \in Sessions,
         req[t].what = s, req[t].pc # "idle", Ids \subseteq Ids'
  PROVE  SessionOK(s)'
<1> DEFINE q == req[t]
           p == req'[t]
<1>0. /\ t \in Requests /\ req \in [Requests -> Request] /\ q \in Request
      /\ stored \in [Requests -> Hash] /\ live \in [Sessions -> Hash]
      /\ proc \in [Sessions -> Sessions \cup Stops \cup {None}]
      /\ sess \in [Sessions -> [status : Statuses, capture : Requests \cup {None}]]
      /\ s \in Sessions /\ Stops \subseteq Requests
      /\ \A y \in Sessions : y # None
      /\ t # None
      /\ StopOK(t, q, stored[t], catalog, hurt,
                sess[s].status, active, proc[s], live[s])
  BY EvidenceConstants DEF IInv, TypeOK, Requests, StopInv
<1>1. /\ live[s] # NoFile => live[s][2] = s
      /\ s \in active => proc[s] \in {s, None} /\ live[s] # NoFile
      /\ sess[s].status = "STARTING" => s \in active
      /\ proc[s] \notin {s, None} =>
           /\ s \in Surviving /\ proc[s] \in Stops
           /\ req[proc[s]].pc # "idle" /\ req[proc[s]].what = s
           /\ stored[proc[s]] # NoFile
      /\ /\ s \notin active \cup hurt
         /\ sess[s].status = "CAPTURING" \/ (proc[s] # None /\ s \notin Surviving)
         => \E w \in Stops : Stopping(req[w], s)
      /\ sess[s].status = "COMPLETED" =>
           /\ sess[s].capture \in Stops \cap Ids
           /\ req[sess[s].capture].pc # "idle" /\ req[sess[s].capture].what = s
  BY <1>0 DEF IInv, SessionInv, SessionOK
<1>2. /\ sess[s].status \in {"CAPTURING", "COMPLETED"}
      /\ q.pc \in {"kill", "inspect", "move", "commit", "analyse"} => s \notin active
      /\ q.pc \in {"kill", "inspect", "move"} => live[s] # NoFile
      /\ q.pc \in {"inspect", "move", "commit"} /\ s \notin Surviving => proc[s] = None
      /\ q.pc = "commit" => t \notin IdsOf(catalog)
  BY <1>0 DEF StopOK, Popped
<1>3. \A w \in Stops : w # t => req'[w] = req[w] /\ stored'[w] = stored[w]
  BY <1>0, StopLeaves DEF IInv
<1>4. /\ p.what = s /\ p.pc # "idle"
      /\ stored[t] # NoFile => stored'[t] # NoFile
  <2>1. ASSUME NEW pc \in {"kill", "inspect", "commit", "analyse", "failed"},
               req' = [req EXCEPT ![t].pc = pc]
        PROVE  p.what = s /\ p.pc # "idle"
    <3>1. p = [q EXCEPT !.pc = pc]  BY <1>0, <2>1
    <3> QED  BY <1>0, <3>1 DEF Request
  <2>2. CASE StopInspect(t) \/ StopAnalyse(t)
    BY <1>0, <2>2 DEF StopInspect, StopAnalyse, Request
  <2>4. p.what = s /\ p.pc # "idle"
    BY <2>1, <2>2 DEF StopStep, StopRead, StopPop, StopKill,
       StopMove, StopCommit, StopCommitFails, Goto, Fails
  <2>3. stored[t] # NoFile => stored'[t] # NoFile
    BY <1>0, <1>2 DEF StopStep, StopRead, StopPop, StopKill, StopInspect,
       StopMove, StopCommit, StopCommitFails, StopAnalyse
  <2> QED  BY <2>3, <2>4
<1>5. proc[s] \notin {s, None} =>
        /\ s \in Surviving /\ proc[s] \in Stops
        /\ req'[proc[s]].pc # "idle" /\ req'[proc[s]].what = s
        /\ stored'[proc[s]] # NoFile
  <2>1. CASE proc[s] = t  BY <1>1, <1>4, <2>1
  <2>2. CASE proc[s] # t  BY <1>1, <1>3, <2>2
  <2> QED  BY <2>1, <2>2
\* A request that was to complete s still is, unless it is t.
<1>6. \/ q.pc \in {"kill", "inspect", "move", "commit"}
      \/ (\E w \in Stops : Stopping(req[w], s)) => \E w \in Stops : Stopping(req'[w], s)
  BY <1>3 DEF Stopping
<1>7. sess[s].status = "COMPLETED" =>
        req'[sess[s].capture].pc # "idle" /\ req'[sess[s].capture].what = s
  <2>1. CASE sess[s].capture = t  BY <1>4, <2>1
  <2>2. CASE sess[s].capture # t  BY <1>1, <1>3, <2>2
  <2> QED  BY <2>1, <2>2
\* Enough for the steps that do not complete s.
<1>c. ASSUME s \notin active', sess'[s] = sess[s], live'[s] \in {live[s], NoFile},
             proc'[s] \notin {None, proc[s]} => s \in Surviving /\ proc'[s] = t
                                               /\ stored'[t] # NoFile,
             \/ s \in hurt'
             \/ proc'[s] = proc[s] /\ s \notin active /\ hurt' = hurt
                  /\ q.pc \notin {"kill", "inspect", "move", "commit"}
             \/ \E w \in Stops : Stopping(req'[w], s)
      PROVE  SessionOK(s)'
  <2>1. proc'[s] \notin {s, None} =>
          /\ s \in Surviving /\ proc'[s] \in Stops
          /\ req'[proc'[s]].pc # "idle" /\ req'[proc'[s]].what = s
          /\ stored'[proc'[s]] # NoFile
    <3>1. CASE proc'[s] = t /\ s \in Surviving /\ stored'[t] # NoFile
      BY <1>4, <3>1
    <3>2. CASE proc'[s] = proc[s]  BY <1>5, <3>2
    <3>3. CASE proc'[s] = None  BY <3>3
    <3> QED  BY <1>c, <3>1, <3>2, <3>3
  <2>2. /\ s \notin active' \cup hurt'
        /\ sess'[s].status = "CAPTURING" \/ (proc'[s] # None /\ s \notin Surviving)
        => \E w \in Stops : Stopping(req'[w], s)
    <3>1. CASE /\ proc'[s] = proc[s] /\ s \notin active /\ hurt' = hurt
               /\ q.pc \notin {"kill", "inspect", "move", "commit"}
      BY <1>1, <1>6, <1>c, <3>1
    <3> QED  BY <1>c, <3>1
  <2>3. sess'[s].status = "COMPLETED" =>
          /\ sess'[s].capture \in Stops \cap Ids'
          /\ req'[sess'[s].capture].pc # "idle" /\ req'[sess'[s].capture].what = s
    BY <1>1, <1>7, <1>c
  <2>5. live'[s] # NoFile => live'[s][2] = s  BY <1>1, <1>c
  <2>6. sess'[s].status # "STARTING"  BY <1>2, <1>c
  <2> QED  BY <1>c, <2>1, <2>2, <2>3, <2>5, <2>6 DEF SessionOK
<1>8. CASE StopPop(t)
  <2>1. /\ q.pc = "agent" /\ active' = active \ {s}
        /\ s \in active => p.pc = "kill"
        /\ live' = live /\ proc' = proc /\ sess' = sess /\ hurt' = hurt
    BY <1>0, <1>8 DEF StopPop, Goto, Fails, Request
  <2>2. s \in active => \E w \in Stops : Stopping(req'[w], s)
    BY <1>4, <2>1 DEF Stopping
  <2> QED  BY <1>c, <2>1, <2>2
<1>9. CASE StopKill(t)
  <2>1. /\ q.pc = "kill" /\ p.pc = "inspect" /\ active' = active
        /\ proc'[s] \in {proc[s], None}
        /\ live' = live /\ sess' = sess
    BY <1>0, <1>9 DEF StopKill, Goto, Request
  <2>2. Stopping(req'[t], s)  BY <1>4, <2>1 DEF Stopping
  <2> QED  BY <1>2, <1>c, <2>1, <2>2
<1>10. CASE StopInspect(t)
  <2>1. /\ q.pc = "inspect" /\ p.pc = "move" /\ active' = active
        /\ live' = live /\ sess' = sess /\ proc' = proc
    BY <1>0, <1>10 DEF StopInspect, Request
  <2>2. Stopping(req'[t], s)  BY <1>4, <2>1 DEF Stopping
  <2> QED  BY <1>2, <1>c, <2>1, <2>2
<1>11. CASE StopMove(t)
  <2>1. /\ q.pc = "move" /\ p.pc = "commit" /\ active' = active
        /\ live'[s] = NoFile /\ sess' = sess /\ stored'[t] = live[s]
        /\ proc'[s] = (IF proc[s] = s THEN t ELSE proc[s])
    BY <1>0, <1>11 DEF StopMove, Goto, Request
  <2>2. Stopping(req'[t], s)  BY <1>4, <2>1 DEF Stopping
  <2>3. proc'[s] \notin {None, proc[s]} =>
          s \in Surviving /\ proc'[s] = t /\ stored'[t] # NoFile
    BY <1>0, <1>2, <2>1
  <2> QED  BY <1>2, <1>c, <2>1, <2>2, <2>3
<1>12. CASE StopCommitFails(t)
  <2>1. /\ q.pc = "commit" /\ s \in hurt' /\ active' = active
        /\ live' = live /\ sess' = sess /\ proc' = proc
    BY <1>0, <1>12 DEF StopCommitFails
  <2> QED  BY <1>2, <1>c, <2>1
<1>13. CASE StopAnalyse(t)
  <2>1. /\ q.pc = "analyse" /\ active' = active /\ hurt' = hurt
        /\ live' = live /\ sess' = sess /\ proc' = proc
    BY <1>0, <1>13 DEF StopAnalyse
  <2> QED  BY <1>2, <1>c, <2>1
<1>14. CASE StopCommit(t)
  <2> DEFINE row == [id |-> t, hash |-> q.hash, source |-> "LIVE_CAPTURE"]
  <2>1. /\ q.pc = "commit" /\ active' = active
        /\ live' = live /\ proc' = proc /\ catalog' = Append(catalog, row)
        /\ sess' = [sess EXCEPT ![s] = [status |-> "COMPLETED", capture |-> t]]
    BY <1>0, <1>14 DEF StopCommit
  <2>2. sess'[s].status = "COMPLETED" /\ sess'[s].capture = t
    BY <1>0, <2>1
  <2>3. row \in CaptureRow /\ row.id = t /\ row.hash = q.hash
    BY <1>0 DEF CaptureRow, Request
  <2>4. catalog \in Seq(CaptureRow)  BY DEF IInv, CatalogInv
  <2> HIDE DEF row
  <2>5. IdsOf(catalog') = IdsOf(catalog) \cup {t}
    BY <2>1, <2>3, <2>4, AppendExtends
  <2>6. t \in Ids'  BY <2>5 DEF Ids, IdsOf
  <2>7. s \notin Surviving => proc'[s] = None  BY <1>2, <2>1
  <2>8. proc'[s] \notin {s, None} =>
          /\ s \in Surviving /\ proc'[s] \in Stops
          /\ req'[proc'[s]].pc # "idle" /\ req'[proc'[s]].what = s
          /\ stored'[proc'[s]] # NoFile
    BY <1>5, <2>1
  <2>9. /\ live'[s] # NoFile => live'[s][2] = s
        /\ s \notin active'
    BY <1>1, <1>2, <2>1
  <2>10. /\ sess'[s].capture \in Stops \cap Ids'
         /\ req'[sess'[s].capture].pc # "idle" /\ req'[sess'[s].capture].what = s
    BY <1>4, <2>2, <2>6
  <2> QED  BY <2>2, <2>7, <2>8, <2>9, <2>10 DEF SessionOK
<1> QED
  BY <1>8, <1>9, <1>10, <1>11, <1>12, <1>13, <1>14 DEF StopStep, StopRead

LEMMA StopInductive ==
  ASSUME IInv, NEW t \in Stops, StopStep(t)
  PROVE  IInv'
<1> DEFINE s == req[t].what
<1>0. /\ TypeOK /\ CatalogInv /\ UploadInv /\ StopInv /\ SessionInv
      /\ t \in Requests /\ \A u \in Uploads : u # t /\ u \in Requests \ {t}
      /\ \A r \in Stops : r # t => r \in Requests \ {t}
      /\ StopOK(t, req[t], stored[t], catalog, hurt,
                sess[s].status, active, proc[s], live[s])
  BY EvidenceConstants DEF IInv, Requests, StopInv
<1>1. TypeOK'  BY <1>0, StopType
<1>2. /\ LET x == req'[t].what IN
           StopOK(t, req'[t], stored'[t], catalog', hurt',
                  sess'[x].status, active', proc'[x], live'[x])
      /\ CatalogInv' /\ Extends(catalog, catalog', t)
  BY StopOwn
<1>3. /\ tmp' = tmp /\ hurt \subseteq hurt' /\ active' \subseteq active
      /\ \A r \in Requests \ {t} : req'[r] = req[r] /\ stored'[r] = stored[r]
      /\ \A y \in Sessions :
           /\ sess[y].status \in {"CAPTURING", "COMPLETED"} =>
                sess'[y].status \in {"CAPTURING", "COMPLETED"}
           /\ ~Popped(req[t]) => live'[y] = live[y] /\ proc'[y] = proc[y]
           /\ y # s =>
                /\ live'[y] = live[y] /\ proc'[y] = proc[y] /\ sess'[y] = sess[y]
                /\ y \in active' <=> y \in active
  BY <1>0, StopLeaves
<1>4. /\ Ids \subseteq Ids'
      /\ \A x \in Ids' : x = t \/ x \in Ids
  <2>1. CASE t \notin Ids  BY <1>2, <2>1, OthersKept
  <2>2. CASE t \in Ids
    <3>1. req[t].pc \notin {"idle", "agent", "kill", "inspect", "move", "commit"}
      BY <1>0, <2>2 DEF StopOK, Ids, IdsOf
    <3>2. catalog' = catalog
      BY <3>1 DEF StopStep, StopRead, StopPop, StopKill, StopInspect, StopMove,
         StopCommit, StopCommitFails, StopAnalyse
    <3> QED  BY <3>2 DEF Ids
  <2> QED  BY <2>1, <2>2
<1>5. UploadInv'
  <2>1. \A u \in Uploads : UploadOK(u, req'[u], tmp'[u], stored'[u], catalog', hurt')
    BY <1>0, <1>2, <1>3, UploadsKept
  <2> QED  BY <2>1 DEF UploadInv
<1>6. \A r \in Stops : r # t /\ (Popped(req'[r]) \/ r \in Ids') =>
        Popped(req[r]) \/ r \in Ids
  BY <1>0, <1>3, <1>4 DEF Popped
\* What t owns it owned before, or has just taken out of the agent's memory.
<1>7. Popped(req'[t]) \/ t \in Ids' =>
        /\ req'[t].what = s
        /\ Popped(req[t]) \/ t \in Ids \/ s \in active
  <2>0. req \in [Requests -> Request] /\ req[t] \in Request
    BY <1>0 DEF TypeOK
  <2>1. CASE StopPop(t)
    <3>1. req'[t].what = s /\ (s \in active \/ req'[t].pc = "failed")
      BY <1>0, <2>0, <2>1 DEF StopPop, Goto, Fails, Request
    <3>2. t \notin Ids'
      BY <1>0, <2>1 DEF StopPop, StopOK, Ids, IdsOf
    <3> QED  BY <3>1, <3>2 DEF Popped
  <2>2. ASSUME NEW y \in Sessions, StopRead(t, y)
        PROVE  ~Popped(req'[t]) /\ t \notin Ids'
    <3>1. req'[t].pc = "agent"  BY <1>0, <2>0, <2>2 DEF StopRead, Idle
    <3>2. t \notin Ids'
      BY <1>0, <2>2 DEF StopRead, StopOK, Ids, IdsOf
    <3> QED  BY <3>1, <3>2 DEF Popped
  <2>3. CASE req[t].pc \notin {"idle", "agent"}
    <3>1. Popped(req[t]) \/ StopPop(t)
      BY <2>3 DEF Popped, StopStep, StopRead, StopKill, StopInspect, StopMove,
         StopCommit, StopCommitFails, StopAnalyse
    <3>2. CASE StopKill(t) \/ StopMove(t) \/ StopCommit(t) \/ StopCommitFails(t)
      <4>1. ASSUME NEW pc, req' = [req EXCEPT ![t].pc = pc]
            PROVE  req'[t].what = s
        <5>1. req'[t] = [req[t] EXCEPT !.pc = pc]  BY <1>0, <2>0, <4>1
        <5> QED  BY <2>0, <5>1 DEF Request
      <4> QED
        BY <3>1, <3>2, <4>1 DEF StopPop, StopKill, StopMove, StopCommit,
           StopCommitFails, Goto, Fails
    <3>3. CASE StopInspect(t) \/ StopAnalyse(t)
      BY <1>0, <2>0, <3>1, <3>3 DEF StopInspect, StopAnalyse, StopPop, Request
    <3> QED  BY <2>1, <2>3, <3>2, <3>3 DEF StopStep, StopRead
  <2>4. CASE req[t].pc \in {"idle", "agent"}
    BY <2>1, <2>2, <2>4 DEF StopStep, StopKill, StopInspect, StopMove,
       StopCommit, StopCommitFails, StopAnalyse
  <2> QED  BY <2>3, <2>4
\* Nobody else owns the session of t.
<1>8. ASSUME NEW r \in Stops, r # t, Popped(req[r]) \/ r \in Ids, req[r].what = s
      PROVE  ~(Popped(req[t]) \/ t \in Ids \/ s \in active)
  <2>1. StopOK(r, req[r], stored[r], catalog, hurt,
               sess[s].status, active, proc[s], live[s])
    BY <1>0, <1>8 DEF StopInv
  <2>2. s \notin active  BY <1>8, <2>1 DEF StopOK, Ids, IdsOf
  <2> QED  BY <1>0, <1>8, <2>2 DEF StopInv
<1>9. StopInv'
  <2>1. ASSUME NEW r \in Stops
        PROVE  LET x == req'[r].what IN
                 StopOK(r, req'[r], stored'[r], catalog', hurt',
                        sess'[x].status, active', proc'[x], live'[x])
    <3>1. CASE r = t  BY Zenon, <1>2, <3>1
    <3>2. CASE r # t
      <4> DEFINE x == req[r].what
      <4>1. req[r].pc # "idle" =>
              x \in Sessions /\ sess[x].status \in {"CAPTURING", "COMPLETED"}
        BY <1>0 DEF StopInv, StopOK
      <4>2. req[r].pc # "idle" /\ (Popped(req[r]) \/ r \in Ids) =>
              /\ x \in active' => x \in active
              /\ live'[x] = live[x] /\ proc'[x] = proc[x]
        BY <1>3, <1>8, <3>2, <4>1
      <4>3. req'[r] = req[r] /\ stored'[r] = stored[r]  BY <1>0, <1>3, <3>2
      <4>4. req[r].pc # "idle" => sess'[x].status \in {"CAPTURING", "COMPLETED"}
        BY <1>3, <4>1
      <4> QED  BY <1>0, <1>2, <1>3, <3>2, <4>2, <4>3, <4>4, StopKept
    <3> QED  BY <3>1, <3>2
  <2>2. \A r, w \in Stops :
          /\ Popped(req'[r]) \/ r \in Ids'
          /\ Popped(req'[w]) \/ w \in Ids'
          /\ req'[r].what = req'[w].what
          => r = w
    <3>1. \A r \in Stops : r # t => req'[r] = req[r]  BY <1>0, <1>3
    <3>2. ASSUME NEW r \in Stops, NEW w \in Stops, r # t, w # t,
                 Popped(req'[r]) \/ r \in Ids', Popped(req'[w]) \/ w \in Ids',
                 req'[r].what = req'[w].what
          PROVE  r = w
      BY <1>0, <1>6, <3>1, <3>2 DEF StopInv
    <3>3. ASSUME NEW r \in Stops, r # t, Popped(req'[r]) \/ r \in Ids',
                 Popped(req'[t]) \/ t \in Ids', req'[r].what = req'[t].what
          PROVE  FALSE
      BY <1>6, <1>7, <1>8, <3>1, <3>3
    <3> QED  BY <3>2, <3>3
  <2> QED  BY <2>1, <2>2 DEF StopInv
<1>10. SessionInv'
  <2> SUFFICES ASSUME NEW y \in Sessions  PROVE SessionOK(y)'
    BY DEF SessionInv
  <2>1. \A r \in Stops : r # t => req'[r] = req[r] /\ stored'[r] = stored[r]
    BY <1>0, <1>3
  <2>2. CASE y # s
    BY <1>0, <1>3, <1>4, <2>1, <2>2, SessionKept
  <2>3. CASE y = s /\ req[t].pc # "idle"
    BY <1>4, <2>3, StopSession
  <2>4. CASE req[t].pc = "idle"
    <3>1. live' = live /\ sess' = sess /\ proc' = proc /\ active' = active
      BY <2>4 DEF StopStep, StopRead, StopPop, StopKill, StopInspect, StopMove,
         StopCommit, StopCommitFails, StopAnalyse
    <3> QED  BY <1>0, <1>3, <1>4, <2>1, <2>4, <3>1, SessionKept
  <2> QED  BY <2>2, <2>3, <2>4
<1> QED  BY <1>1, <1>2, <1>5, <1>9, <1>10 DEF IInv

\* Catalogue, uploads and stop requests as they were.
LEMMA NothingAdded ==
  ASSUME catalog' = catalog, CatalogInv
  PROVE  /\ CatalogInv' /\ Ids' = Ids /\ Extends(catalog, catalog', None)
<1>1. Extends(catalog, catalog, None)  BY SameExtends
<1> QED  BY <1>1 DEF CatalogInv, Ids

LEMMA NamesDiffer ==
  /\ \A r \in Requests : r # None
  /\ \A s \in Sessions : s # None
  /\ Uploads \subseteq Requests /\ Stops \subseteq Requests
  /\ \A u \in Uploads, t \in Stops : u # t
BY EvidenceConstants DEF Requests

\* A live capture starts, or its row is committed or not.
LEMMA StartInductive ==
  ASSUME IInv, NEW s \in Sessions,
         LiveStart(s) \/ LiveStartCommit(s) \/ LiveStartCommitFails(s)
  PROVE  IInv'
<1>0. /\ TypeOK /\ CatalogInv /\ UploadInv /\ StopInv /\ SessionInv
      /\ proc \in [Sessions -> Sessions \cup Stops \cup {None}]
      /\ sess \in [Sessions -> [status : Statuses, capture : Requests \cup {None}]]
      /\ live \in [Sessions -> Hash]
  BY DEF IInv, TypeOK
<1>1. TypeOK'
  BY <1>0, OtherType DEF SessionStep
<1>2. /\ tmp' = tmp /\ stored' = stored /\ catalog' = catalog /\ req' = req
      /\ hurt \subseteq hurt'
      /\ sess[s].status \in {"NONE", "STARTING"}
      /\ \A y \in Sessions : y # s =>
           /\ live'[y] = live[y] /\ sess'[y] = sess[y] /\ proc'[y] = proc[y]
           /\ y \in active' <=> y \in active
  BY <1>0 DEF LiveStart, LiveStartCommit, LiveStartCommitFails
<1>3. /\ CatalogInv' /\ Ids' = Ids /\ Extends(catalog, catalog', None)
  BY <1>0, <1>2, NothingAdded
<1>4. UploadInv'
  <2>1. \A u \in Uploads : UploadOK(u, req'[u], tmp'[u], stored'[u], catalog', hurt')
    BY <1>0, <1>2, <1>3, NamesDiffer, UploadsKept
  <2> QED  BY <2>1 DEF UploadInv
<1>5. StopInv'
  <2>1. ASSUME NEW r \in Stops
        PROVE  LET x == req'[r].what IN
                 StopOK(r, req'[r], stored'[r], catalog', hurt',
                        sess'[x].status, active', proc'[x], live'[x])
    <3> DEFINE x == req[r].what
    <3>1. req[r].pc # "idle" =>
            x \in Sessions /\ sess[x].status \in {"CAPTURING", "COMPLETED"}
      BY <1>0 DEF StopInv, StopOK
    <3>2. req[r].pc # "idle" =>
            /\ live'[x] = live[x] /\ sess'[x] = sess[x] /\ proc'[x] = proc[x]
            /\ x \in active' <=> x \in active
      BY <1>2, <3>1
    <3>3. req'[r] = req[r] /\ stored'[r] = stored[r] /\ r # None
      BY <1>2, NamesDiffer
    <3>4. req[r].pc # "idle" => sess'[x].status \in {"CAPTURING", "COMPLETED"}
      BY <3>1, <3>2
    <3>5. req[r].pc # "idle" /\ (Popped(req[r]) \/ r \in Ids) =>
            /\ x \in active' => x \in active
            /\ live'[x] = live[x] /\ proc'[x] = proc[x]
      BY <3>2
    <3> QED  BY <1>0, <1>2, <1>3, <3>3, <3>4, <3>5, StopKept
  <2> QED  BY <1>0, <1>2, <1>3, <2>1 DEF StopInv
<1>6. ASSUME NEW y \in Sessions, y # s  PROVE SessionOK(y)'
  <2>1. \A t \in Stops : req'[t] = req[t] /\ stored'[t] = stored[t]  BY <1>2
  <2> QED  BY <1>0, <1>2, <1>3, <1>6, <2>1, SessionKept
<1>7. SessionOK(s)'
  <2>1. /\ live[s] # NoFile => live[s][2] = s
        /\ s \in active => proc[s] \in {s, None} /\ live[s] # NoFile
        /\ sess[s].status = "STARTING" => s \in active
    BY <1>0 DEF SessionInv, SessionOK
  <2>2. CASE LiveStart(s)
    <3>1. /\ live'[s] = Live(s, 0) /\ sess'[s].status = "STARTING"
          /\ proc'[s] = s /\ s \in active'
      BY <1>0, <2>2 DEF LiveStart
    <3> QED  BY <3>1, HashKinds DEF SessionOK
  <2>3. CASE LiveStartCommit(s)
    <3>1. /\ live'[s] = live[s] /\ sess'[s].status = "CAPTURING"
          /\ proc'[s] = proc[s] /\ s \in active' /\ s \in active
      BY <1>0, <2>1, <2>3 DEF LiveStartCommit
    <3> QED  BY <2>1, <3>1 DEF SessionOK
  <2>4. CASE LiveStartCommitFails(s)
    <3>1. /\ live'[s] = live[s] /\ sess'[s].status = "NONE"
          /\ proc'[s] = proc[s] /\ s \in active' /\ s \in active /\ s \in hurt'
      BY <1>0, <2>1, <2>4 DEF LiveStartCommitFails
    <3> QED  BY <2>1, <3>1 DEF SessionOK
  <2> QED  BY <2>2, <2>3, <2>4
<1>8. SessionInv'
  <2> SUFFICES ASSUME NEW y \in Sessions  PROVE SessionOK(y)'
    BY DEF SessionInv
  <2> QED  BY Zenon, <1>6, <1>7
<1> QED  BY <1>1, <1>3, <1>4, <1>5, <1>8 DEF IInv

\* A packet more in the file of a surviving session.
LEMMA Grown ==
  ASSUME NEW s \in Surviving, NEW h \in Hash, NEW f \in Hash, Sound(s, h, f)
  PROVE  Sound(s, h, Live(s, f[3] + 1))
<1>1. f[3] \in Nat /\ h[3] \in Nat  BY HashCount
<1>2. Live(s, f[3] + 1) # NoFile  BY HashKinds
<1>3. /\ Live(s, f[3] + 1)[2] = s /\ Live(s, f[3] + 1)[3] = f[3] + 1
  BY DEF Live
<1> QED  BY <1>1, <1>2, <1>3 DEF Sound

\* A packet changes the file that a live tcpdump has open, and no file that
\* has been hashed unless its session is a surviving one.
LEMMA PacketInductive ==
  ASSUME IInv, NEW s \in Sessions, Packet(s)
  PROVE  IInv'
<1>0. /\ TypeOK /\ CatalogInv /\ UploadInv /\ StopInv /\ SessionInv
      /\ proc \in [Sessions -> Sessions \cup Stops \cup {None}]
      /\ live \in [Sessions -> Hash] /\ stored \in [Requests -> Hash]
  BY DEF IInv, TypeOK
<1>1. TypeOK'
  BY <1>0, OtherType DEF SessionStep
<1>2. /\ tmp' = tmp /\ catalog' = catalog /\ req' = req /\ sess' = sess
      /\ active' = active /\ proc' = proc /\ hurt' = hurt /\ proc[s] # None
  BY DEF Packet
<1>3. /\ CatalogInv' /\ Ids' = Ids /\ Extends(catalog, catalog', None)
  BY <1>0, <1>2, NothingAdded
<1> DEFINE p == proc[s]
           more(f) == IF f[3] < MaxPackets THEN Live(s, f[3] + 1) ELSE f
<1>4. \/ /\ p = s /\ live[s] # NoFile /\ live[s][3] < MaxPackets
         /\ live' = [live EXCEPT ![s] = more(@)] /\ stored' = stored
      \/ /\ p # s /\ stored[p][3] < MaxPackets
         /\ stored' = [stored EXCEPT ![p] = more(@)] /\ live' = live
  BY DEF Packet
<1>5. \A f : f # NoFile => more(f) # NoFile  BY HashKinds
<1>6. p # s => /\ s \in Surviving /\ p \in Stops /\ req[p].what = s
               /\ stored[p] # NoFile
  BY <1>0, <1>2 DEF SessionInv, SessionOK
<1>7. p = s => live'[s] # NoFile /\ live'[s][2] = s
  BY <1>0, <1>4, HashKinds
<1>14. \A r \in Requests :
         stored'[r] \in {stored[r], Live(s, stored[r][3] + 1)}
  BY <1>0, <1>4
<1>15. live'[s] \in {live[s], Live(s, live[s][3] + 1)}
  BY <1>0, <1>4
<1> HIDE DEF more, p
<1>8. /\ \A y \in Sessions : y # s => live'[y] = live[y]
      /\ \A r \in Requests : r # p \/ p = s => stored'[r] = stored[r]
      /\ \A r \in Requests : stored[r] # NoFile => stored'[r] # NoFile
  BY <1>0, <1>4, <1>5
<1>9. UploadInv'
  <2>1. \A u \in Uploads : stored'[u] = stored[u] /\ u # None
    BY <1>6, <1>8, NamesDiffer
  <2>2. \A u \in Uploads : UploadOK(u, req'[u], tmp'[u], stored'[u], catalog', hurt')
    BY <1>0, <1>2, <1>3, <2>1, UploadsKept
  <2> QED  BY <2>2 DEF UploadInv
<1>10. StopInv'
  <2>1. ASSUME NEW r \in Stops
        PROVE  LET x == req'[r].what IN
                 StopOK(r, req'[r], stored'[r], catalog', hurt',
                        sess'[x].status, active', proc'[x], live'[x])
    <3> DEFINE x == req[r].what
    <3>1. r \in Requests /\ r # None  BY NamesDiffer
    <3>2. StopOK(r, req[r], stored[r], catalog, hurt,
                 sess[x].status, active, proc[x], live[x])
      BY <1>0 DEF StopInv
    <3>3. CASE x # s \/ req[r].pc = "idle"
      <4>1. req[r].pc # "idle" => x \in Sessions  BY <3>2 DEF StopOK
      <4>2. req[r].pc # "idle" => live'[x] = live[x]
        BY <1>8, <3>3, <4>1
      <4>3. CASE stored'[r] = stored[r]
        BY <1>0, <1>2, <1>3, <3>1, <4>2, <4>3, StopKept
      <4>4. CASE stored'[r] # stored[r]
        <5>1. r = p /\ p # s  BY <1>8, <3>1, <4>4
        <5>2. req[r].pc = "idle" /\ stored[r] # NoFile  BY <1>6, <3>3, <5>1
        <5>3. r \notin IdsOf(catalog) /\ (stored[r] # NoFile => r \in hurt)
          BY <3>2, <5>2, StopUnregistered
        <5> DEFINE q == req[r]
                   g == stored'[r]
                   m == sess[x].status
                   pp == proc[x]
                   f == live'[x]
        <5>4. r \in hurt /\ q.pc = "idle"  BY <5>2, <5>3
        <5> HIDE DEF q, g, m, pp, f
        <5>5. StopOK(r, q, g, catalog, hurt, m, active, pp, f)
          BY <5>3, <5>4, StopOpen DEF Popped, StopPcs
        <5>6. /\ req' = req /\ sess' = sess /\ proc' = proc /\ active' = active
              /\ catalog' = catalog /\ hurt' = hurt
          BY <1>2
        <5> QED  BY Zenon, <5>5, <5>6 DEF q, g, m, pp, f
      <4> QED  BY <4>3, <4>4
    <3>4. CASE x = s /\ req[r].pc # "idle"
      <4> DEFINE q == req[r]
                 g == stored'[r]
                 m == sess[s].status
                 pp == proc[s]
                 f == live'[s]
      <4>1. StopOK(r, q, stored[r], catalog, hurt, m, active, pp, live[s])
        BY <3>2, <3>4
      <4>2. /\ q.what = s /\ pp # None
            /\ live[s] # NoFile => f # NoFile
            /\ \A h \in Hash : Sound(s, h, stored[r]) => Sound(s, h, g)
            /\ s \in Surviving =>
                 \A h \in Hash : Sound(s, h, live[s]) => Sound(s, h, f)
            /\ g # NoFile => stored[r] # NoFile
            /\ q.hash \in Hash
        <5>1. live[s] # NoFile => f # NoFile  BY <1>4, <1>7
        <5>2. g # stored[r] => s \in Surviving /\ stored[r] # NoFile
          BY <1>6, <1>8, <3>1
        <5>3. \A h \in Hash : Sound(s, h, stored[r]) => Sound(s, h, g)
          BY <1>0, <1>14, <3>1, <5>2, Grown
        <5>4. s \in Surviving => \A h \in Hash : Sound(s, h, live[s]) => Sound(s, h, f)
          BY <1>0, <1>15, Grown
        <5>5. q.hash \in Hash  BY <1>0, <3>1 DEF TypeOK, Request
        <5> QED  BY <1>2, <3>4, <5>1, <5>2, <5>3, <5>4, <5>5
      <4> HIDE DEF q, g, m, pp, f
      <4>3. StopOK(r, q, g, catalog, hurt, m, active, pp, f)
        BY <4>1, <4>2 DEF StopOK
      <4>4. /\ req' = req /\ sess' = sess /\ proc' = proc /\ active' = active
            /\ catalog' = catalog /\ hurt' = hurt /\ req[r].what = s
        BY <1>2, <3>4
      <4> QED  BY Zenon, <4>3, <4>4 DEF q, g, m, pp, f
    <3> QED  BY <3>3, <3>4
  <2> QED  BY <1>0, <1>2, <1>3, <2>1 DEF StopInv
<1>11. \A t \in Stops : /\ req'[t] = req[t]
                        /\ stored[t] # NoFile => stored'[t] # NoFile
  BY <1>2, <1>8, NamesDiffer
<1>12. ASSUME NEW y \in Sessions, y # s \/ p # s  PROVE SessionOK(y)'
  <2>1. live'[y] = live[y]  BY <1>4, <1>8, <1>12
  <2> QED  BY <1>0, <1>2, <1>3, <1>11, <2>1, SessionKept
<1>13. CASE p = s
  <2>1. SessionOK(s)'
    <3>1. /\ proc'[s] = s /\ live'[s] # NoFile /\ live'[s][2] = s
          /\ sess'[s] = sess[s] /\ active' = active /\ hurt' = hurt
      BY <1>2, <1>7, <1>13 DEF p
    <3>2. /\ sess[s].status = "STARTING" => s \in active
          /\ /\ s \notin active \cup hurt
             /\ sess[s].status = "CAPTURING" \/ (proc[s] # None /\ s \notin Surviving)
             => \E t \in Stops : Stopping(req[t], s)
          /\ sess[s].status = "COMPLETED" =>
               /\ sess[s].capture \in Stops \cap Ids
               /\ req[sess[s].capture].pc # "idle" /\ req[sess[s].capture].what = s
      BY <1>0 DEF SessionInv, SessionOK
    <3>3. /\ s \notin active' \cup hurt'
          /\ sess'[s].status = "CAPTURING" \/ (proc'[s] # None /\ s \notin Surviving)
          => \E t \in Stops : Stopping(req'[t], s)
      BY <1>2, <3>1, <3>2
    <3>4. sess'[s].status = "COMPLETED" =>
            /\ sess'[s].capture \in Stops \cap Ids'
            /\ req'[sess'[s].capture].pc # "idle" /\ req'[sess'[s].capture].what = s
      BY <1>2, <1>3, <3>1, <3>2
    <3> QED  BY <3>1, <3>2, <3>3, <3>4 DEF SessionOK
  <2> SUFFICES ASSUME NEW y \in Sessions  PROVE SessionOK(y)'
    BY <1>1, <1>3, <1>9, <1>10 DEF IInv, SessionInv
  <2> QED  BY Zenon, <1>12, <2>1
<1> QED
  <2>1. CASE p # s
    <3> SUFFICES ASSUME NEW y \in Sessions  PROVE SessionOK(y)'
      BY <1>1, <1>3, <1>9, <1>10 DEF IInv, SessionInv
    <3> QED  BY Zenon, <1>12, <2>1
  <2> QED  BY <1>13, <2>1

\* A tcpdump ends by itself.
LEMMA EndsInductive ==
  ASSUME IInv, NEW s \in Sessions, TcpdumpEnds(s)
  PROVE  IInv'
<1>0. /\ TypeOK /\ CatalogInv /\ UploadInv /\ StopInv /\ SessionInv
      /\ proc \in [Sessions -> Sessions \cup Stops \cup {None}]
  BY DEF IInv, TypeOK
<1>1. TypeOK'  BY <1>0, OtherType DEF SessionStep
<1>2. /\ tmp' = tmp /\ stored' = stored /\ live' = live /\ catalog' = catalog
      /\ req' = req /\ sess' = sess /\ active' = active /\ hurt' = hurt
      /\ proc' = [proc EXCEPT ![s] = None] /\ proc[s] # None
  BY DEF TcpdumpEnds
<1>3. /\ proc'[s] = None
      /\ \A y \in Sessions : y # s => proc'[y] = proc[y]
      /\ \A y \in Sessions : proc'[y] \in {proc[y], None}
  BY <1>0, <1>2
<1>4. /\ CatalogInv' /\ Ids' = Ids /\ Extends(catalog, catalog', None)
  BY <1>0, <1>2, NothingAdded
<1>5. UploadInv'
  <2>1. \A u \in Uploads : UploadOK(u, req'[u], tmp'[u], stored'[u], catalog', hurt')
    BY <1>0, <1>2, <1>4, NamesDiffer, UploadsKept
  <2> QED  BY <2>1 DEF UploadInv
<1>6. StopInv'
  <2>1. ASSUME NEW r \in Stops
        PROVE  LET x == req'[r].what IN
                 StopOK(r, req'[r], stored'[r], catalog', hurt',
                        sess'[x].status, active', proc'[x], live'[x])
    <3> DEFINE x == req[r].what
               q == req[r]
               pro == proc[x]
               left == proc'[x]
               m == sess[x].status
               f == live[x]
               g == stored[r]
    <3>1. StopOK(r, q, g, catalog, hurt, m, active, pro, f)
      BY <1>0 DEF StopInv
    <3>2. q.pc # "idle" => left \in {pro, None}
      BY <1>3, <3>1 DEF StopOK
    <3> HIDE DEF q, pro, left, m, f, g
    <3>3. StopOK(r, q, g, catalog, hurt, m, active, left, f)
      BY <3>1, <3>2 DEF StopOK
    <3> QED  BY Zenon, <1>2, <3>3 DEF q, left, m, f, g
  <2> QED  BY <1>0, <1>2, <1>4, <2>1 DEF StopInv
<1>7. SessionInv'
  <2> SUFFICES ASSUME NEW y \in Sessions  PROVE SessionOK(y)'
    BY DEF SessionInv
  <2>1. CASE y # s
    BY <1>0, <1>2, <1>3, <1>4, <2>1, SessionKept
  <2>2. CASE y = s
    <3>1. SessionOK(s)  BY <1>0 DEF SessionInv
    <3> QED  BY <1>2, <1>3, <1>4, <2>2, <3>1 DEF SessionOK
  <2> QED  BY <2>1, <2>2
<1> QED  BY <1>1, <1>4, <1>5, <1>6, <1>7 DEF IInv

LEMMA PurgeInductive ==
  ASSUME IInv,
         \/ \E old \in SUBSET Uploads : PurgeStaging(old)
         \/ \E r \in Requests : PurgeCapture(r)
  PROVE  IInv'
<1>0. /\ TypeOK /\ CatalogInv /\ UploadInv /\ StopInv /\ SessionInv
      /\ tmp \in [Uploads -> Hash]
  BY DEF IInv, TypeOK
<1>1. TypeOK'  BY <1>0, OtherType
<1>2. /\ stored' = stored /\ live' = live /\ catalog' = catalog /\ req' = req
      /\ sess' = sess /\ active' = active /\ proc' = proc /\ hurt' = hurt
      /\ \A u \in Uploads : tmp'[u] \in {tmp[u], NoFile}
  BY DEF PurgeStaging, PurgeCapture
<1>3. /\ CatalogInv' /\ Ids' = Ids /\ Extends(catalog, catalog', None)
  BY <1>0, <1>2, NothingAdded
<1>4. UploadInv'
  <2>1. \A u \in Uploads : UploadOK(u, req'[u], tmp'[u], stored'[u], catalog', hurt')
    BY <1>0, <1>2, <1>3, NamesDiffer, UploadsKept
  <2> QED  BY <2>1 DEF UploadInv
<1>5. StopInv'
  <2>1. ASSUME NEW r \in Stops
        PROVE  LET x == req'[r].what IN
                 StopOK(r, req'[r], stored'[r], catalog', hurt',
                        sess'[x].status, active', proc'[x], live'[x])
    BY <1>0, <1>2, <1>3, NamesDiffer, StopKept
  <2> QED  BY <1>0, <1>2, <1>3, <2>1 DEF StopInv
<1>6. SessionInv'
  <2> SUFFICES ASSUME NEW y \in Sessions  PROVE SessionOK(y)'
    BY DEF SessionInv
  <2> QED  BY <1>0, <1>2, <1>3, SessionKept
<1> QED  BY <1>1, <1>3, <1>4, <1>5, <1>6 DEF IInv

\* A crash cuts short all that it leaves unfinished.
LEMMA CrashInductive ==
  ASSUME IInv, Crash
  PROVE  IInv'
<1>0. /\ TypeOK /\ CatalogInv /\ UploadInv /\ StopInv /\ SessionInv
      /\ req \in [Requests -> Request]
      /\ sess \in [Sessions -> [status : Statuses, capture : Requests \cup {None}]]
  BY DEF IInv, TypeOK
<1>1. TypeOK'  BY <1>0, OtherType
<1>2. /\ tmp' = tmp /\ stored' = stored /\ live' = live /\ catalog' = catalog
      /\ proc' = proc /\ active' = {} /\ hurt \subseteq hurt' /\ active \subseteq hurt'
      /\ \A r \in Requests : Running(r) => r \in hurt'
      /\ \A s \in Sessions : (\E r \in Requests : Running(r) /\ req[r].what = s) => s \in hurt'
  BY DEF Crash
<1>3. /\ CatalogInv' /\ Ids' = Ids /\ Extends(catalog, catalog', None)
  BY <1>0, <1>2, NothingAdded
<1>4. ASSUME NEW r \in Requests
      PROVE  IF Running(r)
             THEN /\ req'[r].pc = "failed" /\ req'[r].what = req[r].what
                  /\ req'[r].seen = req[r].seen
             ELSE req'[r] = req[r]
  BY <1>0 DEF Crash, Request
<1>5. ASSUME NEW s \in Sessions
      PROVE  /\ sess'[s].capture = sess[s].capture
             /\ IF sess[s].status = "STARTING" THEN sess'[s].status = "NONE"
                ELSE sess'[s].status = sess[s].status
  BY <1>0 DEF Crash
<1>6. UploadInv'
  <2> SUFFICES ASSUME NEW u \in Uploads
               PROVE  UploadOK(u, req'[u], tmp'[u], stored'[u], catalog', hurt')
    BY DEF UploadInv
  <2>1. u \in Requests /\ u # None  BY NamesDiffer
  <2>2. CASE ~Running(u)
    BY <1>0, <1>2, <1>3, <1>4, <2>1, <2>2, UploadsKept
  <2>3. CASE Running(u)
    <3>1. req[u].pc # "done" /\ UploadRow(u, req[u], stored[u], catalog, hurt)
      BY <1>0, <2>3 DEF Running, UploadInv, UploadOK
    <3>2. u \notin IdsOf(catalog) /\ req[u].seen \subseteq HashesOf(catalog)
      BY <3>1, UploadUnregistered
    <3> DEFINE q == req'[u]
               f == tmp'[u]
               g == stored'[u]
               k == hurt'
    <3>3. /\ q.pc = "failed" /\ q.seen \subseteq HashesOf(catalog)
          /\ u \in k /\ u \notin IdsOf(catalog)
      BY <1>2, <1>4, <2>1, <2>3, <3>2
    <3> HIDE DEF q, f, g, k
    <3>4. UploadFile(u, q, f, g, k)  BY <3>3 DEF UploadFile, UploadPcs
    <3>5. UploadRow(u, q, g, catalog, k)  BY <3>3, UploadOpen
    <3>6. UploadOK(u, q, f, g, catalog, k)  BY <3>4, <3>5 DEF UploadOK
    <3>7. catalog' = catalog  BY <1>2
    <3> QED  BY Zenon, <3>6, <3>7 DEF q, f, g, k
  <2> QED  BY <2>2, <2>3
<1>7. StopInv'
  <2>1. ASSUME NEW r \in Stops
        PROVE  LET x == req'[r].what IN
                 StopOK(r, req'[r], stored'[r], catalog', hurt',
                        sess'[x].status, active', proc'[x], live'[x])
    <3> DEFINE x == req[r].what
    <3>1. r \in Requests /\ r # None  BY NamesDiffer
    <3>2. StopOK(r, req[r], stored[r], catalog, hurt,
                 sess[x].status, active, proc[x], live[x])
      BY <1>0 DEF StopInv
    <3>3. req[r].pc # "idle" =>
            /\ x \in Sessions /\ sess[x].status \in {"CAPTURING", "COMPLETED"}
            /\ sess'[x].status \in {"CAPTURING", "COMPLETED"}
      BY <1>5, <3>2 DEF StopOK
    <3>4. CASE ~Running(r)
      <4>1. req'[r] = req[r] /\ stored'[r] = stored[r]  BY <1>2, <1>4, <3>1, <3>4
      <4>2. live'[x] = live[x] /\ proc'[x] = proc[x] /\ x \notin active'
        BY <1>2
      <4> QED  BY <1>0, <1>2, <1>3, <3>1, <3>3, <4>1, <4>2, StopKept
    <3>5. CASE Running(r)
      <4> DEFINE q == req'[r]
                 g == stored'[r]
                 k == hurt'
                 m == sess'[x].status
                 a == active'
                 pp == proc'[x]
                 f == live'[x]
      <4>1. /\ q.pc = "failed" /\ q.what = x /\ x \in Sessions
            /\ m \in {"CAPTURING", "COMPLETED"} /\ a = {} /\ r \in k
        BY <1>2, <1>4, <3>1, <3>3, <3>5 DEF Running
      <4>2. \A h \in Hash : Has(catalog, r, h) => Sound(q.what, h, g)
        BY <1>2, <3>2, <4>1 DEF StopOK
      <4>3. req'[r].what = x  BY <4>1
      <4> HIDE DEF q, g, k, m, a, pp, f
      <4>4. StopOK(r, q, g, catalog, k, m, a, pp, f)
        BY <4>1, <4>2 DEF StopOK, Popped, StopPcs
      <4>5. catalog' = catalog  BY <1>2
      <4> QED  BY Zenon, <4>3, <4>4, <4>5 DEF q, g, k, m, a, pp, f
    <3> QED  BY <3>4, <3>5
  <2>2. \A r \in Stops : /\ (Popped(req'[r]) \/ r \in Ids') => (Popped(req[r]) \/ r \in Ids)
                         /\ req'[r].what = req[r].what
    BY <1>3, <1>4, NamesDiffer DEF Popped
  <2> QED  BY <1>0, <2>1, <2>2 DEF StopInv
<1>8. SessionInv'
  <2> SUFFICES ASSUME NEW s \in Sessions  PROVE SessionOK(s)'
    BY DEF SessionInv
  <2>1. /\ live[s] # NoFile => live[s][2] = s
        /\ s \in active => proc[s] \in {s, None} /\ live[s] # NoFile
        /\ sess[s].status = "STARTING" => s \in active
        /\ proc[s] \notin {s, None} =>
             /\ s \in Surviving /\ proc[s] \in Stops
             /\ req[proc[s]].pc # "idle" /\ req[proc[s]].what = s
             /\ stored[proc[s]] # NoFile
        /\ /\ s \notin active \cup hurt
           /\ sess[s].status = "CAPTURING" \/ (proc[s] # None /\ s \notin Surviving)
           => \E t \in Stops : Stopping(req[t], s)
        /\ sess[s].status = "COMPLETED" =>
             /\ sess[s].capture \in Stops \cap Ids
             /\ req[sess[s].capture].pc # "idle" /\ req[sess[s].capture].what = s
    BY <1>0 DEF SessionInv, SessionOK
  <2>2. proc'[s] \notin {s, None} =>
          /\ s \in Surviving /\ proc'[s] \in Stops
          /\ req'[proc'[s]].pc # "idle" /\ req'[proc'[s]].what = s
          /\ stored'[proc'[s]] # NoFile
    <3>1. \A r \in Stops : req[r].pc # "idle" =>
            req'[r].pc # "idle" /\ req'[r].what = req[r].what
      BY <1>4, NamesDiffer
    <3> QED  BY <1>2, <2>1, <3>1
  <2>3. (\E t \in Stops : Stopping(req[t], s)) => s \in hurt'
    BY <1>2, NamesDiffer DEF Stopping, Running
  <2>4. sess'[s].status = "CAPTURING" => sess[s].status = "CAPTURING"
    BY <1>5
  <2>5. \/ s \in hurt'
        \/ sess'[s].status # "CAPTURING" /\ (s \in Surviving \/ proc'[s] = None)
    BY <1>2, <2>1, <2>3, <2>4
  <2>6. sess'[s].status = "COMPLETED" =>
          /\ sess'[s].capture \in Stops \cap Ids'
          /\ req'[sess'[s].capture].pc # "idle" /\ req'[sess'[s].capture].what = s
    <3>1. \A r \in Stops : req[r].pc # "idle" =>
            req'[r].pc # "idle" /\ req'[r].what = req[r].what
      BY <1>4, NamesDiffer
    <3> QED  BY <1>2, <1>3, <1>5, <2>1, <3>1
  <2>7. /\ live'[s] # NoFile => live'[s][2] = s
        /\ s \notin active' /\ sess'[s].status # "STARTING"
    BY <1>2, <1>5, <2>1
  <2> QED  BY <2>2, <2>5, <2>6, <2>7 DEF SessionOK
<1> QED  BY <1>1, <1>3, <1>6, <1>7, <1>8 DEF IInv

-----------------------------------------------------------------------------
(* The theorems.                                                           *)

LEMMA InitOK == Init => IInv
<1> SUFFICES ASSUME Init  PROVE IInv
  OBVIOUS
<1>1. TypeOK
  BY HashValues, IdleRequest DEF Init, TypeOK, NoSession, Statuses
<1>2. catalog = <<>> /\ Len(catalog) = 0 /\ Ids = {}
  BY DEF Init, Ids
<1>3. CatalogInv  BY <1>2 DEF CatalogInv
<1>4. \A x, h : ~Has(catalog, x, h)  BY <1>2 DEF Has
<1>5. IdsOf(catalog) = {}  BY <1>2 DEF IdsOf
<1>6. \A r \in Requests : /\ req[r].pc = "idle" /\ req[r].seen = {}
                          /\ stored[r] = NoFile
  BY DEF Init, Idle
<1>7. UploadInv
  <2> SUFFICES ASSUME NEW u \in Uploads
               PROVE  UploadOK(u, req[u], tmp[u], stored[u], catalog, hurt)
    BY DEF UploadInv
  <2>1. /\ req[u].pc = "idle" /\ req[u].seen = {} /\ stored[u] = NoFile
        /\ tmp[u] = NoFile
    BY <1>6, NamesDiffer DEF Init
  <2>2. UploadFile(u, req[u], tmp[u], stored[u], hurt)
    BY <2>1 DEF UploadFile, UploadPcs
  <2>3. UploadRow(u, req[u], stored[u], catalog, hurt)
    BY <1>5, <2>1, UploadOpen
  <2> QED  BY <2>2, <2>3 DEF UploadOK
<1>8. StopInv
  <2>1. ASSUME NEW t \in Stops
        PROVE  LET s == req[t].what IN
                 StopOK(t, req[t], stored[t], catalog, hurt,
                        sess[s].status, active, proc[s], live[s])
    <3>1. req[t].pc = "idle" /\ stored[t] = NoFile  BY <1>6, NamesDiffer
    <3> QED  BY <1>5, <3>1, StopOpen DEF Popped, StopPcs
  <2>2. \A t \in Stops : ~(Popped(req[t]) \/ t \in Ids)
    BY <1>2, <1>6, NamesDiffer DEF Popped
  <2> QED  BY <2>1, <2>2 DEF StopInv
<1>9. SessionInv
  BY DEF Init, SessionInv, SessionOK, NoSession
<1> QED  BY <1>1, <1>3, <1>7, <1>8, <1>9 DEF IInv

LEMMA StutterOK == IInv /\ UNCHANGED vars => IInv'
BY DEF vars, IInv, TypeOK, CatalogInv, UploadInv, UploadOK, UploadFile, UploadRow,
       StopInv, StopOK, SessionInv, SessionOK, Ids

LEMMA Inductive == IInv /\ [Next]_vars => IInv'
<1> SUFFICES ASSUME IInv, [Next]_vars  PROVE IInv'
  OBVIOUS
<1>1. CASE \E u \in Uploads : UploadStep(u)  BY <1>1, UploadInductive
<1>2. CASE \E t \in Stops : StopStep(t)  BY <1>2, StopInductive
<1>3. CASE \E s \in Sessions : SessionStep(s)
  BY <1>3, StartInductive, PacketInductive, EndsInductive DEF SessionStep
<1>4. CASE \/ \E old \in SUBSET Uploads : PurgeStaging(old)
           \/ \E r \in Requests : PurgeCapture(r)
  BY <1>4, PurgeInductive
<1>5. CASE Crash  BY <1>5, CrashInductive
<1>6. CASE UNCHANGED vars  BY <1>6, StutterOK
<1> QED  BY <1>1, <1>2, <1>3, <1>4, <1>5, <1>6 DEF Next

LEMMA Invariance == Spec => []IInv
BY InitOK, Inductive, PTL DEF Spec

\* Files, rows, sessions and requests keep their types.
THEOREM TypeCorrect == Spec => []TypeOK
<1>1. IInv => TypeOK  BY DEF IInv
<1> QED  BY <1>1, Invariance, PTL

\* Every Capture row is true of the bytes on disk: it has the hash of its file,
\* or says that there is none, or is of a session whose tcpdump outlives the
\* stop and has its hashed packets in the file (ingestion.py:146,
\* live_captures/router.py:215).
THEOREM Intact == Spec => []EvidenceIntact
<1>1. IInv => EvidenceIntact
  <2> SUFFICES ASSUME IInv, NEW i \in 1..Len(catalog)
               PROVE  LET row  == catalog[i]
                          file == stored[row.id]
                      IN  \/ IntegrityStatus(row) = "VERIFIED"
                          \/ row.hash = Unknown /\ file # NoFile
                          \/ /\ row.id \in Stops /\ req[row.id].what \in Surviving
                             /\ file[2] = row.hash[2] /\ row.hash[3] <= file[3]
    BY DEF EvidenceIntact
  <2> DEFINE x == catalog[i].id
             h == catalog[i].hash
  <2>1. h \in Hash /\ x \in Requests /\ Has(catalog, x, h) /\ x \in IdsOf(catalog)
    <3>1. catalog \in Seq(CaptureRow)  BY DEF IInv, CatalogInv
    <3>2. catalog[i] \in CaptureRow  BY <3>1, ElementOfSeq
    <3> QED  BY <3>2 DEF CaptureRow, Has, IdsOf
  <2>2. CASE x \in Uploads
    <3>1. stored[x] = h /\ h # NoFile
      BY <2>1, <2>2 DEF IInv, UploadInv, UploadOK, UploadRow
    <3> QED  BY <3>1 DEF IntegrityStatus
  <2>3. CASE x \in Stops
    <3> DEFINE s == req[x].what
    <3>1. StopOK(x, req[x], stored[x], catalog, hurt,
                 sess[s].status, active, proc[s], live[s])
      BY <2>3 DEF IInv, StopInv
    <3>2. Sound(s, h, stored[x])  BY <2>1, <3>1 DEF StopOK
    <3> QED  BY <2>3, <3>2 DEF Sound, IntegrityStatus
  <2> QED  BY <2>1, <2>2, <2>3 DEF Requests
<1> QED  BY <1>1, Invariance, PTL

\* Nothing is left behind without a fault: neither files without a row nor
\* sessions or processes that nobody can stop (manager.py:159,
\* live_captures/router.py:108, ingestion.py:166).
THEOREM Stranded == Spec => []NothingStranded
<1>1. IInv => NothingStranded
  <2> SUFFICES ASSUME IInv  PROVE NothingStranded
    OBVIOUS
  <2>0. Ids = IdsOf(catalog)  BY DEF Ids, IdsOf
  <2>1. ASSUME NEW r \in Requests \ Ids, stored[r] # NoFile
        PROVE  Running(r) \/ r \in hurt
    <3>1. CASE r \in Uploads
      BY <2>0, <2>1, <3>1 DEF IInv, UploadInv, UploadOK, UploadRow, Running
    <3>2. CASE r \in Stops
      BY <2>0, <2>1, <3>2 DEF IInv, StopInv, StopOK, Running
    <3> QED  BY <3>1, <3>2 DEF Requests
  <2>2. ASSUME NEW u \in Uploads, tmp[u] # NoFile
        PROVE  Running(u) \/ u \in hurt
    BY <2>2 DEF IInv, UploadInv, UploadOK, UploadFile, Running
  <2> DEFINE Stoppable(s) ==
               s \in active \/ \E t \in Stops : Running(t) /\ req[t].what = s
  <2>3. ASSUME NEW s \in Sessions \ hurt,
               \/ "CAPTURING" \in ShownStatus(s)
               \/ proc[s] # None /\ s \notin Surviving
        PROVE  Stoppable(s)
    <3>1. CASE s \in active  BY <3>1
    <3>2. CASE s \notin active
      <4>1. sess[s].status = "CAPTURING" \/ (proc[s] # None /\ s \notin Surviving)
        BY <2>3, <3>2 DEF ShownStatus, AgentStatus
      <4>2. PICK t \in Stops : Stopping(req[t], s)
        BY <3>2, <4>1 DEF IInv, SessionInv, SessionOK
      <4> QED  BY <4>2 DEF Stopping, Running
    <3> QED  BY <3>1, <3>2
  <2> HIDE DEF Stoppable
  <2>4. /\ \A s \in Sessions \ hurt : "CAPTURING" \in ShownStatus(s) => Stoppable(s)
        /\ \A s \in Sessions \ (hurt \cup Surviving) : proc[s] # None => Stoppable(s)
    BY <2>3
  <2> QED  BY <2>1, <2>2, <2>4 DEF NothingStranded, Stoppable
<1> QED  BY <1>1, Invariance, PTL

\* Evidence is registered once: an upload is answered with a row of its own
\* bytes, an earlier one when there was one, and a session has one capture
\* (ingestion.py:132, live_captures/router.py:175).
THEOREM Registered == Spec => []RegisteredOnce
<1>1. IInv => RegisteredOnce
  <2> SUFFICES ASSUME IInv  PROVE RegisteredOnce
    OBVIOUS
  <2>0. CatalogInv  BY DEF IInv
  <2>1. ASSUME NEW u \in Uploads, req[u].pc = "done"
        PROVE  /\ req[u].answer \in Ids
               /\ Row(req[u].answer).hash = req[u].hash
               /\ req[u].hash \in req[u].seen => req[u].answer # u
    <3>1. /\ Has(catalog, req[u].answer, req[u].hash)
          /\ req[u].hash \in req[u].seen => req[u].answer # u
      BY <2>1 DEF IInv, UploadInv, UploadOK, UploadRow
    <3> QED  BY <2>0, <3>1, RowHash
  <2>2. ASSUME NEW s \in Sessions, sess[s].status = "COMPLETED"
        PROVE  /\ sess[s].capture \in Ids
               /\ stored[sess[s].capture][2] = s
    <3> DEFINE x == sess[s].capture
    <3>1. x \in Stops /\ x \in Ids /\ req[x].what = s
      BY <2>2 DEF IInv, SessionInv, SessionOK
    <3>2. PICK i \in 1..Len(catalog) : catalog[i].id = x
      BY <3>1 DEF Ids
    <3>3. Has(catalog, x, catalog[i].hash) /\ catalog[i].hash \in Hash
      <4>1. catalog \in Seq(CaptureRow)  BY <2>0 DEF CatalogInv
      <4>2. catalog[i] \in CaptureRow  BY <3>2, <4>1, ElementOfSeq
      <4> QED  BY <3>2, <4>2 DEF CaptureRow, Has
    <3>4. StopOK(x, req[x], stored[x], catalog, hurt,
                 sess[s].status, active, proc[s], live[s])
      BY <3>1 DEF IInv, StopInv
    <3>5. Sound(s, catalog[i].hash, stored[x])  BY <3>1, <3>3, <3>4 DEF StopOK
    <3> QED  BY <3>1, <3>5 DEF Sound
  <2>3. ASSUME NEW t1 \in Stops \cap Ids, NEW t2 \in Stops \cap Ids,
               req[t1].what = req[t2].what
        PROVE  t1 = t2
    BY <2>3 DEF IInv, StopInv
  <2> QED  BY <2>1, <2>2, <2>3 DEF RegisteredOnce
<1> QED  BY <1>1, Invariance, PTL

=============================================================================
