---------------------------- MODULE AssetProofs ----------------------------
(***************************************************************************)
(* The registries beside the analyses, for any number of clients, rows,    *)
(* jobs and addresses.                                                     *)
(*                                                                         *)
(* Datasets: the counters of a version are those of its sessions (AddInv), *)
(* its split rows are those of its last answer (SplitInv), and a training  *)
(* set is cut from what it was read from (TrainInv), unless two requests   *)
(* of a kind overlapped on the version.                                    *)
(*                                                                         *)
(* Scanning: what a job is authorised to scan follows from the checks of   *)
(* its request (ScopePermits) and is all it scans (ScanInv); what an       *)
(* import found stays true while discovery adds host rows (LinkInv).       *)
(*                                                                         *)
(* Inventory: what a designation demotes are rows of its gateway, and all  *)
(* of its baselines under SQLite's lock (InventoryInv); a drift row is the *)
(* comparison of two parsed texts (DriftInv), which is quiet exactly when  *)
(* they are one configuration (QuietDrift).                                *)
(***************************************************************************)
EXTENDS Datasets, Scanning, Inventory, FiniteSetTheorems, SequenceTheorems, TLAPS

-----------------------------------------------------------------------------
(* The rows of the datasets.                                               *)

Hashes     == {r.sha : r \in Registrations}
SessionRow == [version : Nat, class : Classes, sha : Hashes]
VersionRow == [dataset : Families, status : {"DRAFT"}, session_count : Nat,
               class_distribution : [Classes -> Nat]]

\* The sessions of version v among the rows lab, and those of class k.
In(lab, v)         == {s \in 1..Len(lab) : lab[s].version = v}
InClass(lab, v, k) == {s \in In(lab, v) : lab[s].class = k}

\* A class distribution as the set of its units.
Units(dist) == {u \in Classes \X (1..MaxSessions) : u[2] <= dist[u[1]]}

\* The counters of row are no more than the sessions of v, and agree.
Below(row, lab, v) ==
  /\ row.session_count = Cardinality(Units(row.class_distribution))
  /\ row.session_count <= Cardinality(In(lab, v))
  /\ \A k \in Classes :
       row.class_distribution[k] <= Cardinality(InClass(lab, v, k))

Exact(row, lab, v) ==
  /\ row.session_count = Cardinality(In(lab, v))
  /\ \A k \in Classes :
       row.class_distribution[k] = Cardinality(InClass(lab, v, k))

\* The request q is one of kind op in progress.
Is(q, op) == q # Unset /\ q.op = op

Adding(cl) == {c \in Clients : Is(cl[c], "add")}

\* What an addition has read.
AddOK(q, vs, lab, over) ==
  /\ q.version \in 1..Len(vs) /\ q.session \in Registrations
  /\ q.read \in VersionRow /\ Below(q.read, lab, q.version)
  /\ q.version \notin over => q.read = vs[q.version]

\* No two requests of kind op are in progress on a version not in over.
Apart(cl, op, over) ==
  \A c, d \in Clients :
    Is(cl[c], op) /\ Is(cl[d], op) /\ cl[c].version = cl[d].version
      => c = d \/ cl[c].version \in over

SplitRow    == [by : Nat, session : Nat, split : SplitTypes]
Cards       == {Cardinality(rows) : rows \in SUBSET SplitRow}
Audits      == [is_clean : BOOLEAN, total_sessions : Cards,
                split_counts : [SplitTypes -> Cards]]
PartRequest == [op : {"partition"}, version : Nat,
                found : {Unset} \cup SUBSET SplitRow, rows : SUBSET SplitRow]

\* The split rows of version v, and the audit of rows.
RowsIn(spl, lab, v) == {row \in spl : lab[row.session].version = v}

AuditOf(lab, rows) ==
  [is_clean |-> \A x, y \in rows :
                  lab[x.session].sha = lab[y.session].sha => x.split = y.split,
   total_sessions |-> Cardinality(rows),
   split_counts |-> split_counts(rows)]

\* All rows are about sessions of version v; no two are about one session.
Belong(rows, lab, v) == \A row \in rows : row.session \in In(lab, v)
OneEach(rows)        == \A x, y \in rows : x.session = y.session => x = y

\* What a partition has drawn and found.
PartOK(q, spl, lab, n, over) ==
  /\ q \in PartRequest /\ q.version \in 1..n
  /\ Belong(q.rows, lab, q.version) /\ OneEach(q.rows)
  /\ q.found # Unset =>
       /\ Belong(q.found, lab, q.version)
       /\ q.version \notin over => q.found = RowsIn(spl, lab, q.version)

\* The rows spl of version v and its last answer.
AnswerOK(answer, spl, lab, v) ==
  /\ OneEach(RowsIn(spl, lab, v))
  /\ answer # Unset => answer = AuditOf(lab, RowsIn(spl, lab, v))

\* What a training request has read, and what was made of one.
TrainOK(q, lab) ==
  /\ \A p \in split_names :
       q.listed[p] \subseteq In(lab, q.version) \cap DOMAIN q.last
  /\ \A s \in DOMAIN q.last :
       q.last[s] \in split_names /\ s \in q.listed[q.last[s]]
  /\ \A p, r \in split_names : p # r => q.listed[p] \cap q.listed[r] = {}

SetOK(set, lab) ==
  \A p \in split_names :
    /\ set.hashed[p] \subseteq 1..Len(lab)
    /\ set.groups[p] = {s \in set.hashed[p] : lab[s].class \in Supervised}
    /\ \A r \in split_names \ {p} : set.groups[p] \cap set.groups[r] = {}

TypeOK ==
  /\ versions \in Seq(VersionRow) /\ labelled \in Seq(SessionRow)
  /\ families \subseteq Families
  /\ \A s \in 1..Len(labelled) : labelled[s].version \in 1..Len(versions)
  /\ DOMAIN client = Clients /\ client = [c \in DOMAIN client |-> client[c]]
  /\ contended \in [add : SUBSET Nat, partition : SUBSET Nat]
  /\ \A c \in Clients : Is(client[c], "family") => client[c].name \in Families

AddInv ==
  /\ \A v \in 1..Len(versions) :
       /\ Below(versions[v], labelled, v)
       /\ v \notin contended.add => Exact(versions[v], labelled, v)
  /\ \A c \in Clients : Is(client[c], "add") =>
       AddOK(client[c], versions, labelled, contended.add)
  /\ Apart(client, "add", contended.add)
  /\ Len(labelled) + Cardinality(Adding(client)) <= MaxSessions

SplitInv ==
  /\ splits \in SUBSET SplitRow
  /\ spent \in [{"partition", "train"} -> Nat]
  /\ \A row \in splits : row.session \in 1..Len(labelled)
  /\ answers \in Seq({Unset} \cup Audits) /\ Len(answers) = Len(versions)
  /\ \A v \in 1..Len(versions) :
       v \notin contended.partition => AnswerOK(answers[v], splits, labelled, v)
  /\ \A c \in Clients : Is(client[c], "partition") =>
       PartOK(client[c], splits, labelled, Len(versions), contended.partition)
  /\ Apart(client, "partition", contended.partition)

TrainInv ==
  /\ \A c \in Clients : Is(client[c], "train") => TrainOK(client[c], labelled)
  /\ \A set \in trained : SetOK(set, labelled)

DatasetInv == TypeOK /\ AddInv /\ SplitInv /\ TrainInv

-----------------------------------------------------------------------------
(* Counting.                                                               *)

LEMMA UpTo ==
  ASSUME NEW n \in Nat
  PROVE  IsFiniteSet(1..n) /\ Cardinality(1..n) = n
<1>1. 1 \in Int /\ n \in Int  OBVIOUS
<1>2. IsFiniteSet(1..n) /\ Cardinality(1..n) = IF 1 > n THEN 0 ELSE n - 1 + 1
  BY <1>1, FS_Interval
<1> QED  BY <1>2

LEMMA InFinite ==
  ASSUME NEW lab \in Seq(SessionRow), NEW v, NEW k
  PROVE  /\ IsFiniteSet(In(lab, v)) /\ Cardinality(In(lab, v)) \in Nat
         /\ IsFiniteSet(InClass(lab, v, k))
         /\ Cardinality(InClass(lab, v, k)) \in Nat
         /\ Cardinality(InClass(lab, v, k)) <= Len(lab)
<1>1. IsFiniteSet(1..Len(lab)) /\ Cardinality(1..Len(lab)) = Len(lab)
  BY UpTo
<1>2. In(lab, v) \subseteq 1..Len(lab) /\ InClass(lab, v, k) \subseteq 1..Len(lab)
  BY DEF In, InClass
<1> QED  BY <1>1, <1>2, FS_Subset, FS_CardinalityType

\* One more session of version v and class k.
LEMMA OneMore ==
  ASSUME NEW lab \in Seq(SessionRow), NEW new \in SessionRow, NEW w, NEW k
  PROVE  LET lat == Append(lab, new) IN
         /\ In(lat, w) = IF new.version = w THEN In(lab, w) \cup {Len(lab) + 1}
                                            ELSE In(lab, w)
         /\ InClass(lat, w, k) =
              IF new.version = w /\ new.class = k
              THEN InClass(lab, w, k) \cup {Len(lab) + 1} ELSE InClass(lab, w, k)
<1> DEFINE lat == Append(lab, new)
<1>1. /\ Len(lat) = Len(lab) + 1 /\ lat[Len(lab) + 1] = new
      /\ \A i \in 1..Len(lab) : lat[i] = lab[i]
  OBVIOUS
<1>2. 1..Len(lat) = (1..Len(lab)) \cup {Len(lab) + 1}
  BY <1>1
<1> HIDE DEF lat
<1> QED  BY <1>1, <1>2 DEF In, InClass, lat

LEMMA MoreCounted ==
  ASSUME NEW lab \in Seq(SessionRow), NEW new \in SessionRow, NEW w, NEW k
  PROVE  LET lat == Append(lab, new) IN
         /\ Cardinality(In(lat, w)) =
              IF new.version = w THEN Cardinality(In(lab, w)) + 1
                                 ELSE Cardinality(In(lab, w))
         /\ Cardinality(InClass(lat, w, k)) =
              IF new.version = w /\ new.class = k
              THEN Cardinality(InClass(lab, w, k)) + 1
              ELSE Cardinality(InClass(lab, w, k))
<1>1. Len(lab) + 1 \notin In(lab, w) /\ Len(lab) + 1 \notin InClass(lab, w, k)
  BY DEF In, InClass
<1> QED  BY <1>1, OneMore, InFinite, FS_AddElement

LEMMA UnitsFinite ==
  ASSUME NEW d
  PROVE  IsFiniteSet(Units(d)) /\ Cardinality(Units(d)) \in Nat
<1>1. IsFiniteSet(Classes \X (1..MaxSessions))
  <2>1. IsFiniteSet(1..MaxSessions) /\ IsFiniteSet(Classes)
    BY DatasetConstants, UpTo
  <2> QED  BY <2>1, FS_Product
<1> QED  BY <1>1, FS_Subset, FS_CardinalityType DEF Units

\* A unit more.
LEMMA UnitMore ==
  ASSUME NEW d \in [Classes -> Nat], NEW k \in Classes, d[k] < MaxSessions,
         NEW e, \A j \in Classes : e[j] = IF j = k THEN d[j] + 1 ELSE d[j]
  PROVE  Cardinality(Units(e)) = Cardinality(Units(d)) + 1
<1> DEFINE u == <<k, d[k] + 1>>
<1>1. e[k] = d[k] + 1 /\ \A j \in Classes \ {k} : e[j] = d[j]
  OBVIOUS
<1>2. u \in Units(e) /\ u \notin Units(d)
  BY <1>1, DatasetConstants DEF Units
<1>3. ASSUME NEW x \in Units(e) PROVE x \in Units(d) \cup {u}
  BY <1>1, <1>3, DatasetConstants DEF Units
<1>4. ASSUME NEW x \in Units(d) PROVE x \in Units(e)
  BY <1>1, <1>4, DatasetConstants DEF Units
<1> HIDE DEF u
<1>5. Units(e) = Units(d) \cup {u}
  BY <1>2, <1>3, <1>4
<1> QED  BY <1>2, <1>5, UnitsFinite, FS_AddElement

LEMMA BelowMore ==
  ASSUME NEW lab \in Seq(SessionRow), NEW new \in SessionRow, NEW w,
         NEW row \in VersionRow, Below(row, lab, w)
  PROVE  Below(row, Append(lab, new), w)
<1> DEFINE lat == Append(lab, new)
<1>1. Cardinality(In(lab, w)) \in Nat
      /\ \A k \in Classes : Cardinality(InClass(lab, w, k)) \in Nat
  BY InFinite
<1>2. /\ Cardinality(In(lab, w)) <= Cardinality(In(lat, w))
      /\ \A k \in Classes :
           Cardinality(InClass(lab, w, k)) <= Cardinality(InClass(lat, w, k))
  BY <1>1, MoreCounted
<1>3. /\ Cardinality(In(lat, w)) \in Nat
      /\ \A k \in Classes : Cardinality(InClass(lat, w, k)) \in Nat
  BY <1>1, MoreCounted
<1> HIDE DEF lat
<1>4. row.session_count \in Nat
      /\ \A k \in Classes : row.class_distribution[k] \in Nat
  BY DEF VersionRow
<1>5. Below(row, lat, w)
  BY <1>1, <1>2, <1>3, <1>4 DEF Below
<1> QED  BY <1>5 DEF lat

LEMMA ExactOther ==
  ASSUME NEW lab \in Seq(SessionRow), NEW new \in SessionRow, NEW w,
         NEW row, Exact(row, lab, w), new.version # w
  PROVE  Exact(row, Append(lab, new), w)
BY MoreCounted DEF Exact

LEMMA Replaced ==
  ASSUME NEW vs \in Seq(VersionRow), NEW v \in 1..Len(vs),
         NEW row \in VersionRow, NEW ws, ws = [vs EXCEPT ![v] = row]
  PROVE  /\ ws \in Seq(VersionRow) /\ Len(ws) = Len(vs) /\ ws[v] = row
         /\ \A w \in 1..Len(vs) : w # v => ws[w] = vs[w]
<1>1. /\ ws \in Seq(VersionRow) /\ Len(ws) = Len(vs)
      /\ \A j \in 1..Len(vs) : ws[j] = IF j = v THEN row ELSE vs[j]
  BY ExceptSeq
<1> QED  BY <1>1

\* The counters of out are those of read and one more session of class k.
OneSessionMore(out, read, k) ==
  /\ out.session_count = read.session_count + 1
  /\ out.class_distribution[k] = read.class_distribution[k] + 1
  /\ \A j \in Classes : j # k =>
       out.class_distribution[j] = read.class_distribution[j]

LEMMA RecountedRow ==
  ASSUME NEW row \in VersionRow, NEW read \in VersionRow, NEW k \in Classes,
         NEW out, out = Recounted(row, read, k)
  PROVE  /\ out \in VersionRow
         /\ OneSessionMore(out, read, k)
<1> DEFINE n == read.session_count + 1
           dist == [read.class_distribution EXCEPT ![k] = @ + 1]
<1>1. read.class_distribution \in [Classes -> Nat] /\ read.session_count \in Nat
  BY DEF VersionRow
<1>2. n \in Nat /\ dist \in [Classes -> Nat]
  BY <1>1
<1>3. out = [row EXCEPT !.session_count = n, !.class_distribution = dist]
  BY DEF Recounted
<1> HIDE DEF n, dist
<1>4. /\ out \in VersionRow
      /\ out.session_count = n /\ out.class_distribution = dist
  BY <1>2, <1>3 DEF VersionRow
<1>5. OneSessionMore(out, read, k)
  BY <1>1, <1>4 DEF n, dist, OneSessionMore
<1> QED  BY <1>4, <1>5

\* The counters written back by an addition that read the row read.
LEMMA CountedMore ==
  ASSUME NEW lab \in Seq(SessionRow), NEW new \in SessionRow, NEW v,
         NEW read \in VersionRow, Below(read, lab, v), new.version = v,
         Len(lab) < MaxSessions, NEW row,
         NEW old \in VersionRow, row = Recounted(old, read, new.class)
  PROVE  /\ Below(row, Append(lab, new), v)
         /\ Exact(read, lab, v) => Exact(row, Append(lab, new), v)
<1> DEFINE m == new.class
<1>13. m \in Classes /\ row = Recounted(old, read, m)
  BY DEF SessionRow
<1>14. OneSessionMore(row, read, m)
  <2> HIDE DEF m
  <2> QED  BY <1>13, RecountedRow
<1> DEFINE lat == Append(lab, new)
           d == read.class_distribution
<1>1. d \in [Classes -> Nat] /\ m \in Classes /\ read.session_count \in Nat
  BY DEF VersionRow, SessionRow
<1>2. /\ Cardinality(In(lab, v)) \in Nat
      /\ \A k \in Classes : Cardinality(InClass(lab, v, k)) \in Nat
      /\ \A k \in Classes : Cardinality(InClass(lab, v, k)) <= Len(lab)
  BY InFinite
<1>3. /\ Cardinality(In(lat, v)) = Cardinality(In(lab, v)) + 1
      /\ \A k \in Classes : Cardinality(InClass(lat, v, k)) =
           IF k = m THEN Cardinality(InClass(lab, v, k)) + 1
                    ELSE Cardinality(InClass(lab, v, k))
  BY MoreCounted
<1>4. d[m] < MaxSessions
  BY <1>1, <1>2, DatasetConstants DEF Below
<1> HIDE DEF d, m
<1>5. row.session_count = read.session_count + 1
  BY <1>14 DEF OneSessionMore
<1>6. \A k \in Classes :
        row.class_distribution[k] = IF k = m THEN d[k] + 1 ELSE d[k]
  BY <1>14 DEF d, OneSessionMore
<1>12. Cardinality(Units(row.class_distribution)) = Cardinality(Units(d)) + 1
  BY <1>1, <1>4, <1>6, UnitMore
<1>7. row.session_count = Cardinality(Units(row.class_distribution))
  BY <1>5, <1>12 DEF Below, d
<1>8. row.session_count <= Cardinality(In(lat, v))
  BY <1>1, <1>2, <1>3, <1>5 DEF Below
<1>9. \A k \in Classes :
        row.class_distribution[k] <= Cardinality(InClass(lat, v, k))
  <2>1. \A k \in Classes : d[k] <= Cardinality(InClass(lab, v, k))
    BY DEF Below, d
  <2> QED  BY <2>1, <1>1, <1>2, <1>3, <1>6
<1>10. ASSUME Exact(read, lab, v) PROVE Exact(row, lat, v)
  <2>1. \A k \in Classes : d[k] = Cardinality(InClass(lab, v, k))
    BY <1>10 DEF Exact, d
  <2>2. \A k \in Classes :
          row.class_distribution[k] = Cardinality(InClass(lat, v, k))
    BY <2>1, <1>1, <1>2, <1>3, <1>6
  <2> QED  BY <2>2, <1>1, <1>3, <1>5, <1>10 DEF Exact
<1> HIDE DEF lat
<1>11. Below(row, lat, v)
  BY <1>7, <1>8, <1>9 DEF Below
<1> QED  BY <1>10, <1>11 DEF lat

-----------------------------------------------------------------------------
(* Requests.                                                               *)

LEMMA AskedOnce ==
  ASSUME TypeOK, NEW c \in Clients, NEW q, Ask(c, q)
  PROVE  /\ client[c] = Unset /\ client'[c] = q
         /\ \A d \in Clients \ {c} : client'[d] = client[d]
         /\ DOMAIN client' = Clients
         /\ client' = [d \in DOMAIN client' |-> client'[d]]
BY DEF TypeOK, Ask

LEMMA Answered ==
  ASSUME TypeOK, NEW c \in Clients, Answer(c)
  PROVE  /\ client'[c] = Unset
         /\ \A d \in Clients \ {c} : client'[d] = client[d]
         /\ DOMAIN client' = Clients
         /\ client' = [d \in DOMAIN client' |-> client'[d]]
BY DEF TypeOK, Answer

LEMMA AddingFinite ==
  ASSUME NEW cl
  PROVE  IsFiniteSet(Adding(cl)) /\ Cardinality(Adding(cl)) \in Nat
BY DatasetConstants, FS_Subset, FS_CardinalityType DEF Adding

\* Nothing that an addition looks at has changed.
LEMMA AddKept ==
  ASSUME TypeOK, AddInv, labelled' = labelled, versions' = versions,
         contended'.add = contended.add,
         \A c \in Clients : Is(client'[c], "add") => client'[c] = client[c]
  PROVE  AddInv'
<1> DEFINE cl == client'
           over == contended'.add
<1>1. \A c \in Clients : Is(cl[c], "add") =>
        Is(client[c], "add") /\ AddOK(cl[c], versions, labelled, over)
  BY DEF AddInv
<1>2. Apart(cl, "add", over)
  BY <1>1 DEF AddInv, Apart
<1>3. Adding(cl) \subseteq Adding(client)
  BY <1>1 DEF Adding
<1>4. Cardinality(Adding(cl)) <= Cardinality(Adding(client))
  BY <1>3, AddingFinite, FS_Subset
<1>5. Len(labelled) + Cardinality(Adding(cl)) <= MaxSessions
  <2>1. Len(labelled) \in Nat  BY DEF TypeOK
  <2> QED  BY <2>1, <1>4, AddingFinite, DatasetConstants DEF AddInv
<1> QED  BY <1>1, <1>2, <1>5 DEF AddInv

LEMMA ContendMore ==
  ASSUME TypeOK, NEW v \in Nat, NEW op \in {"add", "partition"}, Contend(op, v)
  PROVE  /\ contended' \in [add : SUBSET Nat, partition : SUBSET Nat]
         /\ contended[op] \subseteq contended'[op]
         /\ op # "add" => contended'.add = contended.add
         /\ op # "partition" => contended'.partition = contended.partition
         /\ (\E c \in Clients : Is(client[c], op) /\ client[c].version = v)
              => v \in contended'[op]
BY DEF TypeOK, Contend, Serving, Is

LEMMA AddBegins ==
  ASSUME TypeOK, AddInv, NEW c \in Clients, SessionRead(c)
  PROVE  AddInv' /\ contended' \in [add : SUBSET Nat, partition : SUBSET Nat]
<1>1. /\ labelled' = labelled /\ versions' = versions
      /\ Len(labelled) + Cardinality(Adding(client)) < MaxSessions
  BY DEF SessionRead, Adding, Serving, Is
<1>2. PICK v \in 1..Len(versions), new \in Registrations :
        /\ Ask(c, [op |-> "add", version |-> v, session |-> new,
                   read |-> versions[v]])
        /\ Contend("add", v)
  BY DEF SessionRead
<1> DEFINE q == [op |-> "add", version |-> v, session |-> new,
                 read |-> versions[v]]
           cl == client'
           now == contended'.add
<1>3. v \in Nat /\ versions[v] \in VersionRow
  BY DEF TypeOK
<1>4. /\ client[c] = Unset /\ cl[c] = q
      /\ \A d \in Clients \ {c} : cl[d] = client[d]
  BY <1>2, AskedOnce
<1>5. /\ contended' \in [add : SUBSET Nat, partition : SUBSET Nat]
      /\ contended.add \subseteq now
      /\ (\E d \in Clients : Is(client[d], "add") /\ client[d].version = v)
           => v \in now
  BY <1>2, <1>3, ContendMore
<1> HIDE DEF cl, now
<1>6. \A w \in 1..Len(versions) :
        /\ Below(versions[w], labelled, w)
        /\ w \notin now => Exact(versions[w], labelled, w)
  BY <1>5 DEF AddInv
<1>7. ASSUME NEW d \in Clients, Is(cl[d], "add")
      PROVE  AddOK(cl[d], versions, labelled, now)
  <2>1. CASE d = c
    BY <2>1, <1>3, <1>4, <1>6 DEF AddOK
  <2>2. CASE d # c
    BY <2>2, <1>4, <1>5, <1>7 DEF AddInv, AddOK
  <2> QED  BY <2>1, <2>2
<1>8. Apart(cl, "add", now)
  <2> SUFFICES ASSUME NEW d \in Clients, NEW e \in Clients,
                      Is(cl[d], "add"), Is(cl[e], "add"),
                      cl[d].version = cl[e].version, d # e
               PROVE  cl[d].version \in now
    BY DEF Apart
  <2>1. CASE d # c /\ e # c
    BY <2>1, <1>4, <1>5 DEF AddInv, Apart
  <2>2. CASE d = c \/ e = c
    BY <2>2, <1>4, <1>5
  <2> QED  BY <2>1, <2>2
<1>9. Len(labelled) + Cardinality(Adding(cl)) <= MaxSessions
  <2>1. Adding(cl) \subseteq Adding(client) \cup {c}
    BY <1>4 DEF Adding
  <2>2. /\ IsFiniteSet(Adding(client) \cup {c})
        /\ Cardinality(Adding(client) \cup {c}) <= Cardinality(Adding(client)) + 1
    <3>1. Cardinality(Adding(client) \cup {c}) =
            IF c \in Adding(client) THEN Cardinality(Adding(client))
                                    ELSE Cardinality(Adding(client)) + 1
      BY AddingFinite, FS_AddElement
    <3>2. Cardinality(Adding(client)) \in Nat  BY AddingFinite
    <3> QED  BY <3>1, <3>2, AddingFinite, FS_AddElement
  <2>3. Cardinality(Adding(cl)) <= Cardinality(Adding(client) \cup {c})
    BY <2>1, <2>2, FS_Subset
  <2>4. Cardinality(Adding(client) \cup {c}) \in Nat
    BY <2>2, FS_CardinalityType
  <2>5. Len(labelled) \in Nat  BY DEF TypeOK
  <2> QED  BY <2>2, <2>3, <2>4, <2>5, <1>1, AddingFinite, DatasetConstants
<1>10. AddInv'
  BY <1>1, <1>6, <1>7, <1>8, <1>9 DEF AddInv, cl, now
<1> QED  BY <1>5, <1>10

LEMMA AddCommits ==
  ASSUME TypeOK, AddInv, NEW c \in Clients, SessionCommit(c)
  PROVE  /\ AddInv'
         /\ client[c].version \in 1..Len(versions)
         /\ labelled' = Append(labelled, DatasetSession(client[c].version,
                                                        client[c].session))
         /\ labelled' \in Seq(SessionRow)
         /\ versions' \in Seq(VersionRow) /\ Len(versions') = Len(versions)
<1> DEFINE q == client[c]
           v == q.version
           new == DatasetSession(q.version, q.session)
           over == contended.add
           cl == client'
           vs == versions'
           lab == labelled'
<1>1. /\ Is(q, "add") /\ Answer(c) /\ contended' = contended
      /\ lab = Append(labelled, new)
      /\ vs = [versions EXCEPT
               ![v] = Recounted(versions[v], q.read, q.session.class)]
  BY DEF SessionCommit, Serving, Is
<1>2. AddOK(q, versions, labelled, over)
  BY <1>1 DEF AddInv
<1>3. /\ new \in SessionRow /\ new.version = v /\ new.class = q.session.class
      /\ v \in 1..Len(versions) /\ q.read \in VersionRow
      /\ versions \in Seq(VersionRow) /\ labelled \in Seq(SessionRow)
  BY <1>2, DatasetConstants
     DEF AddOK, DatasetSession, SessionRow, Hashes, TypeOK
<1>4. /\ cl[c] = Unset /\ \A d \in Clients \ {c} : cl[d] = client[d]
  BY <1>1, Answered
<1> DEFINE row == Recounted(versions[v], q.read, q.session.class)
<1>5. /\ Len(vs) = Len(versions) /\ vs \in Seq(VersionRow) /\ vs[v] = row
      /\ \A w \in 1..Len(versions) : w # v => vs[w] = versions[w]
      /\ versions[v] \in VersionRow
  <2>1. versions[v] \in VersionRow /\ q.session.class \in Classes
    BY <1>3 DEF SessionRow
  <2>2. row \in VersionRow /\ vs = [versions EXCEPT ![v] = row]
    BY <2>1, <1>1, <1>3, RecountedRow, Zenon
  <2>4. v \in 1..Len(versions) /\ versions \in Seq(VersionRow)
    BY <1>3
  <2> HIDE DEF row, vs, v
  <2>3. /\ vs \in Seq(VersionRow) /\ Len(vs) = Len(versions) /\ vs[v] = row
        /\ \A w \in 1..Len(versions) : w # v => vs[w] = versions[w]
    BY <2>2, <2>4, Replaced
  <2> QED  BY <2>1, <2>3
<1>6. Len(labelled) < MaxSessions
  <2>1. c \in Adding(client)
    BY <1>1 DEF Adding
  <2>2. Cardinality(Adding(client)) # 0
    BY <2>1, AddingFinite, FS_EmptySet
  <2> QED  BY <2>2, <1>3, AddingFinite, DatasetConstants DEF AddInv
<1> HIDE DEF q, new, cl, vs, lab
<1>7. /\ Below(vs[v], lab, v)
      /\ Exact(q.read, labelled, v) => Exact(vs[v], lab, v)
  <2>1. Below(q.read, labelled, v)
    BY <1>2 DEF AddOK
  <2>2. lab = Append(labelled, new) /\ vs[v] = Recounted(versions[v], q.read, new.class)
    BY <1>1, <1>3, <1>5
  <2> QED  BY <2>1, <2>2, <1>3, <1>5, <1>6, CountedMore
<1>8. ASSUME NEW w \in 1..Len(vs)
      PROVE  /\ Below(vs[w], lab, w)
             /\ w \notin over => Exact(vs[w], lab, w)
  <2>1. CASE w = v
    <3>1. v \notin over => Exact(q.read, labelled, v)
      BY <1>2, <1>3 DEF AddOK, AddInv
    <3> QED  BY <3>1, <2>1, <1>7
  <2>2. CASE w # v
    <3>1. /\ vs[w] = versions[w] /\ versions[w] \in VersionRow
          /\ w \in 1..Len(versions)
      BY <2>2, <1>3, <1>5
    <3>2. /\ Below(versions[w], labelled, w)
          /\ w \notin over => Exact(versions[w], labelled, w)
      BY <3>1 DEF AddInv
    <3> QED  BY <3>1, <3>2, <2>2, <1>1, <1>3, BelowMore, ExactOther
  <2> QED  BY <2>1, <2>2
<1>9. ASSUME NEW d \in Clients, Is(cl[d], "add")
      PROVE  AddOK(cl[d], vs, lab, over)
  <2>1. d # c /\ cl[d] = client[d] /\ AddOK(client[d], versions, labelled, over)
    BY <1>4, <1>9 DEF Is, AddInv
  <2>2. client[d].version = v => v \in over
    BY <2>1, <1>1, <1>9 DEF AddInv, Apart, q
  <2>3. Below(client[d].read, lab, client[d].version)
    BY <2>1, <1>1, <1>3, BelowMore DEF AddOK
  <2> QED  BY <2>1, <2>2, <2>3, <1>5 DEF AddOK
<1>10. Apart(cl, "add", over)
  BY <1>4 DEF AddInv, Apart, Is
<1>11. Len(lab) + Cardinality(Adding(cl)) <= MaxSessions
  <2>1. Adding(cl) = Adding(client) \ {c} /\ c \in Adding(client)
    BY <1>1, <1>4 DEF Adding, Is, q
  <2>2. Cardinality(Adding(cl)) = Cardinality(Adding(client)) - 1
    BY <2>1, AddingFinite, FS_RemoveElement
  <2>3. Len(lab) = Len(labelled) + 1 /\ Len(labelled) \in Nat
    BY <1>1, <1>3
  <2> QED  BY <2>2, <2>3, AddingFinite, DatasetConstants DEF AddInv
<1>12. AddInv'
  BY <1>1, <1>8, <1>9, <1>10, <1>11 DEF AddInv, cl, vs, lab
<1>13. lab \in Seq(SessionRow)
  BY <1>1, <1>3
<1> QED  BY <1>1, <1>3, <1>5, <1>12, <1>13 DEF q, new, vs, lab

LEMMA AddVersion ==
  ASSUME TypeOK, AddInv, VersionInsert
  PROVE  AddInv' /\ versions' \in Seq(VersionRow)
         /\ Len(versions') = Len(versions) + 1
<1>1. PICK name \in families :
        /\ versions' = Append(versions, DatasetVersion(name))
        /\ labelled' = labelled /\ client' = client /\ contended' = contended
  BY DEF VersionInsert
<1> DEFINE row == DatasetVersion(name)
           vs == versions'
           n == Len(versions) + 1
<1>2. /\ row \in VersionRow /\ row.session_count = 0
      /\ row.class_distribution = [k \in Classes |-> 0]
  BY DEF DatasetVersion, VersionRow, TypeOK
<1>3. /\ vs \in Seq(VersionRow) /\ Len(vs) = n /\ vs[n] = row
      /\ \A w \in 1..Len(versions) : vs[w] = versions[w]
      /\ 1..Len(vs) = (1..Len(versions)) \cup {n}
      /\ n \notin 1..Len(versions)
  BY <1>1, <1>2 DEF TypeOK
<1> HIDE DEF row, vs, n
<1>4. In(labelled, n) = {} /\ \A k \in Classes : InClass(labelled, n, k) = {}
  BY <1>3 DEF In, InClass, TypeOK
<1>5. Units([k \in Classes |-> 0]) = {}
  <2>1. MaxSessions \in Nat  BY DatasetConstants
  <2> QED  BY <2>1 DEF Units
<1>6. Below(row, labelled, n) /\ Exact(row, labelled, n)
  BY <1>2, <1>4, <1>5, FS_EmptySet DEF Below, Exact
<1>7. \A w \in 1..Len(vs) :
        /\ Below(vs[w], labelled, w)
        /\ w \notin contended.add => Exact(vs[w], labelled, w)
  BY <1>3, <1>6 DEF AddInv
<1>8. \A c \in Clients : Is(client[c], "add") =>
        AddOK(client[c], vs, labelled, contended.add)
  BY <1>3 DEF AddInv, AddOK
<1>9. AddInv'
  BY <1>1, <1>7, <1>8 DEF AddInv, vs
<1> QED  BY <1>3, <1>9 DEF vs, n

-----------------------------------------------------------------------------
(* Splits.                                                                 *)

\* A session more changes nothing for the rows there are.
LEMMA SessionAdded ==
  ASSUME NEW lab \in Seq(SessionRow), NEW new \in SessionRow, NEW lat,
         lat = Append(lab, new)
  PROVE  /\ 1..Len(lab) \subseteq 1..Len(lat)
         /\ \A s \in 1..Len(lab) : lat[s] = lab[s]
         /\ \A v : In(lab, v) \subseteq In(lat, v)
BY DEF In

LEMMA AuditSame ==
  ASSUME NEW lab, NEW lat, NEW rows,
         \A row \in rows : lat[row.session] = lab[row.session]
  PROVE  AuditOf(lat, rows) = AuditOf(lab, rows)
<1>1. (\A x, y \in rows :
         lat[x.session].sha = lat[y.session].sha => x.split = y.split)
      <=> (\A x, y \in rows :
             lab[x.session].sha = lab[y.session].sha => x.split = y.split)
  OBVIOUS
<1> QED  BY <1>1, Zenon DEF AuditOf

LEMMA AuditType ==
  ASSUME NEW lab, NEW rows \in SUBSET SplitRow
  PROVE  AuditOf(lab, rows) \in Audits
<1> DEFINE clean == \A x, y \in rows :
                      lab[x.session].sha = lab[y.session].sha => x.split = y.split
<1>1. clean \in BOOLEAN
  OBVIOUS
<1>2. Cardinality(rows) \in Cards
  BY DEF Cards
<1>3. split_counts(rows) \in [SplitTypes -> Cards]
  <2>1. \A p \in SplitTypes :
          Cardinality({row \in rows : row.split = p}) \in Cards
    BY DEF Cards
  <2> QED  BY <2>1 DEF split_counts
<1>4. AuditOf(lab, rows) =
        [is_clean |-> clean, total_sessions |-> Cardinality(rows),
         split_counts |-> split_counts(rows)]
  BY Zenon DEF AuditOf
<1> HIDE DEF clean
<1> QED  BY <1>1, <1>2, <1>3, <1>4 DEF Audits

LEMMA RowsSame ==
  ASSUME NEW spl, NEW lab, NEW lat, NEW v,
         \A row \in spl : lat[row.session] = lab[row.session]
  PROVE  RowsIn(spl, lat, v) = RowsIn(spl, lab, v)
BY DEF RowsIn

\* Steps that leave the splits alone, with a new session at most.
LEMMA SplitKept ==
  ASSUME TypeOK, SplitInv, splits' = splits, answers' = answers,
         spent' \in [{"partition", "train"} -> Nat],
         Len(versions') = Len(versions),
         contended'.partition = contended.partition,
         \A c \in Clients : Is(client'[c], "partition") => client'[c] = client[c],
         labelled' = labelled \/ (\E new \in SessionRow :
                                    labelled' = Append(labelled, new))
  PROVE  SplitInv'
<1> DEFINE lat == labelled'
           cl == client'
<1>1. /\ 1..Len(labelled) \subseteq 1..Len(lat)
      /\ \A s \in 1..Len(labelled) : lat[s] = labelled[s]
      /\ \A v : In(labelled, v) \subseteq In(lat, v)
  BY SessionAdded DEF TypeOK
<1> HIDE DEF lat, cl
<1>2. ASSUME NEW v
      PROVE  /\ RowsIn(splits, lat, v) = RowsIn(splits, labelled, v)
             /\ AuditOf(lat, RowsIn(splits, labelled, v)) =
                  AuditOf(labelled, RowsIn(splits, labelled, v))
  <2>1. \A row \in splits : lat[row.session] = labelled[row.session]
    BY <1>1 DEF SplitInv
  <2>2. \A row \in RowsIn(splits, labelled, v) :
          lat[row.session] = labelled[row.session]
    BY <2>1 DEF RowsIn
  <2> QED  BY <2>1, <2>2, RowsSame, AuditSame
<1>3. ASSUME NEW v, NEW a, AnswerOK(a, splits, labelled, v)
      PROVE  AnswerOK(a, splits, lat, v)
  BY <1>2, <1>3, Zenon DEF AnswerOK
<1>4. ASSUME NEW c \in Clients, Is(cl[c], "partition")
      PROVE  PartOK(cl[c], splits, lat, Len(versions), contended.partition)
  <2>1. cl[c] = client[c] /\ PartOK(client[c], splits, labelled, Len(versions),
                                    contended.partition)
    BY <1>4 DEF SplitInv, cl
  <2>2. \A rows : Belong(rows, labelled, cl[c].version) =>
                    Belong(rows, lat, cl[c].version)
    BY <1>1 DEF Belong
  <2> QED  BY <2>1, <2>2, <1>2 DEF PartOK
<1>5. Apart(cl, "partition", contended.partition)
  BY DEF SplitInv, Apart, cl
<1>6. \A row \in splits : row.session \in 1..Len(lat)
  BY <1>1 DEF SplitInv
<1> QED  BY <1>3, <1>4, <1>5, <1>6 DEF SplitInv, lat, cl

LEMMA RowsOfIn == \A v : RowsOf(v) = RowsIn(splits, labelled, v)
BY DEF RowsOf, RowsIn

LEMMA SessionsIn == \A v : SessionsOf(v) = In(labelled, v)
BY DEF SessionsOf, In

\* The rows that a partition draws.
LEMMA Drawn ==
  ASSUME NEW by \in Nat, NEW v, NEW f \in [In(labelled, v) -> SplitTypes]
  PROVE  /\ DatasetSplits(by, f) \in SUBSET SplitRow
         /\ Belong(DatasetSplits(by, f), labelled, v)
         /\ OneEach(DatasetSplits(by, f))
<1>1. In(labelled, v) \subseteq Nat
  BY DEF In
<1>2. ASSUME NEW row \in DatasetSplits(by, f)
      PROVE  /\ row \in SplitRow /\ row.session \in In(labelled, v)
             /\ row = [by |-> by, session |-> row.session,
                       split |-> f[row.session]]
  <2>1. PICK t \in In(labelled, v) : row = [by |-> by, session |-> t, split |-> f[t]]
    BY <1>2 DEF DatasetSplits
  <2> QED  BY <2>1, <1>1 DEF SplitRow
<1> QED  BY <1>2, Zenon DEF Belong, OneEach

LEMMA PartitionBegins ==
  ASSUME TypeOK, SplitInv, NEW c \in Clients, PartitionRead(c)
  PROVE  SplitInv' /\ contended' \in [add : SUBSET Nat, partition : SUBSET Nat]
<1>1. PICK v \in 1..Len(versions), ratios \in Ratios :
        /\ \E f \in partition(SessionsOf(v), ratios) :
              Ask(c, [op |-> "partition", version |-> v, found |-> Unset,
                      rows |-> DatasetSplits(spent.partition, f)])
        /\ Contend("partition", v)
  BY DEF PartitionRead
<1>2. PICK f \in partition(SessionsOf(v), ratios) :
        Ask(c, [op |-> "partition", version |-> v, found |-> Unset,
                rows |-> DatasetSplits(spent.partition, f)])
  BY <1>1
<1> DEFINE drawn == DatasetSplits(spent.partition, f)
           q == [op |-> "partition", version |-> v, found |-> Unset,
                 rows |-> drawn]
           cl == client'
           now == contended'.partition
<1>3. f \in [In(labelled, v) -> SplitTypes]
  BY <1>2, SessionsIn DEF partition
<1>4. drawn \in SUBSET SplitRow /\ Belong(drawn, labelled, v) /\ OneEach(drawn)
  <2>1. spent.partition \in Nat  BY DEF SplitInv
  <2> QED  BY <2>1, <1>3, Drawn
<1>5. v \in Nat
  OBVIOUS
<1>6. /\ client[c] = Unset /\ cl[c] = q
      /\ \A d \in Clients \ {c} : cl[d] = client[d]
  BY <1>2, AskedOnce
<1>7. /\ contended' \in [add : SUBSET Nat, partition : SUBSET Nat]
      /\ contended.partition \subseteq now
      /\ (\E d \in Clients : Is(client[d], "partition") /\ client[d].version = v)
           => v \in now
  BY <1>1, <1>5, ContendMore
<1>8. /\ labelled' = labelled /\ versions' = versions /\ splits' = splits
      /\ answers' = answers
      /\ spent' \in [{"partition", "train"} -> Nat]
  BY DEF PartitionRead, SplitInv
<1> HIDE DEF drawn, cl, now
<1>9. ASSUME NEW d \in Clients, Is(cl[d], "partition")
      PROVE  PartOK(cl[d], splits, labelled, Len(versions), now)
  <2>1. CASE d = c
    <3>1. q \in PartRequest
      BY <1>4, <1>5 DEF PartRequest
    <3>2. PartOK(q, splits, labelled, Len(versions), now)
      BY <3>1, <1>4 DEF PartOK
    <3> QED  BY <3>2, <2>1, <1>6
  <2>2. CASE d # c
    <3>1. PartOK(client[d], splits, labelled, Len(versions), contended.partition)
      BY <2>2, <1>6, <1>9 DEF SplitInv
    <3> QED  BY <3>1, <2>2, <1>6, <1>7 DEF PartOK
  <2> QED  BY <2>1, <2>2
<1>10. Apart(cl, "partition", now)
  <2> SUFFICES ASSUME NEW d \in Clients, NEW e \in Clients,
                      Is(cl[d], "partition"), Is(cl[e], "partition"),
                      cl[d].version = cl[e].version, d # e
               PROVE  cl[d].version \in now
    BY DEF Apart
  <2>1. CASE d # c /\ e # c
    BY <2>1, <1>6, <1>7 DEF SplitInv, Apart
  <2>2. CASE d = c \/ e = c
    BY <2>2, <1>6, <1>7
  <2> QED  BY <2>1, <2>2
<1>11. \A w \in 1..Len(versions) :
         w \notin now => AnswerOK(answers[w], splits, labelled, w)
  BY <1>7 DEF SplitInv
<1>12. SplitInv'
  BY <1>8, <1>9, <1>10, <1>11 DEF SplitInv, cl, now
<1> QED  BY <1>7, <1>12

LEMMA PartitionFinds ==
  ASSUME TypeOK, SplitInv, NEW c \in Clients, PartitionFind(c)
  PROVE  SplitInv'
<1> DEFINE q == client[c]
           cl == client'
           found == RowsIn(splits, labelled, q.version)
           over == contended.partition
<1>1. /\ Is(q, "partition") /\ cl = [client EXCEPT ![c].found = found]
      /\ labelled' = labelled /\ versions' = versions /\ splits' = splits
      /\ answers' = answers /\ spent' = spent /\ contended' = contended
  BY RowsOfIn DEF PartitionFind, Serving, Is
<1>2. PartOK(q, splits, labelled, Len(versions), over)
  BY <1>1 DEF SplitInv
<1>3. /\ cl[c] = [q EXCEPT !.found = found]
      /\ \A d \in Clients \ {c} : cl[d] = client[d]
  BY <1>1 DEF TypeOK
<1>4. found \in SUBSET SplitRow /\ Belong(found, labelled, q.version)
  BY DEF SplitInv, RowsIn, Belong, In
<1> HIDE DEF found, cl
<1>5. /\ cl[c] \in PartRequest /\ cl[c].version = q.version
      /\ cl[c].rows = q.rows /\ cl[c].found = found
      /\ cl[c].op = "partition"
  <2>1. q \in PartRequest  BY <1>2 DEF PartOK
  <2> HIDE DEF q
  <2> QED  BY <2>1, <1>3, <1>4 DEF PartRequest
<1>6. PartOK(cl[c], splits, labelled, Len(versions), over)
  BY <1>2, <1>4, <1>5 DEF PartOK, found
<1>7. \A d \in Clients : Is(cl[d], "partition") =>
        PartOK(cl[d], splits, labelled, Len(versions), over)
  BY <1>3, <1>6 DEF SplitInv
<1>8. Apart(cl, "partition", over)
  <2>1. \A d \in Clients : Is(cl[d], "partition") =>
          Is(client[d], "partition") /\ client[d].version = cl[d].version
    BY <1>1, <1>3, <1>5
  <2> QED  BY <2>1 DEF SplitInv, Apart
<1> QED  BY <1>1, <1>7, <1>8 DEF SplitInv, cl

LEMMA PartitionCommits ==
  ASSUME TypeOK, SplitInv, NEW c \in Clients, PartitionCommit(c)
  PROVE  SplitInv'
<1> DEFINE q == client[c]
           v == q.version
           cl == client'
           over == contended.partition
           spl == splits'
           ans == answers'
           audit == AuditOf(labelled, q.rows)
<1>1. /\ Is(q, "partition") /\ q.found # Unset
      /\ spl = (splits \ q.found) \cup q.rows
      /\ ans = [answers EXCEPT ![v] = audit] /\ Answer(c)
      /\ labelled' = labelled /\ versions' = versions
      /\ spent' = spent /\ contended' = contended
  BY Zenon DEF PartitionCommit, Serving, Is, AuditOf, audit_leakage
<1>2. PartOK(q, splits, labelled, Len(versions), over)
  BY <1>1 DEF SplitInv
<1>3. /\ q.rows \in SUBSET SplitRow /\ v \in 1..Len(versions)
      /\ Belong(q.rows, labelled, v) /\ OneEach(q.rows)
      /\ Belong(q.found, labelled, v)
      /\ v \notin over => q.found = RowsIn(splits, labelled, v)
  BY <1>1, <1>2 DEF PartOK, PartRequest
<1>4. /\ cl[c] = Unset /\ \A d \in Clients \ {c} : cl[d] = client[d]
  BY <1>1, Answered
<1>5. audit \in Audits
  BY <1>3, AuditType
<1> HIDE DEF audit
<1>6. /\ ans \in Seq({Unset} \cup Audits) /\ Len(ans) = Len(answers)
      /\ ans[v] = audit
      /\ \A w \in 1..Len(versions) : w # v => ans[w] = answers[w]
  <2>1. answers \in Seq({Unset} \cup Audits) /\ Len(answers) = Len(versions)
    BY DEF SplitInv
  <2> HIDE DEF ans, v
  <2> QED  BY <2>1, <1>1, <1>3, <1>5, ExceptSeq
<1> HIDE DEF q, cl, spl, ans
<1>7. /\ spl \in SUBSET SplitRow
      /\ \A row \in spl : row.session \in 1..Len(labelled)
  BY <1>1, <1>3 DEF SplitInv, Belong, In
<1>8. ASSUME v \notin over PROVE RowsIn(spl, labelled, v) = q.rows
  BY <1>1, <1>3, <1>8 DEF RowsIn, Belong, In
<1>9. ASSUME NEW w, w # v
      PROVE  RowsIn(spl, labelled, w) = RowsIn(splits, labelled, w)
  BY <1>1, <1>3, <1>9 DEF RowsIn, Belong, In
<1>10. ASSUME NEW w \in 1..Len(versions), w \notin over
       PROVE  AnswerOK(ans[w], spl, labelled, w)
  <2>1. CASE w = v
    BY <2>1, <1>3, <1>6, <1>8, <1>10 DEF AnswerOK, audit
  <2>2. CASE w # v
    <3>1. AnswerOK(answers[w], splits, labelled, w)
      BY <1>10 DEF SplitInv
    <3> QED  BY <3>1, <2>2, <1>6, <1>9, Zenon DEF AnswerOK
  <2> QED  BY <2>1, <2>2
<1>11. ASSUME NEW d \in Clients, Is(cl[d], "partition")
       PROVE  PartOK(cl[d], spl, labelled, Len(versions), over)
  <2>1. /\ d # c /\ cl[d] = client[d]
        /\ PartOK(client[d], splits, labelled, Len(versions), over)
    BY <1>4, <1>11 DEF Is, SplitInv
  <2>2. client[d].version = v => v \in over
    BY <2>1, <1>1, <1>11 DEF SplitInv, Apart, q
  <2>3. client[d].version # v =>
          RowsIn(spl, labelled, client[d].version) =
            RowsIn(splits, labelled, client[d].version)
    BY <1>9
  <2> QED  BY <2>1, <2>2, <2>3 DEF PartOK
<1>12. Apart(cl, "partition", over)
  BY <1>4 DEF SplitInv, Apart, Is
<1> QED  BY <1>1, <1>6, <1>7, <1>10, <1>11, <1>12 DEF SplitInv, cl, spl, ans

LEMMA SplitVersion ==
  ASSUME TypeOK, SplitInv, VersionInsert, Len(versions') = Len(versions) + 1
  PROVE  SplitInv'
<1> DEFINE n == Len(versions) + 1
           ans == answers'
<1>1. /\ ans = Append(answers, Unset) /\ labelled' = labelled
      /\ splits' = splits /\ client' = client /\ spent' = spent
      /\ contended' = contended
  BY DEF VersionInsert
<1>2. /\ answers \in Seq({Unset} \cup Audits) /\ Len(answers) = Len(versions)
      /\ Len(versions) \in Nat
  BY DEF TypeOK, SplitInv
<1>3. /\ ans \in Seq({Unset} \cup Audits) /\ Len(ans) = n /\ ans[n] = Unset
      /\ \A w \in 1..Len(versions) : ans[w] = answers[w]
      /\ 1..n = (1..Len(versions)) \cup {n} /\ n \notin 1..Len(versions)
  BY <1>1, <1>2
<1> HIDE DEF ans, n
<1>4. RowsIn(splits, labelled, n) = {}
  BY <1>3 DEF RowsIn, SplitInv, TypeOK
<1>5. AnswerOK(Unset, splits, labelled, n)
  BY <1>4 DEF AnswerOK, OneEach
<1>6. \A w \in 1..n : w \notin contended.partition =>
        AnswerOK(ans[w], splits, labelled, w)
  BY <1>3, <1>5 DEF SplitInv
<1>7. \A c \in Clients : Is(client[c], "partition") =>
        PartOK(client[c], splits, labelled, n, contended.partition)
  BY <1>3 DEF SplitInv, PartOK
<1>8. Len(versions') = n
  BY DEF n
<1> QED  BY <1>1, <1>3, <1>6, <1>7, <1>8 DEF SplitInv, ans

-----------------------------------------------------------------------------
(* Training sets.                                                          *)

\* Steps that are not about training, with a new session at most.
LEMMA TrainKept ==
  ASSUME TypeOK, TrainInv, trained' = trained,
         \A c \in Clients : Is(client'[c], "train") => client'[c] = client[c],
         labelled' = labelled \/ (\E new \in SessionRow :
                                    labelled' = Append(labelled, new))
  PROVE  TrainInv'
<1> DEFINE lat == labelled'
           cl == client'
<1>1. /\ 1..Len(labelled) \subseteq 1..Len(lat)
      /\ \A s \in 1..Len(labelled) : lat[s] = labelled[s]
      /\ \A v : In(labelled, v) \subseteq In(lat, v)
  BY SessionAdded DEF TypeOK
<1>2. \A c \in Clients : Is(cl[c], "train") => cl[c] = client[c]
  OBVIOUS
<1> HIDE DEF lat, cl
<1>3. \A c \in Clients : Is(cl[c], "train") => TrainOK(cl[c], lat)
  BY <1>1, <1>2 DEF TrainInv, TrainOK
<1>4. ASSUME NEW set \in trained PROVE SetOK(set, lat)
  <2>1. SetOK(set, labelled)
    BY DEF TrainInv
  <2> SUFFICES ASSUME NEW p \in split_names
               PROVE  /\ set.hashed[p] \subseteq 1..Len(lat)
                      /\ set.groups[p] =
                           {s \in set.hashed[p] : lat[s].class \in Supervised}
    BY <2>1 DEF SetOK
  <2>2. /\ set.hashed[p] \subseteq 1..Len(labelled)
        /\ set.groups[p] =
             {s \in set.hashed[p] : labelled[s].class \in Supervised}
    BY <2>1 DEF SetOK
  <2> QED  BY <2>2, <1>1
<1> QED  BY <1>3, <1>4 DEF TrainInv, lat, cl

LEMMA TrainingReads ==
  ASSUME TypeOK, SplitInv, TrainInv, NEW c \in Clients, TrainingRead(c)
  PROVE  TrainInv'
<1>1. PICK v \in 1..Len(versions) :
        LET rows == {row \in RowsOf(v) : row.split \in split_names}
            listed == [p \in split_names |->
                        {row.session : row \in {x \in rows : x.split = p}}]
        IN  /\ audit_session_isolation(listed)
            /\ \E last \in [{row.session : row \in rows} -> split_names] :
                  /\ \A s \in DOMAIN last :
                       \E row \in rows : row.session = s /\ row.split = last[s]
                  /\ Ask(c, [op |-> "train", version |-> v, listed |-> listed,
                             last |-> last])
  BY DEF TrainingRead
<1> DEFINE rows == {row \in RowsOf(v) : row.split \in split_names}
           listed == [p \in split_names |->
                       {row.session : row \in {x \in rows : x.split = p}}]
<1>2. PICK last \in [{row.session : row \in rows} -> split_names] :
        /\ \A s \in DOMAIN last :
             \E row \in rows : row.session = s /\ row.split = last[s]
        /\ Ask(c, [op |-> "train", version |-> v, listed |-> listed,
                   last |-> last])
  BY <1>1, Zenon
<1> DEFINE q == [op |-> "train", version |-> v, listed |-> listed, last |-> last]
           cl == client'
<1>3. \A row \in rows : row.session \in In(labelled, v)
  BY RowsOfIn DEF RowsIn, SplitInv, In
<1>4. audit_session_isolation(listed)
  BY <1>1, Zenon
<1>5. \A p \in split_names : listed[p] \subseteq In(labelled, v) \cap DOMAIN last
  BY <1>2, <1>3
<1>6. \A s \in DOMAIN last : last[s] \in split_names /\ s \in listed[last[s]]
  <2> TAKE s \in DOMAIN last
  <2>1. PICK row \in rows : row.session = s /\ row.split = last[s]
    BY <1>2
  <2>2. last[s] \in split_names
    BY <2>1
  <2> QED  BY <2>1, <2>2
<1>7. q.listed = listed /\ q.last = last /\ q.version = v
  OBVIOUS
<1>8. cl[c] = q /\ \A d \in Clients \ {c} : cl[d] = client[d]
  BY <1>2, AskedOnce
<1>9. labelled' = labelled /\ trained' = trained
  BY DEF TrainingRead
<1> HIDE DEF rows, listed, q, cl
<1>10. TrainOK(q, labelled)
  BY <1>4, <1>5, <1>6, <1>7 DEF TrainOK, audit_session_isolation
<1>11. \A d \in Clients : Is(cl[d], "train") => TrainOK(cl[d], labelled)
  BY <1>8, <1>10 DEF TrainInv
<1> QED  BY <1>9, <1>11 DEF TrainInv, cl

LEMMA TrainingLoads ==
  ASSUME TypeOK, TrainInv, NEW c \in Clients, TrainingLoad(c)
  PROVE  TrainInv'
<1> DEFINE q == client[c]
           cl == client'
           usable == {s \in SessionsOf(q.version) \cap DOMAIN q.last :
                        labelled[s].class \in Supervised}
           groups == [p \in split_names |-> {s \in usable : q.last[s] = p}]
           set == [hashed |-> q.listed, groups |-> groups]
<1>1. /\ Is(q, "train") /\ Answer(c) /\ labelled' = labelled
      /\ trained' = trained \cup {set}
  BY DEF TrainingLoad, Serving, Is
<1>2. TrainOK(q, labelled)
  BY <1>1 DEF TrainInv
<1>3. cl[c] = Unset /\ \A d \in Clients \ {c} : cl[d] = client[d]
  BY <1>1, Answered
<1>4. \A p \in split_names :
        groups[p] = {s \in q.listed[p] : labelled[s].class \in Supervised}
  BY <1>2, SessionsIn DEF TrainOK
<1>5. set.hashed = q.listed /\ set.groups = groups
  OBVIOUS
<1>6. \A p \in split_names : q.listed[p] \subseteq 1..Len(labelled)
  BY <1>2 DEF TrainOK, In
<1> HIDE DEF q, cl, groups, set
<1>7. SetOK(set, labelled)
  BY <1>2, <1>4, <1>5, <1>6 DEF SetOK, TrainOK
<1>8. \A d \in Clients : Is(cl[d], "train") => TrainOK(cl[d], labelled)
  BY <1>3 DEF TrainInv, Is
<1> QED  BY <1>1, <1>7, <1>8 DEF TrainInv, cl

-----------------------------------------------------------------------------
(* The datasets' invariant.                                                *)

LEMMA DatasetStarts == DatasetInit => DatasetInv
<1> SUFFICES ASSUME DatasetInit PROVE DatasetInv
  OBVIOUS
<1>1. /\ versions = <<>> /\ labelled = <<>> /\ answers = <<>>
      /\ splits = {} /\ trained = {} /\ families = {}
      /\ client = [c \in Clients |-> Unset]
      /\ contended = [add |-> {}, partition |-> {}]
      /\ spent = [partition |-> 0, train |-> 0]
  BY DEF DatasetInit
<1>2. \A c \in Clients : \A op : ~ Is(client[c], op)
  BY <1>1 DEF Is
<1>3. TypeOK
  BY <1>1, <1>2 DEF TypeOK
<1>4. AddInv
  <2>1. Adding(client) = {}
    BY <1>2 DEF Adding
  <2>2. Len(labelled) + Cardinality(Adding(client)) <= MaxSessions
    <3>1. Len(labelled) = 0 /\ Cardinality(Adding(client)) = 0
      BY <1>1, <2>1, FS_EmptySet
    <3> QED  BY <3>1, DatasetConstants
  <2> QED  BY <1>1, <1>2, <2>2 DEF AddInv, Apart
<1>5. spent \in [{"partition", "train"} -> Nat]
  BY <1>1
<1>6. SplitInv
  BY <1>1, <1>2, <1>5 DEF SplitInv, Apart
<1>7. TrainInv
  BY <1>1, <1>2 DEF TrainInv
<1> QED  BY <1>3, <1>4, <1>6, <1>7 DEF DatasetInv

\* A request of one kind that begins or ends is none of another kind.
LEMMA OthersKept ==
  ASSUME TypeOK, NEW c \in Clients, NEW kind, NEW q,
         (Ask(c, q) /\ q.op = kind) \/ Answer(c), NEW op, op # kind
  PROVE  \A d \in Clients : Is(client'[d], op) => client'[d] = client[d]
BY AskedOnce, Answered DEF Is

LEMMA TypeKept ==
  ASSUME TypeOK, versions' = versions, labelled' = labelled,
         families' \subseteq Families, DOMAIN client' = Clients,
         client' = [d \in DOMAIN client' |-> client'[d]],
         contended' \in [add : SUBSET Nat, partition : SUBSET Nat],
         \A c \in Clients : Is(client'[c], "family") =>
           client'[c] = client[c] \/ client'[c].name \in Families
  PROVE  TypeOK'
BY DEF TypeOK

LEMMA FoundKept ==
  ASSUME TypeOK, SplitInv, NEW c \in Clients, PartitionFind(c)
  PROVE  /\ \A d \in Clients \ {c} : client'[d] = client[d]
         /\ \A op \in {"add", "train", "family"} : ~ Is(client'[c], op)
         /\ DOMAIN client' = Clients
         /\ client' = [d \in DOMAIN client' |-> client'[d]]
<1> DEFINE q == client[c]
<1>1. /\ Is(q, "partition")
      /\ client' = [client EXCEPT ![c].found = RowsOf(q.version)]
  BY DEF PartitionFind, Serving, Is
<1>2. /\ client'[c] = [q EXCEPT !.found = RowsOf(q.version)]
      /\ \A d \in Clients \ {c} : client'[d] = client[d]
      /\ DOMAIN client' = Clients
      /\ client' = [d \in DOMAIN client' |-> client'[d]]
  BY <1>1 DEF TypeOK
<1>3. q \in PartRequest
  BY <1>1 DEF SplitInv, PartOK
<1> HIDE DEF q
<1>4. client'[c].op = "partition"
  BY <1>2, <1>3 DEF PartRequest
<1> QED  BY <1>2, <1>4 DEF Is

LEMMA DatasetInductive == DatasetInv /\ [DatasetNext]_datasetVars => DatasetInv'
<1> SUFFICES ASSUME DatasetInv, [DatasetNext]_datasetVars PROVE DatasetInv'
  OBVIOUS
<1>1. TypeOK /\ AddInv /\ SplitInv /\ TrainInv
  BY DEF DatasetInv
<1>2. spent \in [{"partition", "train"} -> Nat]
  BY <1>1 DEF SplitInv
<1>3. ASSUME UNCHANGED datasetVars PROVE DatasetInv'
  <2>1. /\ versions' = versions /\ labelled' = labelled /\ answers' = answers
        /\ splits' = splits /\ trained' = trained /\ families' = families
        /\ client' = client /\ contended' = contended /\ spent' = spent
    BY <1>3 DEF datasetVars
  <2>2. TypeOK'
    BY <1>1, <2>1 DEF TypeOK
  <2> QED  BY <1>1, <1>2, <2>1, <2>2, AddKept, SplitKept, TrainKept DEF DatasetInv
<1>4. ASSUME VersionInsert PROVE DatasetInv'
  <2>1. /\ AddInv' /\ versions' \in Seq(VersionRow)
        /\ Len(versions') = Len(versions) + 1
    BY <1>1, <1>4, AddVersion
  <2>2. /\ labelled' = labelled /\ families' = families /\ client' = client
        /\ contended' = contended /\ trained' = trained
    BY <1>4 DEF VersionInsert
  <2>3. SplitInv'
    BY <1>1, <1>4, <2>1, SplitVersion
  <2>4. TypeOK'
    <3>1. 1..Len(versions) \subseteq 1..Len(versions')
      BY <1>1, <2>1 DEF TypeOK
    <3> QED  BY <1>1, <2>1, <2>2, <3>1 DEF TypeOK
  <2> QED  BY <1>1, <2>1, <2>2, <2>3, <2>4, TrainKept DEF DatasetInv
<1>5. ASSUME NEW c \in Clients, FamilyLookup(c) \/ FamilyInsert(c)
      PROVE  DatasetInv'
  <2>1. /\ versions' = versions /\ labelled' = labelled /\ answers' = answers
        /\ splits' = splits /\ trained' = trained /\ families' \subseteq Families
        /\ contended' = contended /\ spent' = spent
    <3>1. families' \subseteq Families
      BY <1>1, <1>5 DEF FamilyLookup, FamilyInsert, TypeOK, Serving, Is
    <3> QED  BY <3>1, <1>5 DEF FamilyLookup, FamilyInsert
  <2>2. \/ \E q : Ask(c, q) /\ q.op = "family" /\ q.name \in Families
        \/ Answer(c)
    <3>1. CASE FamilyLookup(c)
      <4>1. PICK name \in Families : Ask(c, [op |-> "family", name |-> name])
        BY <3>1 DEF FamilyLookup
      <4> DEFINE q == [op |-> "family", name |-> name]
      <4>2. Ask(c, q) /\ q.op = "family" /\ q.name \in Families
        BY <4>1
      <4> QED  BY <4>2, Zenon
    <3>2. CASE FamilyInsert(c)
      BY <3>2 DEF FamilyInsert
    <3> QED  BY <3>1, <3>2, <1>5
  <2>3. \A op \in {"add", "partition", "train"}, d \in Clients :
          Is(client'[d], op) => client'[d] = client[d]
    BY <1>1, <2>2, OthersKept
  <2>4. /\ DOMAIN client' = Clients
        /\ client' = [d \in DOMAIN client' |-> client'[d]]
    BY <1>1, <2>2, AskedOnce, Answered
  <2>5. TypeOK'
    <3>1. \A d \in Clients : Is(client'[d], "family") =>
            client'[d] = client[d] \/ client'[d].name \in Families
      BY <1>1, <2>2, AskedOnce, Answered DEF Is
    <3> QED  BY <3>1, <1>1, <2>1, <2>4, TypeKept DEF TypeOK
  <2> QED
    BY <1>1, <1>2, <2>1, <2>3, <2>5, AddKept, SplitKept, TrainKept DEF DatasetInv
<1>6. ASSUME NEW c \in Clients, SessionRead(c) PROVE DatasetInv'
  <2>1. AddInv' /\ contended' \in [add : SUBSET Nat, partition : SUBSET Nat]
    BY <1>1, <1>6, AddBegins
  <2>2. /\ versions' = versions /\ labelled' = labelled /\ answers' = answers
        /\ splits' = splits /\ trained' = trained /\ families' = families
        /\ spent' = spent
    BY <1>6 DEF SessionRead
  <2>8. PICK v \in 1..Len(versions), new \in Registrations :
          /\ Ask(c, [op |-> "add", version |-> v, session |-> new,
                     read |-> versions[v]])
          /\ Contend("add", v)
    BY <1>6 DEF SessionRead
  <2> DEFINE q == [op |-> "add", version |-> v, session |-> new,
                   read |-> versions[v]]
  <2>3. Ask(c, q) /\ q.op = "add" /\ Contend("add", v) /\ v \in Nat
    BY <2>8
  <2> HIDE DEF q
  <2>4. \A op \in {"partition", "train", "family"}, d \in Clients :
          Is(client'[d], op) => client'[d] = client[d]
    BY <1>1, <2>3, OthersKept
  <2>5. contended'.partition = contended.partition
    BY <1>1, <2>3, ContendMore
  <2>6. /\ DOMAIN client' = Clients
        /\ client' = [d \in DOMAIN client' |-> client'[d]]
    BY <1>1, <2>3, AskedOnce
  <2>7. TypeOK'
    BY <1>1, <2>1, <2>2, <2>4, <2>6, TypeKept DEF TypeOK
  <2> QED
    BY <1>1, <1>2, <2>1, <2>2, <2>4, <2>5, <2>7, SplitKept, TrainKept
    DEF DatasetInv
<1>7. ASSUME NEW c \in Clients, SessionCommit(c) PROVE DatasetInv'
  <2> DEFINE new == DatasetSession(client[c].version, client[c].session)
  <2>1. /\ AddInv' /\ client[c].version \in 1..Len(versions)
        /\ new \in SessionRow /\ labelled' = Append(labelled, new)
        /\ labelled' \in Seq(SessionRow)
        /\ versions' \in Seq(VersionRow) /\ Len(versions') = Len(versions)
    BY <1>1, <1>7, AddCommits
  <2>2. /\ answers' = answers /\ splits' = splits /\ trained' = trained
        /\ families' = families /\ spent' = spent /\ contended' = contended
        /\ Answer(c)
    BY <1>7 DEF SessionCommit
  <2>3. \A op \in {"partition", "train", "family"}, d \in Clients :
          Is(client'[d], op) => client'[d] = client[d]
    BY <1>1, <2>2, OthersKept
  <2>4. /\ DOMAIN client' = Clients
        /\ client' = [d \in DOMAIN client' |-> client'[d]]
    BY <1>1, <2>2, Answered
  <2>5. new.version = client[c].version
    BY DEF DatasetSession
  <2> HIDE DEF new
  <2>6. \A t \in 1..Len(labelled') : labelled'[t].version \in 1..Len(versions)
    BY <1>1, <2>1, <2>5 DEF TypeOK
  <2>7. TypeOK'
    BY <1>1, <2>1, <2>2, <2>3, <2>4, <2>6 DEF TypeOK
  <2> QED
    BY <1>1, <1>2, <2>1, <2>2, <2>3, <2>7, SplitKept, TrainKept DEF DatasetInv
<1>8. ASSUME NEW c \in Clients, PartitionRead(c) PROVE DatasetInv'
  <2>1. SplitInv' /\ contended' \in [add : SUBSET Nat, partition : SUBSET Nat]
    BY <1>1, <1>8, PartitionBegins
  <2>2. /\ versions' = versions /\ labelled' = labelled
        /\ trained' = trained /\ families' = families
    BY <1>8 DEF PartitionRead
  <2>8. PICK v \in 1..Len(versions), ratios \in Ratios :
          /\ \E f \in partition(SessionsOf(v), ratios) :
                Ask(c, [op |-> "partition", version |-> v, found |-> Unset,
                        rows |-> DatasetSplits(spent.partition, f)])
          /\ Contend("partition", v)
    BY <1>8 DEF PartitionRead
  <2>9. PICK f \in partition(SessionsOf(v), ratios) :
          Ask(c, [op |-> "partition", version |-> v, found |-> Unset,
                  rows |-> DatasetSplits(spent.partition, f)])
    BY <2>8
  <2> DEFINE q == [op |-> "partition", version |-> v, found |-> Unset,
                   rows |-> DatasetSplits(spent.partition, f)]
  <2>3. Ask(c, q) /\ q.op = "partition" /\ Contend("partition", v) /\ v \in Nat
    BY <2>8, <2>9
  <2> HIDE DEF q
  <2>4. \A op \in {"add", "train", "family"}, d \in Clients :
          Is(client'[d], op) => client'[d] = client[d]
    BY <1>1, <2>3, OthersKept
  <2>5. contended'.add = contended.add
    BY <1>1, <2>3, ContendMore
  <2>6. /\ DOMAIN client' = Clients
        /\ client' = [d \in DOMAIN client' |-> client'[d]]
    BY <1>1, <2>3, AskedOnce
  <2>7. TypeOK'
    BY <1>1, <2>1, <2>2, <2>4, <2>6, TypeKept DEF TypeOK
  <2> QED
    BY <1>1, <2>1, <2>2, <2>4, <2>5, <2>7, AddKept, TrainKept DEF DatasetInv
<1>9. ASSUME NEW c \in Clients, PartitionFind(c) PROVE DatasetInv'
  <2>1. SplitInv'
    BY <1>1, <1>9, PartitionFinds
  <2>2. /\ versions' = versions /\ labelled' = labelled
        /\ trained' = trained /\ families' = families /\ contended' = contended
    BY <1>9 DEF PartitionFind
  <2>3. /\ \A d \in Clients \ {c} : client'[d] = client[d]
        /\ \A op \in {"add", "train", "family"} : ~ Is(client'[c], op)
        /\ DOMAIN client' = Clients
        /\ client' = [d \in DOMAIN client' |-> client'[d]]
    BY <1>1, <1>9, FoundKept
  <2>4. TypeOK'
    BY <1>1, <2>2, <2>3, TypeKept DEF TypeOK
  <2> QED
    BY <1>1, <2>1, <2>2, <2>3, <2>4, AddKept, TrainKept DEF DatasetInv
<1>10. ASSUME NEW c \in Clients, PartitionCommit(c) PROVE DatasetInv'
  <2>1. SplitInv'
    BY <1>1, <1>10, PartitionCommits
  <2>2. /\ versions' = versions /\ labelled' = labelled /\ Answer(c)
        /\ trained' = trained /\ families' = families /\ contended' = contended
    BY <1>10 DEF PartitionCommit
  <2>3. \A op \in {"add", "train", "family"}, d \in Clients :
          Is(client'[d], op) => client'[d] = client[d]
    BY <1>1, <2>2, OthersKept
  <2>4. /\ DOMAIN client' = Clients
        /\ client' = [d \in DOMAIN client' |-> client'[d]]
    BY <1>1, <2>2, Answered
  <2>5. TypeOK'
    BY <1>1, <2>2, <2>3, <2>4, TypeKept DEF TypeOK
  <2> QED
    BY <1>1, <2>1, <2>2, <2>3, <2>5, AddKept, TrainKept DEF DatasetInv
<1>11. ASSUME NEW c \in Clients, TrainingRead(c) PROVE DatasetInv'
  <2>1. TrainInv'
    BY <1>1, <1>11, TrainingReads
  <2>2. /\ versions' = versions /\ labelled' = labelled /\ answers' = answers
        /\ splits' = splits /\ families' = families /\ contended' = contended
        /\ spent' = [spent EXCEPT !.train = @ + 1]
    BY <1>11 DEF TrainingRead
  <2>3. PICK q : Ask(c, q) /\ q.op = "train"
    BY <1>11 DEF TrainingRead
  <2>4. \A op \in {"add", "partition", "family"}, d \in Clients :
          Is(client'[d], op) => client'[d] = client[d]
    BY <1>1, <2>3, OthersKept
  <2>5. /\ DOMAIN client' = Clients
        /\ client' = [d \in DOMAIN client' |-> client'[d]]
    BY <1>1, <2>3, AskedOnce
  <2>6. TypeOK'
    BY <1>1, <2>2, <2>4, <2>5, TypeKept DEF TypeOK
  <2>7. spent' \in [{"partition", "train"} -> Nat]
    BY <1>2, <2>2
  <2> QED
    BY <1>1, <2>1, <2>2, <2>4, <2>6, <2>7, AddKept, SplitKept DEF DatasetInv
<1>12. ASSUME NEW c \in Clients, TrainingLoad(c) PROVE DatasetInv'
  <2>1. TrainInv'
    BY <1>1, <1>12, TrainingLoads
  <2>2. /\ versions' = versions /\ labelled' = labelled /\ answers' = answers
        /\ splits' = splits /\ families' = families /\ contended' = contended
        /\ spent' = spent /\ Answer(c)
    BY <1>12 DEF TrainingLoad
  <2>3. \A op \in {"add", "partition", "family"}, d \in Clients :
          Is(client'[d], op) => client'[d] = client[d]
    BY <1>1, <2>2, OthersKept
  <2>4. /\ DOMAIN client' = Clients
        /\ client' = [d \in DOMAIN client' |-> client'[d]]
    BY <1>1, <2>2, Answered
  <2>5. TypeOK'
    BY <1>1, <2>2, <2>3, <2>4, TypeKept DEF TypeOK
  <2> QED
    BY <1>1, <1>2, <2>1, <2>2, <2>3, <2>5, AddKept, SplitKept DEF DatasetInv
<1> QED
  BY <1>3, <1>4, <1>5, <1>6, <1>7, <1>8, <1>9, <1>10, <1>11, <1>12
  DEF DatasetNext

LEMMA DatasetInvariance == DatasetSpec => []DatasetInv
<1> QED  BY DatasetStarts, DatasetInductive, PTL DEF DatasetSpec

(***************************************************************************)
(* CountsAgree.  However additions overlap, the counters that              *)
(* create_session writes back agree with each other and never exceed what  *)
(* is registered, and they are exact where no two additions overlapped.    *)
(***************************************************************************)
THEOREM CountsAgree == DatasetSpec => []DatasetCounts
<1>1. ASSUME DatasetInv PROVE DatasetCounts
  <2> SUFFICES ASSUME NEW v \in 1..Len(versions)
               PROVE  LET row == versions[v]
                          dist == row.class_distribution
                          counted == get_version_manifest(v)
                      IN  /\ row.session_count = Cardinality(Units(dist))
                          /\ row.session_count <= counted.total_sessions
                          /\ \A k \in Classes : dist[k] <= counted.class_distribution[k]
                          /\ v \notin contended.add =>
                               /\ row.session_count = counted.total_sessions
                               /\ dist = counted.class_distribution
    BY DEF DatasetCounts, Units
  <2> DEFINE row == versions[v]
             dist == row.class_distribution
             counted == get_version_manifest(v)
  <2>1. /\ counted.total_sessions = Cardinality(In(labelled, v))
        /\ counted.class_distribution =
             [k \in Classes |-> Cardinality(InClass(labelled, v, k))]
    BY SessionsIn DEF get_version_manifest, InClass
  <2>2. /\ Below(row, labelled, v)
        /\ v \notin contended.add => Exact(row, labelled, v)
    BY <1>1 DEF DatasetInv, AddInv
  <2>3. dist \in [Classes -> Nat]
    <3>1. versions \in Seq(VersionRow)
      BY <1>1 DEF DatasetInv, TypeOK
    <3>2. row \in VersionRow
      BY <3>1, ElementOfSeq
    <3> QED  BY <3>2 DEF VersionRow
  <2> HIDE DEF row, counted
  <2>4. ASSUME v \notin contended.add PROVE dist = counted.class_distribution
    BY <2>1, <2>2, <2>3, <2>4 DEF Exact
  <2>5. /\ row.session_count = Cardinality(Units(dist))
        /\ row.session_count <= counted.total_sessions
        /\ \A k \in Classes : dist[k] <= counted.class_distribution[k]
        /\ v \notin contended.add => row.session_count = counted.total_sessions
    BY <2>1, <2>2 DEF Below, Exact
  <2> QED  BY <2>4, <2>5 DEF row, counted
<1> QED  BY <1>1, DatasetInvariance, PTL

\* Rows of different sessions are as many as their sessions.
LEMMA OneRowEach ==
  ASSUME NEW rows, NEW n \in Nat, \A row \in rows : row.session \in 1..n,
         OneEach(rows)
  PROVE  Cardinality({row.session : row \in rows}) = Cardinality(rows)
<1> DEFINE T == {row.session : row \in rows}
           f == [row \in rows |-> row.session]
<1>1. f \in Bijection(rows, T)
  BY DEF Bijection, Injection, Surjection, IsInjective, OneEach
<1>2. f \in Injection(rows, 1..n)
  BY DEF Injection, IsInjective, OneEach
<1>3. IsFiniteSet(rows)
  BY <1>2, UpTo, FS_Injection
<1>4. ExistsBijection(rows, T)
  BY <1>1 DEF ExistsBijection
<1> HIDE DEF T, f
<1>5. Cardinality(T) = Cardinality(rows)
  BY <1>3, <1>4, FS_Bijection
<1> QED  BY <1>5 DEF T

(***************************************************************************)
(* SplitsKeepApart.  However partitions, additions and training requests   *)
(* interleave, a version on which no two partitions overlapped has one     *)
(* split for a session, its last answer and its manifest describe the rows *)
(* that are stored, and no training set has a session on two sides.        *)
(***************************************************************************)
THEOREM SplitsKeepApart == DatasetSpec => []SplitsAreTrue
<1>1. ASSUME DatasetInv PROVE SplitsAreTrue
  <2>1. ASSUME NEW v \in (1..Len(versions)) \ contended.partition
        PROVE  /\ \A x, y \in RowsOf(v) : x.session = y.session => x = y
               /\ answers[v] # Unset =>
                    /\ answers[v] = audit_leakage(RowsOf(v))
                    /\ answers[v].split_counts = get_version_splits(v).split_counts
                    /\ answers[v].split_counts = get_version_manifest(v).split_distribution
    <3> DEFINE rows == RowsOf(v)
               mapped == {row.session : row \in rows}
               split_map == [s \in mapped |->
                              (CHOOSE row \in rows : row.session = s).split]
    <3>1. AnswerOK(answers[v], splits, labelled, v) /\ rows = RowsIn(splits, labelled, v)
      BY <1>1, RowsOfIn DEF DatasetInv, SplitInv
    <3>2. OneEach(rows) /\ \A row \in rows : row.session \in 1..Len(labelled)
      BY <1>1, <3>1 DEF DatasetInv, SplitInv, AnswerOK, RowsIn
    <3>3. answers[v] # Unset => answers[v] = audit_leakage(rows)
      BY <3>1, Zenon DEF AnswerOK, AuditOf, audit_leakage
    <3>4. /\ audit_leakage(rows).split_counts = split_counts(rows)
          /\ get_version_splits(v).split_counts = split_counts(rows)
          /\ get_version_manifest(v).split_distribution =
               [p \in SplitTypes |-> Cardinality({s \in mapped : split_map[s] = p})]
      BY DEF audit_leakage, get_version_splits, get_version_manifest
    <3> HIDE DEF rows
    <3>5. ASSUME NEW p \in SplitTypes
          PROVE  Cardinality({s \in mapped : split_map[s] = p}) =
                   Cardinality({row \in rows : row.split = p})
      <4> DEFINE these == {row \in rows : row.split = p}
      <4>1. \A row \in rows : split_map[row.session] = row.split
        <5> TAKE row \in rows
        <5>1. (CHOOSE other \in rows : other.session = row.session) = row
          BY <3>2 DEF OneEach
        <5> QED  BY <5>1
      <4> HIDE DEF split_map
      <4>2. {s \in mapped : split_map[s] = p} = {row.session : row \in these}
        BY <4>1
      <4>3. OneEach(these) /\ \A row \in these : row.session \in 1..Len(labelled)
        BY <3>2 DEF OneEach
      <4>4. Len(labelled) \in Nat
        BY <1>1 DEF DatasetInv, TypeOK
      <4> HIDE DEF these
      <4>5. Cardinality({row.session : row \in these}) = Cardinality(these)
        BY <4>3, <4>4, OneRowEach
      <4> QED  BY <4>2, <4>5 DEF these
    <3>6. [p \in SplitTypes |-> Cardinality({s \in mapped : split_map[s] = p})]
            = split_counts(rows)
      BY <3>5 DEF split_counts
    <3>7. answers[v] # Unset =>
            /\ answers[v] = audit_leakage(rows)
            /\ answers[v].split_counts = get_version_splits(v).split_counts
            /\ answers[v].split_counts = get_version_manifest(v).split_distribution
      BY <3>3, <3>4, <3>6, Zenon
    <3> QED  BY <3>2, <3>7 DEF OneEach, rows
  <2>2. ASSUME NEW set \in trained PROVE SetOK(set, labelled)
    BY <1>1 DEF DatasetInv, TrainInv
  <2> QED  BY <2>1, <2>2 DEF SplitsAreTrue, SetOK
<1> QED  BY <1>1, DatasetInvariance, PTL

-----------------------------------------------------------------------------
(* Scans.  What a request may ask: addresses and networks of the address   *)
(* space, host names, or what is neither.                                  *)

ScanTarget(t) ==
  /\ t.kind \in {"network", "name", "wildcard", "malformed"}
  /\ t.kind = "network" => t.at \in Nat /\ t.size \in NetworkSizes

ScanRequest(req) ==
  req # Nothing => IsFiniteSet(req.targets) /\ \A t \in req.targets : ScanTarget(t)

JobFields == {"pc", "req", "authorised", "result"}

\* The addresses found were members of the request, and may be scanned.
Permitted(found, req) ==
  /\ found \cap Excluded(req.exclusions) = {}
  /\ \A a \in found : a \in Nat /\ a < FirstMulticast
  /\ IsFiniteSet(found)
  /\ Cardinality(found) <= TargetCap

\* A document names no host beyond those nmap was given.
Reported(result, found) ==
  result.doc # Nothing => {h.ip : h \in result.doc} \subseteq found

\* The job's record v, and what was scanned for it.
JobOK(v, out) ==
  /\ DOMAIN v = JobFields
  /\ v.pc \in {"todo", "scan", "finish", "end"}
  /\ v.pc # "end" => ScanRequest(v.req) /\ v.req # Nothing
  /\ v.pc = "todo" => v.authorised = {}
  /\ v.pc \in {"todo", "scan"} => out = {}
  /\ out # {} => out = v.authorised
  /\ v.authorised # {} => Permitted(v.authorised, v.req)
  /\ v.pc = "finish" => Reported(v.result, v.authorised)

ScanInv ==
  /\ names \in {1, FirstMulticast}
  /\ DOMAIN scan = Jobs /\ DOMAIN sent = Jobs
  /\ \A j \in Jobs : JobOK(scan[j], sent[j])

\* Division with remainder.
LEMMA Divided ==
  ASSUME NEW a \in Nat, NEW s \in Nat \ {0}
  PROVE  /\ a = s * (a \div s) + (a % s)
         /\ a \div s \in Nat
         /\ a % s \in Nat /\ a % s < s
OBVIOUS

LEMMA MoreTimes ==
  ASSUME NEW s \in Nat, NEW p \in Nat, NEW q \in Nat, p < q
  PROVE  s * p + s <= s * q
<1>1. PICK r \in Nat : q = p + 1 + r
  <2> WITNESS q - p - 1 \in Nat
  <2> QED  OBVIOUS
<1>2. s * q = s * p + s + s * r
  BY <1>1
<1>3. s * r \in Nat /\ s * p \in Nat
  OBVIOUS
<1> QED  BY <1>2, <1>3

LEMMA FewerTimes ==
  ASSUME NEW s \in Nat, NEW p \in Nat, NEW q \in Nat, s * p < s * q
  PROVE  p < q
<1> SUFFICES ASSUME q <= p PROVE FALSE
  OBVIOUS
<1>1. PICK r \in Nat : p = q + r
  <2> WITNESS p - q \in Nat
  <2> QED  OBVIOUS
<1>2. s * p = s * q + s * r
  BY <1>1
<1>3. s * r \in Nat /\ s * q \in Nat
  OBVIOUS
<1> QED  BY <1>2, <1>3

\* A block that begins before a boundary it is aligned with ends before it.
LEMMA Aligned ==
  ASSUME NEW at \in Nat, NEW s \in Nat \ {0}, NEW b \in Nat, b % s = 0
  PROVE  LET first == at - (at % s)
         IN  /\ first \in Nat
             /\ first < b => first + s <= b
<1> DEFINE first == at - (at % s)
           p == at \div s
           q == b \div s
<1>1. /\ first = s * p /\ b = s * q
      /\ p \in Nat /\ q \in Nat
      /\ first \in Nat
  BY Divided
<1> HIDE DEF p, q, first
<1>2. first < b => p < q
  BY <1>1, FewerTimes
<1>3. first < b => first + s <= b
  BY <1>1, <1>2, MoreTimes
<1> QED  BY <1>1, <1>3 DEF first

\* A network that passes the checks lies below the multicast addresses,
\* though only its first and its last address are looked at.
LEMMA SafeNetwork ==
  ASSUME NEW t, t.at \in Nat, t.size \in NetworkSizes,
         _validate_network_safety(t), t.size <= TargetCap
  PROVE  /\ Hosts(t) \subseteq First(t)..Last_(t)
         /\ \A a \in Hosts(t) : a \in Nat /\ a < FirstMulticast
         /\ IsFiniteSet(Hosts(t))
<1>1. /\ t.size \in Nat \ {0}
      /\ FirstMulticast \in Nat /\ FirstReserved \in Nat
      /\ FirstMulticast < FirstReserved
      /\ FirstMulticast % t.size = 0 /\ FirstReserved % t.size = 0
  BY ScanningConstants DEF NetworkSizes
<1> DEFINE first == t.at - (t.at % t.size)
           last == first + t.size - 1
<1>2. /\ first \in Nat
      /\ first < FirstMulticast => first + t.size <= FirstMulticast
      /\ first < FirstReserved => first + t.size <= FirstReserved
  BY <1>1, Aligned
<1>3. First(t) = first /\ Last_(t) = last
  BY DEF First, Last_
<1> HIDE DEF first
<1>4. first < FirstMulticast
  BY <1>1, <1>2, <1>3 DEF _validate_network_safety, Multicast, Reserved
<1>5. Hosts(t) \subseteq first..last
  BY <1>1, <1>2, <1>3 DEF Hosts, Members
<1>6. IsFiniteSet(Hosts(t))
  <2>1. first \in Int /\ last \in Int
    BY <1>1, <1>2
  <2>2. IsFiniteSet(first..last)
    BY <2>1, FS_Interval
  <2> QED  BY <1>5, <2>2, FS_Subset
<1> QED  BY <1>1, <1>2, <1>3, <1>4, <1>5, <1>6

LEMMA SafeCandidates ==
  ASSUME NEW t, NEW dns \in {1, FirstMulticast}, ScanTarget(t), Acceptable(t, dns)
  PROVE  /\ \A a \in Candidates(t, dns) : a \in Nat /\ a < FirstMulticast
         /\ IsFiniteSet(Candidates(t, dns))
<1>1. CASE t.kind = "network"
  <2>1. _validate_network_safety(t) /\ t.size <= TargetCap
    BY <1>1 DEF Acceptable
  <2>2. Candidates(t, dns) = Hosts(t)
    BY <1>1 DEF Candidates
  <2> QED  BY <1>1, <2>1, <2>2, SafeNetwork DEF ScanTarget
<1>2. CASE t.kind = "name"
  <2>1. _validate_ip_safety(dns)
    BY <1>2 DEF Acceptable
  <2>2. dns \in Nat /\ dns < FirstMulticast
    BY <2>1, ScanningConstants DEF _validate_ip_safety, Multicast, Reserved
  <2>3. Candidates(t, dns) = {dns}
    BY <1>2 DEF Candidates
  <2> QED  BY <2>2, <2>3, FS_Singleton
<1>3. CASE t.kind \in {"wildcard", "malformed"}
  BY <1>3 DEF Acceptable
<1> QED  BY <1>1, <1>2, <1>3 DEF ScanTarget

\* What validate_scope_request lets through may be scanned.
LEMMA ScopePermits ==
  ASSUME NEW req, NEW dns \in {1, FirstMulticast}, ScanRequest(req), req # Nothing,
         validate_scope_request(req, dns)
  PROVE  Permitted(canonical_targets(req, dns), req)
<1> DEFINE f == [t \in req.targets |-> Candidates(t, dns)]
           all == {Candidates(t, dns) : t \in req.targets}
<1>1. /\ IsFiniteSet(req.targets)
      /\ \A t \in req.targets : ScanTarget(t) /\ Acceptable(t, dns)
      /\ Cardinality(canonical_targets(req, dns)) <= TargetCap
  BY DEF ScanRequest, validate_scope_request
<1>2. \A t \in req.targets :
        /\ \A a \in Candidates(t, dns) : a \in Nat /\ a < FirstMulticast
        /\ IsFiniteSet(Candidates(t, dns))
  BY <1>1, SafeCandidates
<1>3. f \in Surjection(req.targets, all)
  BY DEF Surjection
<1>4. IsFiniteSet(all)
  BY <1>1, <1>3, FS_Surjection
<1>5. \A T \in all : IsFiniteSet(T)
  BY <1>2
<1>6. IsFiniteSet(UNION all)
  <2> HIDE DEF all, f
  <2> QED  BY <1>4, <1>5, FS_UNION
<1>7. canonical_targets(req, dns) = (UNION all) \ Excluded(req.exclusions)
  BY DEF canonical_targets
<1>8. \A a \in UNION all : a \in Nat /\ a < FirstMulticast
  BY <1>2
<1> HIDE DEF all, f
<1>9. IsFiniteSet(canonical_targets(req, dns))
  BY <1>6, <1>7, FS_Subset
<1> QED  BY <1>1, <1>7, <1>8, <1>9 DEF Permitted

\* A job's record after a step of it.
LEMMA JobMoves ==
  ASSUME NEW w, DOMAIN w = JobFields, NEW at, NEW x
  PROVE  /\ LET v == [w EXCEPT !.pc = at]
            IN  /\ DOMAIN v = JobFields /\ v.pc = at /\ v.req = w.req
                /\ v.authorised = w.authorised /\ v.result = w.result
         /\ LET v == [w EXCEPT !.pc = at, !.authorised = x]
            IN  /\ DOMAIN v = JobFields /\ v.pc = at /\ v.req = w.req
                /\ v.authorised = x /\ v.result = w.result
         /\ LET v == [w EXCEPT !.pc = at, !.result = x]
            IN  /\ DOMAIN v = JobFields /\ v.pc = at /\ v.req = w.req
                /\ v.authorised = w.authorised /\ v.result = x
BY DEF JobFields

\* What nmap was given, and what it wrote.
LEMMA ScanRuns ==
  ASSUME NEW argv, NEW r \in run_discovery_scan(argv)
  PROVE  /\ r.argv # {} => r.argv = argv
         /\ Reported(r, argv)
<1>1. CASE r.doc = Nothing
  BY <1>1 DEF Reported, run_discovery_scan
<1>2. CASE r.doc # Nothing
  <2>1. PICK d \in Documents(argv) : r = [status |-> "COMPLETED", argv |-> argv, doc |-> d]
    BY <1>2 DEF run_discovery_scan
  <2>2. \A h \in d : h.ip \in argv
    BY DEF Documents
  <2> QED  BY <2>1, <2>2 DEF Reported
<1> QED  BY <1>1, <1>2

LEMMA ScanKept ==
  ASSUME ScanInv, names' \in {1, FirstMulticast}, UNCHANGED <<scan, sent>>
  PROVE  ScanInv'
BY DEF ScanInv

\* A step of job j leaves the others alone.
LEMMA ScanMoves ==
  ASSUME ScanInv, NEW j \in Jobs, names' = names,
         NEW v, NEW out,
         scan' = [scan EXCEPT ![j] = v], DOMAIN sent' = Jobs,
         \A k \in Jobs : sent'[k] = IF k = j THEN out ELSE sent[k],
         JobOK(v, out)
  PROVE  ScanInv'
<1>1. /\ DOMAIN scan' = Jobs /\ DOMAIN sent' = Jobs
      /\ scan'[j] = v /\ sent'[j] = out
      /\ \A k \in Jobs : k # j => scan'[k] = scan[k] /\ sent'[k] = sent[k]
  BY DEF ScanInv
<1> QED  BY <1>1 DEF ScanInv

LEMMA ScanStarts ==
  ASSUME NEW requests, NEW uploads, NEW probes,
         \A j \in Jobs : ScanRequest(requests[j]),
         ScanningInit(requests, uploads, probes)
  PROVE  ScanInv
<1>1. /\ names \in {1, FirstMulticast}
      /\ scan = [j \in Jobs |-> DiscoveryJob(requests[j])]
      /\ sent = [j \in Jobs |-> {}]
  BY DEF ScanningInit
<1>2. ASSUME NEW j \in Jobs PROVE JobOK(scan[j], sent[j])
  BY <1>1 DEF JobOK, JobFields, DiscoveryJob, Begin
<1> QED  BY <1>1, <1>2 DEF ScanInv

LEMMA JobStartKeeps ==
  ASSUME ScanInv, NEW j \in Jobs, JobStart(j)
  PROVE  ScanInv'
<1> DEFINE w == scan[j]
<1>1. /\ w.pc = "todo" /\ UNCHANGED names /\ UNCHANGED sent
      /\ JobOK(w, sent[j]) /\ DOMAIN sent = Jobs
      /\ names \in {1, FirstMulticast}
  BY DEF JobStart, ScanInv
<1>2. /\ DOMAIN sent' = Jobs
      /\ \A k \in Jobs : sent'[k] = IF k = j THEN sent[j] ELSE sent[k]
  BY <1>1
<1>3. CASE validate_scope_request(w.req, names)
  <2> DEFINE found == canonical_targets(w.req, names)
             v == [w EXCEPT !.pc = "scan", !.authorised = found]
  <2>1. scan' = [scan EXCEPT ![j] = v]
    BY <1>3 DEF JobStart
  <2>2. ScanRequest(w.req) /\ w.req # Nothing /\ sent[j] = {} /\ DOMAIN w = JobFields
    BY <1>1 DEF JobOK
  <2>3. Permitted(found, w.req)
    BY <1>1, <1>3, <2>2, ScopePermits
  <2> HIDE DEF found
  <2>4. /\ DOMAIN v = JobFields /\ v.pc = "scan" /\ v.req = w.req /\ v.authorised = found
    BY <2>2, JobMoves
  <2> HIDE DEF v, w
  <2>5. JobOK(v, sent[j])
    BY <2>2, <2>3, <2>4 DEF JobOK
  <2> QED  BY <1>1, <1>2, <2>1, <2>5, ScanMoves
<1>4. CASE ~ validate_scope_request(w.req, names)
  <2> DEFINE v == [w EXCEPT !.pc = "end"]
  <2>1. scan' = [scan EXCEPT ![j] = v]
    BY <1>4 DEF JobStart
  <2>2. w.authorised = {} /\ sent[j] = {} /\ DOMAIN w = JobFields
    BY <1>1 DEF JobOK
  <2>3. DOMAIN v = JobFields /\ v.pc = "end" /\ v.authorised = w.authorised
    BY <2>2, JobMoves
  <2> HIDE DEF v, w
  <2>4. JobOK(v, sent[j])
    BY <2>2, <2>3 DEF JobOK
  <2> QED  BY <1>1, <1>2, <2>1, <2>4, ScanMoves
<1> QED  BY <1>3, <1>4

LEMMA RunScanKeeps ==
  ASSUME ScanInv, NEW j \in Jobs, RunScan(j)
  PROVE  ScanInv'
<1> DEFINE w == scan[j]
<1>1. w.pc = "scan" /\ UNCHANGED names /\ JobOK(w, sent[j])
  BY DEF RunScan, ScanInv
<1>2. PICK r \in run_discovery_scan(w.authorised) :
        /\ sent' = [sent EXCEPT ![j] = r.argv]
        /\ scan' = [scan EXCEPT ![j].pc = "finish", ![j].result = r]
  BY DEF RunScan, build_nmap_argv
<1> DEFINE v == [w EXCEPT !.pc = "finish", !.result = r]
<1>3. scan' = [scan EXCEPT ![j] = v]
  BY <1>2
<1>4. /\ r.argv # {} => r.argv = w.authorised
      /\ Reported(r, w.authorised)
  BY <1>2, ScanRuns
<1>5. /\ DOMAIN w = JobFields /\ ScanRequest(w.req) /\ w.req # Nothing
      /\ w.authorised # {} => Permitted(w.authorised, w.req)
  BY <1>1 DEF JobOK
<1>6. /\ DOMAIN v = JobFields /\ v.pc = "finish" /\ v.req = w.req
      /\ v.authorised = w.authorised /\ v.result = r
  BY <1>5, JobMoves
<1> HIDE DEF v, w
<1>7. JobOK(v, r.argv)
  BY <1>4, <1>5, <1>6 DEF JobOK
<1>8. /\ DOMAIN sent' = Jobs
      /\ \A k \in Jobs : sent'[k] = IF k = j THEN r.argv ELSE sent[k]
  BY <1>2 DEF ScanInv
<1> QED  BY <1>1, <1>3, <1>7, <1>8, ScanMoves

\* The ends of a job, orderly or not.
LEMMA JobEnds ==
  ASSUME ScanInv, NEW j \in Jobs, UNCHANGED names, UNCHANGED sent,
         scan[j].pc \in {"scan", "finish"}, scan' = [scan EXCEPT ![j].pc = "end"]
  PROVE  ScanInv'
<1> DEFINE w == scan[j]
           v == [w EXCEPT !.pc = "end"]
<1>1. /\ scan' = [scan EXCEPT ![j] = v]
      /\ DOMAIN sent' = Jobs
      /\ \A k \in Jobs : sent'[k] = IF k = j THEN sent[j] ELSE sent[k]
      /\ JobOK(w, sent[j])
  BY DEF ScanInv
<1>2. /\ DOMAIN w = JobFields
      /\ sent[j] # {} => sent[j] = w.authorised
      /\ w.authorised # {} => Permitted(w.authorised, w.req)
  BY <1>1 DEF JobOK
<1>3. /\ DOMAIN v = JobFields /\ v.pc = "end" /\ v.req = w.req
      /\ v.authorised = w.authorised
  BY <1>2, JobMoves
<1> HIDE DEF v, w
<1>4. JobOK(v, sent[j])
  BY <1>2, <1>3 DEF JobOK
<1> QED  BY <1>1, <1>4, ScanMoves

LEMMA ScanInductive == ScanInv /\ [ScanningNext]_scanVars => ScanInv'
<1> SUFFICES ASSUME ScanInv, [ScanningNext]_scanVars PROVE ScanInv'
  OBVIOUS
<1>0. names \in {1, FirstMulticast}
  BY DEF ScanInv
<1>1. CASE Rename
  BY <1>1, ScanKept DEF Rename
<1>2. ASSUME NEW j \in Jobs, JobStart(j) PROVE ScanInv'
  BY <1>2, JobStartKeeps
<1>3. ASSUME NEW j \in Jobs, RunScan(j) PROVE ScanInv'
  BY <1>3, RunScanKeeps
<1>4. ASSUME NEW j \in Jobs, JobFinish(j) \/ JobLost(j) PROVE ScanInv'
  <2>1. /\ UNCHANGED names /\ UNCHANGED sent
        /\ scan[j].pc \in {"scan", "finish"}
        /\ scan' = [scan EXCEPT ![j].pc = "end"]
    BY <1>4 DEF JobFinish, JobLost
  <2> QED  BY <2>1, JobEnds
<1>5. ASSUME UNCHANGED names, UNCHANGED scan, UNCHANGED sent PROVE ScanInv'
  BY <1>0, <1>5, ScanKept
<1>6. ASSUME NEW j \in Jobs, CancelRead(j) PROVE ScanInv'
  BY <1>5, <1>6 DEF CancelRead
<1>7. CASE CancelCommit
  BY <1>5, <1>7 DEF CancelCommit
<1>8. ASSUME NEW r \in Imports, ImportStep(r) PROVE ScanInv'
  BY <1>5, <1>8 DEF ImportStep, PreviewReport, ImportCheck, ImportCorrelate, ImportCommit
<1>9. ASSUME NEW p \in Probes, IkeProbe(p) PROVE ScanInv'
  BY <1>5, <1>9 DEF IkeProbe
<1>10. CASE UNCHANGED scanVars
  BY <1>5, <1>10 DEF scanVars
<1> QED
  BY <1>1, <1>2, <1>3, <1>4, <1>6, <1>7, <1>8, <1>9, <1>10 DEF ScanningNext, JobStep

(***************************************************************************)
(* ScopeKept.  Whatever names resolve to while jobs, cancellations, lost   *)
(* requests and imports interleave, nmap is given the addresses that were  *)
(* authorised: none of them excluded, all below the multicast and reserved *)
(* addresses, and no more than the cap.                                    *)
(***************************************************************************)
THEOREM ScopeKept ==
  ASSUME NEW requests, NEW uploads, NEW probes,
         \A j \in Jobs : ScanRequest(requests[j])
  PROVE  ScanningSpec(requests, uploads, probes) => []ScanStaysInScope
<1>1. ScanningInit(requests, uploads, probes) => ScanInv
  BY ScanStarts
<1>2. ASSUME ScanInv PROVE ScanStaysInScope
  BY <1>2 DEF ScanInv, JobOK, Permitted, ScanStaysInScope
<1> QED  BY <1>1, <1>2, ScanInductive, PTL DEF ScanningSpec

-----------------------------------------------------------------------------
(* Links.  What an import found stays true while discovery adds rows.      *)

ImportFields == {"pc", "up", "found"}

Rows(s) == \E S : s \in Seq(S)

\* A mapped finding points to the first host row of its address, in scope.
Linked(found, targets, rows) ==
  \A f \in found : f.link.state = "MAPPED_EXACT_IP" =>
    /\ f.link.host \in DOMAIN rows
    /\ rows[f.link.host].ip = f.ip
    /\ \A k \in DOMAIN rows : rows[k].ip = f.ip => k >= f.link.host
    /\ _is_ip_in_scope(f.ip, targets)

\* A report completes without warnings only if no finding deserves one.
Warned(found, status) ==
  status = "COMPLETED" => \A f \in found :
    f.link.state \in {"MAPPED_EXACT_IP", "UNLINKED_NO_DISCOVERY_RECORD"}

\* The import's record v, among the host rows there are.
ImportOK(v, rows) ==
  /\ DOMAIN v = ImportFields
  /\ v.pc = "correlate" => parse_greenbone_xml(v.up.doc) # Nothing
  /\ v.pc = "commit" => /\ Linked(v.found.findings, v.up.targets, rows)
                        /\ Warned(v.found.findings, ReportStatus(v.found))

LinkInv ==
  /\ Rows(hosts) /\ Rows(reports)
  /\ DOMAIN imp = Imports
  /\ \A r \in Imports : ImportOK(imp[r], hosts)
  /\ \A i \in DOMAIN reports :
       /\ Linked(reports[i].findings, reports[i].targets, hosts)
       /\ Warned(reports[i].findings, reports[i].status)

LEMMA RowsLength ==
  ASSUME NEW s, Rows(s)
  PROVE  Len(s) \in Nat /\ DOMAIN s = 1..Len(s)
BY DEF Rows

LEMMA RowsFollow ==
  ASSUME NEW s, NEW t, Rows(s), Rows(t)
  PROVE  /\ Rows(s \o t)
         /\ DOMAIN s \subseteq DOMAIN (s \o t)
         /\ \A i \in DOMAIN s : (s \o t)[i] = s[i]
         /\ \A i \in DOMAIN (s \o t) : i \notin DOMAIN s => i > Len(s)
<1>1. PICK S, T : s \in Seq(S) /\ t \in Seq(T)
  BY DEF Rows
<1> DEFINE U == S \cup T
<1>2. s \in Seq(U) /\ t \in Seq(U)
  <2>1. /\ Len(s) \in Nat /\ DOMAIN s = 1..Len(s)
        /\ Len(t) \in Nat /\ DOMAIN t = 1..Len(t)
        /\ \A i \in 1..Len(s) : s[i] \in S
        /\ \A i \in 1..Len(t) : t[i] \in T
        /\ s \in [1..Len(s) -> S] /\ t \in [1..Len(t) -> T]
    BY <1>1
  <2>2. s \in [1..Len(s) -> U] /\ t \in [1..Len(t) -> U]
    BY <2>1
  <2> QED  BY <2>1, <2>2, SeqDef
<1> HIDE DEF U
<1>3. /\ s \o t \in Seq(U)
      /\ Len(s \o t) = Len(s) + Len(t)
      /\ \A i \in 1..Len(s) : (s \o t)[i] = s[i]
  BY <1>2
<1>4. /\ Len(s) \in Nat /\ Len(t) \in Nat
      /\ DOMAIN s = 1..Len(s)
      /\ DOMAIN (s \o t) = 1..(Len(s) + Len(t))
  BY <1>2, <1>3
<1> QED  BY <1>3, <1>4 DEF Rows

LEMMA RowsAppend ==
  ASSUME NEW s, NEW x, Rows(s)
  PROVE  /\ Rows(Append(s, x))
         /\ \A i \in DOMAIN Append(s, x) :
              \/ i \in DOMAIN s /\ Append(s, x)[i] = s[i]
              \/ Append(s, x)[i] = x
<1>1. PICK S : s \in Seq(S)
  BY DEF Rows
<1> DEFINE U == S \cup {x}
<1>2. s \in Seq(U)
  <2>1. Len(s) \in Nat /\ s \in [1..Len(s) -> S]
    BY <1>1
  <2>2. s \in [1..Len(s) -> U]
    BY <2>1
  <2> QED  BY <2>1, <2>2, SeqDef
<1>3. x \in U
  OBVIOUS
<1> HIDE DEF U
<1>4. /\ Append(s, x) \in Seq(U)
      /\ Len(Append(s, x)) = Len(s) + 1
      /\ \A i \in 1..Len(s) : Append(s, x)[i] = s[i]
      /\ Append(s, x)[Len(s) + 1] = x
  BY <1>2, <1>3
<1>5. /\ Len(s) \in Nat /\ DOMAIN s = 1..Len(s)
      /\ DOMAIN Append(s, x) = 1..(Len(s) + 1)
  BY <1>2, <1>4
<1> QED  BY <1>4, <1>5 DEF Rows

LEMMA HostRowsFollow ==
  ASSUME NEW j, NEW ips, IsFiniteSet(ips)
  PROVE  Rows(HostRows(j, ips))
<1> DEFINE n == Cardinality(ips)
           place(ip) == Cardinality({other \in ips : other <= ip})
           row(i) == DiscoveredHost(j, CHOOSE ip \in ips : place(ip) = i)
           S == {row(i) : i \in 1..n}
<1>1. n \in Nat
  BY FS_CardinalityType
<1>2. HostRows(j, ips) = [i \in 1..n |-> row(i)]
  BY DEF HostRows
<1>3. \A i \in 1..n : row(i) \in S
  OBVIOUS
<1> HIDE DEF n, row, S
<1>4. [i \in 1..n |-> row(i)] \in [1..n -> S]
  BY <1>3
<1>5. HostRows(j, ips) \in Seq(S)
  BY <1>1, <1>2, <1>4, SeqDef
<1> QED  BY <1>5 DEF Rows

\* Host rows that come later are not the first of their address.
LEMMA LinkedLater ==
  ASSUME NEW found, NEW targets, NEW rows, NEW later, Rows(rows), Rows(later),
         Linked(found, targets, rows)
  PROVE  Linked(found, targets, rows \o later)
<1> DEFINE all == rows \o later
<1>1. /\ DOMAIN rows \subseteq DOMAIN all
      /\ \A i \in DOMAIN rows : all[i] = rows[i]
      /\ \A i \in DOMAIN all : i \notin DOMAIN rows => i > Len(rows)
      /\ Rows(all)
  BY RowsFollow
<1>2. /\ Len(rows) \in Nat /\ DOMAIN rows = 1..Len(rows)
      /\ DOMAIN all \subseteq Int
  BY <1>1, RowsLength
<1> HIDE DEF all
<1>3. SUFFICES ASSUME NEW f \in found, f.link.state = "MAPPED_EXACT_IP"
               PROVE  /\ f.link.host \in DOMAIN all
                      /\ all[f.link.host].ip = f.ip
                      /\ \A k \in DOMAIN all : all[k].ip = f.ip => k >= f.link.host
                      /\ _is_ip_in_scope(f.ip, targets)
  BY DEF Linked, all
<1>4. /\ f.link.host \in DOMAIN rows
      /\ rows[f.link.host].ip = f.ip
      /\ \A k \in DOMAIN rows : rows[k].ip = f.ip => k >= f.link.host
      /\ _is_ip_in_scope(f.ip, targets)
  BY <1>3 DEF Linked
<1>5. ASSUME NEW k \in DOMAIN all, all[k].ip = f.ip PROVE k >= f.link.host
  <2>1. CASE k \in DOMAIN rows
    BY <1>1, <1>4, <1>5, <2>1
  <2>2. CASE k \notin DOMAIN rows
    BY <1>1, <1>2, <1>4, <2>2
  <2> QED  BY <2>1, <2>2
<1> QED  BY <1>1, <1>4, <1>5

\* The four answers of evaluate_host_mapping.
LEMMA Mapping ==
  ASSUME NEW ip, NEW targets, NEW rows, Rows(rows)
  PROVE  LET link == evaluate_host_mapping(ip, targets, rows)
         IN  /\ link.state \in {"MAPPED_EXACT_IP", "UNLINKED_NO_DISCOVERY_RECORD",
                                "OUT_OF_SCOPE", "AMBIGUOUS_MULTIPLE_MATCHES"}
             /\ link.state = "MAPPED_EXACT_IP" =>
                  /\ link.host \in DOMAIN rows
                  /\ rows[link.host].ip = ip
                  /\ \A k \in DOMAIN rows : rows[k].ip = ip => k >= link.host
                  /\ _is_ip_in_scope(ip, targets)
<1> DEFINE match == {i \in DOMAIN rows : rows[i].ip = ip}
           inside == _is_ip_in_scope(ip, targets)
           link == evaluate_host_mapping(ip, targets, rows)
<1>1. /\ Len(rows) \in Nat /\ DOMAIN rows = 1..Len(rows)
      /\ match \subseteq 1..Len(rows)
  BY RowsLength
<1>2. IsFiniteSet(match) /\ Cardinality(match) \in Nat
  <2> HIDE DEF match
  <2>1. IsFiniteSet(1..Len(rows))
    BY <1>1, FS_Interval
  <2>2. IsFiniteSet(match)
    BY <1>1, <2>1, FS_Subset
  <2> QED  BY <2>2, FS_CardinalityType
<1>3. CASE ~ inside
  <2>1. link = [state |-> "OUT_OF_SCOPE", host |-> Nothing]
    BY <1>3 DEF evaluate_host_mapping
  <2> QED  BY <2>1
<1>4. CASE inside /\ Cardinality(match) = 1
  <2>0. match # {}
    BY <1>4, FS_EmptySet
  <2>1. link = [state |-> "MAPPED_EXACT_IP", host |-> CHOOSE i \in match : TRUE]
    BY <1>4, <2>0 DEF evaluate_host_mapping
  <2>2. PICK x : match = {x}
    <3> HIDE DEF match
    <3> QED  BY <1>2, <1>4, FS_Singleton
  <2>3. (CHOOSE i \in match : TRUE) = x
    BY <2>2
  <2>4. link.state = "MAPPED_EXACT_IP" /\ link.host = x
    BY <2>1, <2>3
  <2>5. /\ x \in DOMAIN rows /\ rows[x].ip = ip
        /\ \A k \in DOMAIN rows : rows[k].ip = ip => k = x
    BY <2>2
  <2>6. x \in Nat
    BY <1>1, <2>5
  <2> HIDE DEF link
  <2>7. \A k \in DOMAIN rows : rows[k].ip = ip => k >= link.host
    BY <2>4, <2>5, <2>6
  <2> QED  BY <1>4, <2>4, <2>5, <2>7 DEF link
<1>5. CASE inside /\ Cardinality(match) > 1
  <2>1. match # {}
    BY <1>5, FS_EmptySet
  <2>2. link = [state |-> "AMBIGUOUS_MULTIPLE_MATCHES", host |-> Nothing]
    BY <1>2, <1>5, <2>1 DEF evaluate_host_mapping
  <2> QED  BY <2>2
<1>6. CASE inside /\ match = {}
  <2>1. Cardinality(match) = 0
    BY <1>6, FS_EmptySet
  <2>2. link = [state |-> "UNLINKED_NO_DISCOVERY_RECORD", host |-> Nothing]
    BY <1>6, <2>1 DEF evaluate_host_mapping
  <2> QED  BY <2>2
<1>7. Cardinality(match) = 0 => match = {}
  <2> HIDE DEF match
  <2> QED  BY <1>2, FS_EmptySet
<1>8. inside => \/ Cardinality(match) = 1 \/ Cardinality(match) > 1 \/ match = {}
  BY <1>2, <1>7
<1> QED  BY <1>3, <1>4, <1>5, <1>6, <1>8

\* What correlate_report finds is true of the rows it was given.
LEMMA Correlating ==
  ASSUME NEW doc, NEW targets, NEW rows, Rows(rows),
         parse_greenbone_xml(doc) # Nothing
  PROVE  LET c == correlate_report(parse_greenbone_xml(doc), targets, rows)
         IN  /\ Linked(c.findings, targets, rows)
             /\ Warned(c.findings, ReportStatus(c))
<1> DEFINE parsed == parse_greenbone_xml(doc)
           link(h) == evaluate_host_mapping(h, targets, rows)
           map == [h \in parsed.hosts |-> link(h)]
           c == correlate_report(parsed, targets, rows)
<1>1. /\ parsed.findings =
           {doc.results[i] : i \in {k \in ReadResults(doc.results) : Kept(doc.results[k])}}
      /\ parsed.hosts = unique_hosts(doc.results)
  BY DEF parse_greenbone_xml
<1>2. \A f \in parsed.findings : f.host \in parsed.hosts
  BY <1>1 DEF unique_hosts, Kept
<1>3. /\ c.states = {map[h].state : h \in parsed.hosts}
      /\ c.findings = {[ip |-> f.host, link |-> map[f.host],
                        correlation |-> correlate_finding(f, map[f.host])] : f \in parsed.findings}
  BY DEF correlate_report
<1> HIDE DEF parsed, c
<1>4. \A g \in c.findings : \E f \in parsed.findings :
        /\ f.host \in parsed.hosts
        /\ g.ip = f.host
        /\ g.link = link(f.host)
        /\ g.link.state \in c.states
  <2> SUFFICES ASSUME NEW g \in c.findings
               PROVE  \E f \in parsed.findings :
                        /\ f.host \in parsed.hosts
                        /\ g.ip = f.host
                        /\ g.link = link(f.host)
                        /\ g.link.state \in c.states
    OBVIOUS
  <2>1. PICK f \in parsed.findings :
          g = [ip |-> f.host, link |-> map[f.host],
               correlation |-> correlate_finding(f, map[f.host])]
    BY <1>3
  <2>2. f.host \in parsed.hosts
    BY <1>2
  <2>3. map[f.host] = link(f.host)
    BY <2>2
  <2> HIDE DEF map, link
  <2>4. g.ip = f.host /\ g.link = map[f.host]
    BY <2>1
  <2>5. map[f.host].state \in c.states
    BY <1>3, <2>2
  <2> QED  BY <2>2, <2>3, <2>4, <2>5
<1> HIDE DEF map
<1>5. Linked(c.findings, targets, rows)
  <2> SUFFICES ASSUME NEW g \in c.findings, g.link.state = "MAPPED_EXACT_IP"
               PROVE  /\ g.link.host \in DOMAIN rows
                      /\ rows[g.link.host].ip = g.ip
                      /\ \A k \in DOMAIN rows : rows[k].ip = g.ip => k >= g.link.host
                      /\ _is_ip_in_scope(g.ip, targets)
    BY DEF Linked
  <2>1. g.link = link(g.ip)
    BY <1>4
  <2> QED  BY <2>1, Mapping
<1>6. Warned(c.findings, ReportStatus(c))
  <2> SUFFICES ASSUME ReportStatus(c) = "COMPLETED", NEW g \in c.findings
               PROVE  g.link.state \in {"MAPPED_EXACT_IP", "UNLINKED_NO_DISCOVERY_RECORD"}
    BY DEF Warned
  <2>1. g.link = link(g.ip) /\ g.link.state \in c.states
    BY <1>4
  <2>2. g.link.state \in {"MAPPED_EXACT_IP", "UNLINKED_NO_DISCOVERY_RECORD",
                          "OUT_OF_SCOPE", "AMBIGUOUS_MULTIPLE_MATCHES"}
    BY <2>1, Mapping
  <2>3. g.link.state \notin {"AMBIGUOUS_MULTIPLE_MATCHES", "OUT_OF_SCOPE"}
    BY <2>1 DEF ReportStatus
  <2> QED  BY <2>2, <2>3
<1> QED  BY <1>5, <1>6 DEF c, parsed

LEMMA LinkStarts ==
  ASSUME NEW requests, NEW uploads, NEW probes,
         ScanningInit(requests, uploads, probes)
  PROVE  LinkInv
<1>1. /\ hosts = <<>> /\ reports = <<>>
      /\ imp = [r \in Imports |->
                  [pc |-> Begin(uploads[r]), up |-> uploads[r], found |-> Nothing]]
  BY DEF ScanningInit
<1>2. ASSUME NEW r \in Imports PROVE ImportOK(imp[r], hosts)
  BY <1>1 DEF ImportOK, ImportFields, Begin
<1>3. Rows(hosts) /\ Rows(reports)
  BY <1>1 DEF Rows
<1> QED  BY <1>1, <1>2, <1>3 DEF LinkInv

LEMMA LinkKept ==
  ASSUME LinkInv, UNCHANGED hosts, UNCHANGED reports, UNCHANGED imp
  PROVE  LinkInv'
<1>1. /\ Rows(hosts)' /\ Rows(reports)' /\ DOMAIN imp' = Imports
  BY DEF LinkInv, Rows
<1> QED  BY <1>1 DEF LinkInv

\* An import that learns nothing that is kept.
LEMMA LinkMoves ==
  ASSUME LinkInv, UNCHANGED hosts, UNCHANGED reports, NEW r \in Imports, NEW v,
         imp' = [imp EXCEPT ![r] = v], ImportOK(v, hosts)
  PROVE  LinkInv'
<1>1. /\ DOMAIN imp' = Imports /\ imp'[r] = v
      /\ \A q \in Imports : q # r => imp'[q] = imp[q]
  BY DEF LinkInv
<1>2. Rows(hosts') /\ Rows(reports')
  BY DEF LinkInv
<1>3. \A q \in Imports : ImportOK(imp'[q], hosts')
  BY <1>1 DEF LinkInv
<1> QED  BY <1>1, <1>2, <1>3 DEF LinkInv

\* An import's record after a step of it.
LEMMA ImportMoves ==
  ASSUME NEW w, DOMAIN w = ImportFields, NEW at, NEW x
  PROVE  /\ LET v == [w EXCEPT !.pc = at]
            IN  /\ DOMAIN v = ImportFields /\ v.pc = at /\ v.up = w.up
                /\ v.found = w.found
         /\ LET v == [w EXCEPT !.pc = at, !.found = x]
            IN  /\ DOMAIN v = ImportFields /\ v.pc = at /\ v.up = w.up
                /\ v.found = x
BY DEF ImportFields

LEMMA ReportsPreviewed ==
  ASSUME LinkInv, NEW r \in Imports, PreviewReport(r)
  PROVE  LinkInv'
<1> DEFINE w == imp[r]
           at == IF Parses(r) THEN "end" ELSE "error"
           x == IF Parses(r) THEN Correlated(r) ELSE Nothing
           v == [w EXCEPT !.pc = at, !.found = x]
<1>1. /\ imp' = [imp EXCEPT ![r] = v]
      /\ UNCHANGED hosts /\ UNCHANGED reports
  BY DEF PreviewReport
<1>2. DOMAIN w = ImportFields
  BY DEF LinkInv, ImportOK
<1>3. at \in {"end", "error"}
  OBVIOUS
<1> HIDE DEF at, x, w
<1>4. DOMAIN v = ImportFields /\ v.pc = at
  BY <1>2, ImportMoves
<1> HIDE DEF v
<1>5. ImportOK(v, hosts)
  BY <1>3, <1>4 DEF ImportOK
<1> QED  BY <1>1, <1>5, LinkMoves

LEMMA ImportsChecked ==
  ASSUME LinkInv, NEW r \in Imports, ImportCheck(r)
  PROVE  LinkInv'
<1> DEFINE w == imp[r]
<1>1. PICK at \in {"end", "correlate", "error"} :
        /\ imp' = [imp EXCEPT ![r].pc = at]
        /\ at = "correlate" => Parses(r)
  BY DEF ImportCheck
<1> DEFINE v == [w EXCEPT !.pc = at]
<1>2. /\ imp' = [imp EXCEPT ![r] = v]
      /\ UNCHANGED hosts /\ UNCHANGED reports
  BY <1>1 DEF ImportCheck
<1>3. DOMAIN w = ImportFields
  BY DEF LinkInv, ImportOK
<1>4. at = "correlate" => parse_greenbone_xml(w.up.doc) # Nothing
  BY <1>1 DEF Parses
<1> HIDE DEF w
<1>5. DOMAIN v = ImportFields /\ v.pc = at /\ v.up = w.up
  BY <1>3, ImportMoves
<1> HIDE DEF v
<1>6. ImportOK(v, hosts)
  BY <1>1, <1>4, <1>5 DEF ImportOK
<1> QED  BY <1>2, <1>6, LinkMoves

LEMMA ImportsCorrelated ==
  ASSUME LinkInv, NEW r \in Imports, ImportCorrelate(r)
  PROVE  LinkInv'
<1> DEFINE w == imp[r]
           c == correlate_report(parse_greenbone_xml(w.up.doc), w.up.targets, hosts)
           v == [w EXCEPT !.pc = "commit", !.found = c]
<1>1. /\ w.pc = "correlate" /\ imp' = [imp EXCEPT ![r] = v]
      /\ UNCHANGED hosts /\ UNCHANGED reports
  BY DEF ImportCorrelate, Correlated
<1>2. /\ DOMAIN w = ImportFields
      /\ w.pc = "correlate" => parse_greenbone_xml(w.up.doc) # Nothing
      /\ Rows(hosts)
  BY DEF LinkInv, ImportOK
<1>3. /\ Linked(c.findings, w.up.targets, hosts)
      /\ Warned(c.findings, ReportStatus(c))
  BY <1>1, <1>2, Correlating
<1> HIDE DEF c, w
<1>4. DOMAIN v = ImportFields /\ v.pc = "commit" /\ v.up = w.up /\ v.found = c
  BY <1>2, ImportMoves
<1> HIDE DEF v
<1>5. ImportOK(v, hosts)
  BY <1>3, <1>4 DEF ImportOK
<1> QED  BY <1>1, <1>5, LinkMoves

LEMMA ReportsCommitted ==
  ASSUME LinkInv, NEW r \in Imports, ImportCommit(r)
  PROVE  LinkInv'
<1> DEFINE w == imp[r]
           v == [w EXCEPT !.pc = "end"]
           row == VulnerabilityReport(r)
<1>1. /\ w.pc = "commit" /\ imp' = [imp EXCEPT ![r] = v]
      /\ UNCHANGED hosts /\ reports' = Append(reports, row)
  BY DEF ImportCommit
<1>2. /\ DOMAIN w = ImportFields
      /\ Linked(w.found.findings, w.up.targets, hosts)
      /\ Warned(w.found.findings, ReportStatus(w.found))
  BY <1>1 DEF LinkInv, ImportOK
<1>3. /\ row.findings = w.found.findings /\ row.targets = w.up.targets
      /\ row.status = ReportStatus(w.found)
  BY DEF VulnerabilityReport
<1> HIDE DEF w
<1>4. DOMAIN v = ImportFields /\ v.pc = "end"
  BY <1>2, ImportMoves
<1> HIDE DEF v, row
<1>5. ImportOK(v, hosts)
  BY <1>4 DEF ImportOK
<1>6. /\ DOMAIN imp' = Imports
      /\ \A q \in Imports : ImportOK(imp'[q], hosts')
      /\ Rows(hosts') /\ Rows(reports)
  BY <1>1, <1>5 DEF LinkInv
<1>7. /\ Rows(reports')
      /\ \A i \in DOMAIN reports' :
           \/ i \in DOMAIN reports /\ reports'[i] = reports[i]
           \/ reports'[i] = row
  BY <1>1, <1>6, RowsAppend
<1>8. ASSUME NEW i \in DOMAIN reports'
      PROVE  /\ Linked(reports'[i].findings, reports'[i].targets, hosts')
             /\ Warned(reports'[i].findings, reports'[i].status)
  BY <1>1, <1>2, <1>3, <1>7 DEF LinkInv
<1> QED  BY <1>6, <1>7, <1>8 DEF LinkInv

\* The rows a job adds come after those that are linked to.
LEMMA HostsAdded ==
  ASSUME ScanInv, LinkInv, NEW j \in Jobs, JobFinish(j)
  PROVE  LinkInv'
<1>1. UNCHANGED reports /\ UNCHANGED imp
  BY DEF JobFinish
<1>2. CASE UNCHANGED hosts
  BY <1>1, <1>2, LinkKept
<1>3. CASE ~ UNCHANGED hosts
  <2> DEFINE r == scan[j].result
             ips == {h.ip : h \in r.doc}
             later == HostRows(j, ips)
             found == scan[j].authorised
  <2>1. /\ scan[j].pc = "finish" /\ r.doc # Nothing
        /\ hosts' = hosts \o later
    BY <1>3 DEF JobFinish, parse_nmap_xml
  <2>2. JobOK(scan[j], sent[j])
    BY DEF ScanInv
  <2>3. ips \subseteq found
    BY <2>1, <2>2 DEF JobOK, Reported
  <2>4. IsFiniteSet(found)
    BY <2>2, FS_EmptySet DEF JobOK, Permitted
  <2> HIDE DEF ips, found
  <2>5. IsFiniteSet(ips)
    BY <2>3, <2>4, FS_Subset
  <2>6. Rows(later) /\ Rows(hosts)
    BY <2>5, HostRowsFollow DEF LinkInv
  <2> HIDE DEF later
  <2>7. Rows(hosts') /\ Rows(reports') /\ DOMAIN imp' = Imports
    BY <1>1, <2>1, <2>6, RowsFollow DEF LinkInv
  <2>8. \A fs, ts : Linked(fs, ts, hosts) => Linked(fs, ts, hosts')
    BY <2>1, <2>6, LinkedLater
  <2>9. ASSUME NEW q \in Imports PROVE ImportOK(imp'[q], hosts')
    BY <1>1, <2>8 DEF LinkInv, ImportOK
  <2>10. ASSUME NEW i \in DOMAIN reports'
         PROVE  /\ Linked(reports'[i].findings, reports'[i].targets, hosts')
                /\ Warned(reports'[i].findings, reports'[i].status)
    BY <1>1, <2>8 DEF LinkInv
  <2> QED  BY <2>7, <2>9, <2>10 DEF LinkInv
<1> QED  BY <1>2, <1>3

LEMMA LinkInductive == ScanInv /\ LinkInv /\ [ScanningNext]_scanVars => LinkInv'
<1> SUFFICES ASSUME ScanInv, LinkInv, [ScanningNext]_scanVars PROVE LinkInv'
  OBVIOUS
<1>1. ASSUME UNCHANGED hosts, UNCHANGED reports, UNCHANGED imp PROVE LinkInv'
  BY <1>1, LinkKept
<1>2. CASE Rename
  BY <1>1, <1>2 DEF Rename
<1>3. ASSUME NEW j \in Jobs, JobStart(j) \/ RunScan(j) \/ JobLost(j) \/ CancelRead(j)
      PROVE  LinkInv'
  BY <1>1, <1>3 DEF JobStart, RunScan, JobLost, CancelRead
<1>4. ASSUME NEW j \in Jobs, JobFinish(j) PROVE LinkInv'
  BY <1>4, HostsAdded
<1>5. CASE CancelCommit
  BY <1>1, <1>5 DEF CancelCommit
<1>6. ASSUME NEW r \in Imports, ImportStep(r) PROVE LinkInv'
  BY <1>6, ReportsPreviewed, ImportsChecked, ImportsCorrelated, ReportsCommitted
     DEF ImportStep
<1>7. ASSUME NEW p \in Probes, IkeProbe(p) PROVE LinkInv'
  BY <1>1, <1>7 DEF IkeProbe
<1>8. CASE UNCHANGED scanVars
  BY <1>1, <1>8 DEF scanVars
<1> QED
  BY <1>2, <1>3, <1>4, <1>5, <1>6, <1>7, <1>8 DEF ScanningNext, JobStep

(***************************************************************************)
(* LinksStayTrue.  However imports overlap with discovery jobs, a mapped   *)
(* finding of a stored report points to the first host row of its address, *)
(* in the engagement's scope, and a report that completed without warnings *)
(* has no finding that is ambiguous or out of scope.                       *)
(***************************************************************************)
THEOREM LinksStayTrue ==
  ASSUME NEW requests, NEW uploads, NEW probes,
         \A j \in Jobs : ScanRequest(requests[j])
  PROVE  ScanningSpec(requests, uploads, probes) => []LinksAreTrue
<1>1. ScanningInit(requests, uploads, probes) => ScanInv /\ LinkInv
  BY ScanStarts, LinkStarts
<1>2. ASSUME LinkInv PROVE LinksAreTrue
  <2> SUFFICES ASSUME NEW i \in DOMAIN reports, NEW f \in reports[i].findings
               PROVE  /\ f.link.state = "MAPPED_EXACT_IP" =>
                           /\ f.link.host \in DOMAIN hosts
                           /\ hosts[f.link.host].ip = f.ip
                           /\ \A k \in DOMAIN hosts :
                                hosts[k].ip = f.ip => k >= f.link.host
                           /\ _is_ip_in_scope(f.ip, reports[i].targets)
                      /\ reports[i].status = "COMPLETED" =>
                           f.link.state \in {"MAPPED_EXACT_IP", "UNLINKED_NO_DISCOVERY_RECORD"}
    BY DEF LinksAreTrue
  <2> QED  BY <1>2 DEF LinkInv, Linked, Warned
<1> QED  BY <1>1, <1>2, ScanInductive, LinkInductive, PTL DEF ScanningSpec

\* RowsAppend, seen from the old rows.
LEMMA RowsGrow ==
  ASSUME NEW s, NEW x, Rows(s)
  PROVE  LET t == Append(s, x)
         IN  /\ Rows(t) /\ DOMAIN s \subseteq DOMAIN t
             /\ \A i \in DOMAIN s : t[i] = s[i]
             /\ \A i \in DOMAIN t : i \notin DOMAIN s => t[i] = x
<1> DEFINE t == Append(s, x)
<1>1. /\ Rows(t)
      /\ \A i \in DOMAIN t : i \notin DOMAIN s => t[i] = x
  BY RowsAppend
<1>2. PICK S : s \in Seq(S)
  BY DEF Rows
<1>3. /\ DOMAIN s = 1..Len(s) /\ Len(s) \in Nat
      /\ DOMAIN t = 1..(Len(s) + 1)
      /\ \A i \in 1..Len(s) : t[i] = s[i]
  BY <1>2
<1> QED  BY <1>1, <1>3

-----------------------------------------------------------------------------
(* The inventory.  Snapshot rows as GatewayConfigurationSnapshot makes     *)
(* them, and requests whose certificates have a last day.                  *)

SnapFields    == {"gateway", "ir", "digest", "baseline"}
RequestFields == {"op", "arg", "pc", "seen"}

SnapRows(rows) ==
  /\ Rows(rows)
  /\ \A i \in DOMAIN rows : DOMAIN rows[i] = SnapFields /\ rows[i].baseline \in BOOLEAN

Dated(req) == req.op = "certificate" => req.cert.not_after \in Int

\* The rows that are baselines of g.
Marked(rows, g) == {i \in DOMAIN rows : rows[i].gateway = g /\ rows[i].baseline}

\* A request v of q: what it has demoted are rows of its snapshot's gateway,
\* and with SQLite's lock they are all the baselines there are.
DesignationOK(q, v, rows, db, lock) ==
  /\ DOMAIN v = RequestFields
  /\ v.op = "certificate" => v.arg.cert.not_after \in Int
  /\ v.pc \in {"demote", "wait", "mark"} => v.arg.id \in DOMAIN rows
  /\ v.pc \in {"wait", "mark"} =>
       /\ v.seen \subseteq DOMAIN rows
       /\ \A i \in v.seen : rows[i].gateway = rows[v.arg.id].gateway
       /\ db = "sqlite" => /\ lock = q
                           /\ Marked(rows, rows[v.arg.id].gateway) \subseteq v.seen

\* The last designation of each gateway, des, is what the rows say.
BaselinesOK(des, rows, db) ==
  \A g \in DOMAIN des :
    /\ des[g] \in Marked(rows, g)
    /\ db = "sqlite" => Marked(rows, g) = {des[g]}

\* An expired certificate has expired.
CertsOK(rows, day) ==
  /\ Rows(rows)
  /\ \A i \in DOMAIN rows : /\ rows[i].cert.not_after \in Int
                            /\ rows[i].validity = "EXPIRED" => day > rows[i].cert.not_after

InventoryInv ==
  /\ SnapRows(snaps)
  /\ DOMAIN inv = InvRequests
  /\ \A q \in InvRequests : DesignationOK(q, inv[q], snaps, engine, writer)
  /\ BaselinesOK(designated, snaps, engine)
  /\ CertsOK(certs, today)
  /\ today \in Int

\* A request's record after a step of it.
LEMMA RequestMoves ==
  ASSUME NEW w, DOMAIN w = RequestFields, NEW at, NEW x
  PROVE  /\ LET v == [w EXCEPT !.pc = at]
            IN  /\ DOMAIN v = RequestFields /\ v.pc = at /\ v.op = w.op
                /\ v.arg = w.arg /\ v.seen = w.seen
         /\ LET v == [w EXCEPT !.pc = at, !.seen = x]
            IN  /\ DOMAIN v = RequestFields /\ v.pc = at /\ v.op = w.op
                /\ v.arg = w.arg /\ v.seen = x
BY DEF RequestFields

LEMMA InventoryStarts ==
  ASSUME NEW asked, NEW rows, InventoryInit(asked, rows),
         SnapRows(rows), \A q \in InvRequests : Dated(asked[q])
  PROVE  InventoryInv
<1>1. /\ snaps = rows /\ certs = <<>> /\ today = 0
      /\ inv = [q \in InvRequests |->
                  [op |-> asked[q].op, arg |-> asked[q], pc |-> "todo", seen |-> {}]]
      /\ DOMAIN designated = {}
  BY DEF InventoryInit
<1>2. ASSUME NEW q \in InvRequests PROVE DesignationOK(q, inv[q], snaps, engine, writer)
  BY <1>1 DEF DesignationOK, RequestFields, Dated
<1>3. CertsOK(certs, today)
  BY <1>1 DEF CertsOK, Rows
<1>4. BaselinesOK(designated, snaps, engine)
  BY <1>1 DEF BaselinesOK
<1> QED  BY <1>1, <1>2, <1>3, <1>4 DEF InventoryInv

\* A step of request q that leaves the snapshots alone.
LEMMA RequestStep ==
  ASSUME InventoryInv, UNCHANGED engine, UNCHANGED snaps, UNCHANGED designated,
         CertsOK(certs', today'), today' \in Int,
         NEW q \in InvRequests, NEW v, inv' = [inv EXCEPT ![q] = v],
         DesignationOK(q, v, snaps, engine, writer'),
         \A r \in InvRequests \ {q} : DesignationOK(r, inv[r], snaps, engine, writer')
  PROVE  InventoryInv'
<1>1. /\ DOMAIN inv' = InvRequests /\ inv'[q] = v
      /\ \A r \in InvRequests : r # q => inv'[r] = inv[r]
  BY DEF InventoryInv
<1>2. \A r \in InvRequests : DesignationOK(r, inv'[r], snaps', engine', writer')
  BY <1>1
<1>3. SnapRows(snaps') /\ BaselinesOK(designated', snaps', engine')
  BY DEF InventoryInv
<1> QED  BY <1>1, <1>2, <1>3 DEF InventoryInv

\* One that only goes from one place to another, none of them the UPDATEs'.
LEMMA RequestPlaced ==
  ASSUME InventoryInv, UNCHANGED engine, UNCHANGED snaps, UNCHANGED designated,
         UNCHANGED writer, CertsOK(certs', today'), today' \in Int,
         NEW q \in InvRequests, NEW at, inv' = [inv EXCEPT ![q].pc = at],
         at \in {"insert", "demote", "done", "error"},
         at = "demote" => inv[q].arg.id \in DOMAIN snaps
  PROVE  InventoryInv'
<1> DEFINE w == inv[q]
           v == [w EXCEPT !.pc = at]
<1>1. inv' = [inv EXCEPT ![q] = v]
  OBVIOUS
<1>2. \A r \in InvRequests : DesignationOK(r, inv[r], snaps, engine, writer')
  BY DEF InventoryInv
<1>3. w.op = "certificate" => w.arg.cert.not_after \in Int
  BY <1>2 DEF DesignationOK
<1>4. DOMAIN w = RequestFields
  BY <1>2 DEF DesignationOK
<1>5. at = "demote" => w.arg.id \in DOMAIN snaps
  OBVIOUS
<1> HIDE DEF w
<1>6. /\ DOMAIN v = RequestFields /\ v.pc = at /\ v.op = w.op /\ v.arg = w.arg
  BY <1>4, RequestMoves
<1> HIDE DEF v
<1>7. DesignationOK(q, v, snaps, engine, writer')
  BY <1>3, <1>4, <1>5, <1>6 DEF DesignationOK
<1> QED  BY <1>1, <1>2, <1>7, RequestStep

LEMMA ImportsLookedUp ==
  ASSUME InventoryInv, NEW q \in InvRequests, ImportLookup(q)
  PROVE  InventoryInv'
<1>1. PICK at \in {"insert", "done", "error"} : inv' = [inv EXCEPT ![q].pc = at]
  <2> DEFINE n == Cardinality({i \in DOMAIN snaps :
                       /\ snaps[i].gateway = inv[q].arg.gateway
                       /\ snaps[i].digest =
                            compute_canonical_digest(parse(inv[q].arg.text))})
             next == CASE n = 0 -> "insert" [] n = 1 -> "done" [] OTHER -> "error"
  <2>1. inv' = [inv EXCEPT ![q].pc = next]
    BY DEF ImportLookup, Step
  <2> HIDE DEF n
  <2>2. next \in {"insert", "done", "error"}
    <3>1. n = 0 \/ n = 1 \/ (n # 0 /\ n # 1)
      OBVIOUS
    <3> QED  BY <3>1
  <2> QED  BY <2>1, <2>2
<1>2. /\ UNCHANGED engine /\ UNCHANGED snaps /\ UNCHANGED designated /\ UNCHANGED writer
      /\ UNCHANGED certs /\ UNCHANGED today
  BY DEF ImportLookup
<1>3. CertsOK(certs', today') /\ today' \in Int
  BY <1>2 DEF InventoryInv
<1> QED  BY <1>1, <1>2, <1>3, RequestPlaced

LEMMA BaselinesRead ==
  ASSUME InventoryInv, NEW q \in InvRequests, BaselineRead(q)
  PROVE  InventoryInv'
<1>1. PICK at \in {"demote", "error"} :
        /\ inv' = [inv EXCEPT ![q].pc = at]
        /\ at = "demote" => inv[q].arg.id \in DOMAIN snaps
  BY DEF BaselineRead, Step
<1>2. /\ UNCHANGED engine /\ UNCHANGED snaps /\ UNCHANGED designated /\ UNCHANGED writer
      /\ UNCHANGED certs /\ UNCHANGED today
  BY DEF BaselineRead
<1>3. CertsOK(certs', today') /\ today' \in Int
  BY <1>2 DEF InventoryInv
<1> QED  BY <1>1, <1>2, <1>3, RequestPlaced

LEMMA DriftsComputed ==
  ASSUME InventoryInv, NEW q \in InvRequests, ComputeDrift(q)
  PROVE  InventoryInv'
<1>1. PICK at \in {"done", "error"} : inv' = [inv EXCEPT ![q].pc = at]
  BY DEF ComputeDrift, Step
<1>2. /\ UNCHANGED engine /\ UNCHANGED snaps /\ UNCHANGED designated /\ UNCHANGED writer
      /\ UNCHANGED certs /\ UNCHANGED today
  BY DEF ComputeDrift
<1>3. CertsOK(certs', today') /\ today' \in Int
  BY <1>2 DEF InventoryInv
<1> QED  BY <1>1, <1>2, <1>3, RequestPlaced

LEMMA CertificatesImported ==
  ASSUME InventoryInv, NEW q \in InvRequests, ImportCertificate(q)
  PROVE  InventoryInv'
<1> DEFINE a == inv[q].arg
           connections == IF a.snapshot \in DOMAIN snaps
                          THEN snaps[a.snapshot].ir.connections ELSE <<>>
           row == GatewayCertificate(a.gateway, a.cert, connections, a.trust)
<1>1. /\ inv' = [inv EXCEPT ![q].pc = "done"] /\ certs' = Append(certs, row)
      /\ UNCHANGED engine /\ UNCHANGED snaps /\ UNCHANGED designated
      /\ UNCHANGED writer /\ UNCHANGED today
      /\ inv[q].op = "certificate"
  BY DEF ImportCertificate, Step, Asked
<1>2. /\ CertsOK(certs, today) /\ today \in Int
      /\ DesignationOK(q, inv[q], snaps, engine, writer)
  BY DEF InventoryInv
<1>3. a.cert.not_after \in Int
  BY <1>1, <1>2 DEF DesignationOK
<1>4. row.cert = a.cert /\ row.validity = validity_status(a.cert, today)
  BY DEF GatewayCertificate
<1> HIDE DEF row, a
<1>5. row.validity = "EXPIRED" => today > row.cert.not_after
  BY <1>4 DEF validity_status
<1>6. /\ Rows(certs')
      /\ \A i \in DOMAIN certs' : \/ i \in DOMAIN certs /\ certs'[i] = certs[i]
                                  \/ certs'[i] = row
  BY <1>1, <1>2, RowsAppend DEF CertsOK
<1>7. CertsOK(certs', today') /\ today' \in Int
  BY <1>1, <1>2, <1>3, <1>4, <1>5, <1>6 DEF CertsOK
<1> QED  BY <1>1, <1>7, RequestPlaced

\* On SQLite no other request is between its UPDATEs when q may write.
LEMMA OneWriter ==
  ASSUME InventoryInv, NEW q \in InvRequests, Free(q), engine = "sqlite",
         NEW r \in InvRequests, inv[r].pc \in {"wait", "mark"}
  PROVE  r = q
<1>1. writer = r
  BY DEF InventoryInv, DesignationOK
<1>2. writer \in {None, q}
  BY DEF Free
<1> QED  BY <1>1, <1>2, InventoryConstants

LEMMA BaselinesDemoted ==
  ASSUME InventoryInv, NEW q \in InvRequests, BaselineDemote(q)
  PROVE  InventoryInv'
<1> DEFINE w == inv[q]
           seen == Baselines(snaps[w.arg.id].gateway)
           v == [w EXCEPT !.pc = "wait", !.seen = seen]
<1>1. /\ w.pc = "demote" /\ Free(q) /\ inv' = [inv EXCEPT ![q] = v]
      /\ writer' = IF engine = "sqlite" THEN q ELSE writer
      /\ UNCHANGED engine /\ UNCHANGED snaps /\ UNCHANGED designated
      /\ UNCHANGED certs /\ UNCHANGED today
  BY DEF BaselineDemote
<1>2. /\ CertsOK(certs', today') /\ today' \in Int
      /\ \A r \in InvRequests : DesignationOK(r, inv[r], snaps, engine, writer)
  BY <1>1 DEF InventoryInv
<1>3. /\ DOMAIN w = RequestFields /\ w.arg.id \in DOMAIN snaps
      /\ w.op = "certificate" => w.arg.cert.not_after \in Int
  BY <1>1, <1>2 DEF DesignationOK
<1>4. seen = Marked(snaps, snaps[w.arg.id].gateway)
  BY DEF Baselines, Marked
<1>5. ASSUME NEW r \in InvRequests \ {q}
      PROVE  DesignationOK(r, inv[r], snaps, engine, writer')
  <2>1. ~ (engine = "sqlite" /\ inv[r].pc \in {"wait", "mark"})
    BY <1>1, OneWriter
  <2> QED  BY <1>2, <2>1 DEF DesignationOK
<1> HIDE DEF w, seen
<1>6. /\ DOMAIN v = RequestFields /\ v.pc = "wait" /\ v.op = w.op /\ v.arg = w.arg
      /\ v.seen = seen
  BY <1>3, RequestMoves
<1> HIDE DEF v
<1>7. DesignationOK(q, v, snaps, engine, writer')
  BY <1>1, <1>3, <1>4, <1>6 DEF DesignationOK, Marked
<1> QED  BY <1>1, <1>2, <1>5, <1>7, RequestStep

LEMMA BaselinesLocked ==
  ASSUME InventoryInv, NEW q \in InvRequests, BaselineLocked(q)
  PROVE  InventoryInv'
<1> DEFINE w == inv[q]
           seen == {i \in w.seen : snaps[i].baseline}
           v == [w EXCEPT !.pc = "mark", !.seen = seen]
<1>1. /\ w.pc = "wait" /\ inv' = [inv EXCEPT ![q] = v]
      /\ UNCHANGED engine /\ UNCHANGED snaps /\ UNCHANGED designated
      /\ UNCHANGED certs /\ UNCHANGED today /\ UNCHANGED writer
  BY DEF BaselineLocked
<1>2. /\ CertsOK(certs', today') /\ today' \in Int
      /\ \A r \in InvRequests : DesignationOK(r, inv[r], snaps, engine, writer')
  BY <1>1 DEF InventoryInv
<1>3. DOMAIN w = RequestFields /\ DesignationOK(q, w, snaps, engine, writer')
  BY <1>2 DEF DesignationOK
<1> HIDE DEF w
<1>4. /\ seen \subseteq w.seen
      /\ \A g : Marked(snaps, g) \subseteq w.seen => Marked(snaps, g) \subseteq seen
  BY DEF Marked
<1> HIDE DEF seen
<1>5. /\ DOMAIN v = RequestFields /\ v.pc = "mark" /\ v.op = w.op /\ v.arg = w.arg
      /\ v.seen = seen
  BY <1>3, RequestMoves
<1> HIDE DEF v
<1>6. DesignationOK(q, v, snaps, engine, writer')
  BY <1>1, <1>3, <1>4, <1>5 DEF DesignationOK
<1> QED  BY <1>1, <1>2, <1>6, RequestStep

\* Requests that are not between their UPDATEs under SQLite's lock keep
\* what they know when snapshots are added or marked.
LEMMA DesignationStays ==
  ASSUME NEW r, NEW v, NEW rows, NEW new, NEW db, NEW lock, NEW after,
         DesignationOK(r, v, rows, db, lock),
         ~ (db = "sqlite" /\ v.pc \in {"wait", "mark"}),
         DOMAIN rows \subseteq DOMAIN new,
         \A i \in DOMAIN rows : new[i].gateway = rows[i].gateway
  PROVE  DesignationOK(r, v, new, db, after)
BY DEF DesignationOK

\* A request that has ended.
LEMMA Done ==
  ASSUME NEW q, NEW w, NEW rows, NEW db, NEW lock, NEW new, NEW after,
         DesignationOK(q, w, rows, db, lock), NEW v, v = [w EXCEPT !.pc = "done"]
  PROVE  DesignationOK(q, v, new, db, after)
<1>1. DOMAIN w = RequestFields /\ (w.op = "certificate" => w.arg.cert.not_after \in Int)
  BY DEF DesignationOK
<1>2. DOMAIN v = RequestFields /\ v.pc = "done" /\ v.op = w.op /\ v.arg = w.arg
  BY <1>1, RequestMoves
<1> QED  BY <1>1, <1>2 DEF DesignationOK

LEMMA ImportsInserted ==
  ASSUME InventoryInv, NEW q \in InvRequests, ImportInsert(q)
  PROVE  InventoryInv'
<1> DEFINE w == inv[q]
           row == GatewayConfigurationSnapshot(w.arg.gateway, w.arg.text, FALSE)
           v == [w EXCEPT !.pc = "done"]
<1>1. /\ w.pc = "insert" /\ Free(q) /\ inv' = [inv EXCEPT ![q] = v]
      /\ snaps' = Append(snaps, row)
      /\ UNCHANGED engine /\ UNCHANGED designated /\ UNCHANGED writer
      /\ UNCHANGED certs /\ UNCHANGED today
  BY DEF ImportInsert, Step
<1>2. /\ SnapRows(snaps) /\ DOMAIN inv = InvRequests
      /\ \A r \in InvRequests : DesignationOK(r, inv[r], snaps, engine, writer)
      /\ BaselinesOK(designated, snaps, engine)
      /\ CertsOK(certs', today') /\ today' \in Int
  BY <1>1 DEF InventoryInv
<1>3. DOMAIN row = SnapFields /\ row.baseline = FALSE
  BY DEF GatewayConfigurationSnapshot, SnapFields
<1> HIDE DEF row
<1>4. /\ Rows(snaps') /\ DOMAIN snaps \subseteq DOMAIN snaps'
      /\ \A i \in DOMAIN snaps : snaps'[i] = snaps[i]
      /\ \A i \in DOMAIN snaps' : i \notin DOMAIN snaps => snaps'[i] = row
  BY <1>1, <1>2, RowsGrow DEF SnapRows
<1>5. SnapRows(snaps')
  BY <1>2, <1>3, <1>4 DEF SnapRows
<1>6. \A g : Marked(snaps', g) = Marked(snaps, g)
  BY <1>3, <1>4 DEF Marked
<1>7. BaselinesOK(designated', snaps', engine')
  BY <1>1, <1>2, <1>6 DEF BaselinesOK
<1>8. ASSUME NEW r \in InvRequests
      PROVE  DesignationOK(r, inv'[r], snaps', engine', writer')
  <2>1. CASE r = q
    <3>1. inv'[r] = v
      BY <1>1, <1>2, <2>1
    <3>2. DesignationOK(q, v, snaps', engine', writer')
      BY <1>1, <1>2, Done
    <3> QED  BY <2>1, <3>1, <3>2
  <2>2. CASE r # q
    <3>1. ~ (engine = "sqlite" /\ inv[r].pc \in {"wait", "mark"})
      BY <1>1, <2>2, OneWriter
    <3>2. inv'[r] = inv[r]
      BY <1>1, <1>2, <2>2
    <3>3. DesignationOK(r, inv[r], snaps', engine, writer')
      BY <1>2, <1>4, <3>1, DesignationStays
    <3> QED  BY <1>1, <3>2, <3>3
  <2> QED  BY <2>1, <2>2
<1>9. DOMAIN inv' = InvRequests
  BY <1>1, <1>2
<1> QED  BY <1>1, <1>2, <1>5, <1>7, <1>8, <1>9 DEF InventoryInv

\* What the commit of a designation does to the rows of the snapshots.
LEMMA RowsMarked ==
  ASSUME NEW rows, SnapRows(rows), NEW id \in DOMAIN rows, NEW seen, NEW new,
         new = Designate(rows, id, seen),
         \A i \in seen : rows[i].gateway = rows[id].gateway
  PROVE  /\ SnapRows(new) /\ DOMAIN new = DOMAIN rows
         /\ \A i \in DOMAIN rows : new[i].gateway = rows[i].gateway
         /\ id \in Marked(new, rows[id].gateway)
         /\ Marked(rows, rows[id].gateway) \subseteq seen =>
              Marked(new, rows[id].gateway) = {id}
         /\ \A g : g # rows[id].gateway => Marked(new, g) = Marked(rows, g)
<1> DEFINE mark(i) == IF i = id THEN TRUE ELSE IF i \in seen THEN FALSE ELSE rows[i].baseline
<1>1. DOMAIN new = DOMAIN rows /\ Len(rows) \in Nat /\ DOMAIN rows = 1..Len(rows)
  BY RowsLength DEF SnapRows, Designate
<1>2. \A i \in DOMAIN rows : new[i] = [rows[i] EXCEPT !.baseline = mark(i)]
  BY DEF Designate
<1>3. \A i \in DOMAIN rows : DOMAIN rows[i] = SnapFields /\ rows[i].baseline \in BOOLEAN
  BY DEF SnapRows
<1>4. \A i \in DOMAIN rows : mark(i) \in BOOLEAN
  BY <1>3
<1>5. \A i \in DOMAIN rows :
        /\ DOMAIN new[i] = SnapFields
        /\ new[i].gateway = rows[i].gateway
        /\ new[i].baseline = mark(i)
  <2> HIDE DEF mark
  <2> QED  BY <1>2, <1>3 DEF SnapFields
<1>6. Rows(new)
  <2> DEFINE S == {new[i] : i \in 1..Len(rows)}
  <2>1. new \in [1..Len(rows) -> S]
    BY <1>1 DEF Designate
  <2>2. new \in Seq(S)
    <3> HIDE DEF S
    <3> QED  BY <1>1, <2>1, SeqDef
  <2> QED  BY <2>2 DEF Rows
<1> HIDE DEF mark
<1>7. SnapRows(new)
  <2>1. \A i \in DOMAIN new : DOMAIN new[i] = SnapFields /\ new[i].baseline \in BOOLEAN
    BY <1>1, <1>4, <1>5, Zenon
  <2> QED  BY <1>6, <2>1 DEF SnapRows
<1>8. id \in Marked(new, rows[id].gateway)
  BY <1>1, <1>5 DEF Marked, mark
<1>9. ASSUME Marked(rows, rows[id].gateway) \subseteq seen
      PROVE  Marked(new, rows[id].gateway) = {id}
  <2>1. ASSUME NEW i \in Marked(new, rows[id].gateway) PROVE i = id
    <3>1. /\ i \in DOMAIN rows /\ rows[i].gateway = rows[id].gateway /\ mark(i)
      BY <1>1, <1>5, <2>1 DEF Marked
    <3>2. i \in Marked(rows, rows[id].gateway) \/ ~ rows[i].baseline
      BY <3>1 DEF Marked
    <3>3. i \in seen \/ ~ rows[i].baseline
      BY <1>9, <3>2
    <3> QED  BY <3>1, <3>3 DEF mark
  <2> QED  BY <1>8, <2>1
<1>10. ASSUME NEW g, g # rows[id].gateway PROVE Marked(new, g) = Marked(rows, g)
  BY <1>1, <1>3, <1>5, <1>10 DEF Marked, mark
<1> QED  BY <1>1, <1>5, <1>7, <1>8, <1>9, <1>10

LEMMA BaselinesCommitted ==
  ASSUME InventoryInv, NEW q \in InvRequests, BaselineCommit(q)
  PROVE  InventoryInv'
<1> DEFINE w == inv[q]
           id == w.arg.id
           gw == snaps[id].gateway
           v == [w EXCEPT !.pc = "done"]
<1>1. /\ w.pc = "mark" /\ inv' = [inv EXCEPT ![q] = v]
      /\ snaps' = Designate(snaps, id, w.seen)
      /\ DOMAIN designated' = DOMAIN designated \cup {gw}
      /\ \A g \in DOMAIN designated \cup {gw} :
           designated'[g] = IF g = gw THEN id ELSE designated[g]
      /\ UNCHANGED engine /\ UNCHANGED certs /\ UNCHANGED today
  BY DEF BaselineCommit, Step
<1>2. /\ SnapRows(snaps) /\ DOMAIN inv = InvRequests
      /\ \A r \in InvRequests : DesignationOK(r, inv[r], snaps, engine, writer)
      /\ BaselinesOK(designated, snaps, engine)
      /\ CertsOK(certs', today') /\ today' \in Int
  BY <1>1 DEF InventoryInv
<1>3. /\ id \in DOMAIN snaps
      /\ \A i \in w.seen : snaps[i].gateway = gw
      /\ engine = "sqlite" => writer = q /\ Marked(snaps, gw) \subseteq w.seen
  BY <1>1, <1>2 DEF DesignationOK
<1>4. /\ SnapRows(snaps') /\ DOMAIN snaps' = DOMAIN snaps
      /\ \A i \in DOMAIN snaps : snaps'[i].gateway = snaps[i].gateway
      /\ id \in Marked(snaps', gw)
      /\ Marked(snaps, gw) \subseteq w.seen => Marked(snaps', gw) = {id}
      /\ \A g : g # gw => Marked(snaps', g) = Marked(snaps, g)
  <2> DEFINE seen == w.seen
             new == snaps'
             rows == snaps
  <2>1. /\ new = Designate(rows, id, seen)
        /\ id \in DOMAIN rows /\ SnapRows(rows)
        /\ \A i \in seen : rows[i].gateway = rows[id].gateway
    BY <1>1, <1>2, <1>3
  <2> HIDE DEF seen, new, rows, id
  <2>2. /\ SnapRows(new) /\ DOMAIN new = DOMAIN rows
        /\ \A i \in DOMAIN rows : new[i].gateway = rows[i].gateway
        /\ id \in Marked(new, rows[id].gateway)
        /\ Marked(rows, rows[id].gateway) \subseteq seen =>
             Marked(new, rows[id].gateway) = {id}
        /\ \A g : g # rows[id].gateway => Marked(new, g) = Marked(rows, g)
    BY <2>1, RowsMarked
  <2> QED  BY <2>2 DEF seen, new, rows
<1>5. BaselinesOK(designated', snaps', engine')
  <2> SUFFICES ASSUME NEW g \in DOMAIN designated \cup {gw}
               PROVE  /\ designated'[g] \in Marked(snaps', g)
                      /\ engine = "sqlite" => Marked(snaps', g) = {designated'[g]}
    BY <1>1 DEF BaselinesOK
  <2>1. CASE g = gw
    BY <1>1, <1>3, <1>4, <2>1
  <2>2. CASE g # gw
    BY <1>1, <1>2, <1>4, <2>2 DEF BaselinesOK
  <2> QED  BY <2>1, <2>2
<1>6. ASSUME NEW r \in InvRequests
      PROVE  DesignationOK(r, inv'[r], snaps', engine', writer')
  <2>1. CASE r = q
    <3>1. inv'[r] = v
      BY <1>1, <1>2, <2>1
    <3>2. DesignationOK(q, w, snaps, engine, writer) /\ engine' = engine
      BY <1>1, <1>2
    <3>4. v = [w EXCEPT !.pc = "done"]
      OBVIOUS
    <3> HIDE DEF v, w
    <3>3. DesignationOK(q, v, snaps', engine', writer')
      BY <3>2, <3>4, Done
    <3> QED  BY <2>1, <3>1, <3>3
  <2>2. CASE r # q
    <3>1. ~ (engine = "sqlite" /\ inv[r].pc \in {"wait", "mark"})
      BY <1>2, <1>3, <2>2 DEF DesignationOK
    <3>2. inv'[r] = inv[r]
      BY <1>1, <1>2, <2>2
    <3>3. DesignationOK(r, inv[r], snaps', engine, writer')
      BY <1>2, <1>4, <3>1, DesignationStays
    <3> QED  BY <1>1, <3>2, <3>3
  <2> QED  BY <2>1, <2>2
<1>7. DOMAIN inv' = InvRequests
  BY <1>1, <1>2
<1> QED  BY <1>1, <1>2, <1>4, <1>5, <1>6, <1>7 DEF InventoryInv

LEMMA InventoryInductive == InventoryInv /\ [InventoryNext]_invVars => InventoryInv'
<1> SUFFICES ASSUME InventoryInv, [InventoryNext]_invVars PROVE InventoryInv'
  OBVIOUS
<1>1. ASSUME NEW q \in InvRequests,
             \/ ImportLookup(q) \/ ImportInsert(q) \/ BaselineRead(q) \/ BaselineDemote(q)
             \/ BaselineLocked(q) \/ BaselineCommit(q) \/ ComputeDrift(q) \/ ImportCertificate(q)
      PROVE  InventoryInv'
  BY <1>1, ImportsLookedUp, ImportsInserted, BaselinesRead, BaselinesDemoted,
     BaselinesLocked, BaselinesCommitted, DriftsComputed, CertificatesImported
<1>2. CASE Tick
  <2>1. /\ today' = today + 1 /\ UNCHANGED certs
        /\ UNCHANGED engine /\ UNCHANGED snaps /\ UNCHANGED inv
        /\ UNCHANGED writer /\ UNCHANGED designated
    BY <1>2 DEF Tick
  <2>2. CertsOK(certs', today') /\ today' \in Int
    BY <2>1 DEF InventoryInv, CertsOK
  <2> QED  BY <2>1, <2>2 DEF InventoryInv
<1>3. CASE UNCHANGED invVars
  <2>1. /\ UNCHANGED today /\ UNCHANGED certs
        /\ UNCHANGED engine /\ UNCHANGED snaps /\ UNCHANGED inv
        /\ UNCHANGED writer /\ UNCHANGED designated
    BY <1>3 DEF invVars
  <2> QED  BY <2>1 DEF InventoryInv
<1> QED  BY <1>1, <1>2, <1>3 DEF InventoryNext

(***************************************************************************)
(* SummaryShown.  Whatever designations, imports and days pass, the        *)
(* snapshot designated last is a baseline of its gateway, under SQLite's   *)
(* writer lock the only one, so that the summary is answered with it, and  *)
(* no certificate is counted as expired that is not.                       *)
(***************************************************************************)
THEOREM SummaryShown ==
  ASSUME NEW asked, NEW rows, SnapRows(rows),
         \A q \in InvRequests : Dated(asked[q])
  PROVE  InventorySpec(asked, rows) => []SummaryIsRight
<1>1. InventoryInit(asked, rows) => InventoryInv
  BY InventoryStarts
<1>2. ASSUME InventoryInv PROVE SummaryIsRight
  <2> SUFFICES ASSUME NEW g \in DOMAIN designated
               PROVE  /\ designated[g] \in Baselines(g)
                      /\ engine = "sqlite" => ~ SummaryFails(g)
                      /\ ~ SummaryFails(g) =>
                           /\ Summary(g).baselines = {designated[g]}
                           /\ Summary(g).expired <= Cardinality(TrulyExpired(g))
    BY DEF SummaryIsRight
  <2>1. /\ designated[g] \in Baselines(g)
        /\ engine = "sqlite" => Baselines(g) = {designated[g]}
    BY <1>2 DEF InventoryInv, BaselinesOK, Marked, Baselines
  <2>2. IsFiniteSet(Baselines(g)) /\ Cardinality(Baselines(g)) \in Nat
    <3>1. /\ Len(snaps) \in Nat /\ DOMAIN snaps = 1..Len(snaps)
          /\ Baselines(g) \subseteq 1..Len(snaps)
      BY <1>2, RowsLength DEF InventoryInv, SnapRows, Baselines
    <3>2. IsFiniteSet(1..Len(snaps))
      BY <3>1, FS_Interval
    <3>3. IsFiniteSet(Baselines(g))
      BY <3>1, <3>2, FS_Subset
    <3> QED  BY <3>3, FS_CardinalityType
  <2>3. engine = "sqlite" => ~ SummaryFails(g)
    <3>1. Cardinality({designated[g]}) = 1
      BY FS_Singleton
    <3> QED  BY <2>1, <3>1 DEF SummaryFails
  <2>4. ASSUME ~ SummaryFails(g) PROVE Baselines(g) = {designated[g]}
    <3>1. Cardinality(Baselines(g)) # 0
      BY <2>1, <2>2, FS_EmptySet
    <3>2. Cardinality(Baselines(g)) = 1
      BY <2>2, <2>4, <3>1 DEF SummaryFails
    <3>3. PICK x : Baselines(g) = {x}
      BY <2>2, <3>2, FS_Singleton
    <3> QED  BY <2>1, <3>3
  <2>5. Summary(g).expired <= Cardinality(TrulyExpired(g))
    <3> DEFINE counted == {i \in DOMAIN certs : certs[i].gateway = g /\ certs[i].validity = "EXPIRED"}
    <3>1. counted \subseteq TrulyExpired(g)
      BY <1>2 DEF InventoryInv, CertsOK, TrulyExpired
    <3>2. /\ Len(certs) \in Nat /\ DOMAIN certs = 1..Len(certs)
          /\ TrulyExpired(g) \subseteq 1..Len(certs)
      BY <1>2, RowsLength DEF InventoryInv, CertsOK, TrulyExpired
    <3>3. IsFiniteSet(1..Len(certs))
      BY <3>2, FS_Interval
    <3>4. IsFiniteSet(TrulyExpired(g))
      BY <3>2, <3>3, FS_Subset
    <3>5. Summary(g).expired = Cardinality(counted)
      BY DEF Summary
    <3> HIDE DEF counted
    <3> QED  BY <3>1, <3>4, <3>5, FS_Subset
  <2>6. Summary(g).baselines = Baselines(g)
    BY DEF Summary
  <2> QED  BY <2>1, <2>3, <2>4, <2>5, <2>6
<1> QED  BY <1>1, <1>2, InventoryInductive, PTL DEF InventorySpec

-----------------------------------------------------------------------------
(* Drift.  What the parser makes of a text, and what a comparison finds    *)
(* quiet, block by block up to two whole configurations.                   *)

\* A text whose roles have no key without a value.
Configured(text) ==
  \A n \in DOMAIN text.connections, r \in {"local", "remote"} :
    \A k \in DOMAIN text.connections[n][r] \cap RoleKeys : text.connections[n][r][k] # None

\* What the parser makes of a child, of a connection and of a text.
IsBlock(b) == b = [k \in DOMAIN b |-> b[k]]

IsChild(c) ==
  /\ c = [attrs |-> c.attrs, raw |-> c.raw]
  /\ IsBlock(c.attrs) /\ DOMAIN c.attrs = DOMAIN ChildDefaults

IsRole(b) == IsBlock(b) /\ DOMAIN b \subseteq RoleKeys /\ \A k \in DOMAIN b : b[k] # None

IsConnection(c) ==
  /\ c = [attrs |-> c.attrs, raw |-> c.raw, roles |-> c.roles, children |-> c.children]
  /\ IsBlock(c.attrs) /\ DOMAIN c.attrs = DOMAIN ConnDefaults
  /\ c.roles = [local |-> c.roles["local"], remote |-> c.roles["remote"]]
  /\ IsRole(c.roles["local"]) /\ IsRole(c.roles["remote"])
  /\ IsBlock(c.children) /\ \A n \in DOMAIN c.children : IsChild(c.children[n])

IsDigest(d) == IsBlock(d) /\ \A n \in DOMAIN d : IsConnection(d[n])

LEMMA Filled ==
  ASSUME NEW defaults, NEW given
  PROVE  IsBlock(Fill(defaults, given)) /\ DOMAIN Fill(defaults, given) = DOMAIN defaults
BY DEF Fill, IsBlock

LEMMA ParsedChild ==
  ASSUME NEW c PROVE IsChild(parse_child(c))
<1> DEFINE a == Fill(ChildDefaults, c)
           v == Given(c, "esp_proposals")
<1>1. IsBlock(a) /\ DOMAIN a = DOMAIN ChildDefaults
  BY Filled
<1>2. parse_child(c) = [attrs |-> a, raw |-> v]
  BY DEF parse_child
<1> HIDE DEF a, v
<1> QED  BY <1>1, <1>2 DEF IsChild

LEMMA ParsedConnection ==
  ASSUME NEW c,
         \A r \in {"local", "remote"} : \A k \in DOMAIN c[r] \cap RoleKeys : c[r][k] # None
  PROVE  IsConnection(parse_connection(c))
<1> DEFINE a == Fill(ConnDefaults, c.keys)
           v == Given(c.keys, "proposals")
           rs == [r \in {"local", "remote"} |-> Only(RoleKeys, c[r])]
           ch == [n \in DOMAIN c.children |-> parse_child(c.children[n])]
<1>1. IsBlock(a) /\ DOMAIN a = DOMAIN ConnDefaults
  BY Filled
<1>2. parse_connection(c) = [attrs |-> a, raw |-> v, roles |-> rs, children |-> ch]
  BY DEF parse_connection
<1>3. /\ rs = [local |-> rs["local"], remote |-> rs["remote"]]
      /\ rs["local"] = Only(RoleKeys, c["local"]) /\ rs["remote"] = Only(RoleKeys, c["remote"])
  OBVIOUS
<1>4. ASSUME NEW r \in {"local", "remote"} PROVE IsRole(Only(RoleKeys, c[r]))
  BY DEF Only, IsRole, IsBlock
<1>5. IsBlock(ch) /\ \A n \in DOMAIN ch : IsChild(ch[n])
  BY ParsedChild DEF IsBlock
<1> HIDE DEF a, v, rs, ch
<1> DEFINE p == parse_connection(c)
<1>6. p.attrs = a /\ p.raw = v /\ p.roles = rs /\ p.children = ch
  BY <1>2
<1>7. p = [attrs |-> p.attrs, raw |-> p.raw, roles |-> p.roles, children |-> p.children]
  BY <1>2
<1>8. IsRole(rs["local"]) /\ IsRole(rs["remote"])
  BY <1>3, <1>4
<1> HIDE DEF p
<1>9. IsConnection(p)
  BY <1>1, <1>3, <1>5, <1>6, <1>7, <1>8 DEF IsConnection
<1> QED  BY <1>9 DEF p

LEMMA ParsedText ==
  ASSUME NEW text, Configured(text)
  PROVE  /\ parse(text).connections = compute_canonical_digest(parse(text))
         /\ IsDigest(parse(text).connections)
<1> DEFINE cs == [n \in DOMAIN text.connections |-> parse_connection(text.connections[n])]
<1>1. parse(text).connections = cs
  BY DEF parse
<1>2. ASSUME NEW n \in DOMAIN text.connections PROVE IsConnection(parse_connection(text.connections[n]))
  BY ParsedConnection DEF Configured
<1>3. IsDigest(cs)
  BY <1>2 DEF IsDigest, IsBlock
<1> QED  BY <1>1, <1>3 DEF compute_canonical_digest

\* No item of a comparison counts as drift.
Quiet(items) ==
  \A d \in items : d[2] \notin {"CHANGED", "MISSING_IN_OBSERVED", "NEW_IN_OBSERVED"}

LEMMA QuietUnion ==
  ASSUME NEW A, NEW B PROVE Quiet(A \cup B) <=> Quiet(A) /\ Quiet(B)
BY DEF Quiet

LEMMA QuietAll ==
  ASSUME NEW SS PROVE Quiet(UNION SS) <=> \A A \in SS : Quiet(A)
BY DEF Quiet

LEMMA QuietItem ==
  ASSUME NEW path, NEW b, NEW o
  PROVE  /\ Quiet(Scalar(path, b, o)) <=> b = o
         /\ Quiet(Optional(path, b, o)) <=> b = o
<1>1. Quiet(Scalar(path, b, o)) <=> b = o
  BY DEF Quiet, Scalar
<1>2. Quiet(Optional(path, b, o)) <=> b = o
  <2>1. CASE b = None /\ o = None
    BY <2>1 DEF Optional, Quiet
  <2>2. CASE b = None /\ o # None
    BY <2>2 DEF Optional, Quiet
  <2>3. CASE b # None /\ o = None
    BY <2>3 DEF Optional, Quiet
  <2>4. CASE b # None /\ o # None
    BY <1>1, <2>4 DEF Optional
  <2> QED  BY <2>1, <2>2, <2>3, <2>4
<1> QED  BY <1>1, <1>2

LEMMA QuietNamed ==
  ASSUME NEW path, NEW base, NEW obs, NEW inside
  PROVE  Quiet(Named(path, base, obs, inside)) <=>
           /\ DOMAIN base = DOMAIN obs
           /\ \A n \in DOMAIN inside : Quiet(inside[n])
<1> DEFINE gone == {<<Append(path, n), "MISSING_IN_OBSERVED">> : n \in DOMAIN base \ DOMAIN obs}
           new  == {<<Append(path, n), "NEW_IN_OBSERVED">> : n \in DOMAIN obs \ DOMAIN base}
           both == UNION Range(inside)
<1>1. Quiet(Named(path, base, obs, inside)) <=> Quiet(gone) /\ Quiet(new) /\ Quiet(both)
  BY QuietUnion DEF Named
<1>2. Quiet(gone) <=> DOMAIN base \ DOMAIN obs = {}
  <2>1. ASSUME NEW n \in DOMAIN base \ DOMAIN obs PROVE ~ Quiet(gone)
    <3>1. <<Append(path, n), "MISSING_IN_OBSERVED">> \in gone
      OBVIOUS
    <3> HIDE DEF gone
    <3> QED  BY <3>1 DEF Quiet
  <2>2. ASSUME DOMAIN base \ DOMAIN obs = {} PROVE gone = {}
    BY <2>2
  <2> HIDE DEF gone
  <2> QED  BY <2>1, <2>2 DEF Quiet
<1>3. Quiet(new) <=> DOMAIN obs \ DOMAIN base = {}
  <2>1. ASSUME NEW n \in DOMAIN obs \ DOMAIN base PROVE ~ Quiet(new)
    <3>1. <<Append(path, n), "NEW_IN_OBSERVED">> \in new
      OBVIOUS
    <3> HIDE DEF new
    <3> QED  BY <3>1 DEF Quiet
  <2>2. ASSUME DOMAIN obs \ DOMAIN base = {} PROVE new = {}
    BY <2>2
  <2> HIDE DEF new
  <2> QED  BY <2>1, <2>2 DEF Quiet
<1>4. Quiet(both) <=> \A n \in DOMAIN inside : Quiet(inside[n])
  BY DEF Quiet, Range
<1> HIDE DEF gone, new, both
<1> QED  BY <1>1, <1>2, <1>3, <1>4

LEMMA QuietAttributes ==
  ASSUME NEW path, NEW b, NEW o, IsBlock(b.attrs), IsBlock(o.attrs),
         DOMAIN b.attrs = DOMAIN o.attrs
  PROVE  Quiet(Attributes(path, b, o)) <=> b.attrs = o.attrs
<1> DEFINE item(k) == Scalar(Append(path, k), b.attrs[k], o.attrs[k])
<1>1. Quiet(Attributes(path, b, o)) <=> \A k \in DOMAIN b.attrs : Quiet(item(k))
  BY DEF Attributes, Quiet
<1>2. \A k \in DOMAIN b.attrs : Quiet(item(k)) <=> b.attrs[k] = o.attrs[k]
  BY QuietItem
<1>3. (\A k \in DOMAIN b.attrs : b.attrs[k] = o.attrs[k]) <=> b.attrs = o.attrs
  BY DEF IsBlock
<1> QED  BY <1>1, <1>2, <1>3

LEMMA QuietChild ==
  ASSUME NEW path, NEW b, NEW o, IsChild(b), IsChild(o)
  PROVE  Quiet(ChildItems(path, b, o)) <=> PlainChild(b) = PlainChild(o)
<1>1. Quiet(ChildItems(path, b, o)) <=> b.attrs = o.attrs /\ Suites(b.raw) = Suites(o.raw)
  BY QuietUnion, QuietItem, QuietAttributes DEF ChildItems, IsChild
<1>2. ASSUME NEW c, IsChild(c) PROVE PlainChild(c) = [attrs |-> c.attrs, raw |-> Suites(c.raw)]
  BY <1>2 DEF IsChild, PlainChild
<1>3. /\ PlainChild(b) = [attrs |-> b.attrs, raw |-> Suites(b.raw)]
      /\ PlainChild(o) = [attrs |-> o.attrs, raw |-> Suites(o.raw)]
  BY <1>2
<1> QED  BY <1>1, <1>3

LEMMA QuietRoles ==
  ASSUME NEW path, NEW b, NEW o, IsConnection(b), IsConnection(o)
  PROVE  Quiet(RoleItems(path, b, o)) <=> b.roles = o.roles
<1> DEFINE item(r, k) == Optional(path \o <<r, k>>, Given(b.roles[r], k), Given(o.roles[r], k))
<1>1. Quiet(RoleItems(path, b, o)) <=>
        \A r \in {"local", "remote"}, k \in RoleKeys : Quiet(item(r, k))
  <2> DEFINE all == {item(r, k) : r \in {"local", "remote"}, k \in RoleKeys}
  <2>1. RoleItems(path, b, o) = UNION all
    BY DEF RoleItems
  <2>2. (\A A \in all : Quiet(A)) <=> \A r \in {"local", "remote"}, k \in RoleKeys : Quiet(item(r, k))
    <3> HIDE DEF item
    <3> QED  OBVIOUS
  <2> HIDE DEF all, item
  <2>3. Quiet(UNION all) <=> \A A \in all : Quiet(A)
    BY QuietAll
  <2> QED  BY <2>1, <2>2, <2>3
<1>2. \A r \in {"local", "remote"}, k \in RoleKeys :
        Quiet(item(r, k)) <=> Given(b.roles[r], k) = Given(o.roles[r], k)
  BY QuietItem
<1>3. ASSUME NEW x, NEW y, IsRole(x), IsRole(y)
      PROVE  (\A k \in RoleKeys : Given(x, k) = Given(y, k)) <=> x = y
  <2>1. ASSUME \A k \in RoleKeys : Given(x, k) = Given(y, k)
        PROVE  DOMAIN x = DOMAIN y /\ \A k \in DOMAIN x : x[k] = y[k]
    BY <1>3, <2>1 DEF IsRole, Given
  <2> QED  BY <1>3, <2>1 DEF IsRole, IsBlock
<1>4. /\ (\A k \in RoleKeys : Given(b.roles["local"], k) = Given(o.roles["local"], k))
            <=> b.roles["local"] = o.roles["local"]
      /\ (\A k \in RoleKeys : Given(b.roles["remote"], k) = Given(o.roles["remote"], k))
            <=> b.roles["remote"] = o.roles["remote"]
  BY <1>3 DEF IsConnection
<1>5. b.roles["local"] = o.roles["local"] /\ b.roles["remote"] = o.roles["remote"] <=> b.roles = o.roles
  BY DEF IsConnection
<1> HIDE DEF item
<1> QED  BY <1>1, <1>2, <1>4, <1>5

LEMMA QuietConnection ==
  ASSUME NEW path, NEW b, NEW o, IsConnection(b), IsConnection(o)
  PROVE  Quiet(ConnItems(path, b, o)) <=> Unspelled(b) = Unspelled(o)
<1> DEFINE x == b.children
           y == o.children
           kids(c) == [n \in DOMAIN c.children |-> PlainChild(c.children[n])]
           inside == [n \in DOMAIN x \cap DOMAIN y |->
                        ChildItems(path \o <<"children", n>>, x[n], y[n])]
<1>1. Quiet(ConnItems(path, b, o)) <=>
        /\ b.attrs = o.attrs /\ Suites(b.raw) = Suites(o.raw) /\ b.roles = o.roles
        /\ Quiet(Named(Append(path, "children"), x, y, inside))
  <2>1. Quiet(Attributes(path, b, o)) <=> b.attrs = o.attrs
    BY QuietAttributes DEF IsConnection
  <2>2. Quiet(Scalar(Append(path, "proposals"), Suites(b.raw), Suites(o.raw)))
          <=> Suites(b.raw) = Suites(o.raw)
    BY QuietItem
  <2>3. Quiet(RoleItems(path, b, o)) <=> b.roles = o.roles
    BY QuietRoles
  <2> DEFINE A == Attributes(path, b, o)
             B == Scalar(Append(path, "proposals"), Suites(b.raw), Suites(o.raw))
             C == RoleItems(path, b, o)
             D == Named(Append(path, "children"), x, y, inside)
  <2>4. ConnItems(path, b, o) = A \cup B \cup C \cup D
    BY DEF ConnItems
  <2> HIDE DEF A, B, C, D
  <2>5. Quiet(A \cup B \cup C \cup D) <=> Quiet(A) /\ Quiet(B) /\ Quiet(C) /\ Quiet(D)
    BY QuietUnion
  <2> QED  BY <2>1, <2>2, <2>3, <2>4, <2>5 DEF A, B, C, D
<1>2. Quiet(Named(Append(path, "children"), x, y, inside)) <=>
        /\ DOMAIN x = DOMAIN y
        /\ \A n \in DOMAIN x \cap DOMAIN y : PlainChild(x[n]) = PlainChild(y[n])
  <2>1. DOMAIN inside = DOMAIN x \cap DOMAIN y
    OBVIOUS
  <2>2. ASSUME NEW n \in DOMAIN x \cap DOMAIN y
        PROVE  Quiet(inside[n]) <=> PlainChild(x[n]) = PlainChild(y[n])
    <3>1. IsChild(x[n]) /\ IsChild(y[n])
      BY DEF IsConnection
    <3> QED  BY <3>1, QuietChild
  <2> HIDE DEF inside
  <2> QED  BY <2>1, <2>2, QuietNamed
<1>3. (/\ DOMAIN x = DOMAIN y
       /\ \A n \in DOMAIN x \cap DOMAIN y : PlainChild(x[n]) = PlainChild(y[n]))
      <=> kids(b) = kids(o)
  OBVIOUS
<1>4. ASSUME NEW c, IsConnection(c)
      PROVE  Unspelled(c) = [attrs |-> c.attrs, raw |-> Suites(c.raw), roles |-> c.roles,
                             children |-> kids(c)]
  <2> DEFINE k == kids(c)
  <2>2. Unspelled(c) = [c EXCEPT !.raw = Suites(c.raw), !.children = k]
    BY DEF Unspelled
  <2> HIDE DEF k
  <2>3. Unspelled(c) = [attrs |-> c.attrs, raw |-> Suites(c.raw), roles |-> c.roles, children |-> k]
    BY <1>4, <2>2 DEF IsConnection
  <2> QED  BY <2>3 DEF k
<1> HIDE DEF x, y, inside, kids
<1>5. /\ Unspelled(b) = [attrs |-> b.attrs, raw |-> Suites(b.raw), roles |-> b.roles, children |-> kids(b)]
      /\ Unspelled(o) = [attrs |-> o.attrs, raw |-> Suites(o.raw), roles |-> o.roles, children |-> kids(o)]
  BY <1>4
<1> QED  BY <1>1, <1>2, <1>3, <1>5

LEMMA QuietDrift ==
  ASSUME NEW base, NEW obs, IsDigest(base.connections), IsDigest(obs.connections)
  PROVE  Quiet(field_drifts(base, obs)) <=> Effective(base.connections) = Effective(obs.connections)
<1> DEFINE x == base.connections
           y == obs.connections
           inside == [n \in DOMAIN x \cap DOMAIN y |-> ConnItems(<<n>>, x[n], y[n])]
<1>1. Quiet(field_drifts(base, obs)) <=> Quiet(Named(<<>>, x, y, inside))
  <2>1. Quiet({<<<<"secrets">>, "NOT_COMPARABLE">>})
    BY DEF Quiet
  <2> QED  BY <2>1, QuietUnion DEF field_drifts
<1>2. DOMAIN inside = DOMAIN x \cap DOMAIN y
  OBVIOUS
<1>3. ASSUME NEW n \in DOMAIN x \cap DOMAIN y
      PROVE  Quiet(inside[n]) <=> Unspelled(x[n]) = Unspelled(y[n])
  BY QuietConnection DEF IsDigest
<1>4. (/\ DOMAIN x = DOMAIN y
       /\ \A n \in DOMAIN x \cap DOMAIN y : Unspelled(x[n]) = Unspelled(y[n]))
      <=> Effective(x) = Effective(y)
  BY DEF Effective
<1> HIDE DEF x, y, inside
<1> QED  BY <1>1, <1>2, <1>3, <1>4, QuietNamed DEF x, y

\* Snapshots as the parser read them.
Digested(row) == row.digest = row.ir.connections /\ IsDigest(row.digest)

\* A request v that will insert asks for the import of a configuration.
ImportRequestOK(v) ==
  /\ v.op = "import" => Configured(v.arg.text)
  /\ v.pc = "insert" => v.op = "import"

\* A drift row is the comparison of two rows, which have not changed since.
ComparedOK(found, rows) ==
  /\ Rows(found)
  /\ \A i \in DOMAIN found :
       /\ {found[i].base, found[i].obs} \subseteq DOMAIN rows
       /\ found[i].status = compare_snapshots(rows[found[i].base], rows[found[i].obs])

DriftInv ==
  /\ \A i \in DOMAIN snaps : Digested(snaps[i])
  /\ \A q \in InvRequests : ImportRequestOK(inv[q])
  /\ ComparedOK(drifts, snaps)

\* The rows of rows are still there, but for their baseline marks.
KeptIn(rows, new) ==
  /\ DOMAIN rows \subseteq DOMAIN new
  /\ \A i \in DOMAIN rows : /\ new[i].gateway = rows[i].gateway
                            /\ new[i].ir = rows[i].ir /\ new[i].digest = rows[i].digest

LEMMA ComparisonsStay ==
  ASSUME NEW found, NEW rows, NEW new, ComparedOK(found, rows), KeptIn(rows, new)
  PROVE  ComparedOK(found, new)
BY DEF ComparedOK, KeptIn, compare_snapshots

\* The request moves on: what it asked is what it asked before.
LEMMA ImportsStay ==
  ASSUME InventoryInv, \A q \in InvRequests : ImportRequestOK(inv[q]),
         NEW q \in InvRequests, NEW v, inv' = [inv EXCEPT ![q] = v],
         v.op = inv[q].op, v.arg = inv[q].arg, v.pc = "insert" => v.op = "import"
  PROVE  \A r \in InvRequests : ImportRequestOK(inv'[r])
<1> SUFFICES ASSUME NEW r \in InvRequests PROVE ImportRequestOK(inv'[r])
  OBVIOUS
<1>1. inv'[q] = v /\ (r # q => inv'[r] = inv[r])
  BY DEF InventoryInv
<1>2. CASE r = q
  BY <1>1, <1>2 DEF ImportRequestOK
<1>3. CASE r # q
  BY <1>1, <1>3
<1> QED  BY <1>2, <1>3

LEMMA ImportsPlaced ==
  ASSUME InventoryInv, \A q \in InvRequests : ImportRequestOK(inv[q]),
         NEW q \in InvRequests, NEW at, inv' = [inv EXCEPT ![q].pc = at],
         at = "insert" => inv[q].op = "import"
  PROVE  \A r \in InvRequests : ImportRequestOK(inv'[r])
<1> DEFINE w == inv[q]
           v == [w EXCEPT !.pc = at]
<1>1. DOMAIN w = RequestFields
  BY DEF InventoryInv, DesignationOK
<1>2. inv' = [inv EXCEPT ![q] = v]
  OBVIOUS
<1>3. at = "insert" => w.op = "import"
  OBVIOUS
<1> HIDE DEF w
<1>4. v.pc = at /\ v.op = w.op /\ v.arg = w.arg
  BY <1>1, RequestMoves
<1> HIDE DEF v
<1>5. v.op = inv[q].op /\ v.arg = inv[q].arg /\ (v.pc = "insert" => v.op = "import")
  BY <1>3, <1>4 DEF w
<1> QED  BY <1>2, <1>5, ImportsStay

LEMMA DriftStarts ==
  ASSUME NEW asked, NEW rows, InventoryInit(asked, rows),
         \A i \in DOMAIN rows : Digested(rows[i]),
         \A q \in InvRequests : asked[q].op = "import" => Configured(asked[q].text)
  PROVE  DriftInv
<1>1. /\ snaps = rows /\ drifts = <<>>
      /\ inv = [q \in InvRequests |->
                  [op |-> asked[q].op, arg |-> asked[q], pc |-> "todo", seen |-> {}]]
  BY DEF InventoryInit
<1>2. ASSUME NEW q \in InvRequests PROVE ImportRequestOK(inv[q])
  BY <1>1 DEF ImportRequestOK
<1>3. ComparedOK(drifts, snaps)
  BY <1>1 DEF ComparedOK, Rows
<1> QED  BY <1>1, <1>2, <1>3 DEF DriftInv

LEMMA DriftStays ==
  ASSUME InventoryInv, DriftInv, [InventoryNext]_invVars
  PROVE  DriftInv'
<1>1. CASE UNCHANGED invVars
  <2>1. UNCHANGED snaps /\ UNCHANGED inv /\ UNCHANGED drifts
    BY <1>1 DEF invVars
  <2> QED  BY <2>1 DEF DriftInv
<1>2. CASE Tick
  <2>1. UNCHANGED snaps /\ UNCHANGED inv /\ UNCHANGED drifts
    BY <1>2 DEF Tick
  <2> QED  BY <2>1 DEF DriftInv
<1> SUFFICES ASSUME NEW q \in InvRequests,
                    \/ ImportLookup(q) \/ ImportInsert(q) \/ BaselineRead(q)
                    \/ BaselineDemote(q) \/ BaselineLocked(q) \/ BaselineCommit(q)
                    \/ ComputeDrift(q) \/ ImportCertificate(q)
             PROVE  DriftInv'
  BY <1>1, <1>2 DEF InventoryNext
<1>3. \A r \in InvRequests : ImportRequestOK(inv[r])
  BY DEF DriftInv
<1> DEFINE w == inv[q]
<1>4. DOMAIN w = RequestFields
  BY DEF InventoryInv, DesignationOK
<1>5. ASSUME UNCHANGED snaps, UNCHANGED drifts, \A r \in InvRequests : ImportRequestOK(inv'[r])
      PROVE  DriftInv'
  BY <1>5 DEF DriftInv
<1>6. CASE ImportLookup(q)
  <2>1. PICK at : inv' = [inv EXCEPT ![q].pc = at]
    BY <1>6 DEF ImportLookup, Step
  <2>2. inv[q].op = "import" /\ UNCHANGED snaps /\ UNCHANGED drifts
    BY <1>6 DEF ImportLookup, Asked
  <2> QED  BY <1>3, <1>5, <2>1, <2>2, ImportsPlaced
<1>7. CASE ImportInsert(q)
  <2> DEFINE row == GatewayConfigurationSnapshot(inv[q].arg.gateway, inv[q].arg.text, FALSE)
  <2>1. /\ inv' = [inv EXCEPT ![q].pc = "done"] /\ inv[q].pc = "insert"
        /\ snaps' = Append(snaps, row) /\ UNCHANGED drifts
    BY <1>7 DEF ImportInsert, Step
  <2>2. Configured(inv[q].arg.text)
    BY <1>3, <2>1 DEF ImportRequestOK
  <2>3. row.ir = parse(inv[q].arg.text) /\ row.digest = compute_canonical_digest(row.ir)
    BY DEF GatewayConfigurationSnapshot
  <2>4. Digested(row)
    BY <2>2, <2>3, ParsedText DEF Digested, compute_canonical_digest
  <2> HIDE DEF row
  <2>5. /\ DOMAIN snaps \subseteq DOMAIN snaps'
        /\ \A i \in DOMAIN snaps : snaps'[i] = snaps[i]
        /\ \A i \in DOMAIN snaps' : i \notin DOMAIN snaps => snaps'[i] = row
    BY <2>1, RowsGrow DEF InventoryInv, SnapRows
  <2>6. KeptIn(snaps, snaps')
    BY <2>5 DEF KeptIn
  <2>7. ComparedOK(drifts', snaps')
    BY <2>1, <2>6, ComparisonsStay DEF DriftInv
  <2>8. \A r \in InvRequests : ImportRequestOK(inv'[r])
    BY <1>3, <2>1, ImportsPlaced
  <2> QED  BY <2>4, <2>5, <2>7, <2>8 DEF DriftInv
<1>8. CASE BaselineRead(q)
  <2>1. PICK at \in {"demote", "error"} : inv' = [inv EXCEPT ![q].pc = at]
    BY <1>8 DEF BaselineRead, Step
  <2>2. UNCHANGED snaps /\ UNCHANGED drifts
    BY <1>8 DEF BaselineRead
  <2> QED  BY <1>3, <1>5, <2>1, <2>2, ImportsPlaced
<1>9. ASSUME NEW x, NEW at \in {"wait", "mark"}, inv' = [inv EXCEPT ![q].pc = at, ![q].seen = x]
      PROVE  \A r \in InvRequests : ImportRequestOK(inv'[r])
  <2> DEFINE v == [w EXCEPT !.pc = at, !.seen = x]
  <2>1. inv' = [inv EXCEPT ![q] = v]
    BY <1>9
  <2> HIDE DEF w
  <2>2. v.pc = at /\ v.op = w.op /\ v.arg = w.arg
    BY <1>4, RequestMoves
  <2> HIDE DEF v
  <2>3. v.op = inv[q].op /\ v.arg = inv[q].arg /\ v.pc # "insert"
    BY <2>2 DEF w
  <2> QED  BY <1>3, <2>1, <2>3, ImportsStay
<1>10. CASE BaselineDemote(q)
  <2>1. PICK x : inv' = [inv EXCEPT ![q].pc = "wait", ![q].seen = x]
    BY <1>10 DEF BaselineDemote
  <2>2. UNCHANGED snaps /\ UNCHANGED drifts
    BY <1>10 DEF BaselineDemote
  <2> QED  BY <1>5, <1>9, <2>1, <2>2
<1>11. CASE BaselineLocked(q)
  <2>1. PICK x : inv' = [inv EXCEPT ![q].pc = "mark", ![q].seen = x]
    BY <1>11 DEF BaselineLocked
  <2>2. UNCHANGED snaps /\ UNCHANGED drifts
    BY <1>11 DEF BaselineLocked
  <2> QED  BY <1>5, <1>9, <2>1, <2>2
<1>12. CASE BaselineCommit(q)
  <2> DEFINE id == inv[q].arg.id
             rows == snaps
             new == snaps'
             mark(i) == IF i = id THEN TRUE ELSE IF i \in inv[q].seen THEN FALSE ELSE rows[i].baseline
  <2>1. /\ inv' = [inv EXCEPT ![q].pc = "done"] /\ new = Designate(rows, id, inv[q].seen)
        /\ UNCHANGED drifts
    BY <1>12 DEF BaselineCommit, Step
  <2>2. DOMAIN new = DOMAIN rows /\ \A i \in DOMAIN rows : new[i] = [rows[i] EXCEPT !.baseline = mark(i)]
    BY <2>1 DEF Designate
  <2>3. \A i \in DOMAIN rows : DOMAIN rows[i] = SnapFields
    BY DEF InventoryInv, SnapRows
  <2>4. \A i \in DOMAIN rows :
          new[i].gateway = rows[i].gateway /\ new[i].ir = rows[i].ir /\ new[i].digest = rows[i].digest
    <3> HIDE DEF mark, rows, new
    <3> QED  BY <2>2, <2>3 DEF SnapFields
  <2> HIDE DEF mark
  <2>5. KeptIn(snaps, snaps')
    BY <2>2, <2>4 DEF KeptIn
  <2>6. ComparedOK(drifts', snaps')
    BY <2>1, <2>5, ComparisonsStay DEF DriftInv
  <2>7. \A i \in DOMAIN snaps' : Digested(snaps'[i])
    BY <2>2, <2>4 DEF DriftInv, Digested
  <2>8. \A r \in InvRequests : ImportRequestOK(inv'[r])
    BY <1>3, <2>1, ImportsPlaced
  <2> QED  BY <2>6, <2>7, <2>8 DEF DriftInv
<1>13. CASE ComputeDrift(q)
  <2>1. PICK at \in {"done", "error"} : inv' = [inv EXCEPT ![q].pc = at]
    BY <1>13 DEF ComputeDrift, Step
  <2>2. \A r \in InvRequests : ImportRequestOK(inv'[r])
    BY <1>3, <2>1, ImportsPlaced
  <2>3. UNCHANGED snaps
    BY <1>13 DEF ComputeDrift
  <2>4. ComparedOK(drifts', snaps)
    <3>1. CASE {inv[q].arg.base, inv[q].arg.obs} \subseteq DOMAIN snaps
      <4> DEFINE row == GatewayConfigurationDrift(inv[q].arg.base, inv[q].arg.obs)
      <4>1. drifts' = Append(drifts, row)
        BY <1>13, <3>1 DEF ComputeDrift
      <4>2. /\ {row.base, row.obs} \subseteq DOMAIN snaps
            /\ row.status = compare_snapshots(snaps[row.base], snaps[row.obs])
        BY <3>1 DEF GatewayConfigurationDrift
      <4> HIDE DEF row
      <4>3. /\ Rows(drifts')
            /\ \A i \in DOMAIN drifts' : \/ i \in DOMAIN drifts /\ drifts'[i] = drifts[i]
                                         \/ drifts'[i] = row
        BY <4>1, RowsAppend DEF DriftInv, ComparedOK
      <4> QED  BY <4>2, <4>3 DEF DriftInv, ComparedOK
    <3>2. CASE ~ ({inv[q].arg.base, inv[q].arg.obs} \subseteq DOMAIN snaps)
      <4>1. UNCHANGED drifts
        BY <1>13, <3>2 DEF ComputeDrift
      <4> QED  BY <4>1 DEF DriftInv
    <3> QED  BY <3>1, <3>2
  <2>5. \A i \in DOMAIN snaps' : Digested(snaps'[i])
    BY <2>3 DEF DriftInv
  <2>6. ComparedOK(drifts', snaps')
    BY <2>3, <2>4
  <2> QED  BY <2>2, <2>5, <2>6 DEF DriftInv
<1>14. CASE ImportCertificate(q)
  <2>1. inv' = [inv EXCEPT ![q].pc = "done"] /\ UNCHANGED snaps /\ UNCHANGED drifts
    BY <1>14 DEF ImportCertificate, Step
  <2> QED  BY <1>3, <1>5, <2>1, ImportsPlaced
<1> QED  BY <1>6, <1>7, <1>8, <1>10, <1>11, <1>12, <1>13, <1>14

(***************************************************************************)
(* DriftShown.  Whatever is imported, compared and designated meanwhile,   *)
(* two snapshots of one gateway are recorded as matching exactly when the  *)
(* configurations they were made of are the same, for every configuration: *)
(* no block, key or proposal can differ without a drift item, and spelling *)
(* out a default produces none.                                            *)
(***************************************************************************)
THEOREM DriftShown ==
  ASSUME NEW asked, NEW rows, SnapRows(rows),
         \A q \in InvRequests : Dated(asked[q]),
         \A i \in DOMAIN rows : Digested(rows[i]),
         \A q \in InvRequests : asked[q].op = "import" => Configured(asked[q].text)
  PROVE  InventorySpec(asked, rows) => []DriftIsExact
<1>1. InventoryInit(asked, rows) => InventoryInv /\ DriftInv
  BY InventoryStarts, DriftStarts
<1>2. InventoryInv /\ DriftInv /\ [InventoryNext]_invVars => InventoryInv' /\ DriftInv'
  BY InventoryInductive, DriftStays
<1>3. ASSUME DriftInv PROVE DriftIsExact
  <2> SUFFICES ASSUME NEW i \in DOMAIN drifts,
                      NEW b, b = snaps[drifts[i].base], NEW o, o = snaps[drifts[i].obs],
                      b.gateway = o.gateway
               PROVE  drifts[i].status = "MATCHED" <=> Effective(b.digest) = Effective(o.digest)
    BY DEF DriftIsExact
  <2>1. /\ drifts[i].base \in DOMAIN snaps /\ drifts[i].obs \in DOMAIN snaps
        /\ drifts[i].status = compare_snapshots(b, o)
    BY <1>3 DEF DriftInv, ComparedOK
  <2>2. Digested(b) /\ Digested(o)
    BY <1>3, <2>1 DEF DriftInv
  <2>3. compare_snapshots(b, o) = "MATCHED" <=> Quiet(field_drifts(b.ir, o.ir))
    BY DEF compare_snapshots, Quiet
  <2>4. Quiet(field_drifts(b.ir, o.ir)) <=> Effective(b.ir.connections) = Effective(o.ir.connections)
    BY <2>2, QuietDrift DEF Digested
  <2> QED  BY <2>1, <2>2, <2>3, <2>4 DEF Digested
<1> QED  BY <1>1, <1>2, <1>3, PTL DEF InventorySpec
=============================================================================
