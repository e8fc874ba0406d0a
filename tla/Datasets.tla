------------------------------ MODULE Datasets ------------------------------
(***************************************************************************)
(* The dataset factory: families, versions and labelled sessions, their    *)
(* partition into splits with its leakage audit, the answers that describe *)
(* it, and the training sets the ML builder materialises from the rows.    *)
(*                                                                         *)
(* An endpoint is its SELECTs and its commit; requests of other clients    *)
(* come in between.  A session is its class and the hash of its capture;   *)
(* scenario, cipher and flows are left out.  The quality gate has no       *)
(* caller, so every session is ACCEPTED, and nothing ever locks a version. *)
(***************************************************************************)
EXTENDS Integers, Sequences, FiniteSets

CONSTANTS
    Clients,          \* requests in progress at a time
    Families,         \* names of dataset families
    Classes,          \* workload classes a session may be registered with
    Supervised,       \* the classes of LABEL_TO_INT
    Outside,          \* the classes that are quarantined in OOD_HOLDOUT
    Registrations,    \* what a session may be registered as: [class, sha]
    Ratios,           \* <<train, val, test>> of a partition request, in percent
    MaxVersions, MaxSessions, MaxPartitions, MaxTrainings,   \* bounds
    Unset

ASSUME DatasetConstants ==
    /\ Supervised \subseteq Classes /\ Outside \subseteq Classes
    /\ Supervised \cap Outside = {}
    /\ \A r \in Registrations : r.class \in Classes
    /\ Ratios \subseteq (0..100) \X (0..100) \X (0..100)
    /\ IsFiniteSet(Classes) /\ IsFiniteSet(Clients) /\ MaxSessions \in Nat

VARIABLES
    families,    \* rows of datasets, by their unique name
    versions,    \* rows of dataset_versions; the index is the id
    labelled,    \* rows of dataset_sessions; the index is the id
    splits,      \* rows of dataset_splits: [by, session, split]
    client,      \* what each request has read
    answers,     \* the last PartitionResponse of each version
    trained,     \* the training sets that were materialised
    contended,   \* history: versions in which two additions / partitions overlapped
    spent        \* partitions and trainings started

datasetVars == <<families, versions, labelled, splits, client, answers, trained, contended, spent>>

SplitTypes == {"TRAIN", "VALIDATION", "TEST", "OOD_HOLDOUT"}

split_names == SplitTypes \ {"OOD_HOLDOUT"}

SessionsOf(v) == {s \in 1..Len(labelled) : labelled[s].version = v}

RowsOf(v) == {row \in splits : labelled[row.session].version = v}

-----------------------------------------------------------------------------
(* SessionLevelSplitter *)

\* int(round(n * percent / 100)): Python rounds a half to the even number.
Rounded(n, percent) ==
    LET q == (n * percent) \div 100
        r == (n * percent) % 100
    IN  IF r > 50 \/ (r = 50 /\ q % 2 = 1) THEN q + 1 ELSE q

(* How many sessions of a class of n go where: the test split has the rest.*)
Quota(n, ratios) ==
    LET train == Rounded(n, ratios[1])
        val == Rounded(n, ratios[2])
        v == IF train + val > n THEN (IF train > n THEN 0 ELSE n - train) ELSE val
    IN  [TRAIN |-> train, VALIDATION |-> v, TEST |-> n - train - v]

(* Each class is shuffled and cut into slices: any choice of the right     *)
(* sizes.  The classes outside the supervised task go to OOD_HOLDOUT.      *)
partition(sessions, ratios) ==
    LET InClass(k) == {s \in sessions : labelled[s].class = k}
    IN  {f \in [sessions -> SplitTypes] :
            /\ \A s \in sessions : f[s] = "OOD_HOLDOUT" <=> labelled[s].class \in Outside
            /\ \A k \in Classes \ Outside, p \in split_names :
                  Cardinality({s \in InClass(k) : f[s] = p}) = Quota(Cardinality(InClass(k)), ratios)[p]}

split_counts(rows) == [p \in SplitTypes |-> Cardinality({row \in rows : row.split = p})]

(* audit_leakage of one assignment: a session has one split in it, what    *)
(* may cross two splits is a capture that was registered twice.            *)
audit_leakage(rows) ==
    [is_clean |-> \A x, y \in rows :
                     labelled[x.session].sha = labelled[y.session].sha => x.split = y.split,
     total_sessions |-> Cardinality(rows),
     split_counts |-> split_counts(rows)]

-----------------------------------------------------------------------------
DatasetInit ==
    /\ families = {} /\ versions = <<>> /\ labelled = <<>>
    /\ splits = {} /\ answers = <<>> /\ trained = {}
    /\ client = [c \in Clients |-> Unset]
    /\ contended = [add |-> {}, partition |-> {}]
    /\ spent = [partition |-> 0, train |-> 0]

Ask(c, request) == client[c] = Unset /\ client' = [client EXCEPT ![c] = request]

Serving(c, op) == client[c] # Unset /\ client[c].op = op

Answer(c) == client' = [client EXCEPT ![c] = Unset]

\* Two requests of a kind are in progress on version v.
Contend(op, v) ==
    contended' = IF \E c \in Clients : Serving(c, op) /\ client[c].version = v
                   THEN [contended EXCEPT ![op] = @ \cup {v}] ELSE contended

(* create_dataset: a name that is there is answered with its row.          *)
FamilyLookup(c) ==
    /\ \E name \in Families \ families : Ask(c, [op |-> "family", name |-> name])
    /\ UNCHANGED <<families, versions, labelled, splits, answers, trained, contended, spent>>

(* ... and one that is not is inserted; the name is unique, so the second  *)
(* of two inserts fails.                                                   *)
FamilyInsert(c) ==
    /\ Serving(c, "family")
    /\ families' = families \cup {client[c].name}
    /\ Answer(c)
    /\ UNCHANGED <<versions, labelled, splits, answers, trained, contended, spent>>

\* Rows of dataset_sessions and dataset_splits.
DatasetSession(v, session) == [version |-> v, class |-> session.class, sha |-> session.sha]

DatasetSplits(by, f) == {[by |-> by, session |-> s, split |-> f[s]] : s \in DOMAIN f}

\* A new row of dataset_versions.
DatasetVersion(family) ==
    [dataset |-> family, status |-> "DRAFT", session_count |-> 0,
     class_distribution |-> [k \in Classes |-> 0]]

(* create_version: 404 without the family; the tag need not be unique.     *)
VersionInsert ==
    /\ Len(versions) < MaxVersions
    /\ \E name \in families : versions' = Append(versions, DatasetVersion(name))
    /\ answers' = Append(answers, Unset)
    /\ UNCHANGED <<families, labelled, splits, client, trained, contended, spent>>

(* create_session reads the version: 404 without it, 400 when LOCKED.      *)
SessionRead(c) ==
    /\ Len(labelled) + Cardinality({d \in Clients : Serving(d, "add")}) < MaxSessions
    /\ \E v \in 1..Len(versions), new \in Registrations :
          /\ versions[v].status # "LOCKED"
          /\ Ask(c, [op |-> "add", version |-> v, session |-> new, read |-> versions[v]])
          /\ Contend("add", v)
    /\ UNCHANGED <<families, versions, labelled, splits, answers, trained, spent>>

\* A version's row with the counters that follow what was read.
Recounted(row, read, class) ==
    [row EXCEPT !.session_count = read.session_count + 1,
                !.class_distribution = [read.class_distribution EXCEPT ![class] = @ + 1]]

\* Mutant of SessionCommit: class_distribution is changed in place, which
\* the mapper of a JSON column does not notice.
SessionCommit_InPlace(c) ==
    /\ Serving(c, "add")
    /\ LET r == client[c]
       IN  /\ labelled' = Append(labelled, DatasetSession(r.version, r.session))
           /\ versions' = [versions EXCEPT ![r.version].session_count = r.read.session_count + 1]
    /\ Answer(c)
    /\ UNCHANGED <<families, splits, answers, trained, contended, spent>>

(* ... inserts the session and writes the counters back, computed from     *)
(* what it read.                                                           *)
SessionCommit(c) ==
    /\ Serving(c, "add")
    /\ LET r == client[c]
       IN  /\ labelled' = Append(labelled, DatasetSession(r.version, r.session))
           /\ versions' = [versions EXCEPT ![r.version] = Recounted(@, r.read, r.session.class)]
    /\ Answer(c)
    /\ UNCHANGED <<families, splits, answers, trained, contended, spent>>

(* partition_version: the version with its sessions (404, 400 when there   *)
(* are none; ratios that do not sum to one raise), then the assignment.    *)
PartitionRead(c) ==
    /\ spent.partition < MaxPartitions
    /\ \E v \in 1..Len(versions), ratios \in Ratios :
          /\ SessionsOf(v) # {}
          /\ ratios[1] + ratios[2] + ratios[3] = 100
          /\ \E f \in partition(SessionsOf(v), ratios) :
                Ask(c, [op |-> "partition", version |-> v, found |-> Unset,
                        rows |-> DatasetSplits(spent.partition, f)])
          /\ Contend("partition", v)
    /\ spent' = [spent EXCEPT !.partition = @ + 1]
    /\ UNCHANGED <<families, versions, labelled, splits, answers, trained>>

(* ... then the rows of an earlier partition, to be deleted.               *)
PartitionFind(c) ==
    /\ Serving(c, "partition") /\ client[c].found = Unset
    /\ client' = [client EXCEPT ![c].found = RowsOf(client[c].version)]
    /\ UNCHANGED <<families, versions, labelled, splits, answers, trained, contended, spent>>

\* Mutant of PartitionCommit: the rows of the earlier partition stay.
PartitionCommit_KeepsOld(c) ==
    /\ Serving(c, "partition") /\ client[c].found # Unset
    /\ splits' = splits \cup client[c].rows
    /\ answers' = [answers EXCEPT ![client[c].version] = audit_leakage(client[c].rows)]
    /\ Answer(c)
    /\ UNCHANGED <<families, versions, labelled, trained, contended, spent>>

(* ... deletes what it found (a row that is already gone is no error) and  *)
(* inserts its own, whatever the audit says of them.                       *)
PartitionCommit(c) ==
    /\ Serving(c, "partition") /\ client[c].found # Unset
    /\ splits' = (splits \ client[c].found) \cup client[c].rows
    /\ answers' = [answers EXCEPT ![client[c].version] = audit_leakage(client[c].rows)]
    /\ Answer(c)
    /\ UNCHANGED <<families, versions, labelled, trained, contended, spent>>

-----------------------------------------------------------------------------
(* build_partitions_from_db *)

\* LeakageAuditor.audit_session_isolation raises unless this holds.
audit_session_isolation(listed) ==
    \A p, q \in split_names : p # q => listed[p] \cap listed[q] = {}

(* The split rows of a version, listed by split; of the rows of one        *)
(* session the last one read counts, in an order the query leaves open.    *)
TrainingRead(c) ==
    /\ spent.train < MaxTrainings
    /\ \E v \in 1..Len(versions) :
         LET rows == {row \in RowsOf(v) : row.split \in split_names}
             listed == [p \in split_names |-> {row.session : row \in {x \in rows : x.split = p}}]
         IN  /\ audit_session_isolation(listed)
             /\ \E last \in [{row.session : row \in rows} -> split_names] :
                   /\ \A s \in DOMAIN last : \E row \in rows : row.session = s /\ row.split = last[s]
                   /\ Ask(c, [op |-> "train", version |-> v, listed |-> listed, last |-> last])
    /\ spent' = [spent EXCEPT !.train = @ + 1]
    /\ UNCHANGED <<families, versions, labelled, splits, answers, trained, contended>>

(* ... then its sessions: the supervised ones with a split give the rows   *)
(* of the training set, the list of before gives its split hash.           *)
TrainingLoad(c) ==
    /\ Serving(c, "train")
    /\ LET r == client[c]
           usable == {s \in SessionsOf(r.version) \cap DOMAIN r.last : labelled[s].class \in Supervised}
       IN  trained' = trained \cup
             {[hashed |-> r.listed, groups |-> [p \in split_names |-> {s \in usable : r.last[s] = p}]]}
    /\ Answer(c)
    /\ UNCHANGED <<families, versions, labelled, splits, answers, contended, spent>>

DatasetNext ==
    \/ \E c \in Clients :
          \/ FamilyLookup(c) \/ FamilyInsert(c) \/ SessionRead(c) \/ SessionCommit(c)
          \/ PartitionRead(c) \/ PartitionFind(c) \/ PartitionCommit(c)
          \/ TrainingRead(c) \/ TrainingLoad(c)
    \/ VersionInsert

DatasetSpec == DatasetInit /\ [][DatasetNext]_datasetVars

-----------------------------------------------------------------------------
(* What is read back *)

(* GET /splits.  is_clean is claimed without a look at the rows.           *)
get_version_splits(v) ==
    [total_splits |-> Cardinality(RowsOf(v)), split_counts |-> split_counts(RowsOf(v)), is_clean |-> TRUE]

(* The manifest: every session of the version, with the split of one of    *)
(* its rows if it has any.                                                 *)
get_version_manifest(v) ==
    LET mapped == {row.session : row \in RowsOf(v)}
        split_map == [s \in mapped |-> (CHOOSE row \in RowsOf(v) : row.session = s).split]
    IN  [total_sessions |-> Cardinality(SessionsOf(v)),
         class_distribution |-> [k \in Classes |-> Cardinality({s \in SessionsOf(v) : labelled[s].class = k})],
         split_distribution |-> [p \in SplitTypes |-> Cardinality({s \in mapped : split_map[s] = p})]]

(* DatasetCounts.  The counters of a version, written back by requests     *)
(* that read them earlier, never exceed what is registered and always      *)
(* agree with each other; unless two additions overlapped they are the     *)
(* numbers the manifest counts afresh (datasets/router.py:317-321).        *)
DatasetCounts ==
    \A v \in 1..Len(versions) :
        LET row == versions[v]
            dist == row.class_distribution
            counted == get_version_manifest(v)
            Listed == {u \in Classes \X (1..MaxSessions) : u[2] <= dist[u[1]]}
        IN  /\ row.session_count = Cardinality(Listed)
            /\ row.session_count <= counted.total_sessions
            /\ \A k \in Classes : dist[k] <= counted.class_distribution[k]
            /\ v \notin contended.add =>
                  /\ row.session_count = counted.total_sessions
                  /\ dist = counted.class_distribution

(* SplitsAreTrue.  Unless two partitions of a version overlapped, a        *)
(* session has one split and the last answer describes the rows that are   *)
(* stored, in its counts, in the manifest's and in whether a capture is on *)
(* both sides of a cut.  Even when they overlapped, a training set never   *)
(* has a session on two sides, and it consists of the supervised sessions  *)
(* of the very list it is hashed with (datasets/router.py:371-390,         *)
(* ml/dataset.py:118-160).                                                 *)
SplitsAreTrue ==
    /\ \A v \in (1..Len(versions)) \ contended.partition :
          /\ \A x, y \in RowsOf(v) : x.session = y.session => x = y
          /\ answers[v] # Unset =>
                /\ answers[v] = audit_leakage(RowsOf(v))
                /\ answers[v].split_counts = get_version_splits(v).split_counts
                /\ answers[v].split_counts = get_version_manifest(v).split_distribution
    /\ \A set \in trained, p \in split_names :
          /\ set.groups[p] = {s \in set.hashed[p] : labelled[s].class \in Supervised}
          /\ \A q \in split_names \ {p} : set.groups[p] \cap set.groups[q] = {}

=============================================================================
