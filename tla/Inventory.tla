----------------------------- MODULE Inventory -----------------------------
(***************************************************************************)
(* The configuration inventory of the gateways (app/inventory,             *)
(* api/v1/inventory): configuration snapshots, the baseline of a gateway,  *)
(* drift between two snapshots, certificates and the summary.              *)
(*                                                                         *)
(* Requests interleave at their awaits.  On SQLite the first write of a    *)
(* transaction takes the one writer lock; on PostgreSQL an UPDATE works on *)
(* the rows its statement saw and waits only for rows another transaction  *)
(* has changed.                                                            *)
(*                                                                         *)
(* Abstractions: a configuration text is the blocks and keys it assigns,   *)
(* values are names; a raw proposal string is a name and "" the empty one. *)
(* Identities of gateways are compared as they are.  Days are numbers.     *)
(***************************************************************************)
EXTENDS Integers, Sequences, FiniteSets, SequencesExt

CONSTANTS
    Engines,      \* the databases considered: "sqlite", "postgresql"
    InvRequests,  \* request names
    LastDay,      \* the clock stops there
    None

ASSUME InventoryConstants ==
    /\ Engines \subseteq {"sqlite", "postgresql"}
    /\ LastDay \in Nat
    /\ None \notin InvRequests

expiring_soon_days == 1

-----------------------------------------------------------------------------
(***************************************************************************)
(* strongswan_parser.py.  A block sets what it assigns over the defaults;  *)
(* keys outside the supported ones go to the unsupported directives, which *)
(* are neither in the IR nor in the digest.                                *)
(***************************************************************************)
ConnDefaults ==
    [version |-> "2", local_addrs |-> "%any", remote_addrs |-> "%any", encap |-> "no",
     rekey_time |-> "14400s"]

ChildDefaults ==
    [mode |-> "tunnel", local_ts |-> "any", remote_ts |-> "any", start_action |-> "start",
     rekey_time |-> "3600s", replay_window |-> "64"]

RoleKeys == {"id", "auth", "certs", "cacerts"}

Fill(defaults, given) ==
    [k \in DOMAIN defaults |-> IF k \in DOMAIN given THEN given[k] ELSE defaults[k]]

Only(keys, given) == [k \in DOMAIN given \cap keys |-> given[k]]

Given(block, key) == IF key \in DOMAIN block THEN block[key] ELSE None

parse_child(c) == [attrs |-> Fill(ChildDefaults, c), raw |-> Given(c, "esp_proposals")]

parse_connection(c) ==
    [attrs |-> Fill(ConnDefaults, c.keys), raw |-> Given(c.keys, "proposals"),
     roles |-> [r \in {"local", "remote"} |-> Only(RoleKeys, c[r])],
     children |-> [n \in DOMAIN c.children |-> parse_child(c.children[n])]]

(* Secret values are replaced before anything is stored. *)
parse(text) ==
    [connections |-> [n \in DOMAIN text.connections |-> parse_connection(text.connections[n])],
     secrets |-> DOMAIN text.secrets]

compute_canonical_digest(ir) == ir.connections

-----------------------------------------------------------------------------
(***************************************************************************)
(* drift_engine.py: the items of a comparison as <<path, status>>.         *)
(***************************************************************************)
Scalar(path, b, o) == {<<path, IF b = o THEN "MATCHED" ELSE "CHANGED">>}

(* A raw proposal string, or the parsed proposals, which are empty with it.*)
Suites(raw) == IF raw = None THEN "" ELSE raw

Optional(path, b, o) ==
    IF b = None /\ o = None THEN {}
    ELSE IF b = None THEN {<<path, "NEW_IN_OBSERVED">>}
    ELSE IF o = None THEN {<<path, "MISSING_IN_OBSERVED">>}
    ELSE Scalar(path, b, o)

\* inside[n] are the drifts within the block n that both sides have.
Named(path, base, obs, inside) ==
    {<<Append(path, n), "MISSING_IN_OBSERVED">> : n \in DOMAIN base \ DOMAIN obs}
    \cup {<<Append(path, n), "NEW_IN_OBSERVED">> : n \in DOMAIN obs \ DOMAIN base}
    \cup UNION Range(inside)

Attributes(path, b, o) == UNION {Scalar(Append(path, k), b.attrs[k], o.attrs[k]) : k \in DOMAIN b.attrs}

ChildItems(path, b, o) == Attributes(path, b, o) \cup Scalar(Append(path, "esp_proposals"), Suites(b.raw), Suites(o.raw))

RoleItems(path, b, o) ==
    UNION {Optional(path \o <<r, k>>, Given(b.roles[r], k), Given(o.roles[r], k)) :
             r \in {"local", "remote"}, k \in RoleKeys}

\* Mutant: a child present on one side only is skipped.
ConnItemsCommonChildren(path, b, o) ==
    Attributes(path, b, o)
    \cup Scalar(Append(path, "proposals"), Suites(b.raw), Suites(o.raw))
    \cup RoleItems(path, b, o)
    \cup UNION {ChildItems(path \o <<"children", n>>, b.children[n], o.children[n]) :
                   n \in DOMAIN b.children \cap DOMAIN o.children}

ConnItems(path, b, o) ==
    Attributes(path, b, o)
    \cup Scalar(Append(path, "proposals"), Suites(b.raw), Suites(o.raw))
    \cup RoleItems(path, b, o)
    \cup Named(Append(path, "children"), b.children, o.children,
               [n \in DOMAIN b.children \cap DOMAIN o.children |->
                   ChildItems(path \o <<"children", n>>, b.children[n], o.children[n])])

field_drifts(base, obs) ==
    Named(<<>>, base.connections, obs.connections,
          [n \in DOMAIN base.connections \cap DOMAIN obs.connections |->
              ConnItems(<<n>>, base.connections[n], obs.connections[n])])
    \cup {<<<<"secrets">>, "NOT_COMPARABLE">>}

compare_snapshots(base, obs) ==
    IF base.gateway # obs.gateway THEN "INCOMPARABLE"
    ELSE IF \E d \in field_drifts(base.ir, obs.ir) :
               d[2] \in {"CHANGED", "MISSING_IN_OBSERVED", "NEW_IN_OBSERVED"}
    THEN "DRIFT_DETECTED" ELSE "MATCHED"

-----------------------------------------------------------------------------
(***************************************************************************)
(* certificate_parser.py.                                                  *)
(***************************************************************************)
validity_status(cert, today) ==
    IF today < cert.not_before THEN "NOT_YET_VALID"
    ELSE IF today > cert.not_after THEN "EXPIRED"
    ELSE IF cert.not_after - today <= expiring_soon_days THEN "EXPIRING_SOON"
    ELSE "VALID"

(* The one connection that names the certificate as an identity.           *)
associate_strongswan_identity(ids, connections) ==
    LET named == {n \in DOMAIN connections :
                     {Given(connections[n].roles["local"], "id"), Given(connections[n].roles["remote"], "id"),
                      Given(connections[n].roles["local"], "certs")} \cap ids # {}}
    IN  IF Cardinality(named) = 1 THEN CHOOSE n \in named : TRUE ELSE None

validate_chain(cert, trust) ==
    IF trust = {} THEN "UNCHECKED" ELSE IF cert.issuer \in trust THEN "VALIDATED" ELSE "FAILED"

-----------------------------------------------------------------------------
VARIABLES
    engine,      \* the database in use
    snaps,       \* snapshot rows, oldest first
    drifts,      \* drift rows
    certs,       \* certificate rows
    today,
    inv,         \* the requests: what was asked, where each stands
    writer,      \* the transaction that holds SQLite's writer lock
    designated   \* history: the last committed designation of each gateway

invVars == <<engine, snaps, drifts, certs, today, inv, writer, designated>>

Baselines(g) == {i \in DOMAIN snaps : snaps[i].gateway = g /\ snaps[i].baseline}

GatewayNames == {snaps[i].gateway : i \in DOMAIN snaps}

InvPcs == {"todo", "insert", "demote", "wait", "mark", "done", "error"}

(* A request: import(gateway, text), baseline(id), drift(base, obs) or     *)
(* certificate(gateway, snapshot, cert, trust).                            *)
Asked(q, op) == inv[q].pc = "todo" /\ inv[q].op = op

GatewayConfigurationSnapshot(gateway, text, baseline) ==
    [gateway |-> gateway, ir |-> parse(text), digest |-> compute_canonical_digest(parse(text)),
     baseline |-> baseline]

GatewayConfigurationDrift(base, observed) ==
    [base |-> base, obs |-> observed, status |-> compare_snapshots(snaps[base], snaps[observed])]

GatewayCertificate(gateway, cert, connections, trust) ==
    [gateway |-> gateway, cert |-> cert, validity |-> validity_status(cert, today),
     connection |-> associate_strongswan_identity(cert.ids, connections),
     chain |-> validate_chain(cert, trust)]

InventoryInit(asked, rows) ==
    /\ engine \in Engines
    /\ snaps = rows
    /\ drifts = <<>>
    /\ certs = <<>>
    /\ today = 0
    /\ inv = [q \in InvRequests |-> [op |-> asked[q].op, arg |-> asked[q], pc |-> "todo", seen |-> {}]]
    /\ writer = None
    /\ designated = [g \in {} |-> None]

Step(q, pc) == inv' = [inv EXCEPT ![q].pc = pc]

Free(q) == engine = "postgresql" \/ writer \in {None, q}

(* SELECT ... scalar_one_or_none: an error when there is more than one.    *)
ImportLookup(q) ==
    /\ Asked(q, "import")
    /\ LET same == {i \in DOMAIN snaps :
                       /\ snaps[i].gateway = inv[q].arg.gateway
                       /\ snaps[i].digest = compute_canonical_digest(parse(inv[q].arg.text))}
       IN  Step(q, CASE Cardinality(same) = 0 -> "insert"
                     [] Cardinality(same) = 1 -> "done"
                     [] OTHER -> "error")
    /\ UNCHANGED <<engine, snaps, drifts, certs, today, writer, designated>>

ImportInsert(q) ==
    /\ inv[q].pc = "insert"
    /\ Free(q)
    /\ snaps' = Append(snaps, GatewayConfigurationSnapshot(inv[q].arg.gateway, inv[q].arg.text, FALSE))
    /\ Step(q, "done")
    /\ UNCHANGED <<engine, drifts, certs, today, writer, designated>>

(* A digest is made of the JSON of the parsed text, which is never empty,  *)
(* so the guard against the digest of nothing (service.py:103) never bites.*)
BaselineRead(q) ==
    /\ Asked(q, "baseline")
    /\ Step(q, IF inv[q].arg.id \in DOMAIN snaps THEN "demote" ELSE "error")
    /\ UNCHANGED <<engine, snaps, drifts, certs, today, writer, designated>>

(* The UPDATE that demotes: it sees the baselines committed so far ...     *)
BaselineDemote(q) ==
    /\ inv[q].pc = "demote"
    /\ Free(q)
    /\ writer' = IF engine = "sqlite" THEN q ELSE writer
    /\ inv' = [inv EXCEPT ![q].pc = "wait", ![q].seen = Baselines(snaps[inv[q].arg.id].gateway)]
    /\ UNCHANGED <<engine, snaps, drifts, certs, today, designated>>

Changed(q) == IF inv[q].pc = "mark" THEN inv[q].seen ELSE {}

(* ... waits for transactions that changed one of them, and keeps those    *)
(* that are baselines still.                                               *)
BaselineLocked(q) ==
    /\ inv[q].pc = "wait"
    /\ \A r \in InvRequests \ {q} : Changed(r) \cap inv[q].seen = {}
    /\ inv' = [inv EXCEPT ![q].pc = "mark", ![q].seen = {i \in @ : snaps[i].baseline}]
    /\ UNCHANGED <<engine, snaps, drifts, certs, today, writer, designated>>

\* Mutant: the demotion is committed only for a gateway's older rows.
BaselineCommitOlderOnly(q) ==
    /\ inv[q].pc = "mark"
    /\ \A r \in InvRequests \ {q} : inv[q].arg.id \notin Changed(r)
    /\ LET id == inv[q].arg.id IN
       /\ snaps' = [i \in DOMAIN snaps |->
                       [snaps[i] EXCEPT !.baseline = IF i = id THEN TRUE
                                                     ELSE IF i \in inv[q].seen /\ i < id THEN FALSE ELSE @]]
       /\ designated' = [g \in DOMAIN designated \cup {snaps[id].gateway} |->
                            IF g = snaps[id].gateway THEN id ELSE designated[g]]
    /\ Step(q, "done")
    /\ writer' = IF writer = q THEN None ELSE writer
    /\ UNCHANGED <<engine, drifts, certs, today>>

\* Row id becomes the baseline, the demoted rows are none any more.
Designate(rows, id, demoted) ==
    [i \in DOMAIN rows |->
        [rows[i] EXCEPT !.baseline = IF i = id THEN TRUE ELSE IF i \in demoted THEN FALSE ELSE @]]

BaselineCommit(q) ==
    /\ inv[q].pc = "mark"
    /\ \A r \in InvRequests \ {q} : inv[q].arg.id \notin Changed(r)
    /\ LET id == inv[q].arg.id IN
       /\ snaps' = Designate(snaps, id, inv[q].seen)
       /\ designated' = [g \in DOMAIN designated \cup {snaps[id].gateway} |->
                            IF g = snaps[id].gateway THEN id ELSE designated[g]]
    /\ Step(q, "done")
    /\ writer' = IF writer = q THEN None ELSE writer
    /\ UNCHANGED <<engine, drifts, certs, today>>

(* Any two snapshots may be compared. *)
ComputeDrift(q) ==
    /\ Asked(q, "drift")
    /\ Free(q)
    /\ IF {inv[q].arg.base, inv[q].arg.obs} \subseteq DOMAIN snaps
       THEN /\ drifts' = Append(drifts, GatewayConfigurationDrift(inv[q].arg.base, inv[q].arg.obs))
            /\ Step(q, "done")
       ELSE Step(q, "error") /\ UNCHANGED drifts
    /\ UNCHANGED <<engine, snaps, certs, today, writer, designated>>

(* The status is the one of the day of the import. *)
ImportCertificate(q) ==
    /\ Asked(q, "certificate")
    /\ Free(q)
    /\ LET a == inv[q].arg
           connections == IF a.snapshot \in DOMAIN snaps THEN snaps[a.snapshot].ir.connections ELSE <<>>
       IN  certs' = Append(certs, GatewayCertificate(a.gateway, a.cert, connections, a.trust))
    /\ Step(q, "done")
    /\ UNCHANGED <<engine, snaps, drifts, today, writer, designated>>

Tick ==
    /\ today < LastDay
    /\ today' = today + 1
    /\ UNCHANGED <<engine, snaps, drifts, certs, inv, writer, designated>>

InventoryNext ==
    \/ \E q \in InvRequests :
          \/ ImportLookup(q) \/ ImportInsert(q)
          \/ BaselineRead(q) \/ BaselineDemote(q) \/ BaselineLocked(q) \/ BaselineCommit(q)
          \/ ComputeDrift(q) \/ ImportCertificate(q)
    \/ Tick

InventorySpec(asked, rows) == InventoryInit(asked, rows) /\ [][InventoryNext]_invVars

(* get_gateway_summaries: fails when a gateway has two baselines.          *)
SummaryFails(g) == Cardinality(Baselines(g)) > 1

Summary(g) ==
    [baselines |-> Baselines(g),
     expired |-> Cardinality({i \in DOMAIN certs : certs[i].gateway = g /\ certs[i].validity = "EXPIRED"})]

-----------------------------------------------------------------------------
(* What the summary of a gateway says: the baseline that was designated    *)
(* last is always among its baselines, whatever designations overlapped,   *)
(* and with SQLite's writer lock it is the only one, so that the summary   *)
(* is answered and shows it (service.py:109-125, 317-321).  Certificates   *)
(* keep the status of their import, so the summary may count too few       *)
(* expired ones and never too many (service.py:351).                       *)
TrulyExpired(g) == {i \in DOMAIN certs : certs[i].gateway = g /\ today > certs[i].cert.not_after}

SummaryIsRight ==
    \A g \in DOMAIN designated :
        /\ designated[g] \in Baselines(g)
        /\ engine = "sqlite" => ~ SummaryFails(g)
        /\ ~ SummaryFails(g) => /\ Summary(g).baselines = {designated[g]}
                                /\ Summary(g).expired <= Cardinality(TrulyExpired(g))

(* Drift is reported exactly when the configurations differ: two snapshots *)
(* of a gateway match if and only if their canonical digests are equal, an *)
(* empty proposal string counting as none, whichever keys the texts spell  *)
(* out (drift_engine.py:58-306 against strongswan_parser.py:368).          *)
PlainChild(c) == [c EXCEPT !.raw = Suites(@)]

Unspelled(c) ==
    [c EXCEPT !.raw = Suites(@),
              !.children = [n \in DOMAIN c.children |-> PlainChild(c.children[n])]]

Effective(digest) == [n \in DOMAIN digest |-> Unspelled(digest[n])]

DriftIsExact ==
    \A i \in DOMAIN drifts :
        LET b == snaps[drifts[i].base]
            o == snaps[drifts[i].obs]
        IN  b.gateway = o.gateway =>
               (drifts[i].status = "MATCHED" <=> Effective(b.digest) = Effective(o.digest))
=============================================================================
