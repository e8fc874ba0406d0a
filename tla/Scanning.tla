------------------------------ MODULE Scanning ------------------------------
(***************************************************************************)
(* The active side of the assessment:                                      *)
(*   - discovery jobs (app/discovery): the scope check, the bounded nmap   *)
(*     run in a thread, the job's row and its cancellation;                *)
(*   - IKE probes (app/protocol/ike_scan): one transaction around the      *)
(*     probe, which blocks the event loop;                                 *)
(*   - imported vulnerability reports (app/vulnerabilities), whose         *)
(*     findings are linked to the hosts that discovery recorded.           *)
(*                                                                         *)
(* Abstractions: an address is a number below AddressCount, 0 is the       *)
(* unspecified one, those from FirstMulticast on are multicast, those from *)
(* FirstReserved on reserved, the last one is the broadcast address; a     *)
(* network is an aligned block whose size divides the address space;       *)
(* a host name resolves to one address, which may change between two       *)
(* look-ups.  A scan finds all or none of the addresses it was given up.  Failures *)
(* of a commit and a lost request are bounded by MaxFaults.                *)
(***************************************************************************)
EXTENDS Integers, Sequences, FiniteSets

CONSTANTS
    AddressCount, FirstMulticast, FirstReserved,
    TargetCap,       \* DISCOVERY_MAX_TARGETS
    ResultCap,       \* MAX_RESULTS_COUNT of a report
    HostCap,         \* MAX_HOSTS_COUNT of a report
    Jobs,            \* discovery requests
    Imports,         \* report imports
    Probes,          \* IKE probe requests
    MaxFaults,
    Nothing

\* A network of n addresses has n a power of two, as AddressCount is.
NetworkSizes == {n \in 1..AddressCount : AddressCount % n = 0}

ASSUME ScanningConstants ==
    /\ TargetCap \in Nat \ {0}
    /\ FirstMulticast \in Nat /\ FirstReserved \in Nat /\ AddressCount \in Nat
    /\ 0 < FirstMulticast /\ FirstMulticast < FirstReserved /\ FirstReserved < AddressCount
    /\ \A n \in NetworkSizes : n <= TargetCap => FirstMulticast % n = 0 /\ FirstReserved % n = 0
    /\ MaxFaults \in Nat
    /\ ResultCap \in Nat /\ HostCap \in Nat

Addresses == 0..(AddressCount - 1)

-----------------------------------------------------------------------------
(***************************************************************************)
(* discovery/validator.py.  A target is [kind, at, size]: an address or    *)
(* network, a host name, a wildcard, or text that is none of these.        *)
(***************************************************************************)
First(net) == net.at - (net.at % net.size)
Last_(net) == First(net) + net.size - 1
Members(net) == First(net)..Last_(net)

(* ipaddress.hosts(): without first and last address, except in a /31.     *)
Hosts(net) ==
    IF net.size <= 2 THEN Members(net) ELSE (First(net) + 1)..(Last_(net) - 1)

Unspecified(a) == a = 0

Multicast(a) == a >= FirstMulticast /\ a < FirstReserved

Reserved(a) == a >= FirstReserved

_validate_ip_safety(a) == ~ Unspecified(a) /\ ~ Multicast(a) /\ ~ Reserved(a)

(* is_multicast, is_unspecified, is_reserved of a network ask for its      *)
(* first and its last address.                                             *)
_validate_network_safety(net) ==
    /\ ~ (Multicast(First(net)) /\ Multicast(Last_(net)))
    /\ ~ (Unspecified(First(net)) /\ Unspecified(Last_(net)))
    /\ ~ (Reserved(First(net)) /\ Reserved(Last_(net)))

Acceptable(t, dns) ==
    CASE t.kind = "network" -> _validate_network_safety(t) /\ t.size <= TargetCap
      [] t.kind = "name" -> _validate_ip_safety(dns)
      [] t.kind \in {"wildcard", "malformed"} -> FALSE

Candidates(t, dns) == IF t.kind = "name" THEN {dns} ELSE Hosts(t)

Excluded(exclusions) == UNION {Members(x) : x \in exclusions}

canonical_targets(req, dns) ==
    (UNION {Candidates(t, dns) : t \in req.targets}) \ Excluded(req.exclusions)

validate_scope_request(req, dns) ==
    /\ req.attested
    /\ req.targets # {}
    /\ \A t \in req.targets : Acceptable(t, dns)
    /\ canonical_targets(req, dns) # {}
    /\ Cardinality(canonical_targets(req, dns)) <= TargetCap

-----------------------------------------------------------------------------
(***************************************************************************)
(* vulnerabilities/parser.py.  A document has a root and results; a result *)
(* has the address of its host or Nothing, a test with the CVEs it names   *)
(* and a product claim, exact or with a wildcard version, or no test.      *)
(* Results are read until ResultCap findings are kept; a host counts even  *)
(* when its result has no test.                                            *)
(***************************************************************************)
Kept(result) == result.host # Nothing /\ result.nvt

ReadResults(results) ==
    {i \in DOMAIN results : Cardinality({k \in 1..(i - 1) : Kept(results[k])}) < ResultCap}

unique_hosts(results) ==
    {results[i].host : i \in {k \in ReadResults(results) : results[k].host # Nothing}}

ReportElement(doc) == doc.root \in {"report", "get_reports_response"}

parse_greenbone_xml(doc) ==
    IF ~ ReportElement(doc) \/ Cardinality(unique_hosts(doc.results)) > HostCap THEN Nothing
    ELSE [findings |-> {doc.results[i] : i \in {k \in ReadResults(doc.results) : Kept(doc.results[k])}},
          hosts |-> unique_hosts(doc.results)]

(***************************************************************************)
(* vulnerabilities/correlator.py.                                          *)
(***************************************************************************)
_is_ip_in_scope(ip, targets) == targets = {} \/ \E t \in targets : ip \in Members(t)

\* Mutant: the last of several hosts with the address is taken.
evaluate_host_mapping_last(ip, targets, hosts) ==
    LET match == {i \in DOMAIN hosts : hosts[i].ip = ip} IN
    IF ~ _is_ip_in_scope(ip, targets) THEN [state |-> "OUT_OF_SCOPE", host |-> Nothing]
    ELSE IF match = {} THEN [state |-> "UNLINKED_NO_DISCOVERY_RECORD", host |-> Nothing]
    ELSE [state |-> "MAPPED_EXACT_IP", host |-> CHOOSE i \in match : \A j \in match : j <= i]

evaluate_host_mapping(ip, targets, hosts) ==
    LET match == {i \in DOMAIN hosts : hosts[i].ip = ip} IN
    CASE ~ _is_ip_in_scope(ip, targets) -> [state |-> "OUT_OF_SCOPE", host |-> Nothing]
      [] _is_ip_in_scope(ip, targets) /\ Cardinality(match) = 1 ->
            [state |-> "MAPPED_EXACT_IP", host |-> CHOOSE i \in match : TRUE]
      [] _is_ip_in_scope(ip, targets) /\ Cardinality(match) > 1 ->
            [state |-> "AMBIGUOUS_MULTIPLE_MATCHES", host |-> Nothing]
      [] _is_ip_in_scope(ip, targets) /\ match = {} ->
            [state |-> "UNLINKED_NO_DISCOVERY_RECORD", host |-> Nothing]

(* No finding is ever confirmed. *)
correlate_finding(f, link) ==
    IF link.state = "OUT_OF_SCOPE" THEN "UNMATCHED"
    ELSE IF f.cves = {} \/ f.claim # "exact" THEN "UNKNOWN" ELSE "POTENTIAL"

(* The state of every host, and the findings with theirs. *)
correlate_report(parsed, targets, discovered) ==
    LET host_map == [h \in parsed.hosts |-> evaluate_host_mapping(h, targets, discovered)]
    IN  [states |-> {host_map[h].state : h \in parsed.hosts},
         findings |-> {[ip |-> f.host, link |-> host_map[f.host],
                        correlation |-> correlate_finding(f, host_map[f.host])] : f \in parsed.findings}]

ReportStatus(correlated) ==
    IF correlated.states \cap {"AMBIGUOUS_MULTIPLE_MATCHES", "OUT_OF_SCOPE"} # {}
    THEN "COMPLETED_WITH_WARNINGS" ELSE "COMPLETED"

-----------------------------------------------------------------------------
VARIABLES
    names,     \* the address the host name resolves to now
    job,       \* rows of the discovery jobs
    scan,      \* the request of each job: where it stands, what it has
    cancel,    \* a cancellation in progress, and what it read
    hosts,     \* DiscoveredHost rows, oldest first
    reports,   \* VulnerabilityReport rows
    imp,       \* the import requests
    ike,       \* rows of the IKE jobs
    probe,     \* the probe requests
    sent,      \* history: addresses that were scanned, by job
    faults

scanVars == <<names, job, scan, cancel, hosts, reports, imp, ike, probe, sent, faults>>

Active == {"QUEUED", "VALIDATING", "RUNNING"}

(* A request that is Nothing is not made. *)
Begin(req) == IF req = Nothing THEN "end" ELSE "todo"

\* The row of a job and what its request knows: nothing is authorised yet.
DiscoveryJob(req) ==
    [pc |-> Begin(req), req |-> req, authorised |-> {}, result |-> Nothing]

ScanningInit(requests, uploads, probes) ==
    /\ names \in {1, FirstMulticast}
    /\ job = [j \in Jobs |-> "none"]
    /\ scan = [j \in Jobs |-> DiscoveryJob(requests[j])]
    /\ cancel = Nothing
    /\ hosts = <<>>
    /\ reports = <<>>
    /\ imp = [r \in Imports |-> [pc |-> Begin(uploads[r]), up |-> uploads[r], found |-> Nothing]]
    /\ ike = [p \in Probes |-> Nothing]
    /\ probe = [p \in Probes |-> [pc |-> Begin(probes[p]), req |-> probes[p]]]
    /\ sent = [j \in Jobs |-> {}]
    /\ faults \in 0..MaxFaults

Rename ==
    /\ \E j \in Jobs : scan[j].pc \in {"todo", "scan"} /\ \E t \in scan[j].req.targets : t.kind = "name"
    /\ names' \in {1, FirstMulticast} \ {names}
    /\ UNCHANGED <<job, scan, cancel, hosts, reports, imp, ike, probe, sent, faults>>

(* create_and_execute_job up to its first commit: names are resolved once. *)
JobStart(j) ==
    /\ scan[j].pc = "todo"
    /\ IF validate_scope_request(scan[j].req, names)
       THEN /\ job' = [job EXCEPT ![j] = "RUNNING"]
            /\ scan' = [scan EXCEPT ![j].pc = "scan", ![j].authorised = canonical_targets(scan[j].req, names)]
       ELSE scan' = [scan EXCEPT ![j].pc = "end"] /\ UNCHANGED job
    /\ UNCHANGED <<names, cancel, hosts, reports, imp, ike, probe, sent, faults>>

\* Mutant: nmap is given the requested targets and resolves names again.
build_nmap_argv_requested(j) == UNION {Candidates(t, names) : t \in scan[j].req.targets}

build_nmap_argv(j) == scan[j].authorised

(* parse_nmap_xml: the hosts of the document with the state of their port; *)
(* one that is open|filtered or has no known state makes it ambiguous.     *)
parse_nmap_xml(doc) ==
    [hosts |-> {h.ip : h \in doc}, has_ambiguity |-> \E h \in doc : h.port \in {"open|filtered", "unknown"}]

Documents(targets) ==
    {{}} \cup {{[ip |-> a, port |-> state] : a \in targets} : state \in {"open", "open|filtered"}}

(* run_discovery_scan: no nmap, an error exit or no document, out of time, *)
(* or the document nmap wrote, which may be empty or malformed.            *)
run_discovery_scan(argv) ==
    {[status |-> s, argv |-> {}, doc |-> Nothing] : s \in {"TOOL_UNAVAILABLE"}}
    \cup {[status |-> s, argv |-> argv, doc |-> Nothing] : s \in {"FAILED", "CANCELLED", "COMPLETED"}}
    \cup {[status |-> "COMPLETED", argv |-> argv, doc |-> d] : d \in Documents(argv)}

RunScan(j) ==
    /\ scan[j].pc = "scan"
    /\ \E r \in run_discovery_scan(build_nmap_argv(j)) :
          /\ sent' = [sent EXCEPT ![j] = r.argv]
          /\ scan' = [scan EXCEPT ![j].pc = "finish", ![j].result = r]
    /\ UNCHANGED <<names, job, cancel, hosts, reports, imp, ike, probe, faults>>

DiscoveredHost(j, ip) == [job |-> j, ip |-> ip]

\* One row for each address, the lowest first.
HostRows(j, ips) ==
    LET place(ip) == Cardinality({other \in ips : other <= ip})
    IN  [i \in 1..Cardinality(ips) |-> DiscoveredHost(j, CHOOSE ip \in ips : place(ip) = i)]

(* The status is assigned on the object read before the scan, hosts and    *)
(* services are added, and all is committed together.                      *)
JobFinish(j) ==
    /\ scan[j].pc = "finish"
    /\ LET r == scan[j].result
           parsed == parse_nmap_xml(r.doc)
       IN  IF r.status = "COMPLETED" /\ r.doc # Nothing
           THEN /\ job' = [job EXCEPT ![j] = IF parsed.has_ambiguity THEN "COMPLETED_WITH_AMBIGUITY" ELSE "COMPLETED"]
                /\ hosts' = hosts \o HostRows(j, parsed.hosts)
           ELSE /\ job' = [job EXCEPT ![j] = IF r.status = "COMPLETED" THEN "FAILED" ELSE r.status]
                /\ UNCHANGED hosts
    /\ scan' = [scan EXCEPT ![j].pc = "end"]
    /\ UNCHANGED <<names, cancel, reports, imp, ike, probe, sent, faults>>

(* The request is lost or its last commit fails: the row stays as it is.   *)
JobLost(j) ==
    /\ scan[j].pc \in {"scan", "finish"}
    /\ faults < MaxFaults
    /\ faults' = faults + 1
    /\ scan' = [scan EXCEPT ![j].pc = "end"]
    /\ UNCHANGED <<names, job, cancel, hosts, reports, imp, ike, probe, sent>>

(* cancel_job: reads the row and decides ... *)
CancelRead(j) ==
    /\ cancel = Nothing
    /\ job[j] # "none"
    /\ cancel' = [job |-> j, active |-> job[j] \in Active]
    /\ UNCHANGED <<names, job, scan, hosts, reports, imp, ike, probe, sent, faults>>

(* ... and writes status, reason and time later.  The scan goes on.        *)
CancelCommit ==
    /\ cancel # Nothing
    /\ job' = IF cancel.active THEN [job EXCEPT ![cancel.job] = "CANCELLED"] ELSE job
    /\ cancel' = Nothing
    /\ UNCHANGED <<names, scan, hosts, reports, imp, ike, probe, sent, faults>>

-----------------------------------------------------------------------------
(***************************************************************************)
(* import_report and preview_report.  An upload is [doc, targets, scope,   *)
(* preview]; uploads with equal documents are the same bytes.              *)
(***************************************************************************)
Artifact(r) == <<imp[r].up.doc, imp[r].up.scope>>

Correlated(r) == correlate_report(parse_greenbone_xml(imp[r].up.doc), imp[r].up.targets, hosts)

Parses(r) == parse_greenbone_xml(imp[r].up.doc) # Nothing

(* preview_report: parsed and correlated, nothing kept. *)
PreviewReport(r) ==
    /\ imp[r].pc = "todo" /\ imp[r].up.preview
    /\ imp' = [imp EXCEPT ![r].pc = IF Parses(r) THEN "end" ELSE "error",
                          ![r].found = IF Parses(r) THEN Correlated(r) ELSE Nothing]
    /\ UNCHANGED <<names, job, scan, cancel, hosts, reports, ike, probe, sent, faults>>

(* The look-up for the same artifact and engagement: an error when there   *)
(* is more than one.                                                       *)
ImportCheck(r) ==
    /\ imp[r].pc = "todo" /\ ~ imp[r].up.preview
    /\ LET same == {i \in DOMAIN reports : reports[i].of = Artifact(r)} IN
       imp' = [imp EXCEPT ![r].pc = IF Cardinality(same) = 1 THEN "end"
                                    ELSE IF same = {} /\ Parses(r) THEN "correlate" ELSE "error"]
    /\ UNCHANGED <<names, job, scan, cancel, hosts, reports, ike, probe, sent, faults>>

(* The artifact is saved, which may fail without consequence, and the      *)
(* hosts there are now are matched.                                        *)
ImportCorrelate(r) ==
    /\ imp[r].pc = "correlate"
    /\ imp' = [imp EXCEPT ![r].pc = "commit", ![r].found = Correlated(r)]
    /\ UNCHANGED <<names, job, scan, cancel, hosts, reports, ike, probe, sent, faults>>

VulnerabilityReport(r) ==
    [of |-> Artifact(r), findings |-> imp[r].found.findings,
     targets |-> imp[r].up.targets, status |-> ReportStatus(imp[r].found)]

ImportCommit(r) ==
    /\ imp[r].pc = "commit"
    /\ reports' = Append(reports, VulnerabilityReport(r))
    /\ imp' = [imp EXCEPT ![r].pc = "end"]
    /\ UNCHANGED <<names, job, scan, cancel, hosts, ike, probe, sent, faults>>

-----------------------------------------------------------------------------
(***************************************************************************)
(* ike_scan/service.py.  Nothing is committed before the probe has ended;  *)
(* a probe for an analysis then reads a column that the reconstructed SA   *)
(* does not have, which raises, and the transaction is rolled back.        *)
(***************************************************************************)
validate_ike_scope(req) ==
    /\ req.attested
    /\ \/ req.target.kind = "network" /\ req.target.size = 1
       \/ req.target.kind = "name"
    /\ req.target.kind = "network" => /\ ~ Multicast(req.target.at) /\ ~ Unspecified(req.target.at)
                                      /\ req.target.at # AddressCount - 1

(* What ike-scan may have printed: handshake and notify lines, the counts  *)
(* of its summary, words of an error.                                      *)
IkeOutputs == [lines : SUBSET {"handshake", "notify"}, summary : {"none", "zero", "some"}, error : BOOLEAN]

parse_ike_scan_output(out) ==
    IF "handshake" \in out.lines THEN "RESPONDED_HANDSHAKE"
    ELSE IF "notify" \in out.lines THEN "RESPONDED_NOTIFY"
    ELSE IF out.summary # "zero" /\ out.error THEN "TOOL_ERROR"
    ELSE "NO_RESPONSE"

run_ike_scan ==
    {[status |-> "TOOL_UNAVAILABLE", category |-> "TOOL_UNAVAILABLE"]}
    \cup {[status |-> s, category |-> "TOOL_ERROR"] : s \in {"CANCELLED", "FAILED"}}
    \cup {[status |-> "COMPLETED", category |-> parse_ike_scan_output(out)] : out \in IkeOutputs}

IkeProbe(p) ==
    /\ probe[p].pc = "todo"
    /\ IF ~ validate_ike_scope(probe[p].req)
       THEN probe' = [probe EXCEPT ![p].pc = "refused"] /\ UNCHANGED ike
       ELSE \E r \in run_ike_scan :
               /\ probe' = [probe EXCEPT ![p].pc = IF r.status = "TOOL_UNAVAILABLE" THEN "end" ELSE "sent"]
               /\ ike' = IF probe[p].req.analysis THEN ike ELSE [ike EXCEPT ![p] = r]
    /\ UNCHANGED <<names, job, scan, cancel, hosts, reports, imp, sent, faults>>

-----------------------------------------------------------------------------
JobStep(j) == JobStart(j) \/ RunScan(j) \/ JobFinish(j)

ImportStep(r) == PreviewReport(r) \/ ImportCheck(r) \/ ImportCorrelate(r) \/ ImportCommit(r)

ScanningNext ==
    \/ Rename
    \/ \E j \in Jobs : JobStep(j) \/ JobLost(j) \/ CancelRead(j)
    \/ CancelCommit
    \/ \E r \in Imports : ImportStep(r)
    \/ \E p \in Probes : IkeProbe(p)

ScanningSpec(requests, uploads, probes) ==
    ScanningInit(requests, uploads, probes) /\ [][ScanningNext]_scanVars

-----------------------------------------------------------------------------
(* A scan stays within what was authorised: every address nmap is given    *)
(* was a member of the request and not excluded, none is multicast or      *)
(* reserved, and there are never more than the cap, although host names    *)
(* may resolve to something else when the scan begins                      *)
(* (validator.py:140-234, runner.py:122).                                  *)
ScanStaysInScope ==
    \A j \in Jobs : sent[j] # {} =>
        /\ sent[j] = scan[j].authorised
        /\ sent[j] \cap Excluded(scan[j].req.exclusions) = {}
        /\ \A a \in sent[j] : a < FirstMulticast
        /\ Cardinality(sent[j]) <= TargetCap

(* Links tell the truth although discovery goes on meanwhile: a mapped     *)
(* finding points to an existing host row of its address, inside the       *)
(* engagement's targets, and any other row of that address came later; a   *)
(* report that completed without warnings has no finding that is out of    *)
(* scope or ambiguous (correlator.py:107-146, service.py:221).             *)
LinksAreTrue ==
    \A i \in DOMAIN reports : \A f \in reports[i].findings :
        /\ f.link.state = "MAPPED_EXACT_IP" =>
              /\ f.link.host \in DOMAIN hosts
              /\ hosts[f.link.host].ip = f.ip
              /\ \A k \in DOMAIN hosts : hosts[k].ip = f.ip => k >= f.link.host
              /\ _is_ip_in_scope(f.ip, reports[i].targets)
        /\ reports[i].status = "COMPLETED" =>
              f.link.state \in {"MAPPED_EXACT_IP", "UNLINKED_NO_DISCOVERY_RECORD"}

=============================================================================
