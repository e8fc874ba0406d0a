------------------------------ MODULE MCAssets ------------------------------
(***************************************************************************)
(* Instances of the asset side: a session works on the inventory           *)
(* (Inventory), with scanners (Scanning) or on datasets (Datasets); the    *)
(* three share no table.                                                   *)
(***************************************************************************)
EXTENDS Inventory, Scanning, Datasets, TLC

CONSTANTS ProbeForAnalysis   \* the values of "analysis" in the probes

Texts ==
    LET child(more) == more @@ [esp_proposals |-> "aes256gcm16"]
        conn(keys, kids) ==
            [connections |-> [site |-> [keys |-> keys, local |-> [id |-> "a", auth |-> "psk"],
                                        remote |-> [id |-> "b"], children |-> kids]],
             secrets |-> [ike |-> "hidden"]]
    IN  [plain     |-> conn([proposals |-> "aes256"], [net |-> child(<<>>)]),
         spelled   |-> conn([proposals |-> "aes256", version |-> "2"], [net |-> child([mode |-> "tunnel"])]),
         weaker    |-> conn([proposals |-> "3des"], [net |-> child(<<>>)]),
         emptied   |-> conn([proposals |-> ""], [net |-> child(<<>>)]),
         unset     |-> conn([version |-> "2"], [net |-> child(<<>>)]),
         childless |-> conn([proposals |-> "aes256"], <<>>)]

Row(name, baseline) ==
    GatewayConfigurationSnapshot("gw", Texts[name], baseline)

(* What the inventory's requests may ask: first all imports, with a        *)
(* comparison or a certificate, or designations over three snapshots.      *)
Import(t, g) == [op |-> "import", gateway |-> g, text |-> Texts[t]]

Baseline(i) == [op |-> "baseline", id |-> i]

Drift(b, o) == [op |-> "drift", base |-> b, obs |-> o]

Certificate(from, to, ids) ==
    [op |-> "certificate", gateway |-> "gw", snapshot |-> 1, trust |-> {"ca"},
     cert |-> [ids |-> ids, not_before |-> from, not_after |-> to, issuer |-> "ca"]]

InventoryWork ==
    \/ \E asked \in [InvRequests -> {Import(t, "gw") : t \in DOMAIN Texts} \cup {Import("plain", "other")}
                                    \cup {Drift(1, 2), Drift(2, 1)}] :
          /\ Cardinality({q \in InvRequests : asked[q].op = "drift"}) = 1
          /\ InventoryInit(asked, <<Row("plain", FALSE)>>)
    \/ \E asked \in [InvRequests -> {Baseline(i) : i \in 1..4} \cup {Drift(2, 3)} \cup
                        {Certificate(1, 2, {"a"}), Certificate(0, 0, {"c"}), Certificate(0, 3, {"b"})}] :
          InventoryInit(asked, <<Row("plain", TRUE), Row("weaker", FALSE), Row("unset", FALSE)>>)

InventoryIdle == InventoryInit([q \in InvRequests |-> [op |-> "none"]], <<>>)

Net(a, n) == [kind |-> "network", at |-> a, size |-> n]

Host == [kind |-> "name", at |-> 0, size |-> 1]

Request(targets, exclusions) == [attested |-> TRUE, targets |-> targets, exclusions |-> exclusions]

ScanRequests ==
    {Request({Net(1, 1)}, {}), Request({Net(1, 4)}, {Net(2, 1)}), Request({Host}, {Net(2, 2)}),
     Request({Host, Net(3, 1)}, {}), Request({Net(4, 4), Net(0, 4)}, {Net(4, 1)}),
     Request({Net(8, 4)}, {}), Request({Net(0, 8)}, {}), [Request({Net(1, 1)}, {}) EXCEPT !.attested = FALSE]}

Result(host, cves, claim) == [host |-> host, nvt |-> TRUE, cves |-> cves, claim |-> claim]

Upload(results, targets, scope, preview) ==
    [doc |-> [root |-> "report", results |-> results], targets |-> targets, scope |-> scope, preview |-> preview]

Both == <<Result(1, {"cve"}, "exact"), Result(3, {"cve"}, "wildcard")>>

Uploads ==
    LET testless == <<Result(1, {"cve"}, "exact"), [Result(3, {}, "none") EXCEPT !.nvt = FALSE]>>
        many == <<Result(Nothing, {}, "none"), Result(1, {}, "none"), Result(2, {}, "none"), Result(3, {}, "none")>>
    IN  {Upload(Both, {}, "s", FALSE), Upload(Both, {Net(0, 2)}, "s", FALSE), Upload(testless, {Net(1, 1)}, "s", FALSE),
         Upload(many, {}, "s", FALSE), [Upload(Both, {}, "s", TRUE) EXCEPT !.doc.root = "other"],
         Upload(Both, {Net(1, 1)}, "t", TRUE)}

ProbeRequests ==
    {[attested |-> at, target |-> t, analysis |-> an] :
        at \in BOOLEAN, t \in {Net(1, 1), Net(0, 4), Net(8, 1), Host}, an \in ProbeForAnalysis}

Idle(requests) == [q \in requests |-> Nothing]

(* Discovery of every kind of scope, imports while two jobs overlap, and   *)
(* probes.                                                                 *)
ScanningWork ==
    \/ /\ \E r \in ScanRequests, first \in Jobs :
            ScanningInit([j \in Jobs |-> IF j = first THEN r ELSE Request({Host}, {Net(2, 2)})],
                         Idle(Imports), Idle(Probes))
       /\ faults = 0
    \/ /\ \E uploads \in [Imports -> Uploads] :
            /\ \E r \in Imports : uploads[r] = Upload(Both, {}, "s", FALSE)
            /\ ScanningInit([j \in Jobs |-> Request({Net(1, 1), Net(3, 1)}, {})], uploads, Idle(Probes))
       /\ faults = MaxFaults /\ names = 1
    \/ /\ \E probes \in [Probes -> ProbeRequests] : ScanningInit(Idle(Jobs), Idle(Imports), probes)
       /\ faults = MaxFaults /\ names = 1

ScanningIdle ==
    ScanningInit(Idle(Jobs), Idle(Imports), Idle(Probes)) /\ names = 1 /\ faults = MaxFaults

\* A request as the schema fills it, one that cuts in halves, one with
\* ratios that do not sum to one.
Cuts == {<<70, 15, 15>>, <<50, 50, 0>>, <<70, 20, 20>>}

\* Sessions of one class may come from one capture, and it may also be
\* registered as unmodelled traffic.
Labelled ==
    {[class |-> "Web", sha |-> "x"], [class |-> "Gaming", sha |-> "y"],
     [class |-> "OOD_HOLDOUT", sha |-> "x"]}

DatasetSymmetry == Permutations(Clients)

Init ==
    \/ InventoryWork /\ ScanningIdle /\ DatasetInit
    \/ InventoryIdle /\ ScanningWork /\ DatasetInit
    \/ InventoryIdle /\ ScanningIdle /\ DatasetInit

Inventorying == \E q \in InvRequests : inv[q].op # "none"

Scans ==
    \/ \E j \in Jobs : scan[j].req # Nothing
    \/ \E p \in Probes : probe[p].req # Nothing

Next ==
    \/ Inventorying /\ InventoryNext /\ UNCHANGED <<scanVars, datasetVars>>
    \/ Scans /\ ScanningNext /\ UNCHANGED <<invVars, datasetVars>>
    \/ ~ Inventorying /\ ~ Scans /\ DatasetNext /\ UNCHANGED <<invVars, scanVars>>

Spec == Init /\ [][Next]_<<invVars, scanVars, datasetVars>>
=============================================================================
