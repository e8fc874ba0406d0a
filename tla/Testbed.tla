------------------------------ MODULE Testbed ------------------------------
(***************************************************************************)
(* What a lab experiment builds and how it is judged, as operators: the    *)
(* two topologies, the strongSwan configuration of each peer, the          *)
(* environment doctor, the verdict of a run and the scenario list of the   *)
(* API.                                                                    *)
(*                                                                         *)
(* A scenario is a record [topology, v6, ike, profile, peer_b, pfs, natt,  *)
(* impaired, expected]; peer_b is the profile of the responder, which is   *)
(* "same" unless the YAML file gives one of its own.                       *)
(***************************************************************************)
EXTENDS Naturals, Sequences, FiniteSets

\* TopologyType: five namespaces site to site, three host to host.
Namespaces(topology) ==
  IF topology = "TUNNEL_SITE_TO_SITE"
    THEN <<"cli", "gwa", "wan", "gwb", "srv">>
    ELSE <<"peera", "wan", "peerb">>

NamespaceNames == {"cli", "gwa", "wan", "gwb", "srv", "peera", "peerb"}

Link(a, at, b, bt) ==
  <<[op |-> "link", a |-> a, b |-> b],
    [op |-> "move", dev |-> a, ns |-> at],
    [op |-> "move", dev |-> b, ns |-> bt]>>

(***************************************************************************)
(* The commands of a topology, in their order.  Every veth pair is created *)
(* in the host's namespace under a name that is the same in every run, and *)
(* moved end by end; bridge, addresses and routes are commands executed    *)
(* inside the namespaces.                                                  *)
(***************************************************************************)
setup_tunnel_topology ==
  <<[op |-> "netns"]>>
    \o Link("v-cli-gw", "cli", "v-gw-cli", "gwa")
    \o Link("v-gwa-w", "gwa", "v-wan-a", "wan")
    \o Link("v-wan-b", "wan", "v-gwb-w", "gwb")
    \o Link("v-gw-srv", "gwb", "v-srv-gw", "srv")
    \o <<[op |-> "inside"]>>

setup_transport_topology ==
  <<[op |-> "netns"]>>
    \o Link("v-a-w", "peera", "v-wan-a", "wan")
    \o Link("v-b-w", "peerb", "v-wan-b", "wan")
    \o <<[op |-> "inside"]>>

Topology(s) ==
  IF s.topology = "TUNNEL_SITE_TO_SITE" THEN setup_tunnel_topology ELSE setup_transport_topology

Peers == {"a", "b"}   \* gw_a and gw_b, or peer_a and peer_b

PeerNs(s, p) ==
  CASE s.topology = "TUNNEL_SITE_TO_SITE" -> (IF p = "a" THEN "gwa" ELSE "gwb")
    [] OTHER -> (IF p = "a" THEN "peera" ELSE "peerb")

\* Between whom the probe runs: the clients behind the gateways, or the peers.
ProbeEnds(s) ==
  IF s.topology = "TUNNEL_SITE_TO_SITE" THEN {"cli", "srv"} ELSE {"peera", "peerb"}

ProbeSource(s) == IF s.topology = "TUNNEL_SITE_TO_SITE" THEN "cli" ELSE "peera"

-----------------------------------------------------------------------------
(***************************************************************************)
(* CryptoProposalMapper.get_proposals.  With PFS every ESP proposal names  *)
(* the group of the profile too.                                           *)
(***************************************************************************)
IkeProposals ==
  [IKEV2_AES256GCM_DH19_PFS          |-> {"aes256gcm16-prfsha256-ecp256", "aes256-sha256-ecp256"},
   IKEV2_AES128GCM_DH14_PFS          |-> {"aes128gcm16-prfsha256-modp2048", "aes128-sha256-modp2048"},
   IKEV2_AES256CBC_SHA256_DH14_NOPFS |-> {"aes256-sha256-modp2048"},
   IKEV2_AES128CBC_SHA1_DH2_NOPFS    |-> {"aes128-sha1-modp1024"},
   IKEV1_AES256CBC_SHA1_DH14         |-> {"aes256-sha1-modp2048"},
   IKEV1_3DES_SHA1_DH2               |-> {"3des-sha1-modp1024"},
   NO_COMMON_PROPOSAL                |-> {"aes256gcm16-prfsha256-ecp256"}]

EspSuites ==
  [IKEV2_AES256GCM_DH19_PFS          |-> [suites |-> {"aes256gcm16", "aes256-sha256"}, group |-> "ecp256"],
   IKEV2_AES128GCM_DH14_PFS          |-> [suites |-> {"aes128gcm16", "aes128-sha256"}, group |-> "modp2048"],
   IKEV2_AES256CBC_SHA256_DH14_NOPFS |-> [suites |-> {"aes256-sha256"}, group |-> "modp2048"],
   IKEV2_AES128CBC_SHA1_DH2_NOPFS    |-> [suites |-> {"aes128-sha1"}, group |-> "modp1024"],
   IKEV1_AES256CBC_SHA1_DH14         |-> [suites |-> {"aes256-sha1"}, group |-> "modp2048"],
   IKEV1_3DES_SHA1_DH2               |-> [suites |-> {"3des-sha1"}, group |-> "modp1024"],
   NO_COMMON_PROPOSAL                |-> [suites |-> {"aes256gcm16"}, group |-> "ecp256"]]

get_proposals(profile, pfs) ==
  [ike |-> IkeProposals[profile],
   esp |-> {<<e, IF pfs THEN EspSuites[profile].group ELSE "none">> : e \in EspSuites[profile].suites}]

\* get_address_plan: the addresses of one family, named by their role.
get_address_plan(s) ==
  [role \in {"a_wan", "b_wan", "client_subnet", "server_subnet"} |->
     <<IF s.v6 THEN "IPV6" ELSE "IPV4", role>>]

(***************************************************************************)
(* SwanctlConfigGenerator.render_peer_config: what the daemon of peer p is *)
(* given.  The transport selectors are the peers' own addresses.           *)
(***************************************************************************)
render_peer_config(s, p) ==
  LET plan    == get_address_plan(s)
      tunnel  == s.topology = "TUNNEL_SITE_TO_SITE"
      mine    == IF p = "a" THEN "a_wan" ELSE "b_wan"
      theirs  == IF p = "a" THEN "b_wan" ELSE "a_wan"
      profile == IF p = "b" /\ s.peer_b /= "same" THEN s.peer_b ELSE s.profile
  IN [version   |-> s.ike,
      local     |-> plan[mine],
      remote    |-> plan[theirs],
      local_ts  |-> IF ~tunnel THEN plan[mine]
                    ELSE plan[IF p = "a" THEN "client_subnet" ELSE "server_subnet"],
      remote_ts |-> IF ~tunnel THEN plan[theirs]
                    ELSE plan[IF p = "a" THEN "server_subnet" ELSE "client_subnet"],
      mode      |-> IF tunnel THEN "tunnel" ELSE "transport",
      encap     |-> s.natt,
      start     |-> p = "a",
      proposals |-> get_proposals(profile, s.pfs)]

\* strongSwan: two daemons agree on an IKE SA, and on a Child SA on top of it.
IkeAgrees(c, d) ==
  /\ c.version = d.version
  /\ c.local = d.remote /\ c.remote = d.local
  /\ c.proposals.ike \cap d.proposals.ike /= {}

ChildAgrees(c, d) ==
  /\ IkeAgrees(c, d)
  /\ c.mode = d.mode
  /\ c.local_ts = d.remote_ts /\ c.remote_ts = d.local_ts
  /\ c.proposals.esp \cap d.proposals.esp /= {}

-----------------------------------------------------------------------------
(***************************************************************************)
(* SystemRunner.validate_safety of an interface name: the host's own       *)
(* interfaces are refused, those of the lab pass.                          *)
(***************************************************************************)
ProtectedInterfaces == {"eth0", "enp3s0", "wlan0", "docker0", "tailscale0", "tun0", "br0"}

validate_safety(iface) == iface \notin ProtectedInterfaces

DoctorChecks ==
  {"linux_kernel", "root_privilege", "ip_netns", "ip_xfrm", "tc_netem", "tcpdump",
   "strongswan_swanctl", "strongswan_charon"}

\* run_diagnostics: a missing charon binary is a warning, anything else a FAIL.
DoctorReady(missing) == missing \subseteq {"strongswan_charon"}

\* Mutant of Verdict: a probe that got through counts without the SA.
Verdict_PingOnly(s, o) ==
  IF o.probe /\ o.packets THEN "VALIDATED" ELSE "FAILED"

(***************************************************************************)
(* The verdict of execute_scenario from what the run observed: o.sa, the   *)
(* poll of swanctl --list-sas; o.probe, the exit code of ping; o.packets,  *)
(* whether the WAN capture holds a packet that passed its filter.          *)
(***************************************************************************)
Verdict(s, o) ==
  CASE s.expected = "EXPECTED_REJECTION" -> (IF o.sa THEN "FAILED" ELSE "VALIDATED")
    [] s.expected = "UNSUPPORTED_ENVIRONMENT" -> "BLOCKED"
    [] s.expected \in {"SUCCESS", "EXPECTED_NEGATIVE"} /\ o.sa /\ o.probe ->
         (IF o.packets THEN "VALIDATED" ELSE "PARTIAL")
    [] OTHER -> "FAILED"

\* execute_workload_session has no expected outcome.
SessionVerdict(o) == Verdict([expected |-> "SUCCESS"], o)
=============================================================================
