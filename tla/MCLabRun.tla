------------------------------ MODULE MCLabRun ------------------------------
(***************************************************************************)
(* An instance of LabRun: the replay of an impaired transport scenario and *)
(* a workload session in the tunnel topology, each started from its own    *)
(* command line.  Either the two overlap, or the replay is alone and its   *)
(* parts may resist their removal.                                         *)
(***************************************************************************)
EXTENDS LabRun

CONSTANTS x1, x2, h1, h2

Placement == [r \in Runs |-> IF r = x1 THEN h1 ELSE h2]

Kinds == [r \in Runs |-> IF r = x1 THEN "replay" ELSE "session"]

\* The suite of scn-01 to scn-05 of lab/scenarios/profiles.
Profiles ==
  [r \in Runs |->
     [topology |-> IF r = x1 THEN "TRANSPORT_HOST_TO_HOST" ELSE "TUNNEL_SITE_TO_SITE",
      v6 |-> FALSE, ike |-> "IKEV2",
      profile |-> "IKEV2_AES256GCM_DH19_PFS", peer_b |-> "same",
      pfs |-> TRUE, natt |-> FALSE, impaired |-> r = x1, expected |-> "SUCCESS"]]

\* The WAN namespace of the replay, the capture in it (both are called "wan") and the
\* pre-shared keys may resist removal.
Resisting == {x1} \X {"wan", "conf"}

Alone == undone # {} => pc[x2] = "idle"

ApartNext ==
  \/ LabNext /\ Alone'
  \/ undone # {} /\ pc[x1] \in Final /\ UNCHANGED vars

ApartSpec == LabInit /\ [][ApartNext]_vars

\* A host with everything, and one without root.
HostFaults == {{}, {"root_privilege"}}
=============================================================================
