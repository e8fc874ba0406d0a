-------------------------- MODULE MCEvidenceStore --------------------------
(***************************************************************************)
(* Captures as they are stored (EvidenceStore) and what is told of their   *)
(* analyses (Records), which share no table but the capture's.             *)
(*                                                                         *)
(* Stored: two uploads that may carry the same bytes or a malformed file   *)
(* beside a live session and two requests to stop it, or that session      *)
(* beside another one whose tcpdump outlives its stop.  Told: see          *)
(* MCRecords.                                                              *)
(***************************************************************************)
EXTENDS EvidenceStore, MCRecords

StoreInit == Init /\ RecordsInit

Apart ==
    \/ \A u \in Uploads : req[u] = Idle
    \/ \A s \in Surviving : sess[s] = NoSession /\ live[s] = NoFile

\* No analysis is told of yet, and of what it would show only one case is looked at.
Untold == RecordsInit /\ truth = [original |-> NotIpsec, changed |-> NotIpsec]

StoreNext ==
    \/ Untold /\ Next /\ Apart' /\ UNCHANGED recordsVars
    \/ Init /\ RecordsNext /\ UNCHANGED vars

StoreSpec == StoreInit /\ [][StoreNext]_<<vars, recordsVars>>
=============================================================================
