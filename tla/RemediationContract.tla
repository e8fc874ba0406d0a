------------------------ MODULE RemediationContract ------------------------
(***************************************************************************)
(* What a closed-loop remediation run promises about the gateway it works  *)
(* on, without saying how.  While the verdict is open the run may install  *)
(* the candidate configuration, put the baseline back and make the daemon  *)
(* load whatever file is in place.  A verdict is given once; it tells the  *)
(* truth about the gateway, and the run never touches the gateway again.   *)
(***************************************************************************)
VARIABLES
  file,     \* the gateway's configuration file
  loaded,   \* the configuration the daemon runs
  verdict   \* what the run says of the gateway

contractVars == <<file, loaded, verdict>>

\* What the file and the daemon may hold where there is no baseline.
Untouched == {"absent", "empty", "none"}

ContractInit ==
  /\ file \in Untouched \cup {"baseline"}
  /\ loaded \in Untouched \cup {"baseline"}
  /\ verdict = "open"

\* The candidate replaces a baseline, never an absent or empty file.
Install ==
  /\ verdict = "open"
  /\ file \in {"baseline", "candidate"}
  /\ file' = "candidate"
  /\ UNCHANGED <<loaded, verdict>>

PutBack ==
  /\ verdict = "open"
  /\ file \in {"baseline", "candidate"}
  /\ file' = "baseline"
  /\ UNCHANGED <<loaded, verdict>>

Load ==
  /\ verdict = "open"
  /\ loaded' = file
  /\ UNCHANGED <<file, verdict>>

\* The gateway runs the candidate.
Accept ==
  /\ file = "candidate" /\ loaded = "candidate"
  /\ verdict' = "accepted"

\* The gateway runs the baseline again.
Revert ==
  /\ file = "baseline" /\ loaded = "baseline"
  /\ verdict' = "reverted"

\* Nothing was changed.
Decline ==
  /\ file # "candidate" /\ loaded # "candidate"
  /\ verdict' = "declined"

\* The gateway may be in any state: somebody has to look at it.
CallOperator == verdict' = "operator"

Decide ==
  /\ verdict = "open"
  /\ Accept \/ Revert \/ Decline \/ CallOperator
  /\ UNCHANGED <<file, loaded>>

ContractNext == Install \/ PutBack \/ Load \/ Decide

ContractSpec == ContractInit /\ [][ContractNext]_contractVars
=============================================================================
