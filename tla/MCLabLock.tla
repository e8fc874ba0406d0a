----------------------------- MODULE MCLabLock -----------------------------
(***************************************************************************)
(* Instances of LabLock: remediation runs on the API server, experiments   *)
(* on the command line.                                                    *)
(***************************************************************************)
EXTENDS LabLock

CONSTANTS api, cli

\* Remediation runs execute in the API server, experiments under the CLI.
Placement == [r \in Runs |-> IF r \in Remediation THEN api ELSE cli]

=============================================================================
