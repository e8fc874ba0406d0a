--------------------------- MODULE MCRemediation ---------------------------
(***************************************************************************)
(* Remediation has only Boolean parameters and finitely many states; the   *)
(* configurations choose the agent (the local one, or one that answers as  *)
(* the runner expects) and the faults.                                     *)
(***************************************************************************)
EXTENDS Remediation
=============================================================================
