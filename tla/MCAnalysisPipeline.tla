------------------------- MODULE MCAnalysisPipeline -------------------------
(***************************************************************************)
(* Two requests on one capture.  Only a create can come first, so one      *)
(* request is fixed to it; the other may be any request, at any point of   *)
(* the first one's pipeline or after it.                                   *)
(***************************************************************************)
EXTENDS AnalysisPipeline

CONSTANTS First, Second

MCRequests == {First, Second}
MCAsks ==
  [p \in MCRequests |->
     IF p = First THEN {"create"}
     ELSE {"create", "recompute", "view", "archive", "delete"}]
=============================================================================
