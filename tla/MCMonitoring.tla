---------------------------- MODULE MCMonitoring ----------------------------
(***************************************************************************)
(* An instance of Monitoring: two requests at a time, on a server as the   *)
(* defaults have it and on one that asks every batch for its token; three  *)
(* batches with one incident, or two with two.                             *)
(***************************************************************************)
EXTENDS Monitoring, TLC

Interchangeable == Permutations(Handlers)

MCDeployments == [local : BOOLEAN, shared : {FALSE}]

Few == posts + incidents =< 4

FewSpec == Init /\ [][Next /\ Few']_vars
=============================================================================
