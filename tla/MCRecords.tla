----------------------------- MODULE MCRecords -----------------------------
(* Records for TLC: a critical cipher rule judged on two entities and a    *)
(* medium rule on one of them.                                             *)
EXTENDS Records

MCSeverity == [cipher |-> "CRITICAL", pfs |-> "MEDIUM"]
MCChecks == {<<"cipher", "a">>, <<"cipher", "b">>, <<"pfs", "a">>}
MCOther == {NotIpsec, [c \in MCChecks |-> "FAIL"], [c \in MCChecks |-> IF c[1] = "pfs" THEN "FAIL" ELSE "PASS"]}
=============================================================================
