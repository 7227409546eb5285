----------------------------- MODULE MCHostLink -----------------------------
(* An instance of HostLink for TLC: one belt of one word, one slave.  The  *)
(* second version has a station number out of range.                       *)
EXTENDS HostLink

MCVersions == {"v1", "v2"}
MCValue == [v \in MCVersions |->
    [j \in Words |-> CASE j = UP_NO -> IF v = "v1" THEN 3 ELSE 300
                       [] j = BELT_NUMBER -> 1
                       [] OTHER -> IF v = "v1" THEN 10 ELSE 20]]

MCPartial == {{}, {DOWN_NO, LEN - 1}}
=============================================================================
