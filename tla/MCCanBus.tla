------------------------------ MODULE MCCanBus ------------------------------
(* Instances of CanBus for TLC; the slave with the highest number is       *)
(* downstream of all others.                                               *)
EXTENDS CanBus

Last == CHOOSE r \in Slaves : \A x \in Slaves : x <= r
MCIds == 0..4
MCDown == [r \in Stations |-> IF r = Last THEN 0 ELSE Last]
MCTags == {Para(r, v) : r \in Stations, v \in {0, 1}} \cup {Stat(0), Stat(1), Nil}
=============================================================================
