-------------------------- MODULE MCSearchSession --------------------------
(* SearchSession for TLC: two queries, one with hits on every page and one  *)
(* with hits on the middle page alone.                                      *)
EXTENDS SearchSession

Words  == {"common", "rare"}
Counts == [q \in Words |-> [p \in Pages |-> IF p = 1 THEN 2 ELSE IF q = "common" THEN 1 ELSE 0]]
=============================================================================
