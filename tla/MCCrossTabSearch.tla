--------------------------- MODULE MCCrossTabSearch ---------------------------
(* Two addresses, two queries that differ in where they occur.             *)
EXTENDS CrossTabSearch, TLC

CONSTANTS v1, v2, q1, q2

MCOccurs == {<<q1, 1>>, <<q1, 2>>, <<q2, 2>>}
Addresses == Permutations(Views)
===============================================================================
