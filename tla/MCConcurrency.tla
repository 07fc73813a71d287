--------------------------- MODULE MCConcurrency ---------------------------
(* Instances of Concurrency for TLC. *)
EXTENDS Concurrency, TLC

CONSTANTS c1, c2, s1

OneClient == {c1}
TwoClients == {c1, c2}
OneStatement == {s1}
NoStatements == {}

Symmetry == Permutations(TwoClients)
=============================================================================
