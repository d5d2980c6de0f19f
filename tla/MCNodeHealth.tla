---------------------------- MODULE MCNodeHealth ----------------------------
(* Small instances of NodeHealth for TLC. *)
EXTENDS NodeHealth, TLC

CONSTANTS s1, s2, n1, n2

MCServer == {s1, s2}
OneNode == {n1}
TwoNodes == {n1, n2}
Swaps == Permutations(MCServer) \cup Permutations(TwoNodes)
=============================================================================
