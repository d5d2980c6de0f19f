----------------------------- MODULE MCLeaderReads -----------------------------
(* A small instance of LeaderReads for TLC. *)
EXTENDS LeaderReads
=============================================================================
