-------------------------- MODULE MCReplicatedIndex --------------------------
(* A small instance of ReplicatedIndex for TLC. *)
EXTENDS ReplicatedIndex

CONSTANTS s1, s2

MCServer == {s1, s2}
=============================================================================
