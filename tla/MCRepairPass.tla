----------------------------- MODULE MCRepairPass -----------------------------
(* A small instance of RepairPass for TLC. *)
EXTENDS RepairPass

MCTarget == [k |-> 2, m |-> 2]
=============================================================================
