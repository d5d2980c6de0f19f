---------------------------- MODULE MCWritePath ----------------------------
(* Small instances of WritePath for TLC. *)
EXTENDS WritePath

CONSTANTS put, del

MCClient == {put, del}
MCRepeatable == {put}
=============================================================================
