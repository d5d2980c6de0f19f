------------------------------ MODULE FreshReads ------------------------------
(***************************************************************************)
(* What a client is promised of reads behind the leader barrier (api.rs    *)
(* linearizable_read): the answer is a version of the tables at least as   *)
(* new as everything any client had been told when the read began.         *)
(***************************************************************************)
EXTENDS Integers

CONSTANTS Client, None

VARIABLES version, \* writes that have taken effect
          told,    \* the newest version a client was told of, by an answer or a read
          since,   \* since[c]: what c may not fall behind in its read, or None
          result   \* result[c]: the version its last read returned, or None

vars == <<version, told, since, result>>

Init ==
    /\ version = 0 /\ told = 0
    /\ since = [c \in Client |-> None]
    /\ result = [c \in Client |-> None]

Write ==
    /\ version' = version + 1
    /\ UNCHANGED <<told, since, result>>

Answer ==
    /\ told' \in told..version
    /\ UNCHANGED <<version, since, result>>

Begin(c) ==
    /\ since[c] = None
    /\ since' = [since EXCEPT ![c] = told]
    /\ result' = [result EXCEPT ![c] = None]
    /\ UNCHANGED <<version, told>>

Return(c) ==
    /\ since[c] # None
    /\ \E v \in since[c]..version :
        /\ result' = [result EXCEPT ![c] = v]
        /\ told' = IF v > told THEN v ELSE told
    /\ since' = [since EXCEPT ![c] = None]
    /\ UNCHANGED version

Fail(c) ==
    /\ since[c] # None
    /\ since' = [since EXCEPT ![c] = None]
    /\ UNCHANGED <<version, told, result>>

Next ==
    \/ Write \/ Answer
    \/ \E c \in Client : Begin(c) \/ Return(c) \/ Fail(c)

Spec == Init /\ [][Next]_vars
=============================================================================
