---------------------------- MODULE ReplayedLog ----------------------------
(***************************************************************************)
(* What the index servers promise together: one log, and on each server a  *)
(* database that is at every moment the log replayed up to some entry.     *)
(* There are no restarts, no snapshots and no purged entries here.         *)
(***************************************************************************)
EXTENDS Integers, Sequences, FiniteSetsExt

CONSTANTS Server, Command, MaxLog

VARIABLES log,       \* the committed entries
          database,  \* database[s]: the database of s
          told       \* told[s]: the entry up to which s has answered callers

vars == <<log, database, told>>

Defaults(j) == {k \in 1..j : log[k] = "default"}

\* Every write up to the j-th entry made once, and the last default set up to there.
Replay(j) ==
    [rows |-> [i \in 1..MaxLog |-> IF i <= j /\ log[i] = "write" THEN 1 ELSE 0],
     default_quota |-> IF Defaults(j) = {} THEN 0 ELSE Max(Defaults(j)),
     applied |-> j]

Init ==
    /\ log = <<>>
    /\ database = [s \in Server |-> Replay(0)]
    /\ told = [s \in Server |-> 0]

Commit(command) ==
    /\ Len(log) < MaxLog
    /\ log' = Append(log, command)
    /\ UNCHANGED <<database, told>>

\* A database jumps to a later entry, whether by a batch or by a snapshot, but not past one
\* that cannot be applied.
Advance(s, j) ==
    /\ database[s].applied < j /\ j <= Len(log)
    /\ \A i \in 1..j : log[i] # "malformed"
    /\ database' = [database EXCEPT ![s] = Replay(j)]
    /\ UNCHANGED <<log, told>>

\* Callers are told of what is new, once, and of all that is in the database.
Tell(s) ==
    /\ told[s] < database[s].applied
    /\ told' = [told EXCEPT ![s] = database[s].applied]
    /\ UNCHANGED <<log, database>>

Next ==
    \/ \E command \in Command : Commit(command)
    \/ \E s \in Server : Tell(s) \/ \E j \in 1..MaxLog : Advance(s, j)

Spec == Init /\ [][Next]_vars
=============================================================================
