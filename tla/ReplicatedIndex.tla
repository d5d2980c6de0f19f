--------------------------- MODULE ReplicatedIndex ---------------------------
(***************************************************************************)
(* The index servers as replicas of one committed Raft log (state.rs apply, *)
(* snapshot, build_snapshot, install_snapshot, open, append, purge).  Raft *)
(* itself (openraft) is external: log is what it has committed, and it     *)
(* decides which entries and snapshots reach whom, and stops for good on a *)
(* server whose state machine fails.  Of the tables a model keeps how often *)
(* each write of the log was made to them.                                 *)
(***************************************************************************)
EXTENDS Integers, Sequences, FiniteSetsExt

CONSTANTS Server,
          MaxLog,      \* bound: entries proposed
          MaxRestarts, \* bound: restarts of servers
          None

ASSUME ReplicaAssumption == MaxLog \in Nat /\ MaxRestarts \in Nat

\* A change of rows, SetDefaultQuota, and a CommitManifest or RepairManifest with bytes that
\* are no manifest, which no handler checks before it is proposed.
Command == {"write", "default", "malformed"}
Index == 0..MaxLog

\* A database, by the entries of the log that made it: how often each was applied to the
\* rows, which one set the default quota (0: none), and last_applied_log.
Tables == [rows : [1..MaxLog -> Nat], default_quota : Index, applied : Index]

ASSUME NoneAssumption == None \notin Tables

VARIABLES log,       \* entries committed so far
          stored,    \* stored[s]: the last entry in the log of s, or the last one purged
          purged,    \* purged[s]: entries up to this one are no longer in the log of s
          fatal,     \* servers whose Raft has stopped, as their state machine failed
          tables,    \* tables[s]: the database of s
          snapshot,  \* snapshot[s]: current_snapshot, in memory, or None
          captured,  \* captured[s]: the view of a snapshot under construction, or None
          pending,   \* pending[s]: the last entry applied by s, while callers wait, or 0
          acked,     \* acked[s]: the last entry up to which s has answered callers
          restarts

raft == <<log, stored, purged, fatal>>
memory == <<snapshot, captured, pending>>
vars == <<raft, tables, memory, acked, restarts>>

Empty == [rows |-> [i \in 1..MaxLog |-> 0], default_quota |-> 0, applied |-> 0]

Init ==
    /\ log = <<>>
    /\ stored = [s \in Server |-> 0]
    /\ purged = [s \in Server |-> 0]
    /\ fatal = {}
    /\ tables = [s \in Server |-> Empty]
    /\ snapshot = [s \in Server |-> None]
    /\ captured = [s \in Server |-> None]
    /\ pending = [s \in Server |-> 0]
    /\ acked = [s \in Server |-> 0]
    /\ restarts = 0

-----------------------------------------------------------------------------
(* Raft, as far as the state machine sees it.                              *)

\* A server with the whole log is leader and commits one more entry.
Propose(s, command) ==
    /\ s \notin fatal
    /\ Len(log) < MaxLog
    /\ stored[s] = Len(log)
    /\ log' = Append(log, command)
    /\ stored' = [stored EXCEPT ![s] = @ + 1]
    /\ UNCHANGED <<purged, fatal, tables, memory, acked, restarts>>

\* The log of s reaches its database: it does not, between the installation of a
\* snapshot and the purge that follows.
Aligned(s) == tables[s].applied <= stored[s]

\* t sends s the next entry, which it must still have.
Replicate(s, t) ==
    /\ s \notin fatal /\ t \notin fatal
    /\ Aligned(s)
    /\ purged[t] <= stored[s] /\ stored[s] < stored[t]
    /\ stored' = [stored EXCEPT ![s] = @ + 1]
    /\ UNCHANGED <<log, purged, fatal, tables, memory, acked, restarts>>

\* purge and last_purged_log_id: a log without entries ends where it was purged.
PurgeTo(s, i) ==
    /\ s \notin fatal
    /\ purged' = [purged EXCEPT ![s] = i]
    /\ stored' = [stored EXCEPT ![s] = IF @ < i THEN i ELSE @]
    /\ UNCHANGED <<log, fatal, tables, memory, acked, restarts>>

\* Raft drops the entries its current snapshot covers,
Purge(s) ==
    /\ snapshot[s] # None
    /\ purged[s] < snapshot[s].applied
    /\ PurgeTo(s, snapshot[s].applied)

\* and, also when a restart came in between, those of the snapshot it has installed.
Realign(s) ==
    /\ ~Aligned(s)
    /\ PurgeTo(s, tables[s].applied)

-----------------------------------------------------------------------------
(* apply.                                                                  *)

\* The entries after the i-th up to the j-th that set the default quota.
Defaults(i, j) == {k \in (i + 1)..j : log[k] = "default"}

\* Those that no apply_command can deserialize.
Malformed(i, j) == {k \in (i + 1)..j : log[k] = "malformed"}

\* Faulty variant: last_applied_log is the index of the entry that follows.
AppliedToNext(db, j) ==
    [rows |-> [i \in 1..MaxLog |->
        IF i \in (db.applied + 1)..j /\ log[i] = "write" THEN db.rows[i] + 1 ELSE db.rows[i]],
     default_quota |-> IF Defaults(db.applied, j) = {} THEN db.default_quota
                       ELSE Max(Defaults(db.applied, j)),
     applied |-> j + 1]

\* The database once the entries up to the j-th are applied: each write once more, the
\* last default set, and last_applied_log in the same transaction.
AppliedTo(db, j) ==
    [rows |-> [i \in 1..MaxLog |->
        IF i \in (db.applied + 1)..j /\ log[i] = "write" THEN db.rows[i] + 1 ELSE db.rows[i]],
     default_quota |-> IF Defaults(db.applied, j) = {} THEN db.default_quota
                       ELSE Max(Defaults(db.applied, j)),
     applied |-> j]

\* A batch is what Raft hands over: entries of the log, from the first not applied.
Batch(s, j) ==
    /\ s \notin fatal
    /\ purged[s] <= tables[s].applied /\ tables[s].applied < j /\ j <= stored[s]
    /\ pending[s] = 0

\* Faulty variant: the callers are told before the transaction commits.
ApplyAcksFirst(s, j) ==
    /\ Batch(s, j)
    /\ Malformed(tables[s].applied, j) = {}
    /\ \/ tables' = [tables EXCEPT ![s] = AppliedTo(@, j)]
       \/ UNCHANGED tables
    /\ pending' = [pending EXCEPT ![s] = j]
    /\ UNCHANGED <<raft, snapshot, captured, acked, restarts>>

\* Faulty variant: last_applied_log is written in a transaction before that of the rows.
ApplyMetaFirst(s, j) ==
    /\ Batch(s, j)
    /\ Malformed(tables[s].applied, j) = {}
    /\ \/ tables' = [tables EXCEPT ![s] = AppliedTo(@, j)]
       \/ tables' = [tables EXCEPT ![s].applied = j]
    /\ pending' = [pending EXCEPT ![s] = j]
    /\ UNCHANGED <<raft, snapshot, captured, acked, restarts>>

\* One transaction for all the entries of the call; the callers are told after it.
Apply(s, j) ==
    /\ Batch(s, j)
    /\ Malformed(tables[s].applied, j) = {}
    /\ tables' = [tables EXCEPT ![s] = AppliedTo(@, j)]
    /\ pending' = [pending EXCEPT ![s] = j]
    /\ UNCHANGED <<raft, snapshot, captured, acked, restarts>>

\* One entry that is no manifest makes apply return an error: the transaction is dropped
\* with all the entries of the call, nobody is answered, and Raft stops on this server.
Fail(s, j) ==
    /\ Batch(s, j)
    /\ Malformed(tables[s].applied, j) # {}
    /\ fatal' = fatal \cup {s}
    /\ UNCHANGED <<log, stored, purged, tables, memory, acked, restarts>>

Respond(s) ==
    /\ pending[s] # 0
    /\ acked' = [acked EXCEPT ![s] = pending[s]]
    /\ pending' = [pending EXCEPT ![s] = 0]
    /\ UNCHANGED <<raft, tables, snapshot, captured, restarts>>

-----------------------------------------------------------------------------
(* Snapshots.                                                              *)

\* Faulty variant: last_applied_log is read before the tables, an entry may come between.
CaptureUnlocked(s) ==
    /\ s \notin fatal
    /\ pending[s] = 0 /\ captured[s] = None
    /\ tables[s].applied > 0
    /\ \E i \in {tables[s].applied - 1, tables[s].applied} :
          captured' = [captured EXCEPT ![s] = [tables[s] EXCEPT !.applied = i]]
    /\ UNCHANGED <<raft, tables, snapshot, pending, acked, restarts>>

\* build_snapshot reads the tables under the lock,
Capture(s) ==
    /\ s \notin fatal
    /\ pending[s] = 0 /\ captured[s] = None
    /\ tables[s].applied > 0
    /\ captured' = [captured EXCEPT ![s] = tables[s]]
    /\ UNCHANGED <<raft, tables, snapshot, pending, acked, restarts>>

\* and makes it current later, whatever was applied or installed meanwhile.
FinishSnapshot(s) ==
    /\ captured[s] # None
    /\ snapshot' = [snapshot EXCEPT ![s] = captured[s]]
    /\ captured' = [captured EXCEPT ![s] = None]
    /\ UNCHANGED <<raft, tables, pending, acked, restarts>>

\* Faulty variants: last_applied_log, or the default, is left as it was.
InstalledForgets(db, snap) == [snap EXCEPT !.applied = db.applied]
InstalledNoDefault(db, snap) == [snap EXCEPT !.default_quota = db.default_quota]

\* install_snapshot wipes and refills the tables in one transaction; roles and default
\* are overwritten only when the snapshot has them.
Installed(db, snap) ==
    [snap EXCEPT !.default_quota = IF @ = 0 THEN db.default_quota ELSE @]

\* A server whose log ends before what t has purged gets t's snapshot.
Install(s, t) ==
    /\ s \notin fatal /\ t \notin fatal
    /\ pending[s] = 0 /\ Aligned(s)
    /\ snapshot[t] # None
    /\ stored[s] < snapshot[t].applied
    /\ tables' = [tables EXCEPT ![s] = Installed(@, snapshot[t])]
    /\ snapshot' = [snapshot EXCEPT ![s] = snapshot[t]]
    /\ UNCHANGED <<raft, captured, pending, acked, restarts>>

-----------------------------------------------------------------------------
(* Restarts.                                                               *)

\* What is in memory is gone, a stopped Raft starts again, and open reads last_applied_log
\* back.
Forget(s) ==
    /\ restarts < MaxRestarts
    /\ restarts' = restarts + 1
    /\ snapshot' = [snapshot EXCEPT ![s] = None]
    /\ captured' = [captured EXCEPT ![s] = None]
    /\ pending' = [pending EXCEPT ![s] = 0]
    /\ fatal' = fatal \ {s}
    /\ UNCHANGED <<log, stored, purged, acked>>

\* Faulty variant: last_applied_log is not read back, and the log is replayed.
RestartFromZero(s) == Forget(s) /\ tables' = [tables EXCEPT ![s].applied = 0]

Restart(s) == Forget(s) /\ UNCHANGED tables

-----------------------------------------------------------------------------
Raft(s) ==
    \/ \E command \in Command : Propose(s, command)
    \/ \E t \in Server : Replicate(s, t) \/ Install(s, t)
    \/ Purge(s) \/ Realign(s)

StateMachine(s) ==
    \/ \E j \in 1..MaxLog : Apply(s, j) \/ Fail(s, j)
    \/ Respond(s) \/ Capture(s) \/ FinishSnapshot(s)

Next == \E s \in Server : Raft(s) \/ StateMachine(s) \/ Restart(s)

Spec == Init /\ [][Next]_vars

\* Raft keeps sending and realigns its log, the state machine task keeps applying, and
\* snapshots are built.
Fairness ==
    \A s \in Server :
        /\ \A t \in Server : WF_vars(Replicate(s, t)) /\ WF_vars(Install(s, t))
        /\ WF_vars(Realign(s))
        /\ WF_vars(\E j \in 1..MaxLog : Apply(s, j) \/ Fail(s, j))
        /\ WF_vars(Respond(s))
        /\ WF_vars(Capture(s)) /\ WF_vars(FinishSnapshot(s))

FairSpec == Spec /\ Fairness

-----------------------------------------------------------------------------
(* Properties.                                                             *)

TypeOK ==
    /\ log \in Seq(Command) /\ Len(log) <= MaxLog
    /\ stored \in [Server -> Index]
    /\ purged \in [Server -> Index]
    /\ fatal \subseteq Server
    /\ tables \in [Server -> Tables]
    /\ snapshot \in [Server -> Tables \cup {None}]
    /\ captured \in [Server -> Tables \cup {None}]
    /\ pending \in [Server -> Index]
    /\ acked \in [Server -> Index]
    /\ restarts \in 0..MaxRestarts

\* A database is the replay of the log up to its own last_applied_log, each write made
\* exactly once, by whatever batches, restarts and snapshots it got there: a write applied
\* twice or skipped would leave the counters wrong for ever (apply, install_snapshot).
TablesAreReplay ==
    \A s \in Server : \A i \in 1..MaxLog :
        tables[s].rows[i] =
            IF i <= tables[s].applied /\ log[i] = "write" THEN 1 ELSE 0

\* The default quota is the last one set up to last_applied_log, although a snapshot
\* that has none leaves the one that is there (install_snapshot).
LatestDefault(j) == IF Defaults(0, j) = {} THEN 0 ELSE Max(Defaults(0, j))
DefaultIsLatest ==
    \A s \in Server : tables[s].default_quota = LatestDefault(tables[s].applied)

\* A caller that was answered finds its command in the database of the server that
\* answered, also after a restart (apply: "only now that data is durable").
AckedIsDurable ==
    \A s \in Server : acked[s] <= tables[s].applied

\* Together, the database and the log of a server hold every entry: none is purged
\* before it is applied (purge; it also keeps the assertion of purge from failing after
\* a restart).
PurgedIsApplied == \A s \in Server : purged[s] <= tables[s].applied

\* No restart and no snapshot takes a database back (open, install_snapshot).
NeverBack == [][\A s \in Server : tables'[s].applied >= tables[s].applied]_vars

\* When the log stops growing, every server applies all of it, although the entries it
\* misses may be purged at the others and their snapshots lost in a restart; unless an entry
\* it has not applied is no manifest, which stops every server, again after each restart.
EveryoneCatchesUp ==
    <>[](\A s \in Server : \/ tables[s].applied = Len(log)
                           \/ Malformed(tables[s].applied, Len(log)) # {})

\* The servers implement one log that each has replayed up to some entry: restarts,
\* snapshots, also old ones, and purges show in nobody's tables and in no answer, no entry
\* is answered for twice by a server, and nobody skips an entry that cannot be applied.
Replays == INSTANCE ReplayedLog WITH database <- tables, told <- acked

KeepsReplay == Replays!Spec
=============================================================================
