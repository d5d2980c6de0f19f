------------------------- MODULE ReplicatedIndexProofs -------------------------
(***************************************************************************)
(* ReplicatedIndex for any number of servers, any length of the log and    *)
(* any number of restarts.                                                 *)
(***************************************************************************)
EXTENDS ReplicatedIndex, TLAPS, WellFoundedInduction

USE ReplicaAssumption, NoneAssumption DEF Index

-----------------------------------------------------------------------------
(* The last default among the entries of a log.                            *)

DefaultsOf(l, i, j) == {k \in (i + 1)..j : l[k] = "default"}
LatestOf(l, j) == IF DefaultsOf(l, 0, j) = {} THEN 0 ELSE Max(DefaultsOf(l, 0, j))

\* A set of numbers up to n has a greatest one: the n - i have a least one.
LEMMA GreatestExists ==
    ASSUME NEW n \in Nat, NEW S \in SUBSET (0..n), S # {}
    PROVE  \E i \in S : \A k \in S : k <= i
<1> DEFINE T == {n - i : i \in S}
<1>1. \A i \in S : i \in Int /\ 0 <= i /\ i <= n /\ n - i \in Nat
  OBVIOUS
<1>2. T \subseteq Nat
  BY <1>1
<1>3. T # {}
  OBVIOUS
<1>4. IsWellFoundedOn(OpToRel(<,Nat), Nat)
  BY NatLessThanWellFounded, Zenon
<1>5. PICK x \in T : \A y \in T : ~(<<y, x>> \in OpToRel(<,Nat))
  <2> HIDE DEF T
  <2> QED
    BY <1>2, <1>3, <1>4, WFMin, Zenon
<1>6. \A y \in T : ~(y < x)
  BY <1>2, <1>5 DEF OpToRel
<1>7. PICK i \in S : x = n - i
  OBVIOUS
<1>8. ASSUME NEW k \in S
      PROVE  k <= i
  <2>1. ~(n - k < n - i)
    BY <1>6, <1>7
  <2> QED
    BY <1>1, <2>1
<1> QED
  BY <1>8

\* What Max returns, and that nothing else does.
LEMMA MaxIsGreatest ==
    ASSUME NEW n \in Nat, NEW S \in SUBSET (0..n), S # {}
    PROVE  Max(S) \in S /\ \A k \in S : k <= Max(S)
  BY GreatestExists DEF Max

LEMMA GreatestIsMax ==
    ASSUME NEW n \in Nat, NEW S \in SUBSET (0..n), NEW m \in S, \A k \in S : k <= m
    PROVE  Max(S) = m
<1>1. Max(S) \in S /\ \A k \in S : k <= Max(S)
  BY MaxIsGreatest
<1>2. \A k \in S : k \in Int
  OBVIOUS
<1>3. \A k \in S : k <= m /\ m <= k => k = m
  BY <1>2
<1> QED
  BY <1>1, <1>3, Zenon

\* The last default up to j is the last one after i, or the last one up to i.
LEMMA LatestSplits ==
    ASSUME NEW l, NEW i \in Nat, NEW j \in Nat, i <= j
    PROVE  LatestOf(l, j) =
             IF DefaultsOf(l, i, j) = {} THEN LatestOf(l, i) ELSE Max(DefaultsOf(l, i, j))
<1> DEFINE old == DefaultsOf(l, 0, i)
           new == DefaultsOf(l, i, j)
           all == DefaultsOf(l, 0, j)
<1>1. new \in SUBSET (0..j) /\ all \in SUBSET (0..j)
  BY DEF DefaultsOf
<1>2. \A k : k \in all <=> k \in old \/ k \in new
  BY DEF DefaultsOf
<1>3. CASE new = {}
  <2>1. all = old
    BY <1>2, <1>3
  <2> QED
    BY <1>3, <2>1 DEF LatestOf
<1>4. CASE new # {}
  <2>1. Max(new) \in new /\ \A k \in new : k <= Max(new)
    BY <1>1, <1>4, MaxIsGreatest
  <2>2. \A k \in old : k <= Max(new)
    BY <2>1 DEF DefaultsOf
  <2>3. Max(new) \in all /\ \A k \in all : k <= Max(new)
    BY <1>2, <2>1, <2>2
  <2>4. Max(all) = Max(new)
    BY <1>1, <2>3, GreatestIsMax
  <2> QED
    BY <1>4, <2>3, <2>4 DEF LatestOf
<1> QED
  BY <1>3, <1>4

LEMMA LatestIsIndex ==
    ASSUME NEW l, NEW j \in Index
    PROVE  LatestOf(l, j) \in Index
<1>1. DefaultsOf(l, 0, j) \in SUBSET (0..j) /\ j \in Nat
  BY DEF DefaultsOf
<1>2. CASE DefaultsOf(l, 0, j) # {}
  <2>1. Max(DefaultsOf(l, 0, j)) \in DefaultsOf(l, 0, j)
    BY <1>1, <1>2, MaxIsGreatest
  <2> QED
    BY <1>1, <1>2, <2>1 DEF LatestOf
<1> QED
  BY <1>2 DEF LatestOf

-----------------------------------------------------------------------------
(* Replays of a log.                                                       *)

\* db is made by the entries of the log l up to its own last_applied_log, which could all
\* be applied.
ReplayOf(l, db) ==
    /\ db.applied <= Len(l)
    /\ \A i \in 1..db.applied : l[i] # "malformed"
    /\ \A i \in 1..MaxLog :
         db.rows[i] = IF i <= db.applied /\ l[i] = "write" THEN 1 ELSE 0
    /\ db.default_quota = LatestOf(l, db.applied)

LEMMA AppliedIsIndex ==
    ASSUME NEW db \in Tables
    PROVE  db.applied \in Nat
  BY DEF Tables

\* A log that grows leaves them replays.
LEMMA ReplayKept ==
    ASSUME NEW l \in Seq(Command), NEW command \in Command, NEW db \in Tables,
           ReplayOf(l, db)
    PROVE  ReplayOf(Append(l, command), db)
<1> DEFINE m == Append(l, command)
<1>1. Len(m) = Len(l) + 1 /\ \A i \in 1..Len(l) : m[i] = l[i]
  OBVIOUS
<1>2. db.applied \in Nat /\ db.applied <= Len(l)
  BY DEF ReplayOf, Tables
<1>3. DefaultsOf(m, 0, db.applied) = DefaultsOf(l, 0, db.applied)
  BY <1>1, <1>2 DEF DefaultsOf
<1>4. LatestOf(m, db.applied) = LatestOf(l, db.applied)
  BY <1>3 DEF LatestOf
<1>5. \A i \in 1..MaxLog : i <= db.applied => m[i] = l[i]
  BY <1>1, <1>2
<1> HIDE DEF m
<1>6. ASSUME NEW i \in 1..MaxLog
      PROVE  db.rows[i] = IF i <= db.applied /\ m[i] = "write" THEN 1 ELSE 0
  BY <1>5 DEF ReplayOf
<1>7. \A i \in 1..db.applied : m[i] # "malformed"
  BY <1>1, <1>2 DEF ReplayOf
<1>8. ReplayOf(m, db)
  BY <1>1, <1>2, <1>4, <1>6, <1>7 DEF ReplayOf
<1> QED
  BY <1>8 DEF m

\* A batch takes a replay to a replay,
LEMMA AppliedIsReplay ==
    ASSUME NEW db \in Tables, NEW j \in Index, db.applied < j, j <= Len(log),
           log \in Seq(Command), ReplayOf(log, db), Malformed(db.applied, j) = {}
    PROVE  AppliedTo(db, j) \in Tables /\ ReplayOf(log, AppliedTo(db, j))
<1> DEFINE new == AppliedTo(db, j)
<1>1. db.rows \in [1..MaxLog -> Nat] /\ db.applied \in Index /\ db.default_quota \in Index
  BY DEF Tables
<1>2. Defaults(db.applied, j) = DefaultsOf(log, db.applied, j)
  BY DEF Defaults, DefaultsOf
<1>3. new.applied = j /\ new.default_quota = LatestOf(log, j)
  <2>1. db.default_quota = LatestOf(log, db.applied)
    BY DEF ReplayOf
  <2> QED
    BY <1>1, <1>2, <2>1, LatestSplits DEF AppliedTo
<1>4. ASSUME NEW i \in 1..MaxLog
      PROVE  new.rows[i] = IF i <= j /\ log[i] = "write" THEN 1 ELSE 0
  <2>1. db.rows[i] = IF i <= db.applied /\ log[i] = "write" THEN 1 ELSE 0
    BY DEF ReplayOf
  <2>2. new.rows[i] = IF i \in (db.applied + 1)..j /\ log[i] = "write"
                      THEN db.rows[i] + 1 ELSE db.rows[i]
    BY DEF AppliedTo
  <2>3. i \in (db.applied + 1)..j <=> ~(i <= db.applied) /\ i <= j
    BY <1>1
  <2> QED
    BY <1>1, <2>1, <2>2, <2>3
<1>5. new \in Tables
  <2>1. new = [rows |-> new.rows, default_quota |-> new.default_quota,
               applied |-> new.applied]
    BY DEF AppliedTo
  <2>2. new.rows \in [1..MaxLog -> Nat]
    BY <1>1 DEF AppliedTo
  <2>3. new.default_quota \in Index
    BY <1>3, LatestIsIndex
  <2> HIDE DEF new
  <2> QED
    BY <1>3, <2>1, <2>2, <2>3 DEF Tables
<1>6. \A i \in 1..j : log[i] # "malformed"
  BY <1>1 DEF ReplayOf, Malformed
<1> HIDE DEF new
<1>7. ReplayOf(log, new)
  BY <1>3, <1>4, <1>6 DEF ReplayOf
<1> QED
  BY <1>5, <1>7 DEF new

\* and so does a snapshot that is ahead, whether or not it has a default.
LEMMA InstalledIsReplay ==
    ASSUME NEW l, NEW db \in Tables, NEW snap \in Tables, db.applied <= snap.applied,
           ReplayOf(l, db), ReplayOf(l, snap)
    PROVE  /\ Installed(db, snap) \in Tables /\ ReplayOf(l, Installed(db, snap))
           /\ Installed(db, snap).applied = snap.applied
<1>1. CASE snap.default_quota # 0
  BY <1>1 DEF Installed, Tables
<1>2. CASE snap.default_quota = 0
  <2>1. LatestOf(l, snap.applied) = 0
    BY <1>2 DEF ReplayOf
  <2>2. snap.applied \in Nat /\ db.applied \in Nat
    BY DEF Tables
  <2>3. DefaultsOf(l, 0, snap.applied) = {}
    <3>1. DefaultsOf(l, 0, snap.applied) \in SUBSET (0..snap.applied)
      BY <2>2 DEF DefaultsOf
    <3>2. \A k \in DefaultsOf(l, 0, snap.applied) : k # 0
      BY <2>2 DEF DefaultsOf
    <3> QED
      BY <2>1, <2>2, <3>1, <3>2, MaxIsGreatest DEF LatestOf
  <2>4. DefaultsOf(l, 0, db.applied) = {}
    BY <2>2, <2>3 DEF DefaultsOf
  <2>5. db.default_quota = 0
    BY <2>4 DEF ReplayOf, LatestOf
  <2>6. Installed(db, snap) = snap
    BY <1>2, <2>5 DEF Installed, Tables
  <2> QED
    BY <2>6
<1> QED
  BY <1>1, <1>2

-----------------------------------------------------------------------------
(* The inductive invariant.                                                *)

\* A snapshot, current or under construction, is a replay no longer than the tables.
Copy(view, s) ==
    view # None => ReplayOf(log, view) /\ view.applied <= tables[s].applied

SoundServer(s) ==
    /\ stored[s] <= Len(log)
    /\ ReplayOf(log, tables[s])
    /\ Copy(snapshot[s], s) /\ Copy(captured[s], s)
    /\ purged[s] <= tables[s].applied
    /\ pending[s] <= tables[s].applied
    /\ acked[s] <= tables[s].applied

Sound == \A s \in Server : SoundServer(s)

IInv == TypeOK /\ Sound

LEMMA InitSound == Init => IInv
<1> SUFFICES ASSUME Init
             PROVE  IInv
  OBVIOUS
<1>1. Empty \in Tables /\ Empty.applied = 0 /\ Empty.default_quota = 0
      /\ \A i \in 1..MaxLog : Empty.rows[i] = 0
  BY DEF Empty, Tables
<1>2. log = <<>> /\ Len(log) = 0 /\ log \in Seq(Command)
  BY DEF Init
<1>3. TypeOK
  BY <1>1, <1>2 DEF Init, TypeOK
<1>4. ReplayOf(log, Empty)
  <2>1. LatestOf(log, 0) = 0
    <3>1. DefaultsOf(log, 0, 0) = {}
      BY DEF DefaultsOf
    <3> QED
      BY <3>1 DEF LatestOf
  <2> HIDE DEF Empty
  <2> QED
    BY <1>1, <1>2, <2>1 DEF ReplayOf
<1>5. Sound
  BY <1>1, <1>2, <1>4 DEF Init, Sound, SoundServer, Copy
<1> QED
  BY <1>3, <1>5 DEF IInv

\* What a step that leaves log alone must show of one server.
LEMMA UnchangedServer ==
    ASSUME NEW s \in Server, SoundServer(s), log' = log, stored'[s] <= Len(log),
           tables'[s] = tables[s], snapshot'[s] = snapshot[s],
           captured'[s] = captured[s], purged'[s] <= tables[s].applied,
           pending'[s] <= tables[s].applied, acked'[s] <= tables[s].applied
    PROVE  SoundServer(s)'
  BY DEF SoundServer, Copy

LEMMA ProposeSound ==
    ASSUME IInv, NEW s \in Server, NEW command \in Command, Propose(s, command)
    PROVE  IInv'
<1>1. /\ log \in Seq(Command) /\ Len(log) < MaxLog /\ log' = Append(log, command)
      /\ UNCHANGED <<purged, fatal, tables, snapshot, captured, pending, acked, restarts>>
  BY DEF IInv, TypeOK, Propose, memory
<1>2. /\ log' \in Seq(Command) /\ Len(log') = Len(log) + 1 /\ Len(log) \in Nat
  BY <1>1
<1>3. /\ stored \in [Server -> Index] /\ stored[s] = Len(log)
      /\ stored' = [stored EXCEPT ![s] = @ + 1]
  BY DEF IInv, TypeOK, Propose
<1>4. TypeOK'
  BY <1>1, <1>2, <1>3 DEF IInv, TypeOK
<1>5. ASSUME NEW r \in Server
      PROVE  SoundServer(r)'
  <2>1. SoundServer(r)
    BY DEF IInv, Sound
  <2>2. stored'[r] <= Len(log')
    BY <1>2, <1>3, <2>1 DEF SoundServer
  <2>3. /\ tables[r] \in Tables
        /\ snapshot[r] # None => snapshot[r] \in Tables
        /\ captured[r] # None => captured[r] \in Tables
    BY DEF IInv, TypeOK
  <2>4. ReplayOf(log', tables[r])
    BY <1>1, <2>1, <2>3, ReplayKept DEF SoundServer
  <2>5. Copy(snapshot[r], r)' /\ Copy(captured[r], r)'
    BY <1>1, <2>1, <2>3, ReplayKept DEF SoundServer, Copy
  <2> QED
    BY <1>1, <2>1, <2>2, <2>4, <2>5 DEF SoundServer
<1> QED
  BY <1>4, <1>5 DEF IInv, Sound

LEMMA ReplicateSound ==
    ASSUME IInv, NEW s \in Server, NEW t \in Server, Replicate(s, t)
    PROVE  IInv'
<1>1. /\ stored \in [Server -> Index] /\ stored[s] < stored[t]
      /\ stored' = [stored EXCEPT ![s] = @ + 1]
      /\ UNCHANGED <<log, purged, fatal, tables, snapshot, captured, pending, acked, restarts>>
  BY DEF IInv, TypeOK, Replicate, memory
<1>2. TypeOK'
  BY <1>1 DEF IInv, TypeOK
<1>3. ASSUME NEW r \in Server
      PROVE  SoundServer(r)'
  <2>1. SoundServer(r) /\ SoundServer(t) /\ Len(log) \in Nat
    BY DEF IInv, Sound, TypeOK
  <2>2. stored'[r] <= Len(log)
    BY <1>1, <2>1 DEF SoundServer
  <2> QED
    BY <1>1, <2>1, <2>2, UnchangedServer DEF SoundServer
<1> QED
  BY <1>2, <1>3 DEF IInv, Sound

\* A purge up to an entry that is applied, and so committed.
LEMMA PurgeToSound ==
    ASSUME IInv, NEW s \in Server, NEW i \in Index, i <= tables[s].applied, PurgeTo(s, i)
    PROVE  IInv'
<1>1. /\ stored \in [Server -> Index] /\ purged \in [Server -> Index]
      /\ purged' = [purged EXCEPT ![s] = i]
      /\ stored' = [stored EXCEPT ![s] = IF stored[s] < i THEN i ELSE stored[s]]
      /\ UNCHANGED <<log, fatal, tables, snapshot, captured, pending, acked, restarts>>
  BY DEF IInv, TypeOK, PurgeTo, memory
<1>2. TypeOK'
  BY <1>1 DEF IInv, TypeOK
<1>3. ASSUME NEW r \in Server
      PROVE  SoundServer(r)'
  <2>1. SoundServer(r) /\ Len(log) \in Nat /\ tables[r].applied \in Nat
    BY DEF IInv, Sound, TypeOK, Tables
  <2>2. tables[r].applied <= Len(log)
    BY <2>1 DEF SoundServer, ReplayOf
  <2>3. stored'[r] <= Len(log) /\ purged'[r] <= tables[r].applied
    BY <1>1, <2>1, <2>2 DEF SoundServer
  <2> QED
    BY <1>1, <2>1, <2>3, UnchangedServer DEF SoundServer
<1> QED
  BY <1>2, <1>3 DEF IInv, Sound

LEMMA PurgeSound ==
    ASSUME IInv, NEW s \in Server, Purge(s)
    PROVE  IInv'
<1>1. snapshot[s] # None /\ snapshot[s] \in Tables /\ PurgeTo(s, snapshot[s].applied)
  BY DEF IInv, TypeOK, Purge
<1>2. snapshot[s].applied \in Index
  BY <1>1 DEF Tables
<1>3. snapshot[s].applied <= tables[s].applied
  BY <1>1 DEF IInv, Sound, SoundServer, Copy
<1> QED
  BY <1>1, <1>2, <1>3, PurgeToSound

LEMMA RealignSound ==
    ASSUME IInv, NEW s \in Server, Realign(s)
    PROVE  IInv'
<1>1. tables[s].applied \in Index
  BY DEF IInv, TypeOK, Tables
<1> QED
  BY <1>1, PurgeToSound DEF Realign

LEMMA ApplySound ==
    ASSUME IInv, NEW s \in Server, NEW j \in 1..MaxLog, Apply(s, j)
    PROVE  IInv'
<1>1. /\ tables \in [Server -> Tables] /\ pending \in [Server -> Index] /\ j \in Index
      /\ tables' = [tables EXCEPT ![s] = AppliedTo(tables[s], j)]
      /\ pending' = [pending EXCEPT ![s] = j]
      /\ UNCHANGED <<log, stored, purged, fatal, snapshot, captured, acked, restarts>>
  BY DEF IInv, TypeOK, Apply, raft
<1>2. tables[s].applied < j /\ j <= stored[s] /\ stored[s] <= Len(log)
      /\ stored[s] \in Nat /\ Len(log) \in Nat /\ ReplayOf(log, tables[s])
      /\ log \in Seq(Command) /\ tables[s] \in Tables /\ tables[s].applied \in Nat
  BY DEF IInv, TypeOK, Sound, SoundServer, Apply, Batch, Tables
<1>3. AppliedTo(tables[s], j) \in Tables /\ ReplayOf(log, AppliedTo(tables[s], j))
  <2>1. Malformed(tables[s].applied, j) = {}
    BY DEF Apply
  <2> QED
    BY <1>1, <1>2, <2>1, AppliedIsReplay
<1>4. AppliedTo(tables[s], j).applied = j
  BY DEF AppliedTo
<1>5. TypeOK'
  BY <1>1, <1>3 DEF IInv, TypeOK
<1>6. ASSUME NEW r \in Server
      PROVE  SoundServer(r)'
  <2>1. SoundServer(r)
    BY DEF IInv, Sound
  <2>2. CASE r # s
    BY <1>1, <2>1, <2>2, UnchangedServer DEF SoundServer
  <2>3. CASE r = s
    <3>1. tables'[s] = AppliedTo(tables[s], j) /\ pending'[s] = j
      BY <1>1
    <3>2. /\ purged[s] \in Nat /\ acked[s] \in Nat
          /\ snapshot[s] # None => snapshot[s].applied \in Nat
          /\ captured[s] # None => captured[s].applied \in Nat
      <4>1. /\ snapshot[s] \in Tables \cup {None} /\ captured[s] \in Tables \cup {None}
            /\ purged[s] \in Nat /\ acked[s] \in Nat
        BY DEF IInv, TypeOK
      <4> QED
        BY <4>1, AppliedIsIndex
    <3>3. Copy(snapshot[s], s)' /\ Copy(captured[s], s)'
      BY <1>1, <1>2, <1>4, <2>1, <2>3, <3>1, <3>2 DEF SoundServer, Copy
    <3> QED
      BY <1>1, <1>2, <1>3, <1>4, <2>1, <2>3, <3>1, <3>2, <3>3 DEF SoundServer
  <2> QED
    BY <2>2, <2>3
<1> QED
  BY <1>5, <1>6 DEF IInv, Sound

LEMMA FailSound ==
    ASSUME IInv, NEW s \in Server, NEW j \in 1..MaxLog, Fail(s, j)
    PROVE  IInv'
<1>1. /\ fatal' \subseteq Server
      /\ UNCHANGED <<log, stored, purged, tables, snapshot, captured, pending, acked,
                     restarts>>
  BY DEF IInv, TypeOK, Fail, memory
<1> QED
  BY <1>1 DEF IInv, TypeOK, Sound, SoundServer, Copy

LEMMA RespondSound ==
    ASSUME IInv, NEW s \in Server, Respond(s)
    PROVE  IInv'
<1>1. /\ pending \in [Server -> Index] /\ acked \in [Server -> Index]
      /\ acked' = [acked EXCEPT ![s] = pending[s]]
      /\ pending' = [pending EXCEPT ![s] = 0]
      /\ UNCHANGED <<log, stored, purged, fatal, tables, snapshot, captured, restarts>>
  BY DEF IInv, TypeOK, Respond, raft
<1>2. TypeOK'
  BY <1>1 DEF IInv, TypeOK
<1>3. ASSUME NEW r \in Server
      PROVE  SoundServer(r)'
  <2>1. SoundServer(r) /\ tables[r].applied \in Nat
    BY DEF IInv, Sound, TypeOK, Tables
  <2>2. pending'[r] <= tables[r].applied /\ acked'[r] <= tables[r].applied
    BY <1>1, <2>1 DEF SoundServer
  <2> QED
    BY <1>1, <2>1, <2>2, UnchangedServer DEF SoundServer
<1> QED
  BY <1>2, <1>3 DEF IInv, Sound

\* A step that changes only copies, to ones that are sound.
LEMMA CopiesSound ==
    ASSUME IInv, UNCHANGED <<log, stored, purged, tables, acked>>,
           snapshot' \in [Server -> Tables \cup {None}],
           captured' \in [Server -> Tables \cup {None}],
           pending' \in [Server -> Index], restarts' \in 0..MaxRestarts,
           fatal' \subseteq Server,
           \A r \in Server : /\ pending'[r] <= tables[r].applied
                             /\ Copy(snapshot'[r], r) /\ Copy(captured'[r], r)
    PROVE  IInv'
<1>1. TypeOK'
  BY DEF IInv, TypeOK
<1>2. ASSUME NEW r \in Server
      PROVE  SoundServer(r)'
  BY DEF IInv, Sound, SoundServer, Copy
<1> QED
  BY <1>1, <1>2 DEF IInv, Sound

LEMMA CaptureSound ==
    ASSUME IInv, NEW s \in Server, Capture(s)
    PROVE  IInv'
<1>1. /\ captured' = [captured EXCEPT ![s] = tables[s]]
      /\ UNCHANGED <<log, stored, purged, tables, acked>>
      /\ UNCHANGED <<fatal, snapshot, pending, restarts>>
  BY DEF Capture, raft
<1>2. TypeOK /\ Sound
  BY DEF IInv
<1>3. captured' \in [Server -> Tables \cup {None}]
  BY <1>1, <1>2 DEF TypeOK
<1>4. ASSUME NEW r \in Server
      PROVE  /\ pending'[r] <= tables[r].applied
             /\ Copy(snapshot'[r], r) /\ Copy(captured'[r], r)
  <2>1. SoundServer(r) /\ tables[r].applied \in Nat
    BY <1>2 DEF Sound, TypeOK, Tables
  <2>2. captured'[r] = IF r = s THEN tables[r] ELSE captured[r]
    BY <1>1, <1>2 DEF TypeOK
  <2> QED
    BY <1>1, <2>1, <2>2 DEF SoundServer, Copy
<1> QED
  BY <1>1, <1>2, <1>3, <1>4, CopiesSound DEF TypeOK

LEMMA FinishSound ==
    ASSUME IInv, NEW s \in Server, FinishSnapshot(s)
    PROVE  IInv'
<1>1. /\ snapshot' = [snapshot EXCEPT ![s] = captured[s]]
      /\ captured' = [captured EXCEPT ![s] = None]
      /\ UNCHANGED <<log, stored, purged, tables, acked>>
      /\ UNCHANGED <<fatal, pending, restarts>>
  BY DEF FinishSnapshot, raft
<1>2. TypeOK /\ Sound
  BY DEF IInv
<1>3. /\ snapshot' \in [Server -> Tables \cup {None}]
      /\ captured' \in [Server -> Tables \cup {None}]
  BY <1>1, <1>2 DEF TypeOK
<1>4. ASSUME NEW r \in Server
      PROVE  /\ pending'[r] <= tables[r].applied
             /\ Copy(snapshot'[r], r) /\ Copy(captured'[r], r)
  <2>1. SoundServer(r)
    BY <1>2 DEF Sound
  <2>2. /\ snapshot'[r] = IF r = s THEN captured[r] ELSE snapshot[r]
        /\ captured'[r] = IF r = s THEN None ELSE captured[r]
    BY <1>1, <1>2 DEF TypeOK
  <2> QED
    BY <1>1, <2>1, <2>2 DEF SoundServer, Copy
<1> QED
  BY <1>1, <1>2, <1>3, <1>4, CopiesSound DEF TypeOK

LEMMA RestartSound ==
    ASSUME IInv, NEW s \in Server, Restart(s)
    PROVE  IInv'
<1>1. /\ snapshot' = [snapshot EXCEPT ![s] = None]
      /\ captured' = [captured EXCEPT ![s] = None]
      /\ pending' = [pending EXCEPT ![s] = 0]
      /\ restarts < MaxRestarts /\ restarts' = restarts + 1
      /\ fatal' = fatal \ {s}
      /\ UNCHANGED <<log, stored, purged, tables, acked>>
  BY DEF Restart, Forget, raft
<1>2. TypeOK /\ Sound
  BY DEF IInv
<1>3. /\ snapshot' \in [Server -> Tables \cup {None}]
      /\ captured' \in [Server -> Tables \cup {None}]
      /\ pending' \in [Server -> Index] /\ restarts' \in 0..MaxRestarts
      /\ fatal' \subseteq Server
  BY <1>1, <1>2 DEF TypeOK
<1>4. ASSUME NEW r \in Server
      PROVE  /\ pending'[r] <= tables[r].applied
             /\ Copy(snapshot'[r], r) /\ Copy(captured'[r], r)
  <2>1. SoundServer(r) /\ tables[r].applied \in Nat
    BY <1>2 DEF Sound, TypeOK, Tables
  <2>2. /\ snapshot'[r] = IF r = s THEN None ELSE snapshot[r]
        /\ captured'[r] = IF r = s THEN None ELSE captured[r]
        /\ pending'[r] = IF r = s THEN 0 ELSE pending[r]
    BY <1>1, <1>2 DEF TypeOK
  <2> QED
    BY <2>1, <2>2 DEF SoundServer, Copy
<1> QED
  BY <1>1, <1>3, <1>4, CopiesSound

LEMMA InstallSound ==
    ASSUME IInv, NEW s \in Server, NEW t \in Server, Install(s, t)
    PROVE  IInv'
<1> DEFINE snap == snapshot[t]
           db == Installed(tables[s], snap)
<1>1. /\ tables' = [tables EXCEPT ![s] = db]
      /\ snapshot' = [snapshot EXCEPT ![s] = snap]
      /\ UNCHANGED <<log, stored, purged, fatal, captured, pending, acked, restarts>>
  BY DEF Install, raft
<1>2. TypeOK /\ Sound
  BY DEF IInv
<1>3. /\ snap \in Tables /\ tables[s] \in Tables /\ ReplayOf(log, snap)
      /\ ReplayOf(log, tables[s])
      /\ tables[s].applied <= stored[s] /\ stored[s] < snap.applied
  BY <1>2 DEF TypeOK, Sound, SoundServer, Copy, Install, Aligned
<1>4. tables[s].applied \in Nat /\ stored[s] \in Nat /\ snap.applied \in Nat
  BY <1>2, <1>3 DEF TypeOK, Tables
<1>5. db \in Tables /\ ReplayOf(log, db) /\ db.applied = snap.applied
  <2> HIDE DEF snap
  <2> QED
    BY <1>3, <1>4, InstalledIsReplay
<1> HIDE DEF db, snap
<1>6. TypeOK'
  BY <1>1, <1>2, <1>3, <1>5 DEF TypeOK
<1>7. ASSUME NEW r \in Server
      PROVE  SoundServer(r)'
  <2>1. SoundServer(r)
    BY <1>2 DEF Sound
  <2>2. CASE r # s
    <3>1. tables'[r] = tables[r] /\ snapshot'[r] = snapshot[r]
      BY <1>1, <1>2, <2>2 DEF TypeOK
    <3> QED
      BY <1>1, <2>1, <3>1, UnchangedServer DEF SoundServer
  <2>3. CASE r = s
    <3>1. tables'[s] = db /\ snapshot'[s] = snap /\ captured'[s] = captured[s]
      BY <1>1, <1>2 DEF TypeOK
    <3>2. /\ purged[s] \in Nat /\ pending[s] \in Nat /\ acked[s] \in Nat
          /\ captured[s] # None => captured[s].applied \in Nat
      BY <1>2 DEF TypeOK, Tables
    <3>3. Copy(captured[s], s)'
      BY <1>1, <1>3, <1>4, <1>5, <2>1, <2>3, <3>1, <3>2 DEF SoundServer, Copy
    <3>4. Copy(snapshot[s], s)'
      BY <1>1, <1>3, <1>4, <1>5, <3>1 DEF Copy
    <3> QED
      BY <1>1, <1>3, <1>4, <1>5, <2>1, <2>3, <3>1, <3>2, <3>3, <3>4 DEF SoundServer
  <2> QED
    BY <2>2, <2>3
<1> QED
  BY <1>6, <1>7 DEF IInv, Sound

LEMMA NextSound == IInv /\ [Next]_vars => IInv'
<1> SUFFICES ASSUME IInv, [Next]_vars
             PROVE  IInv'
  OBVIOUS
<1>1. CASE UNCHANGED vars
  BY <1>1 DEF vars, raft, memory, IInv, TypeOK, Sound, SoundServer, Copy
<1>2. ASSUME NEW s \in Server, Raft(s)
      PROVE  IInv'
  BY <1>2, ProposeSound, ReplicateSound, InstallSound, PurgeSound, RealignSound DEF Raft
<1>3. ASSUME NEW s \in Server, StateMachine(s)
      PROVE  IInv'
  BY <1>3, ApplySound, FailSound, RespondSound, CaptureSound, FinishSound DEF StateMachine
<1> QED
  BY <1>1, <1>2, <1>3, RestartSound DEF Next

-----------------------------------------------------------------------------
(* The theorems.                                                           *)

LEMMA Invariance == Spec => []IInv
  BY InitSound, NextSound, PTL DEF Spec

\* Every variable keeps its type, whatever Raft, the state machine and restarts do.
THEOREM TypeCorrect == Spec => []TypeOK
  BY Invariance, PTL DEF IInv

\* A database is the replay of the log up to its last_applied_log (apply,
\* install_snapshot), for any batches, restarts and snapshots.
THEOREM DatabasesAreReplays == Spec => []TablesAreReplay
<1>1. IInv => TablesAreReplay
  BY DEF IInv, Sound, SoundServer, ReplayOf, TablesAreReplay
<1> QED
  BY <1>1, Invariance, PTL

\* The default quota is the last one set, although install_snapshot skips one that is
\* not there.
THEOREM DefaultsAreLatest == Spec => []DefaultIsLatest
<1>1. IInv => DefaultIsLatest
  BY DEF IInv, Sound, SoundServer, ReplayOf, DefaultIsLatest, LatestOf, DefaultsOf,
         LatestDefault, Defaults
<1> QED
  BY <1>1, Invariance, PTL

\* A caller that apply has answered finds its command in the database, also after a
\* restart.
THEOREM AnswersLast == Spec => []AckedIsDurable
<1>1. IInv => AckedIsDurable
  BY DEF IInv, Sound, SoundServer, AckedIsDurable
<1> QED
  BY <1>1, Invariance, PTL

\* No entry leaves the log of a server (purge) before it is in its database.
THEOREM NothingPurgedEarly == Spec => []PurgedIsApplied
<1>1. IInv => PurgedIsApplied
  BY DEF IInv, Sound, SoundServer, PurgedIsApplied
<1> QED
  BY <1>1, Invariance, PTL

\* No step takes a database back: neither a restart (open) nor a snapshot.
THEOREM DatabasesAdvance == Spec => NeverBack
<1> DEFINE Advance == \A s \in Server : tables'[s].applied >= tables[s].applied
<1>1. ASSUME IInv, [Next]_vars, NEW r \in Server
      PROVE  tables'[r].applied >= tables[r].applied
  <2>1. TypeOK /\ Sound
    BY <1>1 DEF IInv
  <2>2. \A s \in Server : tables[s] \in Tables /\ tables[s].applied \in Nat
    <3>1. tables \in [Server -> Tables]
      BY <2>1 DEF TypeOK
    <3> QED
      BY <3>1 DEF Tables
  <2>3. CASE UNCHANGED tables
    BY <2>2, <2>3
  <2>4. ASSUME NEW s \in Server, NEW j \in 1..MaxLog, Apply(s, j)
        PROVE  tables'[r].applied >= tables[r].applied
    <3>1. tables[s].applied < j /\ tables' = [tables EXCEPT ![s] = AppliedTo(tables[s], j)]
      BY <2>4 DEF Apply, Batch
    <3>2. AppliedTo(tables[s], j).applied = j
      BY DEF AppliedTo
    <3> QED
      BY <2>1, <2>2, <3>1, <3>2 DEF TypeOK
  <2>5. ASSUME NEW s \in Server, NEW t \in Server, Install(s, t)
        PROVE  tables'[r].applied >= tables[r].applied
    <3>1. /\ tables[s].applied <= stored[s] /\ stored[s] < snapshot[t].applied
          /\ tables' = [tables EXCEPT ![s] = Installed(tables[s], snapshot[t])]
          /\ snapshot[t] # None
      BY <2>5 DEF Install, Aligned
    <3>2. snapshot[t] \in Tables /\ stored[s] \in Nat
      BY <2>1, <3>1 DEF TypeOK
    <3>3. Installed(tables[s], snapshot[t]).applied = snapshot[t].applied
          /\ snapshot[t].applied \in Nat
      BY <3>2 DEF Installed, Tables
    <3> QED
      BY <2>1, <2>2, <3>1, <3>2, <3>3 DEF TypeOK
  <2>6. UNCHANGED tables \/ \E s \in Server : \/ \E j \in 1..MaxLog : Apply(s, j)
                                              \/ \E t \in Server : Install(s, t)
    BY <1>1 DEF vars, Next, Raft, StateMachine, Propose, Replicate, Purge, Realign, PurgeTo,
                Fail, Respond, Capture, FinishSnapshot, Restart
  <2> QED
    BY <2>3, <2>4, <2>5, <2>6
<1>2. IInv /\ [Next]_vars => [Advance]_vars
  BY <1>1
<1> QED
  BY <1>2, Invariance, PTL DEF Spec, NeverBack

-----------------------------------------------------------------------------
(* The replayed log the servers implement.                                 *)

\* Callers wait for the last entries applied, of which none was answered before; until
\* they are told, no other batch and no snapshot comes.
Waiting == \A s \in Server :
    pending[s] # 0 => acked[s] < pending[s] /\ pending[s] = tables[s].applied

LEMMA NobodyWaits == Init => Waiting
  BY DEF Init, Waiting

LEMMA ApplyWaits ==
    ASSUME IInv, Waiting, NEW s \in Server, NEW j \in 1..MaxLog, Apply(s, j)
    PROVE  Waiting'
<1>1. /\ tables' = [tables EXCEPT ![s] = AppliedTo(tables[s], j)]
      /\ pending' = [pending EXCEPT ![s] = j] /\ UNCHANGED acked
      /\ tables[s].applied < j
  BY DEF Apply, Batch
<1>2. /\ acked[s] <= tables[s].applied /\ acked[s] \in Nat /\ tables[s].applied \in Nat
      /\ tables \in [Server -> Tables] /\ pending \in [Server -> Index]
  <2>1. /\ acked \in [Server -> Index] /\ tables \in [Server -> Tables]
        /\ pending \in [Server -> Index]
    BY DEF IInv, TypeOK
  <2>2. acked[s] <= tables[s].applied
    BY DEF IInv, Sound, SoundServer
  <2> QED
    BY <2>1, <2>2, AppliedIsIndex
<1>3. AppliedTo(tables[s], j).applied = j
  BY DEF AppliedTo
<1>4. ASSUME NEW r \in Server, pending'[r] # 0
      PROVE  acked'[r] < pending'[r] /\ pending'[r] = tables'[r].applied
  BY <1>1, <1>2, <1>3, <1>4 DEF Waiting
<1> QED
  BY <1>4 DEF Waiting

LEMMA WaitingNext == IInv /\ Waiting /\ [Next]_vars => Waiting'
<1> SUFFICES ASSUME IInv, Waiting, [Next]_vars
             PROVE  Waiting'
  OBVIOUS
<1>1. /\ pending \in [Server -> Index] /\ acked \in [Server -> Index]
      /\ tables \in [Server -> Tables]
  BY DEF IInv, TypeOK
<1>2. CASE UNCHANGED <<tables, pending, acked>>
  BY <1>2 DEF Waiting
<1>3. ASSUME NEW s \in Server, NEW t \in Server, Install(s, t)
      PROVE  Waiting'
  <2>1. /\ pending[s] = 0 /\ UNCHANGED <<pending, acked>>
        /\ \A r \in Server \ {s} : tables'[r] = tables[r]
    BY <1>1, <1>3 DEF Install
  <2> QED
    BY <2>1 DEF Waiting
<1>4. ASSUME NEW s \in Server, Respond(s) \/ Restart(s)
      PROVE  Waiting'
  <2>1. /\ pending' = [pending EXCEPT ![s] = 0] /\ UNCHANGED tables
        /\ \A r \in Server \ {s} : acked'[r] = acked[r]
    BY <1>1, <1>4 DEF Respond, Restart, Forget
  <2> QED
    BY <1>1, <2>1 DEF Waiting
<1>5. CASE UNCHANGED vars
  BY <1>2, <1>5 DEF vars, memory
<1>6. ASSUME NEW s \in Server, Raft(s)
      PROVE  Waiting'
  BY <1>2, <1>3, <1>6 DEF memory, Raft, Propose, Replicate, Purge, Realign, PurgeTo
<1>7. ASSUME NEW s \in Server, StateMachine(s)
      PROVE  Waiting'
  BY <1>2, <1>4, <1>7, ApplyWaits DEF memory, StateMachine, Fail, Capture, FinishSnapshot
<1> QED
  BY <1>4, <1>5, <1>6, <1>7 DEF Next

\* There is one replay of a log up to an entry.
LEMMA ReplayIsUnique ==
    ASSUME NEW db \in Tables, ReplayOf(log, db)
    PROVE  db = Replays!Replay(db.applied)
<1> DEFINE j == db.applied
<1>1. db = [rows |-> db.rows, default_quota |-> db.default_quota, applied |-> j]
      /\ db.rows \in [1..MaxLog -> Nat]
  BY DEF Tables
<1>2. db.rows = [i \in 1..MaxLog |-> IF i <= j /\ log[i] = "write" THEN 1 ELSE 0]
  BY <1>1 DEF ReplayOf
<1>3. Replays!Defaults(j) = DefaultsOf(log, 0, j)
  BY DEF Replays!Defaults, DefaultsOf
<1>4. db.default_quota = IF Replays!Defaults(j) = {} THEN 0 ELSE Max(Replays!Defaults(j))
  BY <1>3 DEF ReplayOf, LatestOf
<1>5. \A S : Replays!Max(S) = Max(S)
  BY DEF Replays!Max, Max
<1> HIDE DEF j
<1>6. db = Replays!Replay(j)
  BY <1>1, <1>2, <1>4, <1>5 DEF Replays!Replay
<1> QED
  BY <1>6 DEF j

LEMMA ReplaysInit == Init => Replays!Init
<1> SUFFICES ASSUME Init
             PROVE  Replays!Init
  OBVIOUS
<1>1. /\ log = <<>> /\ tables = [s \in Server |-> Empty] /\ acked = [s \in Server |-> 0]
  BY DEF Init
<1>2. Replays!Defaults(0) = {}
  BY DEF Replays!Defaults
<1>3. Replays!Replay(0) = Empty
  BY <1>2 DEF Replays!Replay, Empty
<1> QED
  BY <1>1, <1>3 DEF Replays!Init

\* A step that takes one database to another replay of the log, a longer one.
LEMMA AdvanceMatches ==
    ASSUME IInv, IInv', NEW s \in Server, NEW db, tables' = [tables EXCEPT ![s] = db],
           tables[s].applied < db.applied, UNCHANGED <<log, acked>>
    PROVE  \E j \in 1..MaxLog : Replays!Advance(s, j)
<1>1. tables \in [Server -> Tables] /\ tables'[s] = db
  BY DEF IInv, TypeOK
<1>2. db \in Tables /\ ReplayOf(log, db) /\ db.applied <= Len(log)
  BY <1>1 DEF IInv, TypeOK, Sound, SoundServer, ReplayOf
<1>3. db = Replays!Replay(db.applied)
  BY <1>2, ReplayIsUnique
<1>4. db.applied \in 1..MaxLog
  BY <1>1, <1>2 DEF Tables
<1>5. Replays!Advance(s, db.applied)
  BY <1>2, <1>3 DEF Replays!Advance, ReplayOf
<1> QED
  BY <1>4, <1>5

LEMMA ApplyAdvances ==
    ASSUME IInv, IInv', NEW s \in Server, NEW j \in 1..MaxLog, Apply(s, j)
    PROVE  \E i \in 1..MaxLog : Replays!Advance(s, i)
<1>1. /\ tables' = [tables EXCEPT ![s] = AppliedTo(tables[s], j)]
      /\ tables[s].applied < j /\ UNCHANGED <<log, acked>>
  BY DEF Apply, Batch, raft
<1>2. AppliedTo(tables[s], j).applied = j
  BY DEF AppliedTo
<1> QED
  BY <1>1, <1>2, AdvanceMatches

LEMMA InstallAdvances ==
    ASSUME IInv, IInv', NEW s \in Server, NEW t \in Server, Install(s, t)
    PROVE  \E i \in 1..MaxLog : Replays!Advance(s, i)
<1>1. /\ tables' = [tables EXCEPT ![s] = Installed(tables[s], snapshot[t])]
      /\ tables[s].applied <= stored[s] /\ stored[s] < snapshot[t].applied
      /\ snapshot[t] # None /\ UNCHANGED <<log, acked>>
  BY DEF Install, Aligned, raft
<1>2. snapshot[t] \in Tables /\ stored[s] \in Nat
  BY <1>1 DEF IInv, TypeOK
<1>3. Installed(tables[s], snapshot[t]).applied = snapshot[t].applied
      /\ snapshot[t].applied \in Nat
  BY <1>2 DEF Installed, Tables
<1>4. tables[s].applied < Installed(tables[s], snapshot[t]).applied
  <2>1. tables[s].applied \in Nat
    BY DEF IInv, TypeOK, Tables
  <2> QED
    BY <1>1, <1>2, <1>3, <2>1
<1> QED
  BY <1>1, <1>4, AdvanceMatches

LEMMA RespondTells ==
    ASSUME Waiting, NEW s \in Server, Respond(s)
    PROVE  Replays!Tell(s)
  BY DEF Waiting, Respond, raft, Replays!Tell

\* Restarts, snapshots and purges show in no database and in no answer: the servers
\* implement one log that each has replayed up to some entry, never past one that cannot be
\* applied, and each server answers for its entries once, when they are in its database.
THEOREM ServersImplementReplay == Spec => KeepsReplay
<1>1. IInv /\ IInv' /\ Waiting /\ [Next]_vars => [Replays!Next]_(Replays!vars)
  <2> SUFFICES ASSUME IInv, IInv', Waiting, [Next]_vars
               PROVE  [Replays!Next]_(Replays!vars)
    OBVIOUS
  <2>1. CASE UNCHANGED <<log, tables, acked>>
    BY <2>1 DEF Replays!vars
  <2>2. ASSUME NEW s \in Server, NEW command \in Command, Propose(s, command)
        PROVE  Replays!Next
    BY <2>2 DEF Propose, Replays!Next, Replays!Commit
  <2>3. ASSUME NEW s \in Server, NEW j \in 1..MaxLog, Apply(s, j)
        PROVE  Replays!Next
    BY <2>3, ApplyAdvances DEF Replays!Next
  <2>4. ASSUME NEW s \in Server, NEW t \in Server, Install(s, t)
        PROVE  Replays!Next
    BY <2>4, InstallAdvances DEF Replays!Next
  <2>5. ASSUME NEW s \in Server, Respond(s)
        PROVE  Replays!Next
    BY <2>5, RespondTells DEF Replays!Next
  <2>6. CASE UNCHANGED vars
    BY <2>1, <2>6 DEF vars, raft
  <2>7. ASSUME NEW s \in Server, Raft(s)
        PROVE  [Replays!Next]_(Replays!vars)
    BY <2>1, <2>2, <2>4, <2>7 DEF Raft, Replicate, Purge, Realign, PurgeTo
  <2>8. ASSUME NEW s \in Server, StateMachine(s)
        PROVE  [Replays!Next]_(Replays!vars)
    BY <2>1, <2>3, <2>5, <2>8 DEF raft, StateMachine, Fail, Capture, FinishSnapshot
  <2>9. ASSUME NEW s \in Server, Restart(s)
        PROVE  [Replays!Next]_(Replays!vars)
    BY <2>1, <2>9 DEF raft, Restart, Forget
  <2> QED
    BY <2>6, <2>7, <2>8, <2>9 DEF Next
<1>2. Spec => []Waiting
  BY Invariance, NobodyWaits, WaitingNext, PTL DEF Spec
<1> QED
  BY <1>1, <1>2, Invariance, ReplaysInit, PTL DEF Spec, KeepsReplay, Replays!Spec
=============================================================================
