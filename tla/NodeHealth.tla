----------------------------- MODULE NodeHealth -----------------------------
(***************************************************************************)
(* Who takes a storage node for alive.  Nodes register every 15 s          *)
(* (registry.rs); each index server keeps the registry in memory (state.rs *)
(* RegisterNode, MarkNodesOffline); on the leader a checker polls it every *)
(* 20 s (lib.rs), an audit fetches sampled shards (audit.rs) and a loop    *)
(* grants quota to nodes that contribute (lib.rs).  The Raft cluster is    *)
(* abstracted to a leader, whether it has a quorum, and who lags.          *)
(***************************************************************************)
EXTENDS Integers, FiniteSets

CONSTANTS Server,      \* index servers
          StorageNode,
          Fault,       \* the kinds of faults that may happen
          MaxFaults,   \* bound: faults
          MaxOwed,     \* bound: ticks counted that a blocked checker has missed
          None

ASSUME HealthAssumption == MaxFaults \in Nat /\ MaxOwed \in Nat \ {0}

VARIABLES leader, quorum,
          behind,    \* servers that lag so far that only a snapshot helps
          up,        \* storage nodes that run
          registry,  \* registry[s][n]: what s knows of n, or None
          prev,      \* prev[s][n]: whether the checker of s has seen n, and whether
                     \* last_seen is still what it saw
          stale,     \* stale[s][n]: polls in a row without an advance
          checker,   \* checker[s]: nodes its checker is asking Raft to mark offline
          owed,      \* owed[s]: ticks of the checker's interval that are due
          beaten,    \* nodes that tried to register since the last tick
          silent,    \* history: ticks since a registration of n was applied
          upset,     \* history: whether a quorum was ever lost or a server lagged
          granted,   \* nodes whose contribution was credited (quota_events)
          faults

checks == <<prev, stale, checker, owed>>
cluster == <<leader, quorum, behind, upset, faults>>
nodes == <<up, beaten>>
vars == <<cluster, nodes, registry, checks, silent, granted>>

\* Polls without an advance after which a node is taken for dead.
Threshold == 3

Entry == [status : {"Online", "Offline"}, aged : BOOLEAN]
Least(a, b) == IF a <= b THEN a ELSE b

Init ==
    /\ leader \in Server
    /\ quorum = TRUE
    /\ behind = {}
    /\ up = StorageNode
    /\ registry = [s \in Server |-> [n \in StorageNode |-> None]]
    /\ prev = [s \in Server |-> [n \in StorageNode |-> "unseen"]]
    /\ stale = [s \in Server |-> [n \in StorageNode |-> 0]]
    /\ checker = [s \in Server |-> {}]
    /\ owed = [s \in Server |-> 0]
    /\ beaten = {}
    /\ silent = [n \in StorageNode |-> 0]
    /\ granted = {}
    /\ upset = FALSE
    /\ faults = 0

\* The bound on faults, whatever their kind.
Happens(kind) ==
    /\ kind \in Fault
    /\ faults < MaxFaults
    /\ faults' = faults + 1
    /\ upset' = (upset \/ kind \in {"outage", "lag"})

-----------------------------------------------------------------------------
(* Commands: every server that does not lag applies them.                  *)

Known(s) == {n \in StorageNode : registry[s][n] # None}
Online(s, n) == n \in Known(s) /\ registry[s][n].status = "Online"

\* Faulty variants: the registration time is renewed; the status is kept.
RegisteredAnew(entry) == [status |-> "Online", aged |-> FALSE]
RegisteredStill(entry) ==
    [status |-> IF entry = None THEN "Online" ELSE entry.status,
     aged |-> entry # None /\ entry.aged]

\* RegisterNode: online, and as old as the first registration the server remembers.
Registered(entry) ==
    [status |-> "Online", aged |-> entry # None /\ entry.aged]

RegisterNode(n) ==
    /\ registry' = [s \in Server |->
            IF s \in behind THEN registry[s]
            ELSE [registry[s] EXCEPT ![n] = Registered(@)]]
    /\ prev' = [s \in Server |->
            IF s \in behind \/ prev[s][n] = "unseen" THEN prev[s]
            ELSE [prev[s] EXCEPT ![n] = "advanced"]]

MarkNodesOffline(doomed) ==
    registry' = [s \in Server |->
        IF s \in behind THEN registry[s]
        ELSE [n \in StorageNode |->
                IF n \in doomed \cap Known(s) THEN [registry[s][n] EXCEPT !.status = "Offline"]
                ELSE registry[s][n]]]

-----------------------------------------------------------------------------
(* Storage nodes.                                                          *)

Heartbeat(n) ==
    /\ n \in up
    /\ quorum
    /\ RegisterNode(n)
    /\ beaten' = beaten \cup {n}
    /\ silent' = [silent EXCEPT ![n] = 0]
    /\ UNCHANGED <<cluster, up, stale, checker, owed, granted>>

\* The registration fails, always without a quorum: it is only logged, and tried again
\* 15 s later.
MissedBeat(n) ==
    /\ n \in up \ beaten
    /\ (~quorum /\ UNCHANGED <<faults, upset>>) \/ Happens("miss")
    /\ beaten' = beaten \cup {n}
    /\ UNCHANGED <<leader, quorum, behind, up, registry, checks, silent, granted>>

\* 20 s pass: longer than the interval of the registrations.  A checker is late only
\* while its write waits for a quorum; its interval then owes it the missed ticks.
Tick ==
    /\ up \subseteq beaten
    /\ \A s \in Server : IF checker[s] = {} THEN owed[s] = 0 ELSE ~quorum
    /\ owed' = [s \in Server |-> Least(owed[s] + 1, MaxOwed)]
    /\ beaten' = {}
    /\ silent' = [n \in StorageNode |-> Least(silent[n] + 1, Threshold)]
    /\ UNCHANGED <<cluster, up, registry, prev, stale, checker, granted>>

-----------------------------------------------------------------------------
(* The checker and the audit.                                              *)

\* Faulty variant: a node is reported at its third stale poll only.
SuspectsOnce(s, count) ==
    {n \in Known(s) : prev[s][n] = "same" /\ count[n] = Threshold}

\* The nodes a poll reports, given the new counts: again at every poll from the third on.
Suspects(s, count) ==
    {n \in Known(s) : prev[s][n] = "same" /\ count[n] >= Threshold}

\* Faulty variant: an advance does not reset the count.
CountsOnly(s) ==
    [n \in StorageNode |->
        IF n \notin Known(s) \/ prev[s][n] # "same" THEN stale[s][n]
        ELSE Least(stale[s][n] + 1, Threshold + 1)]

\* Polls in a row without an advance.  The code's counter goes on; what it does depends only
\* on whether the count is below, at or past the threshold, so the model stops there.
Counts(s) ==
    [n \in StorageNode |->
        IF n \notin Known(s) THEN stale[s][n]
        ELSE IF prev[s][n] = "same" THEN Least(stale[s][n] + 1, Threshold + 1)
        ELSE 0]

\* Faulty variant: a server that does not lead forgets whom it has seen, not the counts.
PollKeepsCounts(s) ==
    /\ owed[s] > 0
    /\ checker[s] = {}
    /\ owed' = [owed EXCEPT ![s] = @ - 1]
    /\ IF s = leader
       THEN LET count == Counts(s) IN
            /\ stale' = [stale EXCEPT ![s] = count]
            /\ prev' = [prev EXCEPT ![s] =
                    [n \in StorageNode |-> IF n \in Known(s) THEN "same" ELSE @[n]]]
            /\ checker' = [checker EXCEPT ![s] = Suspects(s, count)]
       ELSE /\ prev' = [prev EXCEPT ![s] = [n \in StorageNode |-> "unseen"]]
            /\ UNCHANGED <<stale, checker>>
    /\ UNCHANGED <<cluster, nodes, registry, silent, granted>>

Poll(s) ==
    /\ owed[s] > 0
    /\ checker[s] = {}
    /\ owed' = [owed EXCEPT ![s] = @ - 1]
    /\ IF s = leader
       THEN LET count == Counts(s) IN
            /\ stale' = [stale EXCEPT ![s] = count]
            /\ prev' = [prev EXCEPT ![s] =
                    [n \in StorageNode |-> IF n \in Known(s) THEN "same" ELSE @[n]]]
            /\ checker' = [checker EXCEPT ![s] = Suspects(s, count)]
       ELSE /\ prev' = [prev EXCEPT ![s] = [n \in StorageNode |-> "unseen"]]
            /\ stale' = [stale EXCEPT ![s] = [n \in StorageNode |-> 0]]
            /\ UNCHANGED checker
    /\ UNCHANGED <<cluster, nodes, registry, silent, granted>>

\* A failed write is ignored: s is no longer the leader.
CheckerWrites(s) ==
    /\ checker[s] # {}
    /\ \/ leader = s /\ quorum /\ MarkNodesOffline(checker[s])
       \/ leader # s /\ UNCHANGED registry
    /\ checker' = [checker EXCEPT ![s] = {}]
    /\ UNCHANGED <<cluster, nodes, prev, stale, owed, silent, granted>>

\* An audit marks the nodes of which two or more of the sampled shards could not be
\* fetched in time, because they are gone or the node is down or slow.  They may be any,
\* so that the minutes between the fetches and the write need no step of their own.
Audit(s) ==
    /\ s = leader /\ quorum
    /\ \E doomed \in SUBSET StorageNode : MarkNodesOffline(doomed)
    /\ UNCHANGED <<cluster, nodes, checks, silent, granted>>

-----------------------------------------------------------------------------
(* The contribution grant.                                                 *)

\* The grace period since registered_at is over, as far as s knows.
GraceOver(s, n) ==
    /\ n \in Known(s)
    /\ ~registry[s][n].aged
    /\ registry' = [registry EXCEPT ![s][n].aged = TRUE]
    /\ UNCHANGED <<cluster, nodes, checks, silent, granted>>

\* The reference of the credit names the node: it is credited once.
Grant(s, n) ==
    /\ s = leader /\ quorum
    /\ Online(s, n) /\ registry[s][n].aged
    /\ granted' = granted \cup {n}
    /\ UNCHANGED <<cluster, nodes, registry, checks, silent>>

-----------------------------------------------------------------------------
(* Faults.                                                                 *)

Elect(s) ==
    /\ Happens("election")
    /\ s # leader /\ s \notin behind
    /\ leader' = s
    /\ UNCHANGED <<quorum, behind, nodes, registry, checks, silent, granted>>

\* The registry is in memory only and starts empty; so do the tasks.
Restart(s) ==
    /\ Happens("restart")
    /\ leader' \in IF s = leader THEN Server \ behind ELSE {leader}
    /\ registry' = [registry EXCEPT ![s] = [n \in StorageNode |-> None]]
    /\ prev' = [prev EXCEPT ![s] = [n \in StorageNode |-> "unseen"]]
    /\ stale' = [stale EXCEPT ![s] = [n \in StorageNode |-> 0]]
    /\ checker' = [checker EXCEPT ![s] = {}]
    /\ owed' = [owed EXCEPT ![s] = 0]
    /\ UNCHANGED <<quorum, behind, nodes, silent, granted>>

LoseQuorum ==
    /\ Happens("outage")
    /\ quorum
    /\ quorum' = FALSE
    /\ UNCHANGED <<leader, behind, nodes, registry, checks, silent, granted>>

RegainQuorum ==
    /\ ~quorum
    /\ quorum' = TRUE
    /\ UNCHANGED <<leader, behind, upset, faults, nodes, registry, checks, silent, granted>>

FallBehind(s) ==
    /\ Happens("lag")
    /\ s # leader /\ s \notin behind
    /\ behind' = behind \cup {s}
    /\ UNCHANGED <<leader, quorum, nodes, registry, checks, silent, granted>>

\* install_snapshot does not touch the registry: what was missed stays missed.
InstallSnapshot(s) ==
    /\ s \in behind
    /\ behind' = behind \ {s}
    /\ UNCHANGED <<leader, quorum, upset, faults, nodes, registry, checks, silent, granted>>

Die(n) ==
    /\ Happens("death")
    /\ n \in up
    /\ up' = up \ {n}
    /\ UNCHANGED <<leader, quorum, behind, beaten, registry, checks, silent, granted>>

Revive(n) ==
    /\ n \notin up
    /\ up' = up \cup {n}
    /\ UNCHANGED <<cluster, beaten, registry, checks, silent, granted>>

-----------------------------------------------------------------------------
Runs(n) == Heartbeat(n) \/ MissedBeat(n) \/ Die(n) \/ Revive(n)
Checks(s) == Poll(s) \/ CheckerWrites(s) \/ Audit(s)
Grants(s) == \E n \in StorageNode : GraceOver(s, n) \/ Grant(s, n)
Serves(s) == Elect(s) \/ Restart(s) \/ FallBehind(s) \/ InstallSnapshot(s)

Next ==
    \/ Tick
    \/ \E n \in StorageNode : Runs(n)
    \/ \E s \in Server : Checks(s) \/ Grants(s) \/ Serves(s)
    \/ LoseQuorum \/ RegainQuorum

Spec == Init /\ [][Next]_vars

\* Time passes, timers fire, a node that runs registers while there is a quorum, and a
\* lost quorum comes back.
Fairness ==
    /\ WF_vars(Tick) /\ WF_vars(RegainQuorum)
    /\ \A s \in Server :
        /\ WF_vars(Poll(s)) /\ WF_vars(CheckerWrites(s))
        /\ \A n \in StorageNode : WF_vars(GraceOver(s, n)) /\ WF_vars(Grant(s, n))
    /\ \A n \in StorageNode : WF_vars(Heartbeat(n))

FairSpec == Spec /\ Fairness

-----------------------------------------------------------------------------
(* Properties.                                                             *)

\* Every variable has its type, and a checker has counts only of nodes it has seen: those
\* from before another server led are gone (spawn_offline_detector).
TypeOK ==
    /\ leader \in Server /\ quorum \in BOOLEAN /\ behind \subseteq Server
    /\ up \subseteq StorageNode
    /\ registry \in [Server -> [StorageNode -> Entry \cup {None}]]
    /\ prev \in [Server -> [StorageNode -> {"unseen", "same", "advanced"}]]
    /\ stale \in [Server -> [StorageNode -> 0..Threshold+1]]
    /\ \A s \in Server, n \in StorageNode : prev[s][n] = "unseen" => stale[s][n] = 0
    /\ checker \in [Server -> SUBSET StorageNode]
    /\ owed \in [Server -> 0..MaxOwed]
    /\ beaten \subseteq StorageNode /\ granted \subseteq StorageNode
    /\ silent \in [StorageNode -> 0..Threshold]
    /\ upset \in BOOLEAN /\ faults \in 0..MaxFaults

\* As long as the cluster has had its quorum and no server lagged, the checker takes a
\* node for dead only after three periods of 20 s without a registration of it, whatever
\* leaders come, go, restart and forget.
SuspectsAreSilent ==
    [][\A s \in Server, n \in StorageNode :
          n \in checker'[s] \ checker[s] /\ ~upset => silent[n] = Threshold]_vars

\* A node that is dead for good is not offered as a target for ever: the leader's
\* registry has it offline in the end, or has forgotten it, although a write that marks
\* it may fail and a leader may miss what another one marked.
DeadGoesOffline ==
    \A n \in StorageNode : <>[](n \notin up) => <>[](~Online(leader, n))

\* A node that runs is online again and again: neither a stale report of the checker or
\* the audit, nor a leader that forgot it or missed its registration, shuts it out.
LiveComesBack ==
    \A n \in StorageNode : <>[](n \in up) => []<>Online(leader, n)

\* A node that stays online gets its contribution credit, although each registration
\* carries a new time, and restarts forget the first one.
GrantsArrive == \A n \in StorageNode : <>[]Online(leader, n) => <>(n \in granted)

\* registry.rs: the detector never trips on a healthy node.  After an outage the checker
\* catches up on its missed polls at once, and a node registers only every 15 s.
HealthyNotSuspected ==
    [][\A s \in Server, n \in StorageNode :
          n \in checker'[s] \ checker[s] => silent[n] = Threshold]_vars
=============================================================================
