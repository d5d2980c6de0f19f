-------------------------- MODULE NodeHealthProofs --------------------------
(***************************************************************************)
(* Proofs about NodeHealth for any servers and storage nodes and any bound *)
(* on the faults: the types, and that a cluster that kept its quorum       *)
(* suspects only silent nodes.  What a poll relies on is the invariant     *)
(* SilenceCounted: the polls a checker has counted, with the one it owes,  *)
(* are ticks of silence.                                                   *)
(***************************************************************************)
EXTENDS NodeHealth, TLAPS

ServersTyped ==
    /\ leader \in Server /\ quorum \in BOOLEAN /\ behind \subseteq Server
    /\ upset \in BOOLEAN /\ faults \in 0..MaxFaults
RegistryTyped == registry \in [Server -> [StorageNode -> Entry \cup {None}]]
NodesTyped ==
    /\ up \subseteq StorageNode /\ beaten \subseteq StorageNode
    /\ granted \subseteq StorageNode
    /\ silent \in [StorageNode -> 0..Threshold]
ChecksTyped ==
    /\ prev \in [Server -> [StorageNode -> {"unseen", "same", "advanced"}]]
    /\ stale \in [Server -> [StorageNode -> 0..Threshold+1]]
    /\ \A s \in Server, n \in StorageNode : prev[s][n] = "unseen" => stale[s][n] = 0
    /\ checker \in [Server -> SUBSET StorageNode]
    /\ owed \in [Server -> 0..MaxOwed]

\* TypeOK in the parts that actions leave alone together.
LEMMA Parts ==
    /\ TypeOK <=> ServersTyped /\ RegistryTyped /\ NodesTyped /\ ChecksTyped
    /\ TypeOK' <=> ServersTyped' /\ RegistryTyped' /\ NodesTyped' /\ ChecksTyped'
  BY DEF TypeOK, ServersTyped, RegistryTyped, NodesTyped, ChecksTyped

\* As long as there was a quorum and nobody lagged, no tick is owed twice, and what a
\* checker has counted of a node, with what it owes, was silence.
SilenceCounted ==
    ~upset =>
        /\ quorum /\ behind = {}
        /\ \A s \in Server : owed[s] <= 1
        /\ \A s \in Server, n \in StorageNode :
              prev[s][n] = "same" => Least(stale[s][n] + owed[s], Threshold) <= silent[n]

IInv == TypeOK /\ SilenceCounted

-----------------------------------------------------------------------------
(* Helpers.                                                                *)

LEMMA RegisteredTyped ==
    ASSUME NEW entry \in Entry \cup {None}
    PROVE  Registered(entry) \in Entry
  BY DEF Registered, Entry

LEMMA RegisterTyped ==
    ASSUME RegistryTyped, ChecksTyped, NEW n \in StorageNode, RegisterNode(n)
    PROVE  /\ RegistryTyped'
           /\ prev' \in [Server -> [StorageNode -> {"unseen", "same", "advanced"}]]
           /\ \A s \in Server, m \in StorageNode :
                prev'[s][m] = "unseen" => prev[s][m] = "unseen"
  <1>1. ASSUME NEW s \in Server
        PROVE  [registry[s] EXCEPT ![n] = Registered(@)] \in [StorageNode -> Entry \cup {None}]
    <2>1. registry[s] \in [StorageNode -> Entry \cup {None}]
      BY DEF RegistryTyped
    <2>2. Registered(registry[s][n]) \in Entry
      BY <2>1, RegisteredTyped
    <2> QED
      BY <2>1, <2>2
  <1>2. RegistryTyped'
    <2>1. \A s \in Server : (IF s \in behind THEN registry[s]
                ELSE [registry[s] EXCEPT ![n] = Registered(@)]) \in [StorageNode -> Entry \cup {None}]
      BY <1>1 DEF RegistryTyped
    <2> QED
      BY <2>1 DEF RegisterNode, RegistryTyped
  <1>3. \A s \in Server : (IF s \in behind \/ prev[s][n] = "unseen" THEN prev[s]
            ELSE [prev[s] EXCEPT ![n] = "advanced"])
                \in [StorageNode -> {"unseen", "same", "advanced"}]
    BY DEF ChecksTyped
  <1>4. ASSUME NEW s \in Server, NEW m \in StorageNode, prev'[s][m] = "unseen"
        PROVE  prev[s][m] = "unseen"
    BY <1>4 DEF RegisterNode, ChecksTyped
  <1> QED
    BY <1>2, <1>3, <1>4 DEF RegisterNode

LEMMA MarkTyped ==
    ASSUME RegistryTyped, NEW doomed, MarkNodesOffline(doomed)
    PROVE  RegistryTyped'
  <1>1. ASSUME NEW s \in Server
        PROVE  [n \in StorageNode |->
                  IF n \in doomed \cap Known(s) THEN [registry[s][n] EXCEPT !.status = "Offline"]
                  ELSE registry[s][n]] \in [StorageNode -> Entry \cup {None}]
    <2>1. ASSUME NEW n \in StorageNode, n \in Known(s)
          PROVE  [registry[s][n] EXCEPT !.status = "Offline"] \in Entry
      <3>1. registry[s][n] \in Entry
        BY <2>1 DEF RegistryTyped, Known
      <3> QED
        BY <3>1 DEF Entry
    <2> QED
      BY <2>1 DEF RegistryTyped
  <1> QED
    BY <1>1 DEF MarkNodesOffline, RegistryTyped

LEMMA CountsTyped ==
    ASSUME ChecksTyped, NEW s \in Server
    PROVE  Counts(s) \in [StorageNode -> 0..Threshold+1]
  <1>1. stale[s] \in [StorageNode -> 0..Threshold+1]
    BY DEF ChecksTyped
  <1>2. \A k \in 0..Threshold+1 : Least(k + 1, Threshold + 1) \in 0..Threshold+1
    BY DEF Least, Threshold
  <1>3. 0 \in 0..Threshold+1
    BY DEF Threshold
  <1> QED
    BY <1>1, <1>2, <1>3 DEF Counts

-----------------------------------------------------------------------------
(* Type correctness.                                                       *)

LEMMA InitTyped == Init => TypeOK
  <1> SUFFICES ASSUME Init
               PROVE  TypeOK
    OBVIOUS
  <1>1. ServersTyped
    <2>1. faults \in 0..MaxFaults
      BY HealthAssumption DEF Init
    <2>2. quorum \in BOOLEAN /\ upset \in BOOLEAN
      BY Zenon DEF Init
    <2> QED
      BY <2>1, <2>2 DEF Init, ServersTyped
  <1>2. RegistryTyped
    BY DEF Init, RegistryTyped
  <1>3. NodesTyped
    BY DEF Init, NodesTyped, Threshold
  <1>4. ChecksTyped
    BY HealthAssumption DEF Init, ChecksTyped, Threshold
  <1> QED
    BY <1>1, <1>2, <1>3, <1>4, Parts

LEMMA FaultTyped ==
    ASSUME ServersTyped, NEW kind, Happens(kind)
    PROVE  upset' \in BOOLEAN /\ faults' \in 0..MaxFaults
  <1>1. faults' \in 0..MaxFaults
    BY HealthAssumption DEF ServersTyped, Happens
  <1>2. upset' \in BOOLEAN
    BY Zenon DEF ServersTyped, Happens
  <1> QED
    BY <1>1, <1>2

\* A checker's memory of a server is forgotten as a whole.
LEMMA ForgottenTyped ==
    /\ [n \in StorageNode |-> "unseen"] \in [StorageNode -> {"unseen", "same", "advanced"}]
    /\ [n \in StorageNode |-> 0] \in [StorageNode -> 0..Threshold+1]
    /\ [n \in StorageNode |-> None] \in [StorageNode -> Entry \cup {None}]
  BY DEF Threshold

LEMMA PollTyped ==
    ASSUME TypeOK, NEW s \in Server, Poll(s)
    PROVE  TypeOK'
  <1> USE Parts
  <1>1. owed' \in [Server -> 0..MaxOwed]
    <2>1. owed[s] \in 0..MaxOwed /\ owed[s] > 0
      BY DEF ChecksTyped, Poll
    <2>2. owed[s] - 1 \in 0..MaxOwed
      BY <2>1, HealthAssumption
    <2> QED
      BY <2>2 DEF ChecksTyped, Poll
  <1>2. ChecksTyped'
    <2>1. CASE s = leader
      <3>1. stale' \in [Server -> [StorageNode -> 0..Threshold+1]]
        <4>1. stale' = [stale EXCEPT ![s] = Counts(s)]
          BY <2>1 DEF Poll
        <4> QED
          BY <4>1, CountsTyped DEF ChecksTyped
      <3>2. prev' \in [Server -> [StorageNode -> {"unseen", "same", "advanced"}]]
        <4>1. prev' = [prev EXCEPT ![s] =
                    [n \in StorageNode |-> IF n \in Known(s) THEN "same" ELSE prev[s][n]]]
          BY <2>1 DEF Poll
        <4>2. prev \in [Server -> [StorageNode -> {"unseen", "same", "advanced"}]]
          BY DEF ChecksTyped
        <4> QED
          BY <4>1, <4>2
      <3>3. checker' \in [Server -> SUBSET StorageNode]
        <4>1. Suspects(s, Counts(s)) \in SUBSET StorageNode
          BY DEF Suspects, Known
        <4>2. checker' = [checker EXCEPT ![s] = Suspects(s, Counts(s))]
          BY <2>1 DEF Poll
        <4>3. checker \in [Server -> SUBSET StorageNode]
          BY DEF ChecksTyped
        <4> QED
          BY <4>1, <4>2, <4>3
      <3>4. ASSUME NEW t \in Server, NEW n \in StorageNode, prev'[t][n] = "unseen"
            PROVE  stale'[t][n] = 0
        <4>1. /\ stale' = [stale EXCEPT ![s] = Counts(s)]
              /\ prev' = [prev EXCEPT ![s] =
                    [m \in StorageNode |-> IF m \in Known(s) THEN "same" ELSE prev[s][m]]]
          BY <2>1 DEF Poll
        <4>2. CASE t = s
          <5>1. n \notin Known(s) /\ prev[s][n] = "unseen"
            BY <3>4, <4>1, <4>2 DEF ChecksTyped
          <5>2. Counts(s)[n] = stale[s][n]
            BY <5>1 DEF Counts
          <5> QED
            BY <4>1, <4>2, <5>1, <5>2 DEF ChecksTyped
        <4>3. CASE t # s
          BY <3>4, <4>1, <4>3 DEF ChecksTyped
        <4> QED
          BY <4>2, <4>3
      <3> QED
        BY <1>1, <3>1, <3>2, <3>3, <3>4 DEF ChecksTyped
    <2>2. CASE s # leader
      <3>1. /\ prev' = [prev EXCEPT ![s] = [n \in StorageNode |-> "unseen"]]
            /\ stale' = [stale EXCEPT ![s] = [n \in StorageNode |-> 0]]
            /\ UNCHANGED checker
        BY <2>2 DEF Poll
      <3> QED
        BY <1>1, <3>1, ForgottenTyped DEF ChecksTyped
    <2> QED
      BY <2>1, <2>2
  <1>3. ServersTyped' /\ RegistryTyped' /\ NodesTyped'
    BY DEF Poll, ServersTyped, RegistryTyped, NodesTyped, cluster, nodes
  <1> QED
    BY <1>2, <1>3, Parts

LEMMA TickTyped ==
    ASSUME TypeOK, Tick
    PROVE  TypeOK'
  <1>1. owed' \in [Server -> 0..MaxOwed]
    <2>1. ASSUME NEW s \in Server
          PROVE  Least(owed[s] + 1, MaxOwed) \in 0..MaxOwed
      BY HealthAssumption DEF TypeOK, Least
    <2> QED
      BY <2>1 DEF Tick
  <1>2. silent' \in [StorageNode -> 0..Threshold]
    <2>1. ASSUME NEW n \in StorageNode
          PROVE  Least(silent[n] + 1, Threshold) \in 0..Threshold
      <3>1. silent[n] \in 0..3
        BY DEF TypeOK, Threshold
      <3> QED
        BY <3>1 DEF Least, Threshold
    <2> QED
      BY <2>1 DEF Tick
  <1> QED
    BY <1>1, <1>2 DEF Tick, TypeOK, cluster

LEMMA RunsTyped ==
    ASSUME TypeOK, NEW n \in StorageNode, Runs(n)
    PROVE  TypeOK'
  <1> USE Parts
  <1>1. CASE Heartbeat(n)
    <2>1. RegistryTyped' /\ ChecksTyped'
      BY <1>1, RegisterTyped DEF Heartbeat, ChecksTyped
    <2>2. NodesTyped'
      BY <1>1 DEF Heartbeat, NodesTyped, Threshold
    <2>3. ServersTyped'
      BY <1>1 DEF Heartbeat, ServersTyped, cluster
    <2> QED
      BY <2>1, <2>2, <2>3, Parts
  <1>2. CASE MissedBeat(n)
    <2>1. ServersTyped'
      <3>1. upset' \in BOOLEAN /\ faults' \in 0..MaxFaults
        BY <1>2, FaultTyped DEF MissedBeat, ServersTyped
      <3> QED
        BY <1>2, <3>1 DEF MissedBeat, ServersTyped
    <2>2. NodesTyped' /\ RegistryTyped' /\ ChecksTyped'
      BY <1>2 DEF MissedBeat, NodesTyped, RegistryTyped, ChecksTyped, checks
    <2> QED
      BY <2>1, <2>2, Parts
  <1>3. CASE Die(n)
    <2>1. ServersTyped'
      BY <1>3, FaultTyped DEF Die, ServersTyped
    <2>2. NodesTyped' /\ RegistryTyped' /\ ChecksTyped'
      BY <1>3 DEF Die, NodesTyped, RegistryTyped, ChecksTyped, checks
    <2> QED
      BY <2>1, <2>2, Parts
  <1>4. CASE Revive(n)
    <2>1. ServersTyped' /\ NodesTyped' /\ RegistryTyped' /\ ChecksTyped'
      BY <1>4 DEF Revive, ServersTyped, NodesTyped, RegistryTyped, ChecksTyped, checks, cluster
    <2> QED
      BY <2>1, Parts
  <1> QED
    BY <1>1, <1>2, <1>3, <1>4 DEF Runs

LEMMA ChecksKeepTypes ==
    ASSUME TypeOK, NEW s \in Server, Checks(s)
    PROVE  TypeOK'
  <1> USE Parts
  <1>1. CASE Poll(s)
    BY <1>1, PollTyped
  <1>2. CASE CheckerWrites(s)
    <2>1. RegistryTyped'
      BY <1>2, MarkTyped DEF CheckerWrites, RegistryTyped
    <2>2. ServersTyped' /\ NodesTyped' /\ ChecksTyped'
      BY <1>2 DEF CheckerWrites, ServersTyped, NodesTyped, ChecksTyped, cluster, nodes
    <2> QED
      BY <2>1, <2>2, Parts
  <1>3. CASE Audit(s)
    <2>1. RegistryTyped'
      BY <1>3, MarkTyped DEF Audit
    <2>2. ServersTyped' /\ NodesTyped' /\ ChecksTyped'
      BY <1>3 DEF Audit, ServersTyped, NodesTyped, ChecksTyped, cluster, nodes, checks
    <2> QED
      BY <2>1, <2>2, Parts
  <1> QED
    BY <1>1, <1>2, <1>3 DEF Checks

LEMMA GrantsKeepTypes ==
    ASSUME TypeOK, NEW s \in Server, Grants(s)
    PROVE  TypeOK'
  <1> USE Parts
  <1> PICK n \in StorageNode : GraceOver(s, n) \/ Grant(s, n)
    BY DEF Grants
  <1>1. CASE GraceOver(s, n)
    <2>1. registry[s] \in [StorageNode -> Entry \cup {None}] /\ registry[s][n] \in Entry
      BY <1>1 DEF GraceOver, Known, RegistryTyped
    <2>2. [registry[s][n] EXCEPT !.aged = TRUE] \in Entry
      BY <2>1 DEF Entry
    <2>3. RegistryTyped'
      BY <1>1, <2>1, <2>2 DEF GraceOver, RegistryTyped
    <2>4. ServersTyped' /\ NodesTyped' /\ ChecksTyped'
      BY <1>1 DEF GraceOver, ServersTyped, NodesTyped, ChecksTyped, cluster, nodes, checks
    <2> QED
      BY <2>3, <2>4, Parts
  <1>2. CASE Grant(s, n)
    <2>1. ServersTyped' /\ NodesTyped' /\ ChecksTyped' /\ RegistryTyped'
      BY <1>2 DEF Grant, ServersTyped, NodesTyped, ChecksTyped, RegistryTyped, cluster, nodes, checks
    <2> QED
      BY <2>1, Parts
  <1> QED
    BY <1>1, <1>2

LEMMA ServesKeepsTypes ==
    ASSUME TypeOK, NEW s \in Server, Serves(s)
    PROVE  TypeOK'
  <1> USE Parts
  <1>1. CASE Elect(s)
    <2>1. ServersTyped'
      BY <1>1, FaultTyped DEF Elect, ServersTyped
    <2>2. NodesTyped' /\ RegistryTyped' /\ ChecksTyped'
      BY <1>1 DEF Elect, NodesTyped, RegistryTyped, ChecksTyped, nodes, checks
    <2> QED
      BY <2>1, <2>2, Parts
  <1>2. CASE Restart(s)
    <2>1. ServersTyped'
      BY <1>2, FaultTyped DEF Restart, ServersTyped
    <2>2. RegistryTyped' /\ ChecksTyped'
      BY <1>2, ForgottenTyped, HealthAssumption DEF Restart, RegistryTyped, ChecksTyped
    <2>3. NodesTyped'
      BY <1>2 DEF Restart, NodesTyped, nodes
    <2> QED
      BY <2>1, <2>2, <2>3, Parts
  <1>3. CASE FallBehind(s)
    <2>1. ServersTyped'
      BY <1>3, FaultTyped DEF FallBehind, ServersTyped
    <2>2. NodesTyped' /\ RegistryTyped' /\ ChecksTyped'
      BY <1>3 DEF FallBehind, NodesTyped, RegistryTyped, ChecksTyped, nodes, checks
    <2> QED
      BY <2>1, <2>2, Parts
  <1>4. CASE InstallSnapshot(s)
    <2>1. ServersTyped' /\ NodesTyped' /\ RegistryTyped' /\ ChecksTyped'
      BY <1>4 DEF InstallSnapshot, ServersTyped, NodesTyped, RegistryTyped, ChecksTyped, nodes, checks
    <2> QED
      BY <2>1, Parts
  <1> QED
    BY <1>1, <1>2, <1>3, <1>4 DEF Serves

LEMMA QuorumKeepsTypes ==
    ASSUME TypeOK, LoseQuorum \/ RegainQuorum
    PROVE  TypeOK'
  <1> USE Parts
  <1>1. CASE LoseQuorum
    <2>1. ServersTyped'
      BY <1>1, FaultTyped DEF LoseQuorum, ServersTyped
    <2>2. NodesTyped' /\ RegistryTyped' /\ ChecksTyped'
      BY <1>1 DEF LoseQuorum, NodesTyped, RegistryTyped, ChecksTyped, nodes, checks
    <2> QED
      BY <2>1, <2>2, Parts
  <1>2. CASE RegainQuorum
    <2>1. ServersTyped' /\ NodesTyped' /\ RegistryTyped' /\ ChecksTyped'
      BY <1>2 DEF RegainQuorum, ServersTyped, NodesTyped, RegistryTyped, ChecksTyped, nodes, checks
    <2> QED
      BY <2>1, Parts
  <1> QED
    BY <1>1, <1>2

LEMMA StepTyped == TypeOK /\ [Next]_vars => TypeOK'
  <1> SUFFICES ASSUME TypeOK, [Next]_vars
               PROVE  TypeOK'
    OBVIOUS
  <1>1. CASE UNCHANGED vars
    BY <1>1 DEF vars, cluster, nodes, checks, TypeOK
  <1>2. CASE Next
    BY <1>2, TickTyped, RunsTyped, ChecksKeepTypes, GrantsKeepTypes, ServesKeepsTypes,
       QuorumKeepsTypes DEF Next
  <1> QED
    BY <1>1, <1>2

\* Every variable stays in its type, with any servers and nodes.
THEOREM TypeCorrect == Spec => []TypeOK
  <1> QED
    BY InitTyped, StepTyped, PTL DEF Spec

-----------------------------------------------------------------------------
(* Suspects are silent.                                                    *)

LEMMA InitCounted == Init => SilenceCounted
  BY DEF Init, SilenceCounted, Least, Threshold

\* What is counted is a natural number.
LEMMA CountsAreNat ==
    ASSUME TypeOK, NEW s \in Server, NEW n \in StorageNode
    PROVE  stale[s][n] \in Nat /\ silent[n] \in Nat
  <1>1. stale[s] \in [StorageNode -> 0..Threshold+1]
    BY DEF TypeOK
  <1>2. silent[n] \in 0..Threshold
    BY DEF TypeOK
  <1> QED
    BY <1>1, <1>2 DEF Threshold

\* A tick of a checker that owes nothing: one more owed, one more silent.
LEMMA TickCounted ==
    ASSUME TypeOK, SilenceCounted, Tick
    PROVE  SilenceCounted'
  <1> SUFFICES ASSUME ~upset
               PROVE  /\ quorum' /\ behind' = {}
                      /\ \A s \in Server : owed'[s] <= 1
                      /\ \A s \in Server, n \in StorageNode : prev'[s][n] = "same" =>
                            Least(stale'[s][n] + owed'[s], Threshold) <= silent'[n]
    BY DEF SilenceCounted, Tick, cluster
  <1>1. quorum /\ behind = {} /\ UNCHANGED <<quorum, behind, prev, stale>>
    BY DEF SilenceCounted, Tick, cluster
  <1>2. ASSUME NEW s \in Server
        PROVE  owed[s] = 0 /\ owed'[s] = 1
    <2>1. owed[s] = 0
      BY <1>1, Zenon DEF Tick
    <2> QED
      BY <2>1, HealthAssumption DEF Tick, Least
  <1>3. ASSUME NEW s \in Server, NEW n \in StorageNode, prev[s][n] = "same"
        PROVE  Least(stale[s][n] + 1, Threshold) <= silent'[n]
    <2>1. stale[s][n] \in Nat /\ silent[n] \in Nat
      BY CountsAreNat
    <2>2. Least(stale[s][n] + 0, Threshold) <= silent[n]
      BY <1>2, <1>3 DEF SilenceCounted
    <2>3. silent'[n] = Least(silent[n] + 1, Threshold)
      BY DEF Tick
    <2> QED
      BY <2>1, <2>2, <2>3 DEF Least, Threshold
  <1> QED
    BY <1>1, <1>2, <1>3

\* A poll turns a tick it owed into one it counted, or starts from zero.
LEMMA PollCounted ==
    ASSUME TypeOK, SilenceCounted, NEW s \in Server, Poll(s)
    PROVE  SilenceCounted'
  <1> SUFFICES ASSUME ~upset
               PROVE  /\ quorum' /\ behind' = {}
                      /\ \A t \in Server : owed'[t] <= 1
                      /\ \A t \in Server, n \in StorageNode : prev'[t][n] = "same" =>
                            Least(stale'[t][n] + owed'[t], Threshold) <= silent'[n]
    BY DEF SilenceCounted, Poll, cluster
  <1>1. quorum' /\ behind' = {} /\ UNCHANGED silent
    BY DEF SilenceCounted, Poll, cluster
  <1>2. owed[s] = 1 /\ owed'[s] = 0
    BY DEF SilenceCounted, Poll, TypeOK
  <1>3. ASSUME NEW t \in Server, t # s
        PROVE  owed'[t] = owed[t] /\ stale'[t] = stale[t] /\ prev'[t] = prev[t]
    BY <1>3 DEF Poll, TypeOK
  <1>4. ASSUME NEW n \in StorageNode, prev'[s][n] = "same"
        PROVE  Least(stale'[s][n] + 0, Threshold) <= silent[n]
    <2>1. stale[s][n] \in Nat /\ silent[n] \in Nat
      BY CountsAreNat
    <2>2. prev[s][n] = "same" => Least(stale[s][n] + 1, Threshold) <= silent[n]
      BY <1>2 DEF SilenceCounted
    <2>3. s = leader
      BY <1>4 DEF Poll, TypeOK
    <2>4. stale'[s][n] = Counts(s)[n]
      BY <2>3 DEF Poll, TypeOK
    <2>5. CASE n \notin Known(s)
      <3>1. prev'[s][n] = prev[s][n] /\ Counts(s)[n] = stale[s][n]
        BY <2>3, <2>5 DEF Poll, TypeOK, Counts
      <3> QED
        BY <1>4, <2>1, <2>2, <2>4, <3>1 DEF Least, Threshold
    <2>6. CASE n \in Known(s) /\ prev[s][n] = "same"
      <3>1. Counts(s)[n] = Least(stale[s][n] + 1, Threshold + 1)
        BY <2>6 DEF Counts
      <3> QED
        BY <2>1, <2>2, <2>4, <2>6, <3>1 DEF Least, Threshold
    <2>7. CASE n \in Known(s) /\ prev[s][n] # "same"
      <3>1. Counts(s)[n] = 0
        BY <2>7 DEF Counts
      <3> QED
        BY <2>1, <2>4, <3>1 DEF Least, Threshold
    <2> QED
      BY <2>5, <2>6, <2>7
  <1>5. ASSUME NEW t \in Server
        PROVE  owed'[t] <= 1
    <2>1. owed[t] <= 1
      BY DEF SilenceCounted
    <2> QED
      BY <1>2, <1>3, <2>1
  <1>6. ASSUME NEW t \in Server, NEW n \in StorageNode, prev'[t][n] = "same"
        PROVE  Least(stale'[t][n] + owed'[t], Threshold) <= silent'[n]
    <2>1. CASE t = s
      BY <1>1, <1>2, <1>4, <1>6, <2>1
    <2>2. CASE t # s
      BY <1>1, <1>3, <1>6, <2>2 DEF SilenceCounted
    <2> QED
      BY <2>1, <2>2
  <1> QED
    BY <1>1, <1>5, <1>6

\* A registration ends the silence, and every checker sees an advance: nobody lags.
LEMMA HeartbeatCounted ==
    ASSUME TypeOK, SilenceCounted, NEW m \in StorageNode, Heartbeat(m)
    PROVE  SilenceCounted'
  <1> SUFFICES ASSUME ~upset
               PROVE  /\ quorum' /\ behind' = {}
                      /\ \A s \in Server : owed'[s] <= 1
                      /\ \A s \in Server, n \in StorageNode : prev'[s][n] = "same" =>
                            Least(stale'[s][n] + owed'[s], Threshold) <= silent'[n]
    BY DEF SilenceCounted, Heartbeat, cluster
  <1>1. quorum' /\ behind' = {} /\ behind = {} /\ UNCHANGED <<owed, stale>>
    BY DEF SilenceCounted, Heartbeat, cluster
  <1>2. ASSUME NEW s \in Server, NEW n \in StorageNode, prev'[s][n] = "same"
        PROVE  n # m /\ prev[s][n] = "same"
    <2>1. prev'[s] = IF prev[s][m] = "unseen" THEN prev[s]
                     ELSE [prev[s] EXCEPT ![m] = "advanced"]
      BY <1>1 DEF Heartbeat, RegisterNode
    <2> QED
      BY <1>2, <2>1 DEF TypeOK
  <1>3. ASSUME NEW n \in StorageNode, n # m
        PROVE  silent'[n] = silent[n]
    BY <1>3 DEF Heartbeat, TypeOK
  <1> QED
    BY <1>1, <1>2, <1>3 DEF SilenceCounted

\* A restarted server has counted nothing and owes nothing.
LEMMA RestartCounted ==
    ASSUME TypeOK, SilenceCounted, NEW t \in Server, Restart(t)
    PROVE  SilenceCounted'
  <1> SUFFICES ASSUME ~upset, ~upset'
               PROVE  /\ quorum' /\ behind' = {}
                      /\ \A s \in Server : owed'[s] <= 1
                      /\ \A s \in Server, n \in StorageNode : prev'[s][n] = "same" =>
                            Least(stale'[s][n] + owed'[s], Threshold) <= silent'[n]
    BY DEF SilenceCounted, Restart, Happens
  <1>1. UNCHANGED <<quorum, behind, silent>>
    BY DEF Restart, nodes
  <1>2. ASSUME NEW s \in Server, s # t
        PROVE  owed'[s] = owed[s] /\ prev'[s] = prev[s] /\ stale'[s] = stale[s]
    BY <1>2 DEF Restart, TypeOK
  <1>3. owed'[t] = 0 /\ \A n \in StorageNode : prev'[t][n] = "unseen"
    BY DEF Restart, TypeOK
  <1> QED
    BY <1>1, <1>2, <1>3 DEF SilenceCounted

\* The other actions leave what is counted alone; an outage and a lag are remembered.
LEMMA OtherCounted ==
    ASSUME SilenceCounted, UNCHANGED <<prev, stale, owed, silent>>,
           ~upset' => ~upset /\ (quorum => quorum') /\ behind' \subseteq behind
    PROVE  SilenceCounted'
  BY DEF SilenceCounted

LEMMA StepCounted == TypeOK /\ SilenceCounted /\ [Next]_vars => SilenceCounted'
  <1> SUFFICES ASSUME TypeOK, SilenceCounted, [Next]_vars
               PROVE  SilenceCounted'
    OBVIOUS
  <1>1. CASE Tick
    BY <1>1, TickCounted
  <1>2. CASE \E n \in StorageNode : Runs(n)
    <2> PICK n \in StorageNode : Runs(n)
      BY <1>2
    <2>1. CASE Heartbeat(n)
      BY <2>1, HeartbeatCounted
    <2>2. CASE MissedBeat(n) \/ Die(n) \/ Revive(n)
      <3>1. UNCHANGED <<prev, stale, owed, silent>>
        BY <2>2 DEF MissedBeat, Die, Revive, checks
      <3>2. ~upset' => ~upset /\ (quorum => quorum') /\ behind' \subseteq behind
        BY <2>2, Zenon DEF MissedBeat, Die, Revive, Happens, cluster
      <3> QED
        BY <3>1, <3>2, OtherCounted
    <2> QED
      BY <2>1, <2>2 DEF Runs
  <1>3. CASE \E s \in Server : Checks(s) \/ Grants(s) \/ Serves(s)
    <2> PICK s \in Server : Checks(s) \/ Grants(s) \/ Serves(s)
      BY <1>3
    <2>1. CASE Poll(s)
      BY <2>1, PollCounted
    <2>2. CASE Restart(s)
      BY <2>2, RestartCounted
    <2>3. CASE CheckerWrites(s) \/ Audit(s)
      <3>1. UNCHANGED <<prev, stale, owed, silent, cluster>>
        BY <2>3 DEF CheckerWrites, Audit, checks
      <3> QED
        BY <3>1, OtherCounted DEF cluster
    <2>4. CASE Grants(s)
      <3> PICK n \in StorageNode : GraceOver(s, n) \/ Grant(s, n)
        BY <2>4 DEF Grants
      <3>1. UNCHANGED <<prev, stale, owed, silent, cluster>>
        BY DEF GraceOver, Grant, checks
      <3> QED
        BY <3>1, OtherCounted DEF cluster
    <2>5. CASE Elect(s) \/ FallBehind(s) \/ InstallSnapshot(s)
      <3>1. UNCHANGED <<prev, stale, owed, silent>>
        BY <2>5 DEF Elect, FallBehind, InstallSnapshot, checks
      <3>2. ~upset' => ~upset /\ (quorum => quorum') /\ behind' \subseteq behind
        BY <2>5, Zenon DEF Elect, FallBehind, InstallSnapshot, Happens
      <3> QED
        BY <3>1, <3>2, OtherCounted
    <2> QED
      BY <2>1, <2>2, <2>3, <2>4, <2>5 DEF Checks, Serves
  <1>4. CASE LoseQuorum \/ RegainQuorum
    <2>1. UNCHANGED <<prev, stale, owed, silent>>
      BY <1>4 DEF LoseQuorum, RegainQuorum, checks
    <2>2. ~upset' => ~upset /\ (quorum => quorum') /\ behind' \subseteq behind
      BY <1>4, Zenon DEF LoseQuorum, RegainQuorum, Happens
    <2> QED
      BY <2>1, <2>2, OtherCounted
  <1>5. CASE UNCHANGED vars
    <2>1. UNCHANGED <<prev, stale, owed, silent, cluster>>
      BY <1>5 DEF vars, checks
    <2> QED
      BY <2>1, OtherCounted DEF cluster
  <1> QED
    BY <1>1, <1>2, <1>3, <1>4, <1>5 DEF Next

\* Only a poll reports a node: one of the leader, of a node it knows and has seen not to
\* advance for two polls, and now for the tick it owes.
LEMMA NewSuspects ==
    ASSUME TypeOK, SilenceCounted, [Next]_vars, ~upset,
           NEW s \in Server, NEW n \in StorageNode, n \in checker'[s] \ checker[s]
    PROVE  silent[n] = Threshold
  <1>1. Poll(s) /\ s = leader
    <2>1. ASSUME UNCHANGED checker
          PROVE  FALSE
      BY <2>1
    <2>2. ASSUME NEW t \in Server, checker' = [checker EXCEPT ![t] = {}]
          PROVE  FALSE
      BY <2>2 DEF TypeOK
    <2>3. ~Tick /\ ~LoseQuorum /\ ~RegainQuorum /\ ~UNCHANGED vars
      BY <2>1 DEF Tick, LoseQuorum, RegainQuorum, vars, checks
    <2>4. ASSUME NEW m \in StorageNode, Runs(m)
          PROVE  FALSE
      BY <2>1, <2>4 DEF Runs, Heartbeat, MissedBeat, Die, Revive, checks
    <2>5. ASSUME NEW t \in Server, Grants(t) \/ Elect(t) \/ FallBehind(t) \/ InstallSnapshot(t)
          PROVE  FALSE
      BY <2>1, <2>5 DEF Grants, GraceOver, Grant, Elect, FallBehind, InstallSnapshot, checks
    <2>6. ASSUME NEW t \in Server, CheckerWrites(t) \/ Audit(t) \/ Restart(t)
          PROVE  FALSE
      BY <2>1, <2>2, <2>6 DEF CheckerWrites, Audit, Restart, checks
    <2>7. PICK t \in Server : Poll(t)
      BY <2>3, <2>4, <2>5, <2>6 DEF Next, Checks, Serves
    <2>8. t = leader
      BY <2>1, <2>7 DEF Poll
    <2>9. checker' = [checker EXCEPT ![t] = Suspects(t, Counts(t))]
      BY <2>7, <2>8 DEF Poll
    <2>10. t = s
      BY <2>9 DEF TypeOK
    <2> QED
      BY <2>7, <2>8, <2>10
  <1>2. n \in Suspects(s, Counts(s))
    <2>1. checker' = [checker EXCEPT ![s] = Suspects(s, Counts(s))]
      BY <1>1 DEF Poll
    <2>2. checker \in [Server -> SUBSET StorageNode]
      BY DEF TypeOK
    <2> QED
      BY <2>1, <2>2
  <1>3. prev[s][n] = "same" /\ Counts(s)[n] = Least(stale[s][n] + 1, Threshold + 1)
    BY <1>2 DEF Suspects, Counts
  <1>4. Counts(s)[n] >= Threshold
    BY <1>2 DEF Suspects
  <1>5. stale[s][n] \in Nat /\ silent[n] \in 0..Threshold /\ owed[s] \in Nat
    <2>1. /\ stale[s] \in [StorageNode -> 0..Threshold+1] /\ owed[s] \in 0..MaxOwed
          /\ silent \in [StorageNode -> 0..Threshold]
      BY DEF TypeOK
    <2>2. stale[s][n] \in 0..Threshold+1 /\ silent[n] \in 0..Threshold
      BY <2>1
    <2> QED
      BY <2>1, <2>2
  <1>6. owed[s] > 0
    BY <1>1 DEF Poll
  <1>7. Least(stale[s][n] + owed[s], Threshold) <= silent[n]
    BY <1>3 DEF SilenceCounted
  <1> QED
    BY <1>3, <1>4, <1>5, <1>6, <1>7 DEF Least, Threshold

\* While the cluster has kept its quorum and nobody lagged, the checker takes a node for
\* dead only after three periods without a registration of it, with any servers, nodes,
\* elections and restarts.
THEOREM SuspicionIsEarned == Spec => SuspectsAreSilent
  <1> DEFINE Earned ==
          \A s \in Server, n \in StorageNode :
              n \in checker'[s] \ checker[s] /\ ~upset => silent[n] = Threshold
  <1>1. Init => IInv
    BY InitTyped, InitCounted DEF IInv
  <1>2. IInv /\ [Next]_vars => IInv'
    BY StepTyped, StepCounted DEF IInv
  <1>3. IInv /\ [Next]_vars => [Earned]_vars
    BY NewSuspects DEF IInv
  <1> QED
    BY <1>1, <1>2, <1>3, PTL DEF Spec, SuspectsAreSilent
=============================================================================
