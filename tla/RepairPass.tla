------------------------------ MODULE RepairPass ------------------------------
(***************************************************************************)
(* Passes of the repair operator over all objects (ops/repair.rs): the     *)
(* health map and the manifests are read once, then each object is probed, *)
(* judged against the scheme the pool allows now, and re-encoded and       *)
(* redistributed (pool.rs repair_object), up to a rate limit; any error    *)
(* ends the pass.  Meanwhile nodes die, come back, lose their disks and    *)
(* change their status, and clients put.                                   *)
(***************************************************************************)
EXTENDS ErasurePlan, Sequences, SequencesExt

CONSTANTS Node, Object,
          Target,      \* ec_config of clients and operator
          RateLimit,   \* objects a pass repairs at most
          MaxEvents    \* bound: puts and faults of nodes, of the index and of the operator

ASSUME RepairAssumption ==
    /\ Target \in Scheme /\ Encodes(Target)
    /\ IsFiniteSet(Node) /\ Cardinality(Node) > 1
    /\ IsFiniteSet(Object)
    /\ RateLimit \in Nat \ {0} /\ MaxEvents \in Nat

VARIABLES up,        \* nodes that answer
          offline,   \* nodes whose status in the index is Offline
          manifests, \* manifests[o]: content, scheme and number of shards per node
          scan,      \* the objects, in the order the index lists them
          lost,      \* lost[o]: nodes that no longer have the shards o has on them
          local,     \* local[o]: nodes whose shards of o the operator's own store has too
          pass,      \* the pass that is running
          events

storage == <<up, lost>>
index == <<offline, manifests, scan>>
vars == <<storage, index, local, pass, events>>

\* What a client put, and which put's ciphertext it is: the same object put again has the
\* same hash but other shards.
Content == [object_hash : 0..MaxEvents, ciphertext : 0..MaxEvents]
Manifest == [content : Content, k : Nat, m : Nat, shards : [Node -> Nat]]
Pass == [phase : {"idle", "nodes", "scan", "fetched", "repair"},
         offline : SUBSET Node,
         todo : Seq([object : Object, manifest : Manifest]),
         fixed : 0..RateLimit,
         found : SUBSET Node,   \* nodes whose shards of the object at hand it got
         goal : Scheme]         \* the scheme it re-encodes to
NoPass == [phase |-> "idle", offline |-> {}, todo |-> <<>>, fixed |-> 0,
           found |-> {}, goal |-> [k |-> 0, m |-> 0]]

Event == events < MaxEvents /\ events' = events + 1

Pool == Node \ offline
SchemeOf(manifest) == [k |-> manifest.k, m |-> manifest.m]
Hosts(manifest) == {n \in Node : manifest.shards[n] > 0}

\* How many shards there are on the nodes, counted one by one.
Shards(manifest, nodes) ==
    Cardinality(UNION {{n} \X (1..manifest.shards[n]) : n \in nodes})

\* The manifest of an object whose shards are dealt to the targets.
Placed(content, scheme, dealt) ==
    [content |-> content, k |-> scheme.k, m |-> scheme.m,
     shards |-> [n \in Node |-> IF n \in DOMAIN dealt THEN dealt[n] ELSE 0]]

\* The objects were put while all nodes were healthy.
Init ==
    /\ up = Node /\ offline = {}
    /\ \E targets \in TargetSets(Target, Node) :
           LET scheme == Effective(Target, Cardinality(Node)) IN
           manifests \in [Object ->
               {Placed([object_hash |-> 0, ciphertext |-> 0], scheme, dealt) :
                    dealt \in RoundRobins(TotalShards(scheme), targets)}]
    /\ scan \in SetToSeqs(Object)
    /\ lost = [o \in Object |-> {}] /\ local = [o \in Object |-> {}]
    /\ pass = NoPass
    /\ events = 0

\* A commit replaces the row, which is listed last from then on.
Commit(o, manifest) ==
    /\ manifests' = [manifests EXCEPT ![o] = manifest]
    /\ \E i \in DOMAIN scan : scan[i] = o /\ scan' = Append(RemoveAt(scan, i), o)
    /\ lost' = [lost EXCEPT ![o] = {}]

-----------------------------------------------------------------------------
(* Clients.  A put is one step here: its interleavings are ShardLifecycle's. *)

\* What a put stores: something new, or once more what is there.
Contents(o) ==
    [object_hash : {manifests[o].content.object_hash, events'}, ciphertext : {events'}]

\* Onto targets from assign_shards, or onto explicit ones with the full scheme; every
\* target must pull its shards.
Put(o) ==
    /\ Event
    /\ \/ LET scheme == Effective(Target, Cardinality(Pool)) IN
          /\ Pool # {} /\ Encodes(scheme)
          /\ \E targets \in TargetSets(Target, Pool) :
                /\ targets \subseteq up
                /\ \E content \in Contents(o),
                      dealt \in RoundRobins(TotalShards(scheme), targets) :
                       Commit(o, Placed(content, scheme, dealt))
       \/ \E targets \in (SUBSET up) \ {{}} :
             \E content \in Contents(o),
                dealt \in RoundRobins(TotalShards(Target), targets) :
                 Commit(o, Placed(content, Target, dealt))
    /\ local' = [local EXCEPT ![o] = {}]
    /\ UNCHANGED <<up, offline, pass>>

-----------------------------------------------------------------------------
(* Nodes and their status.                                                 *)

Die(n) ==
    /\ Event /\ n \in up
    /\ up' = up \ {n}
    /\ UNCHANGED <<lost, index, local, pass>>

Revive(n) ==
    /\ Event /\ n \notin up
    /\ up' = up \cup {n}
    /\ UNCHANGED <<lost, index, local, pass>>

LoseDisk(n) ==
    /\ Event
    /\ lost' = [o \in Object |-> IF n \in Hosts(manifests[o])
                                 THEN lost[o] \cup {n} ELSE lost[o]]
    /\ UNCHANGED <<up, index, local, pass>>

\* The health checker or an audit marks a node that is alive.
Suspect(n) ==
    /\ Event /\ n \in up \ offline
    /\ offline' = offline \cup {n}
    /\ UNCHANGED <<storage, manifests, scan, local, pass>>

MarkOffline(n) ==
    /\ n \notin (up \cup offline)
    /\ offline' = offline \cup {n}
    /\ UNCHANGED <<storage, manifests, scan, local, pass, events>>

Register(n) ==
    /\ n \in (up \cap offline)
    /\ offline' = offline \ {n}
    /\ UNCHANGED <<storage, manifests, scan, local, pass, events>>

-----------------------------------------------------------------------------
(* The pass.                                                               *)

\* A request that fails anywhere ends the pass.
Abort ==
    /\ Event /\ pass.phase # "idle"
    /\ pass' = NoPass
    /\ UNCHANGED <<storage, index, local>>

ReadNodes ==
    /\ pass.phase = "idle"
    /\ pass' = [NoPass EXCEPT !.phase = "nodes", !.offline = offline]
    /\ UNCHANGED <<storage, index, local, events>>

ReadManifests ==
    /\ pass.phase = "nodes"
    /\ pass' = [pass EXCEPT !.phase = "scan",
                    !.todo = [i \in DOMAIN scan |->
                                 [object |-> scan[i], manifest |-> manifests[scan[i]]]]]
    /\ UNCHANGED <<storage, index, local, events>>

Finished == pass.todo = <<>> \/ pass.fixed >= RateLimit

EndPass ==
    /\ pass.phase = "scan" /\ Finished
    /\ pass' = NoPass
    /\ UNCHANGED <<storage, index, local, events>>

Current == Head(pass.todo)
Superseded(job) == manifests[job.object] # job.manifest

\* The hosts a fetch gets shards from: not offline at the start of the pass, and the
\* operator's store has them already or the node answers and has them.
Visible(job) ==
    {n \in Hosts(job.manifest) \ pass.offline :
        n \in local[job.object] \/ n \in up \ lost[job.object]}

\* With k = 1 all shards are the same blob: the first that is fetched is in the operator's
\* store when the pass asks for the next ones.
Alike(job) == job.manifest.k = 1

\* The hosts whose shards a fetch may find.  The shards of a manifest that was replaced since
\* are all there or all collected.
Finds(job) ==
    LET asked == Hosts(job.manifest) \ pass.offline IN
    IF Superseded(job) THEN {{}, asked}
    ELSE IF Alike(job) /\ Visible(job) # {}
         THEN {found \in SUBSET asked : Visible(job) \subseteq found}
    ELSE {Visible(job)}

\* What was fetched stays in the operator's store.
Fetch ==
    /\ pass.phase = "scan" /\ ~Finished
    /\ \E found \in Finds(Current) :
          LET fetched == IF Alike(Current) /\ found # {} THEN Node ELSE found IN
          /\ pass' = [pass EXCEPT !.phase = "fetched", !.found = found]
          /\ local' = IF Superseded(Current) THEN local
                      ELSE [local EXCEPT ![Current.object] = @ \cup fetched]
    /\ UNCHANGED <<storage, index, events>>

Available == Shards(Current.manifest, pass.found)
Concentrated(manifest) == Cardinality(Hosts(manifest)) < TotalShards(SchemeOf(manifest))

\* Faulty variants: only what is missing is repaired; the shards are compared with the
\* target's scheme and not with the one the pool allows.
AtGoalComplete(manifest, goal) == Available >= TotalShards(SchemeOf(manifest))
AtGoalOfTarget(manifest, goal) ==
    /\ Available >= TotalShards(SchemeOf(manifest))
    /\ SchemeOf(manifest) = goal
    /\ Cardinality(Hosts(manifest)) >= TotalShards(Target)

\* Every shard was found, at the scheme of the moment, each on a node of its own.
AtGoal(manifest, goal) ==
    /\ Available >= TotalShards(SchemeOf(manifest))
    /\ SchemeOf(manifest) = goal
    /\ ~Concentrated(manifest)

\* The object is done: the loop goes on.
NextJob(p, fixed) ==
    [p EXCEPT !.phase = "scan", !.todo = Tail(@), !.fixed = fixed, !.found = {},
              !.goal = NoPass.goal]

\* assign_shards for the scheme; then skip, fail or go on.
Assess ==
    LET goal == Effective(Target, Cardinality(Pool))
        skip == Available < Current.manifest.k \/ AtGoal(Current.manifest, goal)
    IN  /\ pass.phase = "fetched"
        /\ pass' = IF Pool = {} THEN NoPass
                   ELSE IF skip THEN NextJob(pass, pass.fixed)
                   ELSE IF ~Encodes(goal) THEN NoPass
                   ELSE [pass EXCEPT !.phase = "repair", !.goal = goal]
        /\ UNCHANGED <<storage, index, local, events>>

\* Faulty variants: the target's k goes into the manifest; the last target gets nothing.
DealtTarget(job, goal, targets) ==
    {Placed(job.manifest.content, [goal EXCEPT !.k = Target.k], dealt) :
        dealt \in RoundRobins(TotalShards(goal), targets)}

DealtShort(job, goal, targets) ==
    {Placed(job.manifest.content, goal, dealt) :
        dealt \in UNION {RoundRobins(TotalShards(goal), targets \ {last}) : last \in targets}}

\* The manifests repair_object may build for the targets it got.
Dealt(job, goal, targets) ==
    {Placed(job.manifest.content, goal, dealt) :
        dealt \in RoundRobins(TotalShards(goal), targets)}

\* repair_object: assign_shards again for the targets, the pulls, and RepairManifest,
\* which the index refuses if another object is stored now than the one that was read; the
\* same one put again meanwhile is replaced.
Redistribute ==
    LET o == Current.object IN
    /\ pass.phase = "repair"
    /\ \E targets \in TargetSets(Target, Pool) :
          /\ targets # {} /\ targets \subseteq up
          /\ \E manifest \in Dealt(Current, pass.goal, targets) : Commit(o, manifest)
    /\ manifests[o].content.object_hash = Current.manifest.content.object_hash
    /\ local' = [local EXCEPT ![o] = Node]
    /\ pass' = NextJob(pass, pass.fixed + 1)
    /\ UNCHANGED <<up, offline, events>>

RepairFails ==
    /\ pass.phase = "repair"
    /\ \/ Pool = {}
       \/ \E targets \in TargetSets(Target, Pool) : ~(targets \subseteq up)
       \/ manifests[Current.object].content.object_hash
              # Current.manifest.content.object_hash
    /\ pass' = NoPass
    /\ UNCHANGED <<storage, index, local, events>>

-----------------------------------------------------------------------------
Health(n) == MarkOffline(n) \/ Register(n)
Repair == \/ ReadNodes \/ ReadManifests \/ Fetch \/ Assess \/ Redistribute
          \/ RepairFails \/ EndPass

Next ==
    \/ \E o \in Object : Put(o)
    \/ \E n \in Node : Die(n) \/ Revive(n) \/ LoseDisk(n) \/ Suspect(n) \/ Health(n)
    \/ Abort \/ Repair

Spec == Init /\ [][Next]_vars

\* The checker and registrations set statuses right, and cron starts pass after pass.
Fairness == WF_vars(Repair) /\ \A n \in Node : WF_vars(Health(n))

FairSpec == Spec /\ Fairness

-----------------------------------------------------------------------------
(* Properties.                                                             *)

TypeOK ==
    /\ up \subseteq Node /\ offline \subseteq Node
    /\ manifests \in [Object -> Manifest]
    /\ \A o \in Object :
           /\ Encodes(SchemeOf(manifests[o]))
           /\ Shards(manifests[o], Node) = TotalShards(SchemeOf(manifests[o]))
    /\ scan \in SetToSeqs(Object)
    /\ lost \in [Object -> SUBSET Node] /\ local \in [Object -> SUBSET Node]
    /\ pass \in Pass
    /\ events \in 0..MaxEvents

\* Any k shards of a stored object are enough for a get, if they answer throughout it,
\* whichever of the data and parity shards they are.
AnyKSuffice ==
    \A o \in Object :
        LET scheme == SchemeOf(manifests[o]) IN
        \A first, later \in SUBSET Indexes(scheme) :
            Cardinality(first \cap later) >= scheme.k => GetSucceeds(scheme, first, later)

\* The object can be read after the loss of any f of the nodes that were seen.
Survives(manifest, seen, f) ==
    \A gone \in SUBSET seen :
        Cardinality(gone) <= f => Shards(manifest, seen \ gone) >= manifest.k

\* A repair never leaves an object that is spread over its nodes able to survive fewer
\* losses than what the pass found of it, provided the pool did not shrink under the
\* pass: neither below the nodes it found shards on nor between its two questions.
NeverWeakens ==
    [][ pass.phase = "repair" /\ pass'.fixed > pass.fixed =>
            LET new == manifests'[Current.object]
                old == Current.manifest
            IN  /\ ~Concentrated(old) /\ Cardinality(pass.found) <= TotalShards(pass.goal)
                /\ TotalShards(pass.goal) <= Cardinality(Pool)
                => \A f \in 0..Cardinality(Node) :
                       Survives(old, pass.found, f) => Survives(new, Node, f)
      ]_vars

\* The object is at the scheme the pool allows, spread, and every shard is where the
\* manifest says, on nodes that are up.
Healed(o) ==
    LET manifest == manifests[o] IN
    /\ SchemeOf(manifest) = Effective(Target, Cardinality(Pool))
    /\ ~Concentrated(manifest)
    /\ Hosts(manifest) \subseteq (Pool \cap up) \ lost[o]

Recoverable(o) ==
    LET manifest == manifests[o] IN
    Shards(manifest, Hosts(manifest) \cap (up \ (lost[o] \ local[o]))) >= manifest.k

\* A node lost its shards and the operator's store hides it.
Masked(o) == lost[o] \cap local[o] # {}

\* When faults stop, the passes bring every object that can be recovered to the scheme the
\* pool allows, whatever the rate limit, the order of the objects and aborted passes.
EveryObjectHeals ==
    <>[](\A o \in Object :
            Recoverable(o) /\ Cardinality(up) > 1
                => Healed(o) \/ Masked(o))

\* And then passes find nothing to do: they commit no more repairs ("idempotent").
PassesQuiesce == <>[][pass'.fixed <= pass.fixed]_vars
=============================================================================
