--------------------------- MODULE ShardLifecycle ---------------------------
(***************************************************************************)
(* The life of a shard: a client or the repair operator hosts it, storage  *)
(* nodes pull it (pool.rs put, repair_object; pull.rs), a manifest that    *)
(* places it is committed in the index, and each storage node's garbage    *)
(* collector (main.rs) deletes what the index does not tell it to keep.    *)
(* The tables are those of IndexState; blobs travel outside the index.     *)
(***************************************************************************)
EXTENDS Integers, FiniteSets

CONSTANTS Account, Bucket, Key, Manifest, Blob, Ref, Credit, Default, None,
          Node,        \* storage nodes
          Writer,      \* accounts that put and delete
          Operator,    \* the account of the repair operator
          PutManifest, \* what a put may build: fresh blobs each time (a random nonce)
          Repairs,     \* Repairs[m]: the manifests a repair based on m may build
          Attempts,    \* times index_send posts one commit (3 in the code)
          MaxHashes,   \* hashes that fit in the URL of one gc-candidates query
          MaxLosses,   \* bound: shards lost by disks
          FreshReads   \* whether an index node that lags never answers a read

VARIABLES buckets, manifests, shard_refs, quota, quota_events,
          repair_operator, payment_operator, default_quota,
          stale,     \* manifests and shard_refs at an index node that lags
          store,     \* store[n]: blobs in the blob store of node n
          upload,    \* upload[w]: the put or repair w is in the middle of, or None
          built,     \* manifests built by some put so far
          gc,        \* gc[n]: the GC cycle of node n
          losses,
          settled,   \* history: blobs n held and manifests placed on n when its last
                     \* cycle listed its store, and placed there ever since
          removed    \* history: blobs that GC or a disk has ever removed from n

\* What writers and repairs may commit, whatever the instance: accounts and manifests
\* the index knows of; a commit is posted at least once.
ASSUME ShardAssumption ==
    /\ Writer \cup {Operator} \subseteq Account
    /\ PutManifest \subseteq Manifest
    /\ Repairs \in [Manifest -> SUBSET Manifest]
    /\ Attempts \in Nat \ {0} /\ MaxLosses \in Nat

tables == <<buckets, manifests, shard_refs, quota, quota_events,
            repair_operator, payment_operator, default_quota>>
vars == <<tables, stale, store, upload, built, gc, losses, settled, removed>>

Index == INSTANCE IndexState
Lagging == INSTANCE IndexState WITH manifests <- stale.manifests,
                                    shard_refs <- stale.shard_refs

\* The assumptions of IndexState.
ASSUME TablesAssumption ==
    /\ \A m \in Manifest :
        /\ m.ciphertext_size \in Nat
        /\ IsFiniteSet(m.shards)
        /\ \A s \in m.shards : s.blob_hash \in Blob
    /\ Credit \subseteq Nat /\ Default \subseteq Nat
    /\ None \notin Account \cup Manifest \cup Index!QuotaRow \cup Index!Event

Object == Bucket \X Key

Upload == [object : Object, base : Manifest \cup {None}, manifest : Manifest \cup {None},
           left : SUBSET UNION {m.shards : m \in Manifest}, sent : 0..Attempts-1]
Cycle == [phase : {"idle", "listed", "queried"}, all : SUBSET Blob, live : SUBSET Blob]
IdleCycle == [phase |-> "idle", all |-> {}, live |-> {}]

\* The cluster has its operators and a default quota; nothing is stored.
Init ==
    /\ buckets = [b \in Bucket |-> None]
    /\ manifests = [o \in Object |-> None]
    /\ shard_refs = [h \in Blob |-> 0]
    /\ quota = [a \in Account |-> None]
    /\ quota_events = [r \in Ref |-> None]
    /\ repair_operator = Operator
    /\ payment_operator = Operator
    /\ default_quota \in Default
    /\ stale = [manifests |-> manifests, shard_refs |-> shard_refs]
    /\ store = [n \in Node |-> {}]
    /\ upload = [w \in Writer \cup {Operator} |-> None]
    /\ built = {}
    /\ gc = [n \in Node |-> IdleCycle]
    /\ losses = 0
    /\ settled = [n \in Node |-> {}]
    /\ removed = [n \in Node |-> {}]

\* The blobs that stored manifests place on node n.
PlacedOn(n) ==
    {h \in Blob : \E o \in Object : \E s \in Index!ShardsOf(manifests[o]) :
                     s.node_id = n /\ s.blob_hash = h}

\* What a step on the tables leaves settled.
StillSettled == settled' = [n \in Node |-> settled[n] \cap PlacedOn(n)']

-----------------------------------------------------------------------------
(* Puts and deletes.                                                       *)

\* The upload once its shards are encoded and placed: all are still to be pulled.
Planned(o, base, m) ==
    [object |-> o, base |-> base, manifest |-> m, left |-> m.shards, sent |-> 0]

StartPut(w, o, m) ==
    /\ upload[w] = None
    /\ m \notin built
    /\ upload' = [upload EXCEPT ![w] = Planned(o, None, m)]
    /\ built' = built \cup {m}
    /\ UNCHANGED <<tables, stale, store, gc, losses, settled, removed>>

\* Faulty variant: the acknowledgement is not awaited.
PullLater(w) ==
    LET u == upload[w] IN
    /\ u # None /\ u.left # {}
    /\ \E s \in u.left : upload' = [upload EXCEPT ![w].left = @ \ {s}]
    /\ UNCHANGED <<tables, stale, store, built, gc, losses, settled, removed>>

\* A node pulls the next shard, in the order of the shards, and acknowledges it.
Pull(w) ==
    LET u == upload[w] IN
    /\ u # None /\ u.left # {}
    /\ \E s \in u.left :
        /\ \A t \in u.left : s.shard_index <= t.shard_index
        /\ store' = [store EXCEPT ![s.node_id] = @ \cup {s.blob_hash}]
        /\ upload' = [upload EXCEPT ![w].left = @ \ {s}]
    /\ UNCHANGED <<tables, stale, built, gc, losses, settled, removed>>

\* A pull fails, the index refuses, or the process dies: the shards pulled so far stay.
Abandon(w) ==
    /\ upload[w] # None
    /\ upload' = [upload EXCEPT ![w] = None]
    /\ UNCHANGED <<tables, stale, store, built, gc, losses, settled, removed>>

\* Faulty variant: one retry too many.
RepliedOnceMore(w) ==
    \/ upload' = [upload EXCEPT ![w] = None]
    \/ /\ upload[w].sent < Attempts
       /\ upload' = [upload EXCEPT ![w].sent = @ + 1]

\* The reply ends the upload, or it is a "raft batch error" of a command that was
\* applied all the same, and index_send posts it again.
Replied(w) ==
    \/ upload' = [upload EXCEPT ![w] = None]
    \/ /\ upload[w].sent + 1 < Attempts
       /\ upload' = [upload EXCEPT ![w].sent = @ + 1]

CommitPut(w) ==
    LET u == upload[w] IN
    /\ u # None /\ u.manifest # None /\ u.left = {}
    /\ Index!CommitManifest(w, u.object, u.manifest)
    /\ Replied(w)
    /\ StillSettled
    /\ UNCHANGED <<stale, store, built, gc, losses, removed>>

Delete(w, o) ==
    /\ Index!DeleteManifest(w, o)
    /\ StillSettled
    /\ UNCHANGED <<stale, store, upload, built, gc, losses, removed>>

-----------------------------------------------------------------------------
(* Repair.                                                                 *)

\* The manifests a read without the leader barrier may return for o.
Read(o) == (IF FreshReads THEN {manifests[o]} ELSE {manifests[o], stale.manifests[o]}) \ {None}

\* The pass reads every manifest once, at its start.
StartRepair(o) ==
    /\ upload[Operator] = None
    /\ \E m \in Read(o) :
        upload' = [upload EXCEPT ![Operator] =
            [object |-> o, base |-> m, manifest |-> None, left |-> {}, sent |-> 0]]
    /\ UNCHANGED <<tables, stale, store, built, gc, losses, settled, removed>>

\* The shards of m a repair can fetch while it takes the nodes in offline for dead.  The
\* operator's own blob store, which may have more, is RepairPass's local.
Available(m, offline) ==
    {s \in m.shards : s.node_id \notin offline /\ s.blob_hash \in store[s.node_id]}

Healthy(m, offline, new) ==
    /\ Available(m, offline) = m.shards
    /\ new.k = m.k /\ Cardinality(new.shards) = Cardinality(m.shards)
    /\ Cardinality({s.node_id : s \in m.shards}) = Cardinality(m.shards)

\* Enough shards survive: they are decoded and encoded again for the targets at hand.
PlanRepair ==
    LET u == upload[Operator] IN
    /\ u # None /\ u.manifest = None
    /\ \E offline \in SUBSET Node, m \in Repairs[u.base] :
        /\ Cardinality(Available(u.base, offline)) >= u.base.k
        /\ ~Healthy(u.base, offline, m)
        /\ upload' = [upload EXCEPT ![Operator] = Planned(u.object, u.base, m)]
    /\ UNCHANGED <<tables, stale, store, built, gc, losses, settled, removed>>

CommitRepair ==
    LET u == upload[Operator] IN
    /\ u # None /\ u.manifest # None /\ u.left = {}
    /\ Index!RepairManifest(Operator, u.object, u.manifest)
    /\ Replied(Operator)
    /\ StillSettled
    /\ UNCHANGED <<stale, store, built, gc, losses, removed>>

-----------------------------------------------------------------------------
(* The garbage collector of a storage node, and its disk.                  *)

GcList(n) ==
    /\ gc[n].phase = "idle"
    /\ gc' = [gc EXCEPT ![n] = [phase |-> "listed", all |-> store[n], live |-> {}]]
    /\ settled' = [settled EXCEPT ![n] = store[n] \cap PlacedOn(n)]
    /\ UNCHANGED <<tables, stale, store, upload, built, losses, removed>>

\* The candidates the index node that answers may return for n and hashes.
Answers(n, hashes) ==
    {Index!gc_candidates(n, hashes)}
        \cup (IF FreshReads THEN {} ELSE {Lagging!gc_candidates(n, hashes)})

\* An empty store asks nothing; a longer list than a URL holds cannot be asked.
GcQuery(n) ==
    /\ gc[n].phase = "listed"
    /\ Cardinality(gc[n].all) <= MaxHashes
    /\ \E doomed \in IF gc[n].all = {} THEN {{}} ELSE Answers(n, gc[n].all) :
        gc' = [gc EXCEPT ![n].phase = "queried", ![n].live = gc[n].all \ doomed]
    /\ UNCHANGED <<tables, stale, store, upload, built, losses, settled, removed>>

\* Faulty variant: a failed query goes on with an empty protected set.
GcContinue(n) ==
    /\ gc[n].phase # "idle"
    /\ gc' = [gc EXCEPT ![n].phase = "queried"]
    /\ UNCHANGED <<tables, stale, store, upload, built, losses, settled, removed>>

\* The query fails or is forbidden (the node is not registered), or the node restarts.
GcAbort(n) ==
    /\ gc[n].phase # "idle"
    /\ gc' = [gc EXCEPT ![n] = IdleCycle]
    /\ UNCHANGED <<tables, stale, store, upload, built, losses, settled, removed>>

\* The blob store deletes every blob that is not protected, listed or not.
GcSweep(n) ==
    /\ gc[n].phase = "queried"
    /\ store' = [store EXCEPT ![n] = @ \cap gc[n].live]
    /\ removed' = [removed EXCEPT ![n] = @ \cup (store[n] \ gc[n].live)]
    /\ gc' = [gc EXCEPT ![n] = IdleCycle]
    /\ UNCHANGED <<tables, stale, upload, built, losses, settled>>

\* A disk loses a shard: what repair is for.
Lose(n, h) ==
    /\ losses < MaxLosses
    /\ h \in store[n]
    /\ store' = [store EXCEPT ![n] = @ \ {h}]
    /\ removed' = [removed EXCEPT ![n] = @ \cup {h}]
    /\ settled' = [settled EXCEPT ![n] = @ \ {h}]
    /\ losses' = losses + 1
    /\ UNCHANGED <<tables, stale, upload, built, gc>>

\* The index node that lags catches up.
CatchUp ==
    /\ ~FreshReads
    /\ stale' = [manifests |-> manifests, shard_refs |-> shard_refs]
    /\ UNCHANGED <<tables, store, upload, built, gc, losses, settled, removed>>

-----------------------------------------------------------------------------
Put(w) ==
    \/ \E o \in Object, m \in PutManifest : StartPut(w, o, m)
    \/ CommitPut(w)
    \/ \E o \in Object : Delete(w, o)

Repair == (\E o \in Object : StartRepair(o)) \/ PlanRepair \/ CommitRepair

Gc(n) == GcList(n) \/ GcQuery(n) \/ GcAbort(n) \/ GcSweep(n)

Next ==
    \/ \E w \in Writer : Put(w)
    \/ \E w \in Writer \cup {Operator} : Pull(w) \/ Abandon(w)
    \/ Repair
    \/ \E n \in Node : Gc(n) \/ \E h \in Blob : Lose(n, h)
    \/ CatchUp

Spec == Init /\ [][Next]_vars

\* The collector's interval keeps ticking and its query is answered now and then;
\* a writer or repair operator does not stop half-way for ever, and lag does not last.
Fairness ==
    /\ \A n \in Node : WF_vars(GcList(n)) /\ SF_vars(GcQuery(n)) /\ SF_vars(GcSweep(n))
    /\ \A w \in Writer \cup {Operator} : WF_vars(Abandon(w))
    /\ WF_vars(CatchUp)

FairSpec == Spec /\ Fairness

-----------------------------------------------------------------------------
(* Properties.                                                             *)

TypeOK ==
    /\ Index!TypeOK
    /\ stale \in [manifests : [Object -> Manifest \cup {None}], shard_refs : [Blob -> Nat]]
    /\ store \in [Node -> SUBSET Blob]
    /\ upload \in [Writer \cup {Operator} -> Upload \cup {None}]
    /\ built \subseteq PutManifest
    /\ gc \in [Node -> Cycle]
    /\ losses \in 0..MaxLosses
    /\ settled \in [Node -> SUBSET Blob]
    /\ removed \in [Node -> SUBSET Blob]

\* A put or repair commits a placement only after that node acknowledged that blob:
\* a placement whose blob is missing was removed from the node, never skipped.
AckedBeforeCommit == \A n \in Node : PlacedOn(n) \subseteq store[n] \cup removed[n]

\* A garbage collection never deletes a shard that the node held, and that stored
\* manifests placed on it, from the moment the cycle listed the store; whatever is put,
\* deleted, re-put or repaired between the list, the query and the sweep.
SettledShardsKept == \A n \in Node : settled[n] \subseteq store[n]

\* A blob that is no longer placed on a node, and that no upload is about to place
\* there, leaves the node's disk in the end (deletes, aborted puts, moved shards).
Places(m, n, h) == \E s \in Index!ShardsOf(m) : s.node_id = n /\ s.blob_hash = h
Wanted(n, h) ==
    \/ h \in PlacedOn(n)
    \/ \E w \in Writer \cup {Operator} :
        upload[w] # None /\ Places(upload[w].manifest, n, h)
GarbageGoesAway ==
    \A n \in Node, h \in Blob : <>[](~Wanted(n, h)) => <>[](h \notin store[n])

\* cli.rs: the collector deletes unreferenced shards.  The code may delete a shard that
\* was pulled before, and committed after, the cycle's list or query.
GcDeletesUnreferenced ==
    [][\A n \in Node : gc'[n].phase = "idle" =>
          (store[n] \ store'[n]) \cap PlacedOn(n) = {}]_vars

\* state.rs: a repair is accepted only against the manifest it was based on.  The code
\* compares object_hash alone, which a re-put of the same content does not change.
RepairMatchesBase ==
    [][\A o \in Object :
          LET u == upload[Operator] IN
          manifests'[o] # manifests[o] /\ upload'[Operator] # u => manifests[o] = u.base]_vars
=============================================================================
