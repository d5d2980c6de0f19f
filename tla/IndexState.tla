----------------------------- MODULE IndexState -----------------------------
(***************************************************************************)
(* The tables of the replicated index (src/index/state.rs): what           *)
(* StateMachineInner::apply_command does to SQLite for each command of the *)
(* Raft log.  One action per command, enabled exactly when the code        *)
(* answers "ok"; a refused command writes nothing and is a stuttering      *)
(* step.  A commit or repair whose bytes are no manifest is an error of    *)
(* the whole batch: nothing is written and nothing applied after it, so    *)
(* that the behaviour ends there (what becomes of the servers is           *)
(* ReplicatedIndex.Fail).  The in-memory node registry, which the same     *)
(* function updates, is not a table: see NodeHealth.                       *)
(***************************************************************************)
EXTENDS Integers, FiniteSets

CONSTANTS Account,     \* public keys that sign requests
          Bucket, Key, \* names of buckets and of objects in a bucket
          Manifest,    \* the manifests clients build: [object_hash, ciphertext_size, shards]
          Blob,        \* BLAKE3 hashes of shards
          Ref,         \* (source, ref_id): the identity of one quota credit
          Credit,      \* bytes a quota credit may carry
          Default,     \* bytes the cluster-wide default quota may be set to
          None         \* an absent row or an unset key of sm_meta

\* A shard is a record [shard_index, node_id, blob_hash]; only the hash matters to
\* the counters.  Two shards of a manifest may share their hash (with k = 1 the
\* parity shards are copies of the data shard).
ASSUME ManifestAssumption ==
    \A m \in Manifest :
        /\ m.ciphertext_size \in Nat
        /\ IsFiniteSet(m.shards)
        /\ \A s \in m.shards : s.blob_hash \in Blob

ASSUME BytesAssumption == Credit \subseteq Nat /\ Default \subseteq Nat

Object == Bucket \X Key
QuotaRow == [total_bytes : Nat, used_bytes : Nat]
Event == [account_id : Account, bytes : Credit]

ASSUME AbsentAssumption == None \notin Account \cup Manifest \cup QuotaRow \cup Event

VARIABLES buckets,          \* buckets[b]: the owner, None without a row
          manifests,        \* manifests[b, k]: the stored manifest or None
          shard_refs,       \* shard_refs[h]: references to blob h (0 without a row)
          quota,            \* quota[a]: [total_bytes, used_bytes] or None
          quota_events,     \* quota_events[r]: the credit applied under r or None
          repair_operator, payment_operator, default_quota  \* sm_meta

objectVars == <<buckets, manifests, shard_refs>>
operatorVars == <<repair_operator, payment_operator, default_quota>>
vars == <<objectVars, quota, quota_events, operatorVars>>

Init ==
    /\ buckets = [b \in Bucket |-> None]
    /\ manifests = [o \in Object |-> None]
    /\ shard_refs = [h \in Blob |-> 0]
    /\ quota = [a \in Account |-> None]
    /\ quota_events = [r \in Ref |-> None]
    /\ repair_operator = None
    /\ payment_operator = None
    /\ default_quota = 0

-----------------------------------------------------------------------------
(* Reference counters.                                                     *)

ShardsOf(m) == IF m = None THEN {} ELSE m.shards
SizeOf(m) == IF m = None THEN 0 ELSE m.ciphertext_size

\* How many shards of m are the blob h: one UPDATE of shard_refs for each.
Copies(m, h) == Cardinality({s \in ShardsOf(m) : s.blob_hash = h})

\* MAX(x, 0), and what repeated "SET x = x - 1 WHERE x > 0" comes to.
Floor0(x) == IF x > 0 THEN x ELSE 0

\* Faulty variants: the old manifest's shards are not released, or are released
\* twice and without the guard; a blob that is counted already is not counted again.
SwapRefsLeak(old, new) ==
    [h \in Blob |-> shard_refs[h] + Copies(new, h)]
SwapRefsTwice(old, new) ==
    [h \in Blob |-> shard_refs[h] - 2 * Copies(old, h) + Copies(new, h)]
SwapRefsOnce(old, new) ==
    [h \in Blob |-> LET kept == Floor0(shard_refs[h] - Copies(old, h)) IN
                    IF kept = 0 /\ Copies(new, h) > 0 THEN 1 ELSE kept]

\* The counters once the old manifest's shards are released and the new one's
\* are counted (either may be None).
SwapRefs(old, new) ==
    [h \in Blob |-> Floor0(shard_refs[h] - Copies(old, h)) + Copies(new, h)]

-----------------------------------------------------------------------------
(* Quota rows.                                                             *)

\* An account without a row is read as (default quota, 0).
QuotaOf(a) == IF quota[a] = None
              THEN [total_bytes |-> default_quota, used_bytes |-> 0]
              ELSE quota[a]

\* Faulty variant: the new bytes are not counted.
FitsNow(a, bytes) == QuotaOf(a).used_bytes <= QuotaOf(a).total_bytes

\* try_debit: whether bytes fit, and the row it leaves.
Fits(a, bytes) == QuotaOf(a).used_bytes + bytes <= QuotaOf(a).total_bytes
Debited(a, bytes) == [QuotaOf(a) EXCEPT !.used_bytes = @ + bytes]

\* release, on the row or its absence.
Released(row, bytes) ==
    IF row = None THEN None
    ELSE [row EXCEPT !.used_bytes = Floor0(@ - bytes)]

\* A credit, on the row or its absence: without a row the total is the credit alone.
Credited(row, bytes) ==
    IF row = None THEN [total_bytes |-> bytes, used_bytes |-> 0]
    ELSE [row EXCEPT !.total_bytes = @ + bytes]

-----------------------------------------------------------------------------
(* Objects and buckets.                                                    *)

\* Faulty variant: the put does not ask who owns the bucket.
CommitManifestUnowned(caller, o, m) ==
    LET old == manifests[o] IN
    /\ Fits(caller, m.ciphertext_size)
    /\ quota' = [quota EXCEPT ![caller] =
                    Released(Debited(caller, m.ciphertext_size), SizeOf(old))]
    /\ shard_refs' = SwapRefs(old, m)
    /\ buckets' = [buckets EXCEPT ![o[1]] = IF @ = None THEN caller ELSE @]
    /\ manifests' = [manifests EXCEPT ![o] = m]
    /\ UNCHANGED <<quota_events, operatorVars>>

\* A put of bytes that are a manifest.  The debit of the new size comes before the release
\* of the old one.
CommitManifest(caller, o, m) ==
    LET old == manifests[o] IN
    /\ buckets[o[1]] \in {None, caller}
    /\ Fits(caller, m.ciphertext_size)
    /\ quota' = [quota EXCEPT ![caller] =
                    Released(Debited(caller, m.ciphertext_size), SizeOf(old))]
    /\ shard_refs' = SwapRefs(old, m)
    /\ buckets' = [buckets EXCEPT ![o[1]] = IF @ = None THEN caller ELSE @]
    /\ manifests' = [manifests EXCEPT ![o] = m]
    /\ UNCHANGED <<quota_events, operatorVars>>

CreateBucket(caller, b) ==
    /\ buckets[b] = None
    /\ buckets' = [buckets EXCEPT ![b] = caller]
    /\ UNCHANGED <<manifests, shard_refs, quota, quota_events, operatorVars>>

\* Deletes the rows only: neither the counters nor the quota follow.
DeleteBucket(caller, b) ==
    /\ buckets[b] = caller
    /\ buckets' = [buckets EXCEPT ![b] = None]
    /\ manifests' = [o \in Object |-> IF o[1] = b THEN None ELSE manifests[o]]
    /\ UNCHANGED <<shard_refs, quota, quota_events, operatorVars>>

DeleteManifest(caller, o) ==
    LET old == manifests[o] IN
    /\ buckets[o[1]] = caller
    /\ old # None
    /\ quota' = [quota EXCEPT ![caller] = Released(@, SizeOf(old))]
    /\ shard_refs' = SwapRefs(old, None)
    /\ manifests' = [manifests EXCEPT ![o] = None]
    /\ UNCHANGED <<buckets, quota_events, operatorVars>>

\* The owner's row after a repair changes the stored size by delta.
Adjusted(a, delta) ==
    IF delta > 0 THEN Debited(a, delta) ELSE Released(quota[a], -delta)

\* Faulty variant: the repair operator is billed.
RepairManifestBillsCaller(caller, o, m) ==
    LET old == manifests[o]
        delta == m.ciphertext_size - SizeOf(old)
    IN
    /\ caller = repair_operator
    /\ old # None /\ old.object_hash = m.object_hash
    /\ delta > 0 => Fits(caller, delta)
    /\ quota' = [quota EXCEPT ![caller] = Adjusted(caller, delta)]
    /\ shard_refs' = SwapRefs(old, m)
    /\ manifests' = [manifests EXCEPT ![o] = m]
    /\ UNCHANGED <<buckets, quota_events, operatorVars>>

\* A repair replaces the placements of an object whose stored object_hash is the
\* one the repair was built for; the owner, not the operator, is billed.
RepairManifest(caller, o, m) ==
    LET old == manifests[o]
        account == buckets[o[1]]
        delta == m.ciphertext_size - SizeOf(old)
    IN
    /\ caller = repair_operator
    /\ old # None /\ old.object_hash = m.object_hash
    /\ account # None => (delta > 0 => Fits(account, delta))
    /\ quota' = IF account = None THEN quota
                ELSE [quota EXCEPT ![account] = Adjusted(account, delta)]
    /\ shard_refs' = SwapRefs(old, m)
    /\ manifests' = [manifests EXCEPT ![o] = m]
    /\ UNCHANGED <<buckets, quota_events, operatorVars>>

-----------------------------------------------------------------------------
(* Operators and quota.                                                    *)

SetRepairOperator(caller) ==
    /\ repair_operator = None
    /\ repair_operator' = caller
    /\ UNCHANGED <<objectVars, quota, quota_events, payment_operator, default_quota>>

\* Faulty variant: a second claim wins.
SetPaymentOperatorAgain(caller) ==
    /\ payment_operator' = caller
    /\ UNCHANGED <<objectVars, quota, quota_events, repair_operator, default_quota>>

SetPaymentOperator(caller) ==
    /\ payment_operator = None
    /\ payment_operator' = caller
    /\ UNCHANGED <<objectVars, quota, quota_events, repair_operator, default_quota>>

SetDefaultQuota(caller, total) ==
    /\ caller = payment_operator
    /\ default_quota' = total
    /\ UNCHANGED <<objectVars, quota, quota_events, repair_operator, payment_operator>>

\* Faulty variant: a credit seen before is applied again.
ContributionGrantTwice(a, bytes, r) ==
    /\ quota_events' = [quota_events EXCEPT ![r] = [account_id |-> a, bytes |-> bytes]]
    /\ quota' = [quota EXCEPT ![a] = Credited(@, bytes)]
    /\ UNCHANGED <<objectVars, operatorVars>>

\* The insert into quota_events decides: a credit seen before changes nothing.
ContributionGrant(a, bytes, r) ==
    /\ quota_events[r] = None
    /\ quota_events' = [quota_events EXCEPT ![r] = [account_id |-> a, bytes |-> bytes]]
    /\ quota' = [quota EXCEPT ![a] = Credited(@, bytes)]
    /\ UNCHANGED <<objectVars, operatorVars>>

AllocateQuota(caller, a, bytes, r) ==
    /\ caller = payment_operator
    /\ ContributionGrant(a, bytes, r)

-----------------------------------------------------------------------------
ObjectCommand(caller) ==
    \/ \E b \in Bucket : CreateBucket(caller, b)
    \/ \E o \in Object : DeleteManifest(caller, o)
    \/ \E o \in Object, m \in Manifest : CommitManifest(caller, o, m)
    \/ \E o \in Object, m \in Manifest : RepairManifest(caller, o, m)

QuotaCommand(caller) ==
    \/ SetRepairOperator(caller)
    \/ SetPaymentOperator(caller)
    \/ \E total \in Default : SetDefaultQuota(caller, total)
    \/ \E a \in Account, bytes \in Credit, r \in Ref : AllocateQuota(caller, a, bytes, r)

\* The commands some HTTP route or background loop proposes (api.rs, lib.rs).
Next ==
    \/ \E caller \in Account : ObjectCommand(caller) \/ QuotaCommand(caller)
    \/ \E a \in Account, bytes \in Credit, r \in Ref : ContributionGrant(a, bytes, r)

Spec == Init /\ [][Next]_vars

\* Every command apply_command knows: no route proposes DeleteBucket today.
NextAll == Next \/ \E caller \in Account, b \in Bucket : DeleteBucket(caller, b)

SpecAll == Init /\ [][NextAll]_vars

-----------------------------------------------------------------------------
(* Reads.                                                                  *)

\* Faulty variant: a copy that is referenced anywhere is kept everywhere.
KeptByRefs(n, hashes) == {h \in hashes : shard_refs[h] > 0}

\* The blobs node n is told to keep of those it asks about (gc_candidates answers
\* with the others): still referenced, and n is one of their placements.
Kept(n, hashes) ==
    {h \in hashes :
        /\ shard_refs[h] > 0
        /\ \E o \in Object : \E s \in ShardsOf(manifests[o]) :
              s.node_id = n /\ s.blob_hash = h}

gc_candidates(n, hashes) == hashes \ Kept(n, hashes)

-----------------------------------------------------------------------------
(* Properties.                                                             *)

TypeOK ==
    /\ buckets \in [Bucket -> Account \cup {None}]
    /\ manifests \in [Object -> Manifest \cup {None}]
    /\ shard_refs \in [Blob -> Nat]
    /\ quota \in [Account -> QuotaRow \cup {None}]
    /\ quota_events \in [Ref -> Event \cup {None}]
    /\ repair_operator \in Account \cup {None}
    /\ payment_operator \in Account \cup {None}
    /\ default_quota \in Default \cup {0}

\* The disjoint union of the sets f[i]: its size is the sum of theirs.
Tagged(f) == UNION {{i} \X f[i] : i \in DOMAIN f}

\* The placements of blob h in stored manifests.
Live(h) == Tagged([o \in Object |-> {s \in ShardsOf(manifests[o]) : s.blob_hash = h}])

\* The bytes of the objects in a's buckets, one element each.
Stored(a) == Tagged([o \in Object |-> IF buckets[o[1]] = a
                                      THEN 1..SizeOf(manifests[o]) ELSE {}])

\* The bytes credited to a, one element each.
CreditedUnder(r, a) == quota_events[r] # None /\ quota_events[r].account_id = a
Granted(a) == Tagged([r \in Ref |-> IF CreditedUnder(r, a)
                                    THEN 1..quota_events[r].bytes ELSE {}])

\* The reference count of a blob is the number of its live placements, through
\* every order of puts, re-puts, deletes and repairs, copies within one manifest
\* included: a count too high keeps garbage for ever, one too low loses data.
RefsExact == \A h \in Blob : shard_refs[h] = Cardinality(Live(h))

\* With DeleteBucket the counters only ever err upwards.
RefsCover == \A h \in Blob : shard_refs[h] >= Cardinality(Live(h))

\* A shard that a stored manifest places on a node is never a deletion candidate
\* for that node (gc_candidates trusts the counter before the manifests).
LiveShardKept ==
    \A o \in Object : \A s \in ShardsOf(manifests[o]) :
        s.blob_hash \notin gc_candidates(s.node_id, {s.blob_hash})

\* An account's used_bytes is the total size of the objects in its buckets: puts,
\* re-puts and deletes billed to the caller and repairs billed to the owner agree.
UsedExact == \A a \in Account : QuotaOf(a).used_bytes = Cardinality(Stored(a))

\* No order of debits, releases and credits lets an account with a row exceed its total.
UsedWithinTotal ==
    \A a \in Account : quota[a] # None => quota[a].used_bytes <= quota[a].total_bytes

\* An account's total is what it was credited, each credit once, plus at most one
\* default (the one in force when its first put opened the row).
TotalIsGranted ==
    \A a \in Account :
        IF quota[a] = None THEN Granted(a) = {}
        ELSE \E base \in Default \cup {0} :
                quota[a].total_bytes = base + Cardinality(Granted(a))

\* An object's bucket has an owner, and the owner a quota row: a repair always
\* finds somebody to bill and a delete somebody to release.
ObjectsAreBilled ==
    \A o \in Object : manifests[o] # None =>
        /\ buckets[o[1]] # None
        /\ quota[buckets[o[1]]] # None

\* No command takes a bucket, the repair role or the payment role from its holder.
HoldersKeepRoles ==
    [][/\ \A b \in Bucket : buckets[b] # None => buckets'[b] = buckets[b]
       /\ repair_operator # None => repair_operator' = repair_operator
       /\ payment_operator # None => payment_operator' = payment_operator]_vars

\* The tables implement an index without counters: however puts, re-puts, deletes, repairs
\* and credits follow each other, a command is accepted only if the objects that are
\* stored and the credits that were given, counted anew, leave room for it.
Ledger == INSTANCE ObjectLedger
            WITH owner <- buckets, object <- manifests, credit <- quota_events,
                 opened <- {a \in Account : quota[a] # None},
                 base <- [a \in Account |->
                             IF quota[a] = None THEN 0
                             ELSE quota[a].total_bytes - Cardinality(Granted(a))]

KeepsLedger == Ledger!Spec
=============================================================================
