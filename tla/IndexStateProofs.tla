-------------------------- MODULE IndexStateProofs --------------------------
(***************************************************************************)
(* Proofs about IndexState, for every set of accounts, buckets, keys,      *)
(* manifests, blobs and credits.                                           *)
(***************************************************************************)
EXTENDS IndexState, FiniteSetTheorems, TLAPS

-----------------------------------------------------------------------------
(* Counting.                                                               *)

\* Tagging the elements of a finite set changes neither its finiteness nor its size.
LEMMA TagCardinality ==
    ASSUME NEW i, NEW S, IsFiniteSet(S)
    PROVE  /\ IsFiniteSet({i} \X S)
           /\ Cardinality({i} \X S) = Cardinality(S)
<1>1. IsFiniteSet({i}) /\ Cardinality({i}) = 1
  BY FS_Singleton
<1>2. /\ IsFiniteSet({i} \X S)
      /\ Cardinality({i} \X S) = Cardinality({i}) * Cardinality(S)
  BY <1>1, FS_Product
<1>3. Cardinality(S) \in Nat
  BY FS_CardinalityType
<1> QED  BY <1>1, <1>2, <1>3

\* Replacing one component of a tagged union changes its size by the difference of
\* the two components: the arithmetic of a put, a delete, a repair and a credit.
LEMMA TaggedExcept ==
    ASSUME NEW D, NEW f, NEW g, NEW j \in D,
           f = [i \in D |-> f[i]], g = [i \in D |-> g[i]],
           \A i \in D \ {j} : g[i] = f[i],
           IsFiniteSet(Tagged(f)), IsFiniteSet(f[j]), IsFiniteSet(g[j])
    PROVE  /\ IsFiniteSet(Tagged(g))
           /\ Cardinality(Tagged(g)) =
                Cardinality(Tagged(f)) - Cardinality(f[j]) + Cardinality(g[j])
           /\ Cardinality(f[j]) <= Cardinality(Tagged(f))
           /\ Cardinality(Tagged(f)) \in Nat
           /\ Cardinality(f[j]) \in Nat /\ Cardinality(g[j]) \in Nat
<1> DEFINE Old == {j} \X f[j]
           New == {j} \X g[j]
           Rest == Tagged(f) \ Old
<1>1. /\ IsFiniteSet(Old) /\ Cardinality(Old) = Cardinality(f[j])
      /\ IsFiniteSet(New) /\ Cardinality(New) = Cardinality(g[j])
  BY TagCardinality
<1>2. DOMAIN f = D /\ DOMAIN g = D
  OBVIOUS
<1>3. Old \subseteq Tagged(f)
  BY <1>2 DEF Tagged
<1>4. Tagged(g) = Rest \cup New
  BY <1>2 DEF Tagged
<1>5. Rest \cap New = {}
  BY <1>2 DEF Tagged
<1> HIDE DEF Old, New
<1>6. /\ IsFiniteSet(Rest)
      /\ Cardinality(Rest) = Cardinality(Tagged(f)) - Cardinality(Old)
  <2>1. Tagged(f) \cap Old = Old
    BY <1>3
  <2>2. /\ IsFiniteSet(Tagged(f) \ Old)
        /\ Cardinality(Tagged(f) \ Old)
             = Cardinality(Tagged(f)) - Cardinality(Tagged(f) \cap Old)
    BY FS_Difference
  <2> QED  BY <2>1, <2>2, Zenon
<1> HIDE DEF Rest
<1>7. /\ IsFiniteSet(Tagged(g))
      /\ Cardinality(Tagged(g)) = Cardinality(Rest) + Cardinality(New)
  <2>1. /\ IsFiniteSet(Rest \cup New)
        /\ Cardinality(Rest \cup New)
             = Cardinality(Rest) + Cardinality(New) - Cardinality(Rest \cap New)
    BY <1>1, <1>6, FS_Union
  <2>2. Cardinality(Rest \cap New) = 0
    BY <1>5, FS_EmptySet
  <2>3. Cardinality(Rest) \in Nat /\ Cardinality(New) \in Nat
    BY <1>1, <1>6, FS_CardinalityType
  <2>4. Cardinality(Rest \cup New) = Cardinality(Rest) + Cardinality(New)
    <3> DEFINE u == Cardinality(Rest \cup New)
               both == Cardinality(Rest \cap New)
    <3>1. u = Cardinality(Rest) + Cardinality(New) - both /\ both = 0
      BY <2>1, <2>2, Zenon
    <3> HIDE DEF u, both
    <3>2. u = Cardinality(Rest) + Cardinality(New)
      BY <2>3, <3>1
    <3> QED  BY <3>2 DEF u
  <2> QED  BY <1>4, <2>1, <2>4, Zenon
<1>8. /\ Cardinality(Old) <= Cardinality(Tagged(f))
      /\ Cardinality(Tagged(f)) \in Nat
      /\ Cardinality(Old) \in Nat /\ Cardinality(New) \in Nat
  BY <1>1, <1>3, FS_Subset, FS_CardinalityType
<1> QED  BY <1>1, <1>6, <1>7, <1>8

-----------------------------------------------------------------------------
(* Types.                                                                  *)

\* The shards of a manifest that are blob h are finitely many, and Copies counts them.
LEMMA CopiesFinite ==
    ASSUME NEW m \in Manifest \cup {None}, NEW h
    PROVE  /\ IsFiniteSet({s \in ShardsOf(m) : s.blob_hash = h})
           /\ Copies(m, h) \in Nat
<1>1. IsFiniteSet(ShardsOf(m))
  BY ManifestAssumption, FS_EmptySet DEF ShardsOf
<1>2. IsFiniteSet({s \in ShardsOf(m) : s.blob_hash = h})
  BY <1>1, FS_Subset
<1> QED  BY <1>2, FS_CardinalityType DEF Copies

\* Every manifest, present or absent, has a size.
LEMMA SizeOfNat ==
    ASSUME NEW m \in Manifest \cup {None}
    PROVE  SizeOf(m) \in Nat
BY ManifestAssumption DEF SizeOf

\* The counters stay natural numbers.
LEMMA SwapRefsType ==
    ASSUME shard_refs \in [Blob -> Nat],
           NEW old \in Manifest \cup {None}, NEW new \in Manifest \cup {None}
    PROVE  SwapRefs(old, new) \in [Blob -> Nat]
<1> SUFFICES ASSUME NEW h \in Blob
             PROVE  Floor0(shard_refs[h] - Copies(old, h)) + Copies(new, h) \in Nat
  BY DEF SwapRefs
<1>1. shard_refs[h] \in Nat /\ Copies(old, h) \in Nat /\ Copies(new, h) \in Nat
  BY CopiesFinite
<1> QED  BY <1>1 DEF Floor0

\* What the quota helpers return is a quota row.
LEMMA QuotaTypes ==
    ASSUME TypeOK, NEW a \in Account
    PROVE  /\ QuotaOf(a) \in QuotaRow
           /\ \A n \in Nat : Debited(a, n) \in QuotaRow
           /\ \A row \in QuotaRow, n \in Nat : Released(row, n) \in QuotaRow
           /\ \A row \in QuotaRow \cup {None}, n \in Nat : Credited(row, n) \in QuotaRow
<1>1. QuotaOf(a) \in QuotaRow
  BY BytesAssumption DEF QuotaOf, QuotaRow, TypeOK
<1>2. \A n \in Nat : Debited(a, n) \in QuotaRow
  BY <1>1 DEF Debited, QuotaRow
<1>3. \A row \in QuotaRow, n \in Nat : Released(row, n) \in QuotaRow
  BY AbsentAssumption DEF Released, QuotaRow, Floor0
<1>4. \A row \in QuotaRow \cup {None}, n \in Nat : Credited(row, n) \in QuotaRow
  BY AbsentAssumption DEF Credited, QuotaRow
<1> QED  BY <1>1, <1>2, <1>3, <1>4

\* A put keeps the types (CommitManifest in apply_command).
LEMMA TypeCommitManifest ==
    ASSUME TypeOK, NEW caller \in Account, NEW o \in Object, NEW m \in Manifest,
           CommitManifest(caller, o, m)
    PROVE  TypeOK'
<1> DEFINE old == manifests[o]
<1>1. old \in Manifest \cup {None} /\ o[1] \in Bucket
  BY DEF TypeOK, Object
<1>2. shard_refs' \in [Blob -> Nat]
  BY <1>1, SwapRefsType DEF CommitManifest, TypeOK
<1>3. quota' \in [Account -> QuotaRow \cup {None}]
  <2>1. m.ciphertext_size \in Nat /\ SizeOf(old) \in Nat
    BY <1>1, ManifestAssumption, SizeOfNat
  <2>2. Released(Debited(caller, m.ciphertext_size), SizeOf(old)) \in QuotaRow
    BY <2>1, QuotaTypes
  <2> QED  BY <2>2 DEF CommitManifest, TypeOK
<1>4. buckets' \in [Bucket -> Account \cup {None}]
  BY <1>1 DEF CommitManifest, TypeOK
<1>5. manifests' \in [Object -> Manifest \cup {None}]
  BY DEF CommitManifest, TypeOK
<1> QED  BY <1>2, <1>3, <1>4, <1>5 DEF CommitManifest, operatorVars, TypeOK

\* A delete keeps the types (DeleteManifest).
LEMMA TypeDeleteManifest ==
    ASSUME TypeOK, NEW caller \in Account, NEW o \in Object,
           DeleteManifest(caller, o)
    PROVE  TypeOK'
<1> DEFINE old == manifests[o]
<1>1. old \in Manifest \cup {None}
  BY DEF TypeOK, Object
<1>2. shard_refs' \in [Blob -> Nat]
  BY <1>1, SwapRefsType DEF DeleteManifest, TypeOK
<1>3. quota' \in [Account -> QuotaRow \cup {None}]
  <2>1. Released(quota[caller], SizeOf(old)) \in QuotaRow \cup {None}
    BY <1>1, SizeOfNat, QuotaTypes DEF TypeOK, Released
  <2> QED  BY <2>1 DEF DeleteManifest, TypeOK
<1>4. manifests' \in [Object -> Manifest \cup {None}]
  BY DEF DeleteManifest, TypeOK
<1> QED  BY <1>2, <1>3, <1>4 DEF DeleteManifest, operatorVars, TypeOK

\* A repair keeps the types (RepairManifest).
LEMMA TypeRepairManifest ==
    ASSUME TypeOK, NEW caller \in Account, NEW o \in Object, NEW m \in Manifest,
           RepairManifest(caller, o, m)
    PROVE  TypeOK'
<1> DEFINE old == manifests[o]
           account == buckets[o[1]]
           delta == m.ciphertext_size - SizeOf(old)
<1>1. old \in Manifest \cup {None} /\ account \in Account \cup {None}
  BY DEF TypeOK, Object
<1>2. shard_refs' \in [Blob -> Nat]
  BY <1>1, SwapRefsType DEF RepairManifest, TypeOK
<1>3. quota' \in [Account -> QuotaRow \cup {None}]
  <2>1. CASE account = None
    BY <2>1 DEF RepairManifest, TypeOK
  <2>2. CASE account # None
    <3>1. delta \in Int
      BY <1>1, ManifestAssumption, SizeOfNat
    <3> HIDE DEF delta
    <3>2. Adjusted(account, delta) \in QuotaRow \cup {None}
      <4> HIDE DEF account
      <4>1. account \in Account /\ quota[account] \in QuotaRow \cup {None}
        BY <1>1, <2>2 DEF TypeOK
      <4>2. CASE delta > 0
        <5>1. Debited(account, delta) \in QuotaRow
          BY <3>1, <4>1, <4>2, QuotaTypes
        <5> QED  BY <4>2, <5>1 DEF Adjusted
      <4>3. CASE ~(delta > 0)
        <5>1. -delta \in Nat
          BY <3>1, <4>3
        <5>2. Released(quota[account], -delta) \in QuotaRow \cup {None}
          BY <4>1, <5>1, QuotaTypes DEF Released
        <5> QED  BY <4>3, <5>2 DEF Adjusted
      <4> QED  BY <4>2, <4>3
    <3> QED  BY <2>2, <3>2 DEF RepairManifest, TypeOK, delta
  <2> QED  BY <2>1, <2>2
<1>4. manifests' \in [Object -> Manifest \cup {None}]
  BY DEF RepairManifest, TypeOK
<1> QED  BY <1>2, <1>3, <1>4 DEF RepairManifest, operatorVars, TypeOK

\* A credit keeps the types (ContributionGrant, AllocateQuota).
LEMMA TypeContributionGrant ==
    ASSUME TypeOK, NEW a \in Account, NEW bytes \in Credit, NEW r \in Ref,
           ContributionGrant(a, bytes, r)
    PROVE  TypeOK'
<1>1. quota' \in [Account -> QuotaRow \cup {None}]
  BY BytesAssumption, QuotaTypes DEF ContributionGrant, TypeOK
<1>2. quota_events' \in [Ref -> Event \cup {None}]
  BY DEF ContributionGrant, TypeOK, Event
<1> QED  BY <1>1, <1>2 DEF ContributionGrant, objectVars, operatorVars, TypeOK

\* Creating or deleting a bucket keeps the types.
LEMMA TypeBucket ==
    ASSUME TypeOK, NEW caller \in Account, NEW b \in Bucket,
           CreateBucket(caller, b) \/ DeleteBucket(caller, b)
    PROVE  TypeOK'
BY DEF CreateBucket, DeleteBucket, operatorVars, TypeOK

\* Claiming a role or setting the default quota keeps the types.
LEMMA TypeOperator ==
    ASSUME TypeOK, NEW caller \in Account,
           \/ SetRepairOperator(caller)
           \/ SetPaymentOperator(caller)
           \/ \E total \in Default : SetDefaultQuota(caller, total)
    PROVE  TypeOK'
BY DEF SetRepairOperator, SetPaymentOperator, SetDefaultQuota, objectVars, TypeOK

\* Every command keeps the types, DeleteBucket included.
LEMMA StepTyped ==
    ASSUME TypeOK, [NextAll]_vars
    PROVE  TypeOK'
<1>1. CASE NextAll
  BY <1>1, TypeCommitManifest, TypeDeleteManifest, TypeRepairManifest,
     TypeContributionGrant, TypeBucket, TypeOperator
     DEF NextAll, Next, ObjectCommand, QuotaCommand, AllocateQuota
<1>2. CASE UNCHANGED vars
  BY <1>2 DEF vars, objectVars, operatorVars, TypeOK
<1> QED  BY <1>1, <1>2

\* The tables keep their types under every command, DeleteBucket included.
THEOREM TypeCorrect == SpecAll => []TypeOK
<1>1. Init => TypeOK
  BY DEF Init, TypeOK
<1>2. TypeOK /\ [NextAll]_vars => TypeOK'
  BY StepTyped
<1> QED  BY <1>1, <1>2, PTL DEF SpecAll

-----------------------------------------------------------------------------
(* Reference counters.                                                     *)

\* The placements of h in each object, whose tagged union Live(h) is.
PlacementsOf(h) == [o \in Object |-> {s \in ShardsOf(manifests[o]) : s.blob_hash = h}]

\* The strengthening: the placements of every blob are finitely many, and the counter
\* is never below their number.  How far above it is, no swap of manifests changes.
RefsInv == \A h \in Blob : /\ IsFiniteSet(Live(h))
                           /\ shard_refs[h] >= Cardinality(Live(h))

\* Storing new (or nothing) in place of an object's manifest moves the counter and the
\* number of placements of each blob by the same amount.
LEMMA SwapKeepsExcess ==
    ASSUME TypeOK, RefsInv, NEW o \in Object, NEW new \in Manifest \cup {None},
           manifests' = [manifests EXCEPT ![o] = new],
           shard_refs' = SwapRefs(manifests[o], new),
           NEW h \in Blob
    PROVE  /\ IsFiniteSet(Live(h)')
           /\ shard_refs'[h] - Cardinality(Live(h)') = shard_refs[h] - Cardinality(Live(h))
           /\ Cardinality(Live(h)) \in Nat /\ Cardinality(Live(h)') \in Nat
           /\ shard_refs[h] \in Nat /\ shard_refs'[h] \in Nat
<1> DEFINE f == PlacementsOf(h)
           g == [p \in Object |-> {s \in ShardsOf(manifests'[p]) : s.blob_hash = h}]
<1>1. Live(h) = Tagged(f) /\ Live(h)' = Tagged(g)
  BY DEF Live, PlacementsOf, Tagged
<1>2. /\ manifests[o] \in Manifest \cup {None}
      /\ manifests'[o] = new
      /\ \A p \in Object \ {o} : manifests'[p] = manifests[p]
  BY DEF TypeOK
<1>3. \A p \in Object \ {o} : g[p] = f[p]
  BY <1>2 DEF PlacementsOf
<1>4. /\ IsFiniteSet(f[o]) /\ Cardinality(f[o]) = Copies(manifests[o], h)
      /\ IsFiniteSet(g[o]) /\ Cardinality(g[o]) = Copies(new, h)
  BY <1>2, CopiesFinite DEF PlacementsOf, Copies
<1>5. IsFiniteSet(Tagged(f)) /\ shard_refs[h] >= Cardinality(Tagged(f))
  BY <1>1 DEF RefsInv
<1>6. f = [i \in Object |-> f[i]] /\ g = [i \in Object |-> g[i]]
  BY DEF PlacementsOf
<1> HIDE DEF f, g
<1>7. /\ IsFiniteSet(Tagged(g))
      /\ Cardinality(Tagged(g)) =
           Cardinality(Tagged(f)) - Cardinality(f[o]) + Cardinality(g[o])
      /\ Cardinality(f[o]) <= Cardinality(Tagged(f))
      /\ Cardinality(Tagged(f)) \in Nat
      /\ Cardinality(f[o]) \in Nat /\ Cardinality(g[o]) \in Nat
  BY <1>3, <1>4, <1>5, <1>6, TaggedExcept
<1>8. shard_refs'[h] = Floor0(shard_refs[h] - Cardinality(f[o])) + Cardinality(g[o])
  BY <1>4 DEF SwapRefs
<1>9. shard_refs[h] \in Nat /\ shard_refs'[h] \in Nat
  BY <1>2, SwapRefsType DEF TypeOK
<1>10. shard_refs'[h] - Cardinality(Tagged(g)) = shard_refs[h] - Cardinality(Tagged(f))
  <2> DEFINE r == shard_refs[h]   r1 == shard_refs'[h]
             c == Cardinality(Tagged(f))   c1 == Cardinality(Tagged(g))
             x == Cardinality(f[o])   y == Cardinality(g[o])
  <2>1. /\ r \in Nat /\ c \in Nat /\ x \in Nat /\ y \in Nat
        /\ r1 = Floor0(r - x) + y /\ c1 = c - x + y /\ r >= c /\ x <= c
    BY <1>5, <1>7, <1>8, <1>9
  <2> HIDE DEF r, r1, c, c1, x, y
  <2>2. r1 - c1 = r - c
    BY <2>1 DEF Floor0
  <2> QED  BY <2>2 DEF r, r1, c, c1
<1>11. Cardinality(Tagged(g)) \in Nat
  BY <1>7, FS_CardinalityType
<1> QED  BY <1>1, <1>7, <1>9, <1>10, <1>11, Zenon

\* The commands that replace one object's manifest do it as the lemma above asks.
LEMMA ManifestCommandsSwap ==
    ASSUME TypeOK, NEW caller \in Account, NEW o \in Object, NEW m \in Manifest,
           \/ CommitManifest(caller, o, m)
           \/ RepairManifest(caller, o, m)
           \/ DeleteManifest(caller, o)
    PROVE  \E new \in Manifest \cup {None} :
              /\ manifests' = [manifests EXCEPT ![o] = new]
              /\ shard_refs' = SwapRefs(manifests[o], new)
BY DEF CommitManifest, RepairManifest, DeleteManifest

\* A step of Next leaves manifests and counters alone or swaps one manifest.
LEMMA NextSwaps ==
    ASSUME TypeOK, Next
    PROVE  \/ UNCHANGED <<manifests, shard_refs>>
           \/ \E o \in Object, new \in Manifest \cup {None} :
                 /\ manifests' = [manifests EXCEPT ![o] = new]
                 /\ shard_refs' = SwapRefs(manifests[o], new)
<1>1. CASE \E caller \in Account, o \in Object, m \in Manifest :
              CommitManifest(caller, o, m) \/ RepairManifest(caller, o, m)
  BY <1>1, ManifestCommandsSwap
<1>2. CASE \E caller \in Account, o \in Object : DeleteManifest(caller, o)
  BY <1>2 DEF DeleteManifest
<1>3. CASE \E caller \in Account :
              \/ QuotaCommand(caller)
              \/ \E b \in Bucket : CreateBucket(caller, b)
  BY <1>3 DEF QuotaCommand, SetRepairOperator, SetPaymentOperator, SetDefaultQuota,
              AllocateQuota, ContributionGrant, CreateBucket, objectVars
<1>4. CASE \E a \in Account, bytes \in Credit, r \in Ref : ContributionGrant(a, bytes, r)
  BY <1>4 DEF ContributionGrant, objectVars
<1> QED  BY <1>1, <1>2, <1>3, <1>4 DEF Next, ObjectCommand

\* No blob is placed anywhere in the empty index.
LEMMA NothingLive ==
    ASSUME Init, NEW h
    PROVE  IsFiniteSet(Live(h)) /\ Cardinality(Live(h)) = 0
<1>1. Live(h) = {}
  BY DEF Init, Live, Tagged, ShardsOf
<1> QED  BY <1>1, FS_EmptySet

\* DeleteBucket removes placements and leaves the counters.
LEMMA DeleteBucketRefs ==
    ASSUME TypeOK, RefsInv, NEW caller \in Account, NEW b \in Bucket,
           DeleteBucket(caller, b)
    PROVE  RefsInv'
<1> SUFFICES ASSUME NEW h \in Blob
             PROVE  IsFiniteSet(Live(h)') /\ shard_refs[h] >= Cardinality(Live(h)')
  BY DEF RefsInv, DeleteBucket
<1>1. Live(h)' \subseteq Live(h)
  <2>1. \A o \in Object : manifests'[o] = None \/ manifests'[o] = manifests[o]
    BY DEF DeleteBucket
  <2>2. \A o \in Object : ShardsOf(manifests'[o]) \subseteq ShardsOf(manifests[o])
    BY <2>1 DEF ShardsOf
  <2> QED  BY <2>2 DEF Live, Tagged
<1>2. IsFiniteSet(Live(h)) /\ shard_refs[h] >= Cardinality(Live(h)) /\ shard_refs[h] \in Nat
  BY DEF RefsInv, TypeOK
<1>3. IsFiniteSet(Live(h)') /\ Cardinality(Live(h)') <= Cardinality(Live(h))
  BY <1>1, <1>2, FS_Subset
<1>4. Cardinality(Live(h)) \in Nat /\ Cardinality(Live(h)') \in Nat
  BY <1>2, <1>3, FS_CardinalityType
<1> QED  BY <1>2, <1>3, <1>4

\* RefsInv is inductive under every command, DeleteBucket included.
LEMMA RefsInvStep ==
    ASSUME TypeOK, RefsInv, [NextAll]_vars
    PROVE  RefsInv'
<1>1. CASE UNCHANGED <<manifests, shard_refs>>
  BY <1>1 DEF RefsInv, Live
<1>2. CASE \E o \in Object, new \in Manifest \cup {None} :
              /\ manifests' = [manifests EXCEPT ![o] = new]
              /\ shard_refs' = SwapRefs(manifests[o], new)
  <2> SUFFICES ASSUME NEW h \in Blob
               PROVE  IsFiniteSet(Live(h)') /\ shard_refs'[h] >= Cardinality(Live(h)')
    BY DEF RefsInv
  <2>1. /\ IsFiniteSet(Live(h)')
        /\ shard_refs'[h] - Cardinality(Live(h)') = shard_refs[h] - Cardinality(Live(h))
        /\ Cardinality(Live(h)) \in Nat /\ Cardinality(Live(h)') \in Nat
        /\ shard_refs[h] \in Nat /\ shard_refs'[h] \in Nat
    BY <1>2, SwapKeepsExcess
  <2>2. shard_refs[h] >= Cardinality(Live(h))
    BY DEF RefsInv
  <2> QED  BY <2>1, <2>2
<1>3. CASE \E caller \in Account, b \in Bucket : DeleteBucket(caller, b)
  BY <1>3, DeleteBucketRefs
<1>4. CASE UNCHANGED vars
  BY <1>1, <1>4 DEF vars, objectVars
<1> QED  BY <1>1, <1>2, <1>3, <1>4, NextSwaps DEF NextAll

\* The counters cover the placements whatever commands the log holds.
THEOREM RefsInvariant == SpecAll => []RefsInv
<1>1. Init => RefsInv
  BY NothingLive DEF Init, RefsInv
<1>2. TypeOK /\ RefsInv /\ [NextAll]_vars => RefsInv'
  BY RefsInvStep
<1> QED  BY <1>1, <1>2, TypeCorrect, PTL DEF SpecAll

\* A count is never below the number of live placements, whatever the log holds.
THEOREM RefsCoverAlways == SpecAll => []RefsCover
<1>1. RefsInv => RefsCover
  BY DEF RefsInv, RefsCover
<1> QED  BY <1>1, RefsInvariant, PTL

\* A shard some manifest places on a node is never answered to that node as deletable.
THEOREM LiveShardsAreKept == SpecAll => []LiveShardKept
<1>1. TypeOK /\ RefsInv => LiveShardKept
  <2> SUFFICES ASSUME TypeOK, RefsInv,
                      NEW o \in Object, NEW s \in ShardsOf(manifests[o])
               PROVE  s.blob_hash \in Kept(s.node_id, {s.blob_hash})
    BY DEF LiveShardKept, gc_candidates
  <2> DEFINE h == s.blob_hash
  <2>1. h \in Blob
    BY ManifestAssumption DEF ShardsOf, TypeOK
  <2>2. <<o, s>> \in Live(h)
    BY DEF Live, Tagged
  <2>3. shard_refs[h] > 0
    <3>1. /\ IsFiniteSet(Live(h)) /\ shard_refs[h] >= Cardinality(Live(h))
          /\ shard_refs[h] \in Nat
      BY <2>1 DEF RefsInv, TypeOK
    <3>2. Cardinality(Live(h)) \in Nat /\ Cardinality(Live(h)) # 0
      BY <2>2, <3>1, FS_EmptySet, FS_CardinalityType
    <3> QED  BY <3>1, <3>2
  <2> QED  BY <2>3 DEF Kept
<1> QED  BY <1>1, TypeCorrect, RefsInvariant, PTL

\* Spec is SpecAll without a step, so its invariants hold of it.
LEMMA SpecImpliesSpecAll == Spec => SpecAll
<1>1. [Next]_vars => [NextAll]_vars
  BY DEF NextAll
<1> QED  BY <1>1, PTL DEF Spec, SpecAll

\* Without DeleteBucket, which nothing proposes, the counters are exact: no order of
\* puts, re-puts, deletes and repairs leaks a reference or loses one.
THEOREM RefsAreExact == Spec => []RefsExact
<1>1. Init => RefsExact
  BY NothingLive DEF Init, RefsExact
<1>2. TypeOK /\ RefsInv /\ RefsExact /\ [Next]_vars => RefsExact'
  <2> SUFFICES ASSUME TypeOK, RefsInv, RefsExact, [Next]_vars PROVE RefsExact'
    OBVIOUS
  <2>1. CASE UNCHANGED <<manifests, shard_refs>>
    BY <2>1 DEF RefsExact, Live
  <2>2. CASE \E o \in Object, new \in Manifest \cup {None} :
                /\ manifests' = [manifests EXCEPT ![o] = new]
                /\ shard_refs' = SwapRefs(manifests[o], new)
    <3> SUFFICES ASSUME NEW h \in Blob PROVE shard_refs'[h] = Cardinality(Live(h)')
      BY DEF RefsExact
    <3>1. /\ shard_refs'[h] - Cardinality(Live(h)') = shard_refs[h] - Cardinality(Live(h))
          /\ Cardinality(Live(h)) \in Nat /\ Cardinality(Live(h)') \in Nat
          /\ shard_refs'[h] \in Nat
      BY <2>2, SwapKeepsExcess
    <3>2. shard_refs[h] = Cardinality(Live(h))
      BY DEF RefsExact
    <3> QED  BY <3>1, <3>2
  <2>3. CASE UNCHANGED vars
    BY <2>1, <2>3 DEF vars, objectVars
  <2> QED  BY <2>1, <2>2, <2>3, NextSwaps
<1> QED  BY <1>1, <1>2, SpecImpliesSpecAll, TypeCorrect, RefsInvariant, PTL DEF Spec

=============================================================================
