--------------------------- MODULE RepairPassProofs ---------------------------
(***************************************************************************)
(* Facts about schemes and reads (ErasurePlan) for every target scheme and *)
(* every pool, and what RepairPass keeps because of them.                  *)
(***************************************************************************)
EXTENDS RepairPass, FiniteSetTheorems, FunctionTheorems, SequenceTheorems, TLAPS

-----------------------------------------------------------------------------
(* Schemes (assign_shards).                                                *)

\* A pool of two nodes or more gets a scheme that encode accepts, with one shard per node
\* until the target scheme is reached.
THEOREM SchemeFitsPool ==
    ASSUME NEW target \in Scheme, Encodes(target), NEW pool \in Nat, pool > 1
    PROVE  /\ Effective(target, pool) \in Scheme
           /\ Encodes(Effective(target, pool))
           /\ TotalShards(Effective(target, pool)) = Lesser(TotalShards(target), pool)
<1>1. target.k \in Nat /\ target.m \in Nat /\ target.k > 0 /\ target.m > 0
  BY DEF Scheme, Encodes
<1>2. CASE pool >= TotalShards(target)
  BY <1>1, <1>2 DEF Effective, Lesser, TotalShards
<1>3. CASE ~(pool >= TotalShards(target))
  <2> DEFINE k == Lesser(target.k, Greater(pool - 1, 1))
  <2>1. k \in Nat /\ k > 0 /\ k < pool
    BY <1>1 DEF Lesser, Greater
  <2>2. Effective(target, pool) = [k |-> k, m |-> pool - k]
    BY <1>3 DEF Effective
  <2>3. pool - k \in Nat /\ pool - k > 0 /\ k + (pool - k) = pool
    BY <2>1
  <2> HIDE DEF k
  <2>4. Effective(target, pool) \in Scheme /\ Encodes(Effective(target, pool))
    BY <2>1, <2>2, <2>3 DEF Scheme, Encodes
  <2>5. TotalShards(Effective(target, pool)) = pool
    BY <2>2, <2>3 DEF TotalShards
  <2> QED
    BY <1>1, <1>3, <2>4, <2>5 DEF Lesser, TotalShards
<1> QED
  BY <1>2, <1>3

\* A pool of one gets a scheme without parity, which encode refuses.
THEOREM PoolOfOneFails ==
    ASSUME NEW target \in Scheme, Encodes(target)
    PROVE  ~Encodes(Effective(target, 1))
<1>1. target.k \in Nat /\ target.m \in Nat /\ target.k > 0 /\ target.m > 0
  BY DEF Scheme, Encodes
<1>2. Effective(target, 1) = [k |-> 1, m |-> 0]
  BY <1>1 DEF Effective, Lesser, Greater, TotalShards
<1> QED
  BY <1>2 DEF Encodes

\* Shards of one scheme, each on a node of its own, may lose what is found less k of it.
\* Re-encoded to the scheme of a pool that is no smaller than what was found, the object
\* may lose at least as many nodes, whatever the two schemes are: the arithmetic behind
\* repairs to a degraded scheme.
THEOREM RepairKeepsMargin ==
    ASSUME NEW target \in Scheme, Encodes(target),
           NEW before \in Nat, before > 1, NEW pool \in Nat, pool > 1,
           NEW found \in Nat,
           found <= TotalShards(Effective(target, before)),
           found <= TotalShards(Effective(target, pool))
    PROVE  found - Effective(target, before).k <= Effective(target, pool).m
<1> DEFINE old == Effective(target, before)
           new == Effective(target, pool)
<1>1. target.k \in Nat /\ target.m \in Nat /\ target.k > 0 /\ target.m > 0
  BY DEF Scheme, Encodes
<1>2. /\ old.k \in Nat /\ old.m \in Nat /\ new.k \in Nat /\ new.m \in Nat /\ new.m > 0
      /\ new.k <= target.k
  <2>1. old \in Scheme /\ new \in Scheme /\ Encodes(new)
    BY SchemeFitsPool
  <2>2. new.k <= target.k
    BY <1>1 DEF Effective, Lesser, Greater, TotalShards
  <2> HIDE DEF old, new
  <2> QED
    BY <2>1, <2>2 DEF Scheme, Encodes
<1>3. old.k = target.k \/ (old.k = before - 1 /\ old.m = 1)
  BY <1>1 DEF Effective, Lesser, Greater, TotalShards
<1>4. found <= old.k + old.m /\ found <= new.k + new.m
  BY DEF TotalShards
<1> HIDE DEF old, new
<1>5. found - old.k <= new.m
  BY <1>1, <1>2, <1>3, <1>4
<1> QED
  BY <1>5 DEF old, new

-----------------------------------------------------------------------------
(* Reads (get).                                                            *)

\* A get finds every shard that answers in both of its rounds, so k of them are enough.
THEOREM AnyKAreEnough ==
    ASSUME NEW scheme \in Scheme,
           NEW first \in SUBSET Indexes(scheme), NEW later \in SUBSET Indexes(scheme),
           Cardinality(first \cap later) >= scheme.k
    PROVE  GetSucceeds(scheme, first, later)
<1> DEFINE finds == GetFinds(scheme, first, later)
           data == 0..scheme.k-1
<1>1. scheme.k \in Nat /\ scheme.m \in Nat
  BY DEF Scheme
<1>2. CASE Cardinality(first \cap data) >= scheme.k
  BY <1>2 DEF GetSucceeds, GetFinds
<1>3. CASE ~(Cardinality(first \cap data) >= scheme.k)
  <2>1. finds = (first \cap data) \cup (later \cap (Indexes(scheme) \ data))
    BY <1>3 DEF GetFinds
  <2>2. first \cap later \subseteq finds /\ finds \subseteq Indexes(scheme)
    BY <2>1
  <2>3. IsFiniteSet(Indexes(scheme))
    BY <1>1, FS_Interval DEF Indexes, TotalShards
  <2>4. IsFiniteSet(finds)
    BY <2>2, <2>3, FS_Subset
  <2>5. /\ Cardinality(first \cap later) <= Cardinality(finds)
        /\ Cardinality(finds) \in Nat /\ Cardinality(first \cap later) \in Nat
    BY <2>2, <2>4, FS_Subset, FS_CardinalityType
  <2> HIDE DEF finds
  <2>6. Cardinality(finds) >= scheme.k
    BY <1>1, <2>5
  <2> QED
    BY <2>6 DEF finds, GetSucceeds
<1> QED
  BY <1>2, <1>3

-----------------------------------------------------------------------------
(* How shards are dealt and counted.                                       *)

LEMMA EuclideanDivision ==
    ASSUME NEW n \in Nat, NEW t \in Nat \ {0}
    PROVE  n \div t \in Nat /\ n % t \in 0..t-1 /\ n = t * (n \div t) + (n % t)
  OBVIOUS

\* The shards of a node or of a set of nodes.
Pairs(manifest, n) == {n} \X (1..manifest.shards[n])
Held(manifest, nodes) == UNION {Pairs(manifest, n) : n \in nodes}

LEMMA ShardsAreHeld ==
    ASSUME NEW manifest, NEW nodes
    PROVE  /\ Shards(manifest, nodes) = Cardinality(Held(manifest, nodes))
           /\ \A n, i : <<n, i>> \in Held(manifest, nodes)
                            <=> n \in nodes /\ i \in 1..manifest.shards[n]
           /\ \A p \in Held(manifest, nodes) : p = <<p[1], p[2]>>
  BY DEF Shards, Held, Pairs

LEMMA HeldIsFinite ==
    ASSUME NEW manifest, NEW nodes, IsFiniteSet(nodes),
           \A n \in nodes : manifest.shards[n] \in Nat
    PROVE  IsFiniteSet(Held(manifest, nodes))
<1> DEFINE S == {Pairs(manifest, n) : n \in nodes}
           f == [n \in nodes |-> Pairs(manifest, n)]
<1>1. f \in Surjection(nodes, S)
  BY DEF Surjection
<1>2. IsFiniteSet(S)
  BY <1>1, FS_Surjection
<1>3. ASSUME NEW n \in nodes
      PROVE  IsFiniteSet(Pairs(manifest, n))
  <2>1. IsFiniteSet(1..manifest.shards[n]) /\ IsFiniteSet({n})
    BY FS_Interval, FS_Singleton, manifest.shards[n] \in Int, 1 \in Int
  <2> QED
    BY <2>1, FS_Product DEF Pairs
<1> QED
  BY <1>2, <1>3, FS_UNION DEF Held

\* Round-robin deals every shard, and no other (put, repair_object).
LEMMA DealCounts ==
    ASSUME NEW n \in Nat, NEW targets \in SUBSET Node, targets # {},
           NEW dealt \in RoundRobins(n, targets), NEW content, NEW scheme
    PROVE  LET manifest == Placed(content, scheme, dealt) IN
           /\ manifest.shards \in [Node -> Nat]
           /\ Shards(manifest, Node) = n
           /\ Hosts(manifest) \subseteq targets
           /\ n <= Cardinality(targets) => \A node \in Node : manifest.shards[node] \in {0, 1}
<1> DEFINE manifest == Placed(content, scheme, dealt)
           t == Cardinality(targets)
           q == n \div t
<1>1. IsFiniteSet(targets) /\ t \in Nat \ {0}
  BY RepairAssumption, FS_Subset, FS_CardinalityType, FS_EmptySet
<1>2. q \in Nat /\ n % t \in 0..t-1 /\ n = t * q + (n % t)
  BY <1>1, EuclideanDivision
<1>3. PICK extra \in SUBSET targets :
        /\ Cardinality(extra) = n % t
        /\ dealt = [node \in targets |-> q + (IF node \in extra THEN 1 ELSE 0)]
  BY DEF RoundRobins
<1>4. \A node \in Node :
        manifest.shards[node] = IF node \notin targets THEN 0
                                ELSE IF node \in extra THEN q + 1 ELSE q
  <2>1. DOMAIN dealt = targets
    BY <1>3
  <2>2. \A node \in targets : dealt[node] = IF node \in extra THEN q + 1 ELSE q
    BY <1>2, <1>3
  <2> QED
    BY <2>1, <2>2 DEF Placed
<1>5. manifest.shards \in [Node -> Nat]
  <2>1. manifest.shards = [node \in Node |-> manifest.shards[node]]
    BY DEF Placed
  <2>2. \A node \in Node : manifest.shards[node] \in Nat
    BY <1>2, <1>4
  <2> HIDE DEF manifest
  <2> QED
    BY <2>1, <2>2
<1> DEFINE rounds == targets \X (1..q)
           rest == extra \X {q + 1}
<1> HIDE DEF manifest
<1>6. Held(manifest, Node) = rounds \cup rest
  <2>1. ASSUME NEW node, NEW i
        PROVE  <<node, i>> \in Held(manifest, Node) <=> <<node, i>> \in rounds \cup rest
    <3>1. <<node, i>> \in Held(manifest, Node) <=> node \in Node /\ i \in 1..manifest.shards[node]
      BY ShardsAreHeld
    <3>2. node \in targets => node \in Node
      OBVIOUS
    <3>3. CASE node \in extra
      BY <1>2, <1>4, <3>1, <3>2, <3>3
    <3>4. CASE node \in targets \ extra
      BY <1>2, <1>4, <3>1, <3>2, <3>4
    <3>5. CASE node \notin targets
      BY <1>4, <3>1, <3>5
    <3> QED
      BY <3>3, <3>4, <3>5
  <2>2. \A p \in rounds \cup rest : p = <<p[1], p[2]>>
    OBVIOUS
  <2> HIDE DEF rounds, rest
  <2> QED
    BY <2>1, <2>2, ShardsAreHeld
<1>7. IsFiniteSet(rounds) /\ Cardinality(rounds) = t * q
  <2>1. IsFiniteSet(1..q) /\ Cardinality(1..q) = q
    BY <1>2, FS_Interval
  <2> QED
    BY <1>1, <2>1, FS_Product
<1>8. IsFiniteSet(rest) /\ Cardinality(rest) = n % t
  <2>1. IsFiniteSet({q + 1}) /\ Cardinality({q + 1}) = 1
    BY FS_Singleton
  <2>2. IsFiniteSet(extra)
    BY <1>1, FS_Subset
  <2>3. IsFiniteSet(rest) /\ Cardinality(rest) = Cardinality(extra) * 1
    BY <2>1, <2>2, FS_Product
  <2> QED
    BY <1>2, <1>3, <2>3
<1>9. rounds \cap rest = {}
  BY <1>2
<1>10. Cardinality(Held(manifest, Node)) = n
  <2>1. t * q \in Nat
    BY <1>1, <1>2
  <2> HIDE DEF rounds, rest, t, q
  <2>2. Cardinality(rounds \cup rest)
            = Cardinality(rounds) + Cardinality(rest) - Cardinality(rounds \cap rest)
    BY <1>7, <1>8, FS_Union
  <2>3. Cardinality(rounds \cap rest) = 0
    BY <1>9, FS_EmptySet
  <2>4. n % t \in Nat
    BY <1>2
  <2> QED
    BY <1>2, <1>6, <1>7, <1>8, <2>1, <2>2, <2>3, <2>4
<1>11. Hosts(manifest) \subseteq targets
  BY <1>4 DEF Hosts
<1>12. ASSUME n <= t, NEW node \in Node
       PROVE  manifest.shards[node] \in {0, 1}
  <2>1. q = 0 \/ (q = 1 /\ n % t = 0)
    <3> HIDE DEF q
    <3>1. CASE q >= 2
      <4>1. t * q >= t * 2
        BY <1>1, <1>2, <3>1
      <4> HIDE DEF t
      <4> QED
        BY <1>1, <1>2, <1>12, <4>1
    <3>2. CASE q = 1
      <4> HIDE DEF t
      <4> QED
      BY <1>1, <1>2, <1>12, <3>2
    <3> QED
      BY <1>2, <3>1, <3>2
  <2>2. q = 1 => extra = {}
    BY <1>1, <1>3, <2>1, FS_Subset, FS_EmptySet
  <2> HIDE DEF q
  <2> QED
    BY <1>4, <2>1, <2>2
<1> QED
  BY <1>5, <1>10, <1>11, <1>12, ShardsAreHeld DEF manifest

\* Where no node has two shards, the shards are as many as the nodes that have one.
LEMMA SpreadShards ==
    ASSUME NEW manifest, NEW nodes \in SUBSET Node,
           \A n \in nodes : manifest.shards[n] \in {0, 1}
    PROVE  Shards(manifest, nodes) = Cardinality(Hosts(manifest) \cap nodes)
<1> DEFINE hosts == Hosts(manifest) \cap nodes
<1>1. Held(manifest, nodes) = hosts \X {1}
  <2>1. ASSUME NEW n, NEW i
        PROVE  <<n, i>> \in Held(manifest, nodes) <=> <<n, i>> \in hosts \X {1}
    <3>1. <<n, i>> \in Held(manifest, nodes) <=> n \in nodes /\ i \in 1..manifest.shards[n]
      BY ShardsAreHeld
    <3>2. n \in nodes => (i \in 1..manifest.shards[n] <=> i = 1 /\ manifest.shards[n] > 0)
      OBVIOUS
    <3>3. n \in hosts <=> n \in nodes /\ manifest.shards[n] > 0
      BY DEF Hosts
    <3> HIDE DEF hosts
    <3> QED
      BY <3>1, <3>2, <3>3
  <2>2. \A p \in hosts \X {1} : p = <<p[1], p[2]>>
    OBVIOUS
  <2> HIDE DEF hosts
  <2> QED
    BY <2>1, <2>2, ShardsAreHeld
<1>2. IsFiniteSet(hosts)
  BY RepairAssumption, FS_Subset
<1> HIDE DEF hosts
<1>3. IsFiniteSet({1}) /\ Cardinality({1}) = 1
  BY FS_Singleton
<1>4. Cardinality(hosts \X {1}) = Cardinality(hosts) * 1
  BY <1>2, <1>3, FS_Product
<1>5. Cardinality(hosts) \in Nat
  BY <1>2, FS_CardinalityType
<1>6. Cardinality(Held(manifest, nodes)) = Cardinality(hosts)
  BY <1>1, <1>4, <1>5
<1> QED
  BY <1>6, ShardsAreHeld DEF hosts

\* Where there are as many nodes with shards as shards, none has two of them.
LEMMA SpreadOverHosts ==
    ASSUME NEW manifest, manifest.shards \in [Node -> Nat],
           Shards(manifest, Node) = TotalShards(SchemeOf(manifest)),
           ~Concentrated(manifest)
    PROVE  \A n \in Node : manifest.shards[n] \in {0, 1}
<1> DEFINE held == Held(manifest, Node)
           first == Hosts(manifest) \X {1}
<1>1. IsFiniteSet(held)
  BY RepairAssumption, HeldIsFinite
<1>2. first \subseteq held
  <2>1. \A p \in first : p = <<p[1], 1>> /\ p[1] \in Node /\ 1 \in 1..manifest.shards[p[1]]
    BY DEF Hosts
  <2> HIDE DEF first
  <2> QED
    BY <2>1, ShardsAreHeld
<1>3. IsFiniteSet(Hosts(manifest))
  BY RepairAssumption, FS_Subset DEF Hosts
<1>4. Cardinality(first) = Cardinality(Hosts(manifest)) /\ Cardinality(first) \in Nat
  <2>1. IsFiniteSet({1}) /\ Cardinality({1}) = 1
    BY FS_Singleton
  <2>2. Cardinality(first) = Cardinality(Hosts(manifest)) * 1
    BY <1>3, <2>1, FS_Product
  <2>3. Cardinality(Hosts(manifest)) \in Nat
    BY <1>3, FS_CardinalityType
  <2> QED
    BY <2>2, <2>3
<1>5. /\ Cardinality(held) = TotalShards(SchemeOf(manifest))
      /\ Cardinality(held) \in Nat /\ Cardinality(first) <= Cardinality(held)
  BY <1>1, <1>2, FS_Subset, FS_CardinalityType, ShardsAreHeld
<1>6. held = first
  <2>1. Cardinality(first) = Cardinality(held)
    BY <1>4, <1>5 DEF Concentrated
  <2> QED
    BY <1>1, <1>2, <2>1, FS_Subset
<1>7. ASSUME NEW n \in Node, manifest.shards[n] \notin {0, 1}
      PROVE  FALSE
  <2>1. <<n, 2>> \in held
    BY <1>7, ShardsAreHeld
  <2> QED
    BY <1>6, <2>1
<1> QED
  BY <1>7

\* Finite sets have subsets of every smaller size.
LEMMA SubsetOfSize ==
    ASSUME NEW S, IsFiniteSet(S), NEW f \in Nat, f <= Cardinality(S)
    PROVE  \E T \in SUBSET S : Cardinality(T) = f
<1>1. PICK b : b \in Bijection(1..Cardinality(S), S)
  BY FS_CardinalityType DEF ExistsBijection
<1>2. Cardinality(S) \in Nat
  BY FS_CardinalityType
<1> DEFINE T == {b[i] : i \in 1..f}
           c == [i \in 1..f |-> b[i]]
<1>3. 1..f \subseteq 1..Cardinality(S)
  BY <1>2
<1>4. c \in Bijection(1..f, T)
  <2>1. \A i \in 1..f : c[i] = b[i]
    OBVIOUS
  <2>2. \A i, j \in 1..f : b[i] = b[j] => i = j
    BY <1>1, <1>3 DEF Bijection, Injection, IsInjective
  <2>3. c \in [1..f -> T] /\ \A x \in T : \E i \in 1..f : c[i] = x
    OBVIOUS
  <2> HIDE DEF c, T
  <2> QED
    BY <2>1, <2>2, <2>3 DEF Bijection, Injection, Surjection, IsInjective
<1>5. Cardinality(T) = f
  BY <1>4, FS_CountingElements DEF ExistsBijection
<1>6. T \in SUBSET S
  BY <1>1, <1>3 DEF Bijection, Injection
<1> QED
  BY <1>5, <1>6

-----------------------------------------------------------------------------
(* Every manifest that is stored, and every one a pass has read, has a     *)
(* scheme assign_shards gives some pool and as many shards as it says: puts,*)
(* repairs and the manifests of the first objects keep to it.              *)

GoodScheme(scheme) == \E pool \in Nat : pool > 1 /\ scheme = Effective(Target, pool)

Whole(manifest) ==
    /\ manifest \in Manifest
    /\ GoodScheme(SchemeOf(manifest))
    /\ Shards(manifest, Node) = TotalShards(SchemeOf(manifest))

ObjectsDecode == \A o \in Object : SchemeOf(manifests[o]) \in Scheme /\ Encodes(SchemeOf(manifests[o]))

ClusterOK ==
    /\ up \subseteq Node /\ offline \subseteq Node
    /\ lost \in [Object -> SUBSET Node] /\ local \in [Object -> SUBSET Node]
    /\ events \in 0..MaxEvents

ObjectsOK ==
    /\ manifests \in [Object -> Manifest]
    /\ \A o \in Object : Whole(manifests[o])
    /\ scan \in SetToSeqs(Object)

\* A pass that looks at an object has found it on nodes of its manifest, and has not
\* reached the rate limit; one that repairs goes for a scheme some pool gets.
PassOK ==
    /\ pass \in Pass
    /\ \A i \in 1..Len(pass.todo) : Whole(pass.todo[i].manifest)
    /\ pass.phase \in {"fetched", "repair"} =>
           /\ pass.todo # <<>> /\ pass.fixed < RateLimit
           /\ pass.found \subseteq Hosts(Current.manifest)
    /\ pass.phase = "repair" => GoodScheme(pass.goal)

IInv == ClusterOK /\ ObjectsOK /\ PassOK

LEMMA GoodSchemesEncode ==
    ASSUME NEW scheme, GoodScheme(scheme)
    PROVE  scheme \in Scheme /\ Encodes(scheme) /\ TotalShards(scheme) \in Nat
<1>1. scheme \in Scheme /\ Encodes(scheme)
  BY RepairAssumption, SchemeFitsPool DEF GoodScheme
<1> QED
  BY <1>1 DEF Scheme, TotalShards

LEMMA TargetIsGood == GoodScheme(Target)
<1>1. Target.k \in Nat /\ Target.m \in Nat /\ Target.k > 0 /\ Target.m > 0
  BY RepairAssumption DEF Scheme, Encodes
<1>2. TotalShards(Target) \in Nat /\ TotalShards(Target) > 1
  BY <1>1 DEF TotalShards
<1>3. Target = Effective(Target, TotalShards(Target))
  BY <1>2 DEF Effective
<1> QED
  BY <1>2, <1>3 DEF GoodScheme

\* The scheme of a pool with a node is good, or encode refuses it.
LEMMA PoolScheme ==
    ASSUME NEW pool \in SUBSET Node, pool # {},
           Encodes(Effective(Target, Cardinality(pool)))
    PROVE  GoodScheme(Effective(Target, Cardinality(pool)))
<1>1. Cardinality(pool) \in Nat /\ Cardinality(pool) > 0
  BY RepairAssumption, FS_Subset, FS_CardinalityType, FS_EmptySet
<1>2. Cardinality(pool) # 1
  BY RepairAssumption, PoolOfOneFails
<1> QED
  BY <1>1, <1>2 DEF GoodScheme

\* assign_shards names a target whenever there is one to name.
LEMMA TargetsOfPool ==
    ASSUME NEW pool \in SUBSET Node, NEW targets \in TargetSets(Target, pool)
    PROVE  /\ targets \in SUBSET Node
           /\ Cardinality(targets) = Lesser(TotalShards(Target), Cardinality(pool))
           /\ pool # {} => targets # {}
<1>1. Cardinality(pool) \in Nat /\ (pool # {} => Cardinality(pool) > 0)
  BY RepairAssumption, FS_Subset, FS_CardinalityType, FS_EmptySet
<1>2. TotalShards(Target) \in Nat /\ TotalShards(Target) > 0
  BY RepairAssumption DEF Scheme, Encodes, TotalShards
<1>3. targets \in SUBSET Node
      /\ Cardinality(targets) = Lesser(TotalShards(Target), Cardinality(pool))
  BY DEF TargetSets
<1>4. pool # {} => Cardinality(targets) > 0
  BY <1>1, <1>2, <1>3 DEF Lesser
<1> QED
  BY <1>3, <1>4, FS_EmptySet

LEMMA PlacedIsWhole ==
    ASSUME NEW content \in Content, NEW scheme, GoodScheme(scheme),
           NEW targets \in SUBSET Node, targets # {},
           NEW dealt \in RoundRobins(TotalShards(scheme), targets)
    PROVE  /\ Whole(Placed(content, scheme, dealt))
           /\ SchemeOf(Placed(content, scheme, dealt)) = scheme
<1> DEFINE manifest == Placed(content, scheme, dealt)
<1>1. scheme \in Scheme /\ TotalShards(scheme) \in Nat
  BY GoodSchemesEncode
<1>2. manifest.shards \in [Node -> Nat] /\ Shards(manifest, Node) = TotalShards(scheme)
  BY <1>1, DealCounts
<1>3. scheme = [k |-> scheme.k, m |-> scheme.m] /\ scheme.k \in Nat /\ scheme.m \in Nat
  BY <1>1 DEF Scheme
<1>4. SchemeOf(manifest) = scheme
  BY <1>3 DEF SchemeOf, Placed
<1>5. manifest \in Manifest
  <2>1. manifest = [content |-> content, k |-> scheme.k, m |-> scheme.m,
                    shards |-> manifest.shards]
    BY DEF Placed
  <2> HIDE DEF manifest
  <2> QED
    BY <1>2, <1>3, <2>1 DEF Manifest
<1> QED
  BY <1>2, <1>4, <1>5 DEF Whole

\* The row of a replaced manifest moves to the end of the listing.
LEMMA MovedToEnd ==
    ASSUME NEW s \in SetToSeqs(Object), NEW i \in DOMAIN s
    PROVE  Append(RemoveAt(s, i), s[i]) \in SetToSeqs(Object)
<1> DEFINE n == Cardinality(Object)
           front == SubSeq(s, 1, i - 1)
           back == SubSeq(s, i + 1, Len(s))
           kept == RemoveAt(s, i)
           moved == Append(kept, s[i])
<1>1. n \in Nat
  BY RepairAssumption, FS_CardinalityType
<1>2. s \in [1..n -> Object] /\ \A x, y \in 1..n : x # y => s[x] # s[y]
  BY DEF SetToSeqs
<1>3. s \in Seq(Object) /\ Len(s) = n /\ i \in 1..n
  BY <1>1, <1>2
<1>4. front \in Seq(Object) /\ Len(front) = i - 1 /\ \A j \in 1..i-1 : front[j] = s[j]
  BY <1>1, <1>2, <1>3, SubSeqProperties
<1>5. /\ back \in Seq(Object) /\ Len(back) = n - i
      /\ \A j \in 1..n-i : back[j] = s[i + j]
  BY <1>1, <1>2, <1>3, SubSeqProperties
<1> HIDE DEF front, back
<1>6. kept = front \o back
  BY DEF RemoveAt, front, back
<1> HIDE DEF kept
<1>7. /\ kept \in Seq(Object) /\ Len(kept) = n - 1
      /\ \A j \in 1..n-1 : kept[j] = IF j < i THEN s[j] ELSE s[j + 1]
  <2>1. /\ kept \in Seq(Object) /\ Len(kept) = Len(front) + Len(back)
        /\ \A j \in 1..Len(front)+Len(back) :
               kept[j] = IF j <= Len(front) THEN front[j] ELSE back[j - Len(front)]
    BY <1>4, <1>5, <1>6, ConcatProperties
  <2>2. ASSUME NEW j \in 1..n-1
        PROVE  kept[j] = IF j < i THEN s[j] ELSE s[j + 1]
    <3>1. CASE j < i
      BY <1>1, <1>3, <1>4, <1>5, <2>1, <3>1
    <3>2. CASE ~(j < i)
      <4>1. kept[j] = back[j - (i - 1)] /\ j - (i - 1) \in 1..n-i
        BY <1>1, <1>3, <1>4, <1>5, <2>1, <3>2
      <4>2. i + (j - (i - 1)) = j + 1
        BY <1>1, <1>3
      <4> QED
        BY <1>1, <1>5, <3>2, <4>1, <4>2
    <3> QED
      BY <3>1, <3>2
  <2>3. Len(kept) = n - 1
    BY <1>1, <1>3, <1>4, <1>5, <2>1
  <2> QED
    BY <2>1, <2>2, <2>3
<1>8. /\ moved \in Seq(Object) /\ Len(moved) = n
      /\ \A j \in 1..n : moved[j] = IF j < i THEN s[j] ELSE IF j < n THEN s[j + 1] ELSE s[i]
  <2>1. s[i] \in Object
    BY <1>2, <1>3
  <2>2. /\ moved \in Seq(Object) /\ Len(moved) = Len(kept) + 1
        /\ \A j \in 1..Len(kept) : moved[j] = kept[j]
        /\ moved[Len(kept) + 1] = s[i]
    BY <1>7, <2>1, AppendProperties
  <2> HIDE DEF moved
  <2>3. Len(moved) = n /\ moved[n] = s[i] /\ \A j \in 1..n-1 : moved[j] = kept[j]
    BY <1>1, <1>7, <2>2
  <2>4. ASSUME NEW j \in 1..n
        PROVE  moved[j] = IF j < i THEN s[j] ELSE IF j < n THEN s[j + 1] ELSE s[i]
    <3>1. CASE j = n
      BY <1>1, <1>3, <2>3, <3>1
    <3>2. CASE j \in 1..n-1
      BY <1>1, <1>7, <2>3, <3>2
    <3> QED
      BY <1>1, <3>1, <3>2
  <2> QED
    BY <2>2, <2>3, <2>4
<1> HIDE DEF moved
<1>9. moved \in [1..n -> Object]
  BY <1>1, <1>8, LenProperties
<1>10. \A x, y \in 1..n : x # y => moved[x] # moved[y]
  BY <1>1, <1>2, <1>3, <1>8
<1> QED
  BY <1>9, <1>10 DEF SetToSeqs, moved, kept

\* A commit of a manifest as put and repair_object build them.
LEMMA CommitKeeps ==
    ASSUME ClusterOK, ObjectsOK, NEW o \in Object, NEW manifest, Whole(manifest),
           Commit(o, manifest)
    PROVE  ObjectsOK' /\ lost' \in [Object -> SUBSET Node]
<1>1. manifests' \in [Object -> Manifest] /\ \A x \in Object : Whole(manifests'[x])
  BY DEF ObjectsOK, Commit, Whole
<1>2. scan' \in SetToSeqs(Object)
  BY MovedToEnd DEF ObjectsOK, Commit
<1>3. (\A x \in Object : Whole(manifests[x]))'
  BY <1>1 DEF Whole, GoodScheme
<1>4. lost' \in [Object -> SUBSET Node]
  BY DEF ClusterOK, Commit
<1> QED
  BY <1>1, <1>2, <1>3, <1>4 DEF ObjectsOK

LEMMA InitKeeps == Init => IInv
<1> SUFFICES ASSUME Init
             PROVE  IInv
  OBVIOUS
<1> DEFINE scheme == Effective(Target, Cardinality(Node))
           content == [object_hash |-> 0, ciphertext |-> 0]
<1>1. Cardinality(Node) \in Nat /\ Cardinality(Node) > 1
  BY RepairAssumption, FS_CardinalityType
<1>2. GoodScheme(scheme)
  BY <1>1 DEF GoodScheme
<1>3. PICK targets \in TargetSets(Target, Node) :
        manifests \in [Object -> {Placed(content, scheme, dealt) :
                                    dealt \in RoundRobins(TotalShards(scheme), targets)}]
  BY DEF Init
<1> HIDE DEF scheme
<1>4. targets \in SUBSET Node /\ targets # {}
  <2>1. Node # {}
    BY <1>1, FS_EmptySet
  <2>2. Node \in SUBSET Node
    OBVIOUS
  <2> QED
    BY <2>1, <2>2, TargetsOfPool
<1>5. \A dealt \in RoundRobins(TotalShards(scheme), targets) :
        Whole(Placed(content, scheme, dealt))
  <2>1. content \in Content
    BY RepairAssumption DEF Content
  <2> HIDE DEF content
  <2> QED
    BY <1>2, <1>4, <2>1, PlacedIsWhole
<1>6. manifests \in [Object -> Manifest] /\ \A o \in Object : Whole(manifests[o])
  BY <1>3, <1>5 DEF Whole
<1>7. ObjectsOK
  BY <1>6 DEF ObjectsOK, Init
<1>8. ClusterOK
  BY RepairAssumption DEF ClusterOK, Init
<1>9. PassOK
  <2>1. NoPass \in Pass
    BY RepairAssumption DEF NoPass, Pass, Scheme
  <2>2. pass = NoPass
    BY DEF Init
  <2> QED
    BY <2>1, <2>2 DEF PassOK, NoPass
<1> QED
  BY <1>7, <1>8, <1>9 DEF IInv

\* What the invariant says of objects and passes depends on nothing else.
LEMMA UnchangedObjects ==
    ASSUME ObjectsOK, UNCHANGED <<manifests, scan>>
    PROVE  ObjectsOK'
  BY DEF ObjectsOK, Whole, GoodScheme

LEMMA UnchangedPass ==
    ASSUME PassOK, UNCHANGED pass
    PROVE  PassOK'
  BY DEF PassOK, Current, Whole, GoodScheme

LEMMA PassEnds ==
    ASSUME pass' = NoPass
    PROVE  PassOK'
<1>1. NoPass \in Pass
  BY RepairAssumption DEF NoPass, Pass, Scheme
<1> QED
  BY <1>1 DEF PassOK, NoPass

\* The objects that are left when one is done were read with it.
LEMMA PassGoesOn ==
    ASSUME PassOK, pass.phase \in {"fetched", "repair"},
           NEW fixed \in 0..RateLimit, pass' = NextJob(pass, fixed)
    PROVE  PassOK'
<1> DEFINE jobs == [object : Object, manifest : Manifest]
<1>1. pass \in Pass /\ pass.todo \in Seq(jobs) /\ pass.todo # <<>>
  BY DEF PassOK, Pass
<1> HIDE DEF jobs
<1>2. /\ Tail(pass.todo) \in Seq(jobs) /\ Len(Tail(pass.todo)) = Len(pass.todo) - 1
      /\ \A i \in 1..Len(Tail(pass.todo)) : Tail(pass.todo)[i] = pass.todo[i + 1]
      /\ Len(pass.todo) \in Nat
  BY <1>1, HeadTailProperties, LenProperties
<1>3. /\ pass'.phase = "scan" /\ pass'.todo = Tail(pass.todo) /\ pass'.fixed = fixed
      /\ pass'.found = {} /\ pass'.goal = [k |-> 0, m |-> 0] /\ pass'.offline = pass.offline
      /\ pass' \in Pass
  BY <1>1, <1>2 DEF NextJob, Pass, NoPass, Scheme, jobs
<1>4. \A i \in 1..Len(Tail(pass.todo)) : Whole(Tail(pass.todo)[i].manifest)
  BY <1>2 DEF PassOK
<1>5. (\A i \in 1..Len(pass.todo) : Whole(pass.todo[i].manifest))'
  BY <1>3, <1>4 DEF Whole, GoodScheme
<1> QED
  BY <1>3, <1>5 DEF PassOK

LEMMA PutKeeps ==
    ASSUME IInv, NEW o \in Object, Put(o)
    PROVE  IInv'
<1>1. PassOK'
  BY UnchangedPass DEF IInv, Put
<1>2. events' \in 0..MaxEvents
  BY RepairAssumption DEF IInv, ClusterOK, Put, Event
<1>3. ASSUME NEW scheme, GoodScheme(scheme), NEW targets \in SUBSET Node, targets # {},
             NEW content \in Contents(o),
             NEW dealt \in RoundRobins(TotalShards(scheme), targets),
             Commit(o, Placed(content, scheme, dealt))
      PROVE  ObjectsOK' /\ lost' \in [Object -> SUBSET Node]
  <2>1. manifests[o].content \in Content
    BY DEF IInv, ObjectsOK, Manifest
  <2>2. content \in Content
    BY <1>2, <2>1 DEF Contents, Content
  <2> QED
    BY <1>3, <2>2, PlacedIsWhole, CommitKeeps DEF IInv
<1>4. ObjectsOK' /\ lost' \in [Object -> SUBSET Node]
  <2>1. CASE \E targets \in (SUBSET up) \ {{}} :
               \E content \in Contents(o),
                  dealt \in RoundRobins(TotalShards(Target), targets) :
                   Commit(o, Placed(content, Target, dealt))
    <3>1. PICK targets \in (SUBSET up) \ {{}} :
            \E content \in Contents(o), dealt \in RoundRobins(TotalShards(Target), targets) :
                Commit(o, Placed(content, Target, dealt))
      BY <2>1
    <3>2. targets \in SUBSET Node /\ targets # {}
      BY DEF IInv, ClusterOK
    <3> QED
      BY <1>3, <3>1, <3>2, TargetIsGood
  <2>2. CASE LET scheme == Effective(Target, Cardinality(Pool)) IN
             /\ Pool # {} /\ Encodes(scheme)
             /\ \E targets \in TargetSets(Target, Pool) :
                   /\ targets \subseteq up
                   /\ \E content \in Contents(o),
                         dealt \in RoundRobins(TotalShards(scheme), targets) :
                          Commit(o, Placed(content, scheme, dealt))
    <3> DEFINE scheme == Effective(Target, Cardinality(Pool))
    <3>1. Pool \in SUBSET Node /\ Pool # {}
      BY <2>2 DEF Pool
    <3>2. GoodScheme(scheme)
      BY <2>2, <3>1, PoolScheme
    <3>3. PICK targets \in TargetSets(Target, Pool) :
            \E content \in Contents(o), dealt \in RoundRobins(TotalShards(scheme), targets) :
                Commit(o, Placed(content, scheme, dealt))
      BY <2>2
    <3>4. targets \in SUBSET Node /\ targets # {}
      BY <3>1, TargetsOfPool
    <3> HIDE DEF scheme
    <3> QED
      BY <1>3, <3>2, <3>3, <3>4
  <2> QED
    BY <2>1, <2>2 DEF Put
<1>5. ClusterOK'
  <2>1. local' \in [Object -> SUBSET Node]
    BY DEF IInv, ClusterOK, Put
  <2> QED
    BY <1>2, <1>4, <2>1 DEF IInv, ClusterOK, Put
<1> QED
  BY <1>1, <1>4, <1>5 DEF IInv

\* repair_object builds the manifest from the scheme that was judged, not from the one
\* of its own targets.
LEMMA RedistributeKeeps ==
    ASSUME IInv, Redistribute
    PROVE  IInv'
<1>1. /\ PassOK /\ pass \in Pass /\ pass.phase = "repair" /\ GoodScheme(pass.goal)
      /\ pass.fixed \in Nat /\ pass.fixed < RateLimit
  BY DEF IInv, PassOK, Pass, Redistribute
<1>2. Current.object \in Object /\ Whole(Current.manifest)
  <2>1. /\ pass.todo \in Seq([object : Object, manifest : Manifest]) /\ pass.todo # <<>>
        /\ \A i \in 1..Len(pass.todo) : Whole(pass.todo[i].manifest)
    BY <1>1 DEF PassOK, Pass
  <2>2. Head(pass.todo) = pass.todo[1] /\ 1 \in 1..Len(pass.todo)
    BY <2>1
  <2>3. pass.todo[1] \in [object : Object, manifest : Manifest]
    BY <2>1, <2>2, ElementOfSeq
  <2> QED
    BY <2>1, <2>2, <2>3 DEF Current
<1>3. PICK targets \in TargetSets(Target, Pool) :
        targets # {} /\ \E manifest \in Dealt(Current, pass.goal, targets) :
                             Commit(Current.object, manifest)
  BY DEF Redistribute
<1>4. targets \in SUBSET Node
  BY TargetsOfPool DEF Pool
<1>5. PICK dealt \in RoundRobins(TotalShards(pass.goal), targets) :
        Commit(Current.object, Placed(Current.manifest.content, pass.goal, dealt))
  BY <1>3 DEF Dealt
<1>6. ObjectsOK' /\ lost' \in [Object -> SUBSET Node]
  <2>1. Current.manifest.content \in Content
    BY <1>2 DEF Whole, Manifest
  <2>2. Whole(Placed(Current.manifest.content, pass.goal, dealt))
    BY <1>1, <1>3, <1>4, <2>1, PlacedIsWhole
  <2> QED
    BY <1>2, <1>5, <2>2, CommitKeeps DEF IInv
<1>7. PassOK'
  <2>1. pass.fixed + 1 \in 0..RateLimit
    BY <1>1, RepairAssumption
  <2>2. pass' = NextJob(pass, pass.fixed + 1)
    BY DEF Redistribute
  <2> QED
    BY <1>1, <2>1, <2>2, PassGoesOn
<1>8. ClusterOK'
  BY <1>6 DEF IInv, ClusterOK, Redistribute
<1> QED
  BY <1>6, <1>7, <1>8 DEF IInv

LEMMA FetchKeeps ==
    ASSUME IInv, Fetch
    PROVE  IInv'
<1>1. pass \in Pass /\ pass.todo # <<>> /\ pass.fixed < RateLimit
  BY RepairAssumption DEF IInv, PassOK, Pass, Fetch, Finished
<1>2. PICK found \in SUBSET Node :
        /\ found \subseteq Hosts(Current.manifest)
        /\ pass' = [pass EXCEPT !.phase = "fetched", !.found = found]
        /\ local' = IF Superseded(Current) THEN local
                    ELSE [local EXCEPT ![Current.object] =
                            @ \cup IF Alike(Current) /\ found # {} THEN Node ELSE found]
  <2>1. PICK found \in Finds(Current) :
          /\ pass' = [pass EXCEPT !.phase = "fetched", !.found = found]
          /\ local' = IF Superseded(Current) THEN local
                      ELSE [local EXCEPT ![Current.object] =
                              @ \cup IF Alike(Current) /\ found # {} THEN Node ELSE found]
    BY DEF Fetch
  <2>2. found \subseteq Hosts(Current.manifest)
    BY DEF Finds, Visible
  <2>3. Hosts(Current.manifest) \subseteq Node
    BY DEF Hosts
  <2> QED
    BY <2>1, <2>2, <2>3
<1>3. /\ pass'.phase = "fetched" /\ pass'.found = found /\ pass'.todo = pass.todo
      /\ pass'.fixed = pass.fixed /\ pass' \in Pass
  BY <1>1, <1>2 DEF Pass
<1>4. PassOK'
  <2>1. (\A i \in 1..Len(pass.todo) : Whole(pass.todo[i].manifest))'
    BY <1>3 DEF IInv, PassOK, Whole, GoodScheme
  <2>2. Hosts(Current.manifest)' = Hosts(Current.manifest)
    BY <1>3 DEF Hosts, Current
  <2> QED
    BY <1>1, <1>2, <1>3, <2>1, <2>2 DEF PassOK
<1>5. UNCHANGED <<up, lost, offline, manifests, scan, events>>
  BY DEF Fetch, storage, index
<1>6. ClusterOK'
  <2>1. local' \in [Object -> SUBSET Node]
    BY <1>2 DEF IInv, ClusterOK
  <2> QED
    BY <1>5, <2>1 DEF IInv, ClusterOK
<1> QED
  BY <1>4, <1>5, <1>6, UnchangedObjects DEF IInv

\* Only a scheme that encodes gets as far as a repair.
LEMMA AssessKeeps ==
    ASSUME IInv, Assess
    PROVE  IInv'
<1> DEFINE goal == Effective(Target, Cardinality(Pool))
<1>1. /\ pass \in Pass /\ pass.phase = "fetched" /\ PassOK
      /\ pass.fixed \in 0..RateLimit
  BY DEF IInv, PassOK, Pass, Assess
<1>2. UNCHANGED <<up, lost, local, offline, manifests, scan, events>>
  BY DEF Assess, storage, index
<1>3. Pool # {} /\ Encodes(goal) => GoodScheme(goal)
  BY PoolScheme DEF Pool
<1>4. \/ pass' = NoPass
      \/ pass' = NextJob(pass, pass.fixed)
      \/ GoodScheme(goal) /\ pass' = [pass EXCEPT !.phase = "repair", !.goal = goal]
  <2> HIDE DEF goal
  <2> QED
    BY <1>3 DEF Assess, goal
<1> HIDE DEF goal
<1>5. ASSUME GoodScheme(goal), pass' = [pass EXCEPT !.phase = "repair", !.goal = goal]
      PROVE  PassOK'
  <2>1. goal \in Scheme
    BY <1>5, GoodSchemesEncode
  <2>2. /\ pass'.phase = "repair" /\ pass'.goal = goal /\ pass'.todo = pass.todo
        /\ pass'.fixed = pass.fixed /\ pass'.found = pass.found /\ pass' \in Pass
    BY <1>1, <1>5, <2>1 DEF Pass
  <2>3. (\A i \in 1..Len(pass.todo) : Whole(pass.todo[i].manifest))'
    BY <1>1, <2>2 DEF PassOK, Whole, GoodScheme
  <2>4. Hosts(Current.manifest)' = Hosts(Current.manifest)
    BY <2>2 DEF Hosts, Current
  <2>5. GoodScheme(pass'.goal)
    BY <1>5, <2>2
  <2>6. GoodScheme(pass.goal)'
    BY <2>5 DEF GoodScheme
  <2> QED
    BY <1>1, <2>2, <2>3, <2>4, <2>6 DEF PassOK
<1>6. PassOK'
  BY <1>1, <1>4, <1>5, PassEnds, PassGoesOn
<1> QED
  BY <1>2, <1>6, UnchangedObjects DEF IInv, ClusterOK

LEMMA ReadKeeps ==
    ASSUME IInv, ReadNodes \/ ReadManifests
    PROVE  IInv'
<1>1. UNCHANGED <<up, lost, local, offline, manifests, scan, events>>
  BY DEF ReadNodes, ReadManifests, storage, index
<1>2. CASE ReadNodes
  <2>1. pass' = [NoPass EXCEPT !.phase = "nodes", !.offline = offline]
    BY <1>2 DEF ReadNodes
  <2>2. /\ pass'.phase = "nodes" /\ pass'.todo = <<>> /\ pass' \in Pass
    <3>1. NoPass \in Pass /\ NoPass.todo = <<>>
      BY RepairAssumption DEF NoPass, Pass, Scheme
    <3>2. offline \in SUBSET Node
      BY DEF IInv, ClusterOK
    <3> QED
      BY <2>1, <3>1, <3>2 DEF Pass
  <2> QED
    BY <2>2, <1>1, UnchangedObjects DEF IInv, ClusterOK, PassOK
<1>3. CASE ReadManifests
  <2> DEFINE n == Cardinality(Object)
             jobs == [i \in DOMAIN scan |-> [object |-> scan[i], manifest |-> manifests[scan[i]]]]
  <2>1. n \in Nat /\ scan \in [1..n -> Object]
    BY RepairAssumption, FS_CardinalityType DEF IInv, ObjectsOK, SetToSeqs
  <2>2. /\ jobs \in [1..n -> [object : Object, manifest : Manifest]]
        /\ \A i \in 1..n : Whole(jobs[i].manifest)
    BY <2>1 DEF IInv, ObjectsOK
  <2>3. pass' = [pass EXCEPT !.phase = "scan", !.todo = jobs]
    BY <1>3 DEF ReadManifests
  <2> HIDE DEF jobs, n
  <2>4. jobs \in Seq([object : Object, manifest : Manifest]) /\ Len(jobs) = n
    <3> DEFINE Job == [object : Object, manifest : Manifest]
    <3>1. jobs \in [1..n -> Job]
      BY <2>2
    <3> HIDE DEF Job
    <3>2. jobs \in Seq(Job) /\ Len(jobs) = n
      BY <2>1, <3>1
    <3> QED
      BY <3>2 DEF Job
  <2>5. pass'.phase = "scan" /\ pass'.todo = jobs /\ pass' \in Pass
    BY <2>3, <2>4 DEF IInv, PassOK, Pass
  <2>6. (\A i \in 1..Len(pass.todo) : Whole(pass.todo[i].manifest))'
    BY <2>2, <2>4, <2>5 DEF Whole, GoodScheme
  <2> QED
    BY <1>1, <2>5, <2>6, UnchangedObjects DEF IInv, ClusterOK, PassOK
<1> QED
  BY <1>2, <1>3

LEMMA NextKeeps == IInv /\ [Next]_vars => IInv'
<1> SUFFICES ASSUME IInv, [Next]_vars
             PROVE  IInv'
  OBVIOUS
<1>1. CASE Abort \/ RepairFails \/ EndPass
  <2>1. UNCHANGED <<up, lost, local, offline, manifests, scan>> /\ pass' = NoPass
    BY <1>1 DEF Abort, RepairFails, EndPass, storage, index
  <2>2. events' \in 0..MaxEvents
    BY <1>1, RepairAssumption DEF Abort, RepairFails, EndPass, Event, IInv, ClusterOK
  <2> QED
    BY <2>1, <2>2, PassEnds, UnchangedObjects DEF IInv, ClusterOK
<1>2. CASE \E n \in Node : Die(n) \/ Revive(n) \/ LoseDisk(n) \/ Suspect(n) \/ Health(n)
  <2>1. UNCHANGED <<manifests, scan, pass, local>>
    BY <1>2 DEF Die, Revive, LoseDisk, Suspect, Health, MarkOffline, Register, index
  <2>2. events' \in 0..MaxEvents
    BY <1>2, RepairAssumption
    DEF Die, Revive, LoseDisk, Suspect, Health, MarkOffline, Register, Event, IInv, ClusterOK
  <2>3. up' \subseteq Node /\ offline' \subseteq Node
    BY <1>2 DEF Die, Revive, LoseDisk, Suspect, Health, MarkOffline, Register, storage, index,
                IInv, ClusterOK
  <2>4. lost' \in [Object -> SUBSET Node]
    BY <1>2 DEF Die, Revive, LoseDisk, Suspect, Health, MarkOffline, Register, storage,
                IInv, ClusterOK
  <2> QED
    BY <2>1, <2>2, <2>3, <2>4, UnchangedObjects, UnchangedPass DEF IInv, ClusterOK
<1>3. CASE UNCHANGED vars
  BY <1>3, UnchangedObjects, UnchangedPass DEF vars, storage, index, IInv, ClusterOK
<1> QED
  BY <1>1, <1>2, <1>3, PutKeeps, ReadKeeps, FetchKeeps, AssessKeeps, RedistributeKeeps
  DEF Next, Repair

\* Every manifest, stored or read by a pass, says as much as its shards are, whatever
\* puts, repairs and faults do; and a pass never exceeds its rate limit (ops/repair.rs).
THEOREM TypeCorrect == Spec => []TypeOK
<1>1. IInv => TypeOK
  <2> SUFFICES ASSUME IInv
               PROVE  TypeOK
    OBVIOUS
  <2>1. \A o \in Object :
          /\ Encodes(SchemeOf(manifests[o]))
          /\ Shards(manifests[o], Node) = TotalShards(SchemeOf(manifests[o]))
    BY GoodSchemesEncode DEF IInv, ObjectsOK, Whole
  <2> QED
    BY <2>1 DEF IInv, ClusterOK, ObjectsOK, PassOK, TypeOK
<1> QED
  BY <1>1, InitKeeps, NextKeeps, PTL DEF Spec

\* Whatever puts and repairs do while nodes come and go, any k of the shards of a stored
\* object are enough for a get, in whichever of its rounds they are tried (get).
THEOREM StoredObjectsAreReadable == Spec => []AnyKSuffice
<1>1. IInv => AnyKSuffice
  <2> SUFFICES ASSUME IInv, NEW o \in Object
               PROVE  LET scheme == SchemeOf(manifests[o]) IN
                      \A first, later \in SUBSET Indexes(scheme) :
                          Cardinality(first \cap later) >= scheme.k
                              => GetSucceeds(scheme, first, later)
    BY DEF AnyKSuffice
  <2>1. SchemeOf(manifests[o]) \in Scheme
    BY GoodSchemesEncode DEF IInv, ObjectsOK, Whole
  <2> QED
    BY <2>1, AnyKAreEnough
<1> QED
  BY <1>1, InitKeeps, NextKeeps, PTL DEF Spec

\* No object is ever stored under a scheme that decode refuses, although the pool of a
\* put or a repair may shrink to one node at any time (assign_shards, encode).
THEOREM StoredObjectsDecode == Spec => []ObjectsDecode
<1>1. IInv => ObjectsDecode
  BY GoodSchemesEncode DEF IInv, ObjectsOK, Whole, ObjectsDecode
<1> QED
  BY <1>1, InitKeeps, NextKeeps, PTL DEF Spec

-----------------------------------------------------------------------------
(* A repair never weakens.                                                 *)

\* One shard per node: what survives f losses has f shards more than it needs.
LEMMA SurvivalNeedsMargin ==
    ASSUME NEW manifest, \A n \in Node : manifest.shards[n] \in {0, 1},
           manifest.k \in Nat, manifest.k > 0,
           NEW found, found \subseteq Hosts(manifest),
           NEW f \in Nat, Survives(manifest, found, f)
    PROVE  f <= Cardinality(found) - manifest.k
<1>1. found \subseteq Node /\ IsFiniteSet(found) /\ Cardinality(found) \in Nat
  BY RepairAssumption, FS_Subset, FS_CardinalityType DEF Hosts
<1> DEFINE g == Lesser(f, Cardinality(found))
<1>2. g \in Nat /\ g <= f /\ g <= Cardinality(found)
  BY <1>1 DEF Lesser
<1> HIDE DEF g
<1>3. PICK gone \in SUBSET found : Cardinality(gone) = g
  BY <1>1, <1>2, SubsetOfSize
<1>4. Shards(manifest, found \ gone) >= manifest.k
  BY <1>2, <1>3 DEF Survives
<1>5. Shards(manifest, found \ gone) = Cardinality(found \ gone)
  <2>1. Shards(manifest, found \ gone) = Cardinality(Hosts(manifest) \cap (found \ gone))
    BY <1>1, SpreadShards
  <2>2. Hosts(manifest) \cap (found \ gone) = found \ gone
    OBVIOUS
  <2> QED
    BY <2>1, <2>2
<1>6. Cardinality(found \ gone) = Cardinality(found) - g
  <2>1. found \cap gone = gone
    BY <1>3
  <2> QED
    BY <1>1, <1>3, <2>1, FS_Difference
<1>7. Cardinality(found) - g >= manifest.k
  BY <1>4, <1>5, <1>6
<1> QED
  BY <1>1, <1>2, <1>7 DEF Lesser, g

\* One shard per node: the object survives the loss of as many as it has parity shards.
LEMMA MarginSurvives ==
    ASSUME NEW manifest, \A n \in Node : manifest.shards[n] \in {0, 1},
           manifest.k \in Nat, manifest.m \in Nat,
           Shards(manifest, Node) = TotalShards(SchemeOf(manifest)),
           NEW f \in Nat, f <= manifest.m
    PROVE  Survives(manifest, Node, f)
<1> SUFFICES ASSUME NEW gone \in SUBSET Node, Cardinality(gone) <= f
             PROVE  Shards(manifest, Node \ gone) >= manifest.k
  BY DEF Survives
<1> DEFINE hosts == Hosts(manifest)
<1>1. /\ IsFiniteSet(hosts) /\ IsFiniteSet(gone) /\ IsFiniteSet(hosts \cap gone)
      /\ Cardinality(hosts) \in Nat /\ Cardinality(gone) \in Nat
      /\ Cardinality(hosts \cap gone) \in Nat /\ Cardinality(hosts \cap gone) <= Cardinality(gone)
  <2>1. hosts \subseteq Node
    BY DEF Hosts
  <2> HIDE DEF hosts
  <2>2. IsFiniteSet(hosts) /\ IsFiniteSet(gone)
    BY <2>1, RepairAssumption, FS_Subset
  <2>3. /\ IsFiniteSet(hosts \cap gone)
        /\ Cardinality(hosts \cap gone) <= Cardinality(gone)
    BY <2>2, FS_Subset
  <2> QED
    BY <2>2, <2>3, FS_CardinalityType
<1>2. Cardinality(hosts) = manifest.k + manifest.m
  <2>1. hosts \cap Node = hosts
    BY DEF Hosts
  <2>2. Shards(manifest, Node) = Cardinality(hosts \cap Node)
    BY SpreadShards
  <2> QED
    BY <2>1, <2>2 DEF TotalShards, SchemeOf
<1>3. Shards(manifest, Node \ gone) = Cardinality(hosts \ gone)
  <2>1. Shards(manifest, Node \ gone) = Cardinality(hosts \cap (Node \ gone))
    BY SpreadShards
  <2>2. hosts \cap (Node \ gone) = hosts \ gone
    BY DEF Hosts
  <2> QED
    BY <2>1, <2>2
<1>4. Cardinality(hosts \ gone) = Cardinality(hosts) - Cardinality(hosts \cap gone)
  BY <1>1, FS_Difference
<1> HIDE DEF hosts
<1> QED
  BY <1>1, <1>2, <1>3, <1>4

\* The step that ends a repair with success is the only one that counts one.
LEMMA RepairStep ==
    ASSUME IInv, [Next]_vars, pass.phase = "repair", pass'.fixed > pass.fixed
    PROVE  Redistribute
<1>1. pass \in Pass /\ pass.fixed \in Nat
  BY DEF IInv, PassOK, Pass
<1>2. CASE UNCHANGED pass
  BY <1>1, <1>2
<1>3. CASE pass' = NoPass
  BY <1>1, <1>3 DEF NoPass
<1>4. CASE ReadNodes \/ ReadManifests \/ Fetch \/ Assess \/ EndPass
  BY <1>4 DEF ReadNodes, ReadManifests, Fetch, Assess, EndPass
<1>5. CASE Abort \/ RepairFails
  BY <1>3, <1>5 DEF Abort, RepairFails
<1>6. CASE \/ \E o \in Object : Put(o)
           \/ \E n \in Node : Die(n) \/ Revive(n) \/ LoseDisk(n) \/ Suspect(n) \/ Health(n)
           \/ UNCHANGED vars
  BY <1>2, <1>6
  DEF Put, Die, Revive, LoseDisk, Suspect, Health, MarkOffline, Register, vars
<1> QED
  BY <1>4, <1>5, <1>6 DEF Next, Repair

\* A repair, which may change the scheme, leaves an object that was spread one shard per
\* node able to survive whatever the shards the pass found of it survived, for every
\* target scheme and every pool that did not shrink under the pass (repair_object).
THEOREM RepairNeverWeakens == Spec => NeverWeakens
<1> DEFINE old == Current.manifest
           new == manifests'[Current.object]
           Step == pass.phase = "repair" /\ pass'.fixed > pass.fixed =>
                     (/\ ~Concentrated(old) /\ Cardinality(pass.found) <= TotalShards(pass.goal)
                      /\ TotalShards(pass.goal) <= Cardinality(Pool)
                      => \A f \in 0..Cardinality(Node) :
                             Survives(old, pass.found, f) => Survives(new, Node, f))
<1>1. IInv /\ [Next]_vars => Step
  <2> SUFFICES ASSUME IInv, [Next]_vars, pass.phase = "repair", pass'.fixed > pass.fixed,
                      ~Concentrated(old), Cardinality(pass.found) <= TotalShards(pass.goal),
                      TotalShards(pass.goal) <= Cardinality(Pool),
                      NEW f \in 0..Cardinality(Node), Survives(old, pass.found, f)
               PROVE  Survives(new, Node, f)
    OBVIOUS
  <2> HIDE DEF old, new, Step
  <2>1. Redistribute
    BY RepairStep
  <2>2. /\ Whole(old) /\ Current.object \in Object /\ old.content \in Content
        /\ pass.found \subseteq Hosts(old) /\ GoodScheme(pass.goal)
    <3>1. /\ pass.todo \in Seq([object : Object, manifest : Manifest]) /\ pass.todo # <<>>
          /\ \A i \in 1..Len(pass.todo) : Whole(pass.todo[i].manifest)
          /\ pass.found \subseteq Hosts(Current.manifest) /\ GoodScheme(pass.goal)
      BY <2>1 DEF Redistribute, IInv, PassOK, Pass
    <3>2. Head(pass.todo) = pass.todo[1] /\ 1 \in 1..Len(pass.todo)
      BY <3>1
    <3>3. pass.todo[1] \in [object : Object, manifest : Manifest]
      BY <3>1, <3>2, ElementOfSeq
    <3> QED
      BY <3>1, <3>2, <3>3 DEF old, Current, Manifest
  <2>3. PICK targets \in TargetSets(Target, Pool) :
          targets # {} /\ \E manifest \in Dealt(Current, pass.goal, targets) :
                               Commit(Current.object, manifest)
    BY <2>1 DEF Redistribute
  <2>3a. PICK dealt \in RoundRobins(TotalShards(pass.goal), targets) :
           Commit(Current.object, Placed(old.content, pass.goal, dealt))
    BY <2>3 DEF Dealt, old
  <2>4. new = Placed(old.content, pass.goal, dealt)
    BY <2>2, <2>3a DEF Commit, IInv, ObjectsOK, new
  <2>5. /\ targets \in SUBSET Node
        /\ Cardinality(targets) = Lesser(TotalShards(Target), Cardinality(Pool))
    BY TargetsOfPool DEF Pool
  <2>6. /\ pass.goal \in Scheme /\ TotalShards(pass.goal) \in Nat
        /\ SchemeOf(old) \in Scheme /\ Encodes(SchemeOf(old))
    BY <2>2, GoodSchemesEncode DEF Whole
  <2>7. TotalShards(pass.goal) <= Cardinality(targets)
    <3>1. PICK pool \in Nat : pool > 1 /\ pass.goal = Effective(Target, pool)
      BY <2>2 DEF GoodScheme
    <3>2. TotalShards(pass.goal) = Lesser(TotalShards(Target), pool)
      BY <3>1, RepairAssumption, SchemeFitsPool
    <3>3. TotalShards(Target) \in Nat
      BY RepairAssumption DEF Scheme, TotalShards
    <3> QED
      BY <2>5, <3>1, <3>2, <3>3 DEF Lesser
  <2>8. \A n \in Node : new.shards[n] \in {0, 1}
    BY <2>3, <2>4, <2>5, <2>6, <2>7, DealCounts
  <2>9. Whole(new) /\ SchemeOf(new) = pass.goal
    BY <2>2, <2>3, <2>4, <2>5, PlacedIsWhole
  <2>10. \A n \in Node : old.shards[n] \in {0, 1}
    BY <2>2, SpreadOverHosts DEF Whole, Manifest
  <2>11. f \in Nat
    BY RepairAssumption, FS_CardinalityType
  <2>12. f <= Cardinality(pass.found) - old.k
    <3>1. old.k \in Nat /\ old.k > 0
      BY <2>6 DEF Scheme, Encodes, SchemeOf
    <3> QED
      BY <2>2, <2>10, <2>11, <3>1, SurvivalNeedsMargin
  <2>13. Cardinality(pass.found) - old.k <= new.m
    <3>1. PICK before \in Nat : before > 1 /\ SchemeOf(old) = Effective(Target, before)
      BY <2>2 DEF Whole, GoodScheme
    <3>2. PICK pool \in Nat : pool > 1 /\ pass.goal = Effective(Target, pool)
      BY <2>2 DEF GoodScheme
    <3>3. Cardinality(pass.found) \in Nat
      BY <2>2, RepairAssumption, FS_Subset, FS_CardinalityType DEF Hosts
    <3>4. Cardinality(pass.found) <= TotalShards(SchemeOf(old))
      <4>1. IsFiniteSet(Hosts(old)) /\ Hosts(old) \cap Node = Hosts(old)
        BY RepairAssumption, FS_Subset DEF Hosts
      <4>2. Cardinality(Hosts(old)) = TotalShards(SchemeOf(old))
        BY <2>2, <2>10, <4>1, SpreadShards DEF Whole
      <4> QED
        BY <2>2, <4>1, <4>2, FS_Subset
    <3>5. Cardinality(pass.found) - SchemeOf(old).k <= pass.goal.m
      BY <3>1, <3>2, <3>3, <3>4, RepairAssumption, RepairKeepsMargin
    <3> QED
      BY <2>9, <3>5 DEF SchemeOf
  <2>14. new.k \in Nat /\ new.m \in Nat /\ old.k \in Nat /\ Cardinality(pass.found) \in Nat
    <3>1. new.k \in Nat /\ new.m \in Nat /\ old.k \in Nat
      BY <2>2, <2>9 DEF Whole, Manifest
    <3>2. Cardinality(pass.found) \in Nat
      BY <2>2, RepairAssumption, FS_Subset, FS_CardinalityType DEF Hosts
    <3> QED
      BY <3>1, <3>2
  <2>15. f <= new.m
    BY <2>11, <2>12, <2>13, <2>14
  <2> QED
    BY <2>8, <2>9, <2>11, <2>14, <2>15, MarginSurvives DEF Whole
<1>2. IInv /\ [Next]_vars => [Step]_vars
  BY <1>1
<1>3. Spec => [][Step]_vars
  BY <1>2, InitKeeps, NextKeeps, PTL DEF Spec
<1> QED
  BY <1>3 DEF NeverWeakens
=============================================================================
