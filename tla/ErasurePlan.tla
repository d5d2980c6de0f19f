----------------------------- MODULE ErasurePlan -----------------------------
(***************************************************************************)
(* How many shards an object gets, where they go and how many a read needs *)
(* (client/pool.rs assign_shards, put, get; client/erasure.rs).  A scheme  *)
(* is a record of k data shards and m parity shards; a read needs any k.   *)
(***************************************************************************)
EXTENDS Integers, FiniteSets

Lesser(a, b) == IF a <= b THEN a ELSE b
Greater(a, b) == IF a >= b THEN a ELSE b

Scheme == [k : Nat, m : Nat]

TotalShards(scheme) == scheme.k + scheme.m
Indexes(scheme) == 0..TotalShards(scheme)-1

\* encode and decode fail without data or parity shards (ReedSolomon::new).
Encodes(scheme) == scheme.k > 0 /\ scheme.m > 0

\* assign_shards: the target scheme if the pool of healthy nodes is large enough for it,
\* else one shard per node, one of them parity at least.  A pool of one gets no parity.
Effective(target, pool) ==
    IF pool >= TotalShards(target) THEN target
    ELSE LET k == Lesser(target.k, Greater(pool - 1, 1)) IN [k |-> k, m |-> pool - k]

\* The nodes it picks from the pool: the least used ones, shuffled, so any of them.
TargetSets(target, pool) ==
    {T \in SUBSET pool :
        Cardinality(T) = Lesser(TotalShards(target), Cardinality(pool))}

\* Round-robin over the targets: how many of n shards each of them may get, in any order.
RoundRobins(n, targets) ==
    LET t == Cardinality(targets) IN
    {[node \in targets |-> n \div t + (IF node \in extra THEN 1 ELSE 0)] :
        extra \in {E \in SUBSET targets : Cardinality(E) = n % t}}

-----------------------------------------------------------------------------
(* get.                                                                    *)

\* Faulty variant: no second round.
GetFindsData(scheme, first, later) == first \cap 0..scheme.k-1

\* The shards a get ends up with: the data shards first, and if some fail, the parity
\* shards as well.  first and later are the shards that answer in the two rounds.
GetFinds(scheme, first, later) ==
    LET data == 0..scheme.k-1
        parity == Indexes(scheme) \ data
        got == first \cap data
    IN  IF Cardinality(got) >= scheme.k THEN got ELSE got \cup (later \cap parity)

GetSucceeds(scheme, first, later) == Cardinality(GetFinds(scheme, first, later)) >= scheme.k
=============================================================================
