-------------------------- MODULE MCShardLifecycle --------------------------
(* Small instances of ShardLifecycle for TLC. *)
EXTENDS ShardLifecycle, TLC

CONSTANTS alice, op, n1, n2, h1, h2

Shard(i, n, h) == [shard_index |-> i, node_id |-> n, blob_hash |-> h]

\* Two puts of the same content (k = 1, m = 1: copies) make different blobs; a repair
\* of either may also find n1 alone in the pool (k = 1, m = 0).
Coded(shards) == [object_hash |-> "x", ciphertext_size |-> 1, k |-> 1, shards |-> shards]
Both(h) == Coded({Shard(0, n1, h), Shard(1, n2, h)})
Only(n, h) == Coded({Shard(0, n, h)})
Placements(h) == {Both(h), Only(n1, h)}

\* A single put, for liveness.
OneBlob == {h1}
OnePut == {Both(h1)}
OneManifest == Placements(h1)
OneRepairs == [m \in OneManifest |-> OneManifest]

MCAccount == {alice, op}
MCBlob == {h1, h2}
MCNode == {n1, n2}
MCPutManifest == {Both(h) : h \in MCBlob}
MCManifest == UNION {Placements(h) : h \in MCBlob}
MCRepairs == [m \in MCManifest |-> CHOOSE p \in {Placements(h) : h \in MCBlob} : m \in p]
MCWriter == {alice}
Blobs == Permutations(MCBlob)
=============================================================================
