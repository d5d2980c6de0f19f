---------------------------- MODULE MCIndexState ----------------------------
(* Small instances of IndexState for TLC. *)
EXTENDS IndexState, TLC

CONSTANTS alice, bob, n1, n2, h1, h2

Shard(i, n, h) == [shard_index |-> i, node_id |-> n, blob_hash |-> h]

\* A manifest of two shards, a repair of it that moves the second one and stores a
\* byte more, and another object: a replica with k = 1, whose shards share their hash.
Base == [object_hash |-> "x", ciphertext_size |-> 1,
         shards |-> {Shard(0, n1, h1), Shard(1, n2, h2)}]
Moved == [object_hash |-> "x", ciphertext_size |-> 2,
          shards |-> {Shard(0, n1, h1), Shard(1, n1, h2)}]
Replica == [object_hash |-> "y", ciphertext_size |-> 2,
            shards |-> {Shard(0, n1, h1), Shard(1, n2, h1)}]

MCManifest == {Base, Moved, Replica}
MCAccount == {alice, bob}
MCBlob == {h1, h2}
Accounts == Permutations(MCAccount)
=============================================================================
