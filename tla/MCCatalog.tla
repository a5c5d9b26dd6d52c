----------------------------- MODULE MCCatalog -----------------------------
(* Small instances of the catalog state machine for TLC.  One behaviour uses
   one mix of the resources from beginning to end: a product of all of them
   at once is out of reach, and every operation belongs to some mix. *)
EXTENDS CatalogMachine, TLC

CONSTANTS b1, b2, b3, d1, d2, t1, t2

VARIABLE mix

TwoTables == {t1, t2}
ThreeBatches == {b1, b2, b3}
TwoStatements == {d1, d2}

\* t1 in the default schema, t2 in one that comes and goes.
TwoNamespaces == (t1 :> "public") @@ (t2 :> "app")

\* statements and merges on one shard; tasks of two shards; keys, leases and
\* clocks; schemas, tables and nodes.
Mixes ==
    [rows   |-> [tables |-> {t1}, shards |-> {"s0"}, batches |-> Batches, keys |-> {},
                 dvs |-> DvIds, times |-> {0}, holders |-> {}, purges |-> PurgeIds,
                 nodes |-> {}, schemas |-> {"public"}, snapshots |-> 5, ddl |-> 5],
     shards |-> [tables |-> {t1}, shards |-> Shards, batches |-> Batches, keys |-> {},
                 dvs |-> DvIds, times |-> {0}, holders |-> {}, purges |-> {},
                 nodes |-> {}, schemas |-> {"public"}, snapshots |-> 5, ddl |-> 4],
     keys   |-> [tables |-> {t1}, shards |-> {"s0"}, batches |-> Batches, keys |-> Keys,
                 dvs |-> {}, times |-> Times, holders |-> Holders, purges |-> {},
                 nodes |-> {}, schemas |-> {"public"}, snapshots |-> 4, ddl |-> 2],
     names  |-> [tables |-> Tables, shards |-> {}, batches |-> {}, keys |-> {},
                 dvs |-> {}, times |-> {0}, holders |-> {}, purges |-> PurgeIds,
                 nodes |-> Nodes, schemas |-> Namespaces, snapshots |-> 4, ddl |-> 8]]

Within(m) ==
    /\ DOMAIN tables' \subseteq m.tables
    /\ \A b \in DOMAIN files' : b \in m.batches /\ files'[b].shard \in m.shards
    /\ DOMAIN in_flight' \subseteq m.batches
    /\ \A k \in DOMAIN deletions' : k[1] \in m.dvs
    /\ DOMAIN idempotency' \subseteq m.keys \cup m.dvs
    /\ \A k \in DOMAIN idempotency' : idempotency'[k].at \in m.times
    /\ \A b \in DOMAIN in_flight' : in_flight'[b] \in m.times
    /\ \A p \in Purposes : leases'[p].holder \in m.holders \cup {NoHolder}
    /\ DOMAIN purged' \subseteq m.purges
    /\ DOMAIN datanodes' \subseteq m.nodes
    /\ namespaces' \subseteq m.schemas
    /\ snapshot_version' <= m.snapshots
    /\ schema_ver' <= m.ddl

InMix == Within(Mixes[mix]) /\ UNCHANGED mix

MCInit == Init /\ mix \in DOMAIN Mixes

MCNext ==
    \/ DdlStep /\ InMix
    \/ FlushStep /\ InMix
    \/ SweepStep /\ InMix /\ mix = "keys"
    \/ DmlStep /\ InMix
    \/ RetireStep /\ InMix
    \/ CompactionStep /\ InMix
    \/ LeaseStep /\ InMix
    \/ RestoreSnapshot /\ InMix

MCSpec == MCInit /\ [][MCNext]_<<vars, mix>>

NameSymmetry == Permutations(Batches) \cup Permutations(DvIds)
=============================================================================
