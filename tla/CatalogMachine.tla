--------------------------- MODULE CatalogMachine ---------------------------
(***************************************************************************)
(* The catalog state machine under every sequence of the operations its    *)
(* clients send: flushes, DML statements, compactions, DDL, membership,    *)
(* leases, sweeps, and the restoration of a replica from a snapshot.       *)
(*                                                                         *)
(* A client works from what it listed at some earlier snapshot, so the     *)
(* arguments of a statement or a compaction are the files visible at any   *)
(* snapshot up to the present one.                                         *)
(***************************************************************************)
EXTENDS Catalog

CONSTANTS
    RowCounts, Cards,     \* rows of a file; rows a statement marks in a file
    Times, TTL,           \* the clocks operations carry; the terms they name
    MaxSnapshot,          \* bound on snapshot_version
    MaxSchemaVer,         \* bound on schema_ver
    MaxEpoch              \* bound on lease epochs

ASSUME InputAssumption ==
    /\ RowCounts \subseteq Nat /\ Cards \subseteq Nat /\ Times \subseteq Nat
    /\ TTL \in Nat \ {0}
    /\ MaxSnapshot \in Nat /\ MaxSchemaVer \in Nat /\ MaxEpoch \in Nat

\* The id of a statement is drawn where it is planned (sql/src/dml.rs): no
\* client names its request so.
ASSUME KeysAreNoStatements == Keys \cap DvIds = {}

vars == catalogVars

Init == CatalogInit
TypeOK == CatalogType

SnapshotLeft == snapshot_version < MaxSnapshot
SchemaLeft == schema_ver < MaxSchemaVer

Past == 1..snapshot_version

\* A table somebody can still be writing to: it exists, or it did.
Writable == DOMAIN tables \cup DOMAIN table_manifest_ver

FilesIn(t, shard, s) == {b \in VisibleFiles(t, s) : files[b].shard = shard}

-----------------------------------------------------------------------------

DdlStep ==
    /\ SchemaLeft
    /\ \/ \E n \in Namespaces : CreateSchema(n) \/ DropSchema(n)
       \/ \E t \in Tables : CreateTable(t)
       \/ \E t \in DOMAIN tables : EvolveSchema(t, tables[t])
       \/ SnapshotLeft /\ \E t \in Tables : DropTable(t)
       \/ \E n \in Nodes : \E a \in Addresses : RegisterDatanode(n, a)
       \/ \E n \in Nodes : RemoveDatanode(n)

FlushStep ==
    \/ \E b \in Batches, t \in Writable, shard \in Shards, rows \in RowCounts,
          K \in SUBSET Keys, now \in Times :
           SnapshotLeft /\ CommitFiles(b, t, shard, rows, K, now)
    \/ \E b \in Batches, K \in SUBSET Keys : CommitDuplicate(b, K)
    \/ \E b \in Batches \ DOMAIN files, now \in Times : RecordInFlight(b, now)
    \/ \E k \in Keys, now \in Times : RecordIdempotency(k, NoBatch, now)

SweepStep ==
    \E now \in Times : SweepInFlight(TTL, now) \/ SweepIdempotency(TTL, now)

DmlStep ==
    /\ SnapshotLeft /\ SchemaLeft
    /\ \E d \in DvIds, t \in Writable, s \in Past, card \in Cards :
       \E B \in (SUBSET VisibleFiles(t, s)) \ {{}} :
           LET D == [b \in B |-> card] IN
           \/ ApplyDeletions(d, t, D)
           \/ \E b \in Batches \ B, src \in B, now \in Times :
                  ApplyUpdate(d, t, D, Entry(b, [shard |-> files[src].shard, rows |-> card]), now)

RetireStep ==
    \/ \E t \in Writable, p \in PurgeIds :
           (SnapshotLeft /\ PurgeTable(t, p)) \/ PurgeEmptyTable(t, p)
    \/ \E t \in DOMAIN tables, shard \in Shards : SnapshotLeft /\ DropShard(t, shard)

CompactionStep ==
    \/ /\ SnapshotLeft
       /\ \E t \in Writable, shard \in Shards, s \in Past, rows \in RowCounts :
          \E n \in Batches \ DOMAIN files :
              /\ FilesIn(t, shard, s) # {}
              /\ \/ CommitCompaction(FilesIn(t, shard, s), n, t, shard, rows, 0, "compaction")
                 \/ \E h \in Holders : leases["compaction"].holder = h /\
                        CommitCompaction(FilesIn(t, shard, s), n, t, shard, rows,
                                         leases["compaction"].epoch, "compaction")
    \/ /\ SchemaLeft
       /\ \E b \in DOMAIN files :
              files[b].deleted_at # 0 /\ RevokeDeletions(b, files[b].deleted_at)

LeaseStep ==
    /\ \E p \in Purposes, h \in Holders, now \in Times :
           \/ leases[p].epoch < MaxEpoch /\ AcquireLease(p, h, now, TTL)
           \/ RenewLease(p, h, leases[p].epoch, now, TTL)
           \/ ReleaseLease(p, h, leases[p].epoch)
    /\ UNCHANGED <<structure, dataVars, memory, counters>>

Next ==
    \/ DdlStep \/ FlushStep \/ SweepStep \/ DmlStep
    \/ RetireStep \/ CompactionStep \/ LeaseStep \/ RestoreSnapshot

Spec == Init /\ [][Next]_vars

-----------------------------------------------------------------------------
(* Properties. *)

\* What a reader of table t sees at snapshot s: the files, and for each the
\* statements whose vectors apply.
View(t, s) ==
    [b \in VisibleFiles(t, s) |-> {d \in DvIds : <<d, b>> \in ListDeletions(t, s)}]

\* Snapshot isolation: no operation changes what a snapshot already taken
\* shows, until its table is dropped.
SnapshotIsolation ==
    [][\A t \in Tables : (t \in DOMAIN tables => t \in DOMAIN tables')
          => \A s \in Past : View(t, s)' = View(t, s)]_vars

\* A cache that compares version counters misses nothing: when the present
\* view of a table changes, schema_ver moves or the table is in the delta.
ChangesAreAnnounced ==
    [][\A t \in Tables :
          View(t, snapshot_version)' # View(t, snapshot_version)
             => \/ schema_ver' > schema_ver
                \/ \E v \in {manifest_ver} : t \in ManifestDelta(v)']_vars

\* No deletion vector is recorded that nobody will ever read: its file was
\* visible when it took effect.
VectorsHideRows ==
    \A k \in DOMAIN deletions :
        k[2] \in DOMAIN files =>
            VisibleAt(files[k[2]], deletions[k].applied_at)

\* Files and vectors come into force and go out of it in order, and never
\* ahead of the snapshot counter.
FileInOrder(f, s) ==
    /\ f.valid_from \in 1..s
    /\ f.deleted_at # 0 => f.deleted_at \in (f.valid_from + 1)..s
VectorInOrder(d, s) == d.applied_at \in 1..s /\ d.revoked_at \in 0..s

WindowsInOrder ==
    /\ \A b \in DOMAIN files : FileInOrder(files[b], snapshot_version)
    /\ \A k \in DOMAIN deletions : VectorInOrder(deletions[k], snapshot_version)

\* The task directory, kept up to date shard by shard as operations go by, is
\* what a full computation over the manifest gives, for every shard in it.
TasksUpToDate ==
    \A shard \in ShardsOfBatches(files, DOMAIN files) :
        IF TaskReason(shard) = "none" THEN shard \notin DOMAIN tasks
        ELSE shard \in DOMAIN tasks /\ tasks[shard] = TaskReason(shard)

\* A key committed by one batch is never taken over by another while its
\* record lasts.
KeysStayCommitted ==
    [][\A k \in Keys \cap DOMAIN idempotency \cap DOMAIN idempotency' :
          idempotency[k].batch \in {NoBatch, idempotency'[k].batch}]_vars

=============================================================================
