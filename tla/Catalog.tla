------------------------------ MODULE Catalog ------------------------------
(***************************************************************************)
(* The catalog state machine (catalog/src/state.rs): the tables and their  *)
(* schema versions, the file manifest with its snapshot windows, the       *)
(* deletion vectors anchored on files, the idempotency index, the batches  *)
(* in flight, the compaction task directory derived from all that, the     *)
(* lease table, and the version counters caches refresh by.                *)
(*                                                                         *)
(* Every replica applies the same operations one at a time, so an action   *)
(* is one operation.  An operation that is refused, or that finds nothing  *)
(* to do, changes nothing and is not an action.                            *)
(***************************************************************************)
EXTENDS Leases, FiniteSetsExt

CONSTANTS
    Namespaces, DefaultSchema,  \* schemas, and the one that always exists
    Tables, NamespaceOf,        \* qualified table names, and their schemas
    Shards,
    Batches, NoBatch,           \* batch ids; a file is named by its batch
    DvIds,                      \* ids of DELETE and UPDATE statements
    Keys,                       \* client request ids
    PurgeIds,
    Nodes, Addresses,           \* data nodes and where they listen
    TaskFiles,                  \* files in a shard that make it a task
    DvMinCard, DvRatioDen       \* deleted rows, and 1/share of a file, that do

ASSUME SchemaAssumption ==
    DefaultSchema \in Namespaces /\ NamespaceOf \in [Tables -> Namespaces]
ASSUME NoBatchIsNone == NoBatch \notin Batches
ASSUME ThresholdAssumption ==
    TaskFiles \in Nat /\ DvMinCard \in Nat /\ DvRatioDen \in Nat

VARIABLES
    namespaces,          \* the schemas that exist
    tables,              \* table -> current schema version
    schemas,             \* the version chain: (table, version)
    datanodes,           \* node -> address
    files,               \* batch -> manifest entry
    deletions,           \* (statement, batch) -> deletion vector
    idempotency,         \* key -> (batch that committed it, when)
    in_flight,           \* batch announced before its upload -> when
    purged,              \* purge id -> snapshot it took effect at
    tasks,               \* (table, shard) -> why it is worth compacting
    snapshot_version,
    last_applied,
    schema_ver,          \* caches rebuild when it moves
    manifest_ver,        \* caches refresh the tables changed since
    table_manifest_ver   \* table -> manifest_ver of its last change

structure == <<namespaces, tables, schemas, datanodes>>
dataVars == <<files, deletions, tasks>>
memory == <<idempotency, in_flight, purged>>
counters == <<snapshot_version, last_applied, schema_ver, manifest_ver, table_manifest_ver>>
catalogVars == <<structure, dataVars, memory, counters, leases>>

-----------------------------------------------------------------------------
(* Snapshot windows. *)

ProtectsAt(f, s) == f.deleted_at = 0 \/ s < f.deleted_at
VisibleAt(f, s) == f.valid_from <= s /\ ProtectsAt(f, s)
ActiveAt(d, s) == d.applied_at <= s /\ (d.revoked_at = 0 \/ s < d.revoked_at)

\* What list_visible_files and list_deletions return.
VisibleFiles(t, s) == {b \in DOMAIN files : files[b].table = t /\ VisibleAt(files[b], s)}
ListDeletions(t, s) ==
    {k \in DOMAIN deletions : deletions[k].table = t /\ ActiveAt(deletions[k], s)}

FilesSince(s) ==
    {b \in DOMAIN files :
        files[b].valid_from > s \/ (files[b].deleted_at # 0 /\ files[b].deleted_at > s)}

KnownBatches ==
    {b \in DOMAIN files : ProtectsAt(files[b], snapshot_version)} \cup DOMAIN in_flight

ManifestDelta(v) ==
    {t \in DOMAIN table_manifest_ver : table_manifest_ver[t] > v}

-----------------------------------------------------------------------------
(* Partial functions. *)

Over(new, old) ==
    [x \in DOMAIN new \cup DOMAIN old |-> IF x \in DOMAIN new THEN new[x] ELSE old[x]]
Entry(k, v) == [x \in {k} |-> v]
Without(f, S) == Restrict(f, DOMAIN f \ S)

-----------------------------------------------------------------------------
(* The task directory. *)

ShardOf(f) == <<f.table, f.shard>>

ActiveCard(b) ==
    SumFunction([k \in {j \in DOMAIN deletions :
                           j[2] = b /\ ActiveAt(deletions[j], snapshot_version)}
                    |-> deletions[k].card])

DvWorth(card, rows) ==
    rows > 0 /\ card >= DvMinCard /\ card * DvRatioDen >= rows

\* The task of a shard, "none" if it is not worth a look.
TaskReason(shard) ==
    LET live == {b \in DOMAIN files :
                    ShardOf(files[b]) = shard /\ ProtectsAt(files[b], snapshot_version)}
    IN  IF Cardinality(live) >= TaskFiles THEN "files"
        ELSE IF \E b \in live : DvWorth(ActiveCard(b), files[b].rows) THEN "deletions"
        ELSE "none"

\* Slip: a task is never taken out.
RefreshDueOnly(S) ==
    tasks' = Over([shard \in {k \in S : TaskReason(k)' # "none"} |-> TaskReason(shard)'], tasks)

\* refresh_task for every shard in S, over the manifest as the operation
\* leaves it.
RefreshTasks(S) ==
    LET due == {shard \in S : TaskReason(shard)' # "none"}
    IN  tasks' = Over([shard \in due |-> TaskReason(shard)'], Without(tasks, S))

ShardsOfBatches(fs, B) == {ShardOf(fs[b]) : b \in B \cap DOMAIN fs}

-----------------------------------------------------------------------------
(* Versions. *)

NextSnapshot == snapshot_version' = snapshot_version + 1
BumpSchema == schema_ver' = schema_ver + 1
BumpManifestLate(t) ==                   \* slip: the table is stamped before the bump
    /\ manifest_ver' = manifest_ver + 1
    /\ table_manifest_ver' = Over(Entry(t, manifest_ver), table_manifest_ver)

BumpManifest(t) ==
    /\ manifest_ver' = manifest_ver + 1
    /\ table_manifest_ver' = Over(Entry(t, manifest_ver + 1), table_manifest_ver)
Applied == last_applied' = last_applied + 1

-----------------------------------------------------------------------------
(* Structure. *)

CreateSchema(n) ==
    /\ n \notin namespaces
    /\ namespaces' = namespaces \cup {n}
    /\ BumpSchema /\ Applied
    /\ UNCHANGED <<tables, schemas, datanodes, dataVars, memory, leases,
                   snapshot_version, manifest_ver, table_manifest_ver>>

DropSchema(n) ==
    /\ n # DefaultSchema
    /\ n \in namespaces
    /\ \A t \in DOMAIN tables : NamespaceOf[t] # n
    /\ namespaces' = namespaces \ {n}
    /\ BumpSchema /\ Applied
    /\ UNCHANGED <<tables, schemas, datanodes, dataVars, memory, leases,
                   snapshot_version, manifest_ver, table_manifest_ver>>

CreateTable(t) ==
    /\ NamespaceOf[t] \in namespaces
    /\ t \notin DOMAIN tables
    /\ tables' = Over(Entry(t, 1), tables)
    /\ schemas' = schemas \cup {<<t, 1>>}
    /\ BumpSchema /\ Applied
    /\ UNCHANGED <<namespaces, datanodes, dataVars, memory, leases,
                   snapshot_version, manifest_ver, table_manifest_ver>>

\* Optimistic: the caller names the version it evolved from.
EvolveSchema(t, expected) ==
    /\ t \in DOMAIN tables
    /\ tables[t] = expected
    /\ tables' = [tables EXCEPT ![t] = expected + 1]
    /\ schemas' = schemas \cup {<<t, expected + 1>>}
    /\ BumpSchema /\ Applied
    /\ UNCHANGED <<namespaces, datanodes, dataVars, memory, leases,
                   snapshot_version, manifest_ver, table_manifest_ver>>

VersionsOf(t) == {v \in schemas : v[1] = t}

\* The files and the deletion vectors go with the table; the tasks do not.
DropTable(t) ==
    /\ t \in DOMAIN tables
    /\ tables' = Without(tables, {t})
    /\ schemas' = schemas \ VersionsOf(t)
    /\ files' = RestrictDomain(files, LAMBDA b : files[b].table # t)
    /\ deletions' = RestrictDomain(deletions, LAMBDA k : deletions[k].table # t)
    /\ NextSnapshot /\ BumpSchema /\ BumpManifest(t) /\ Applied
    /\ UNCHANGED <<namespaces, datanodes, tasks, memory, leases>>

RegisterDatanode(n, a) ==
    /\ ~(n \in DOMAIN datanodes /\ datanodes[n] = a)
    /\ datanodes' = Over(Entry(n, a), datanodes)
    /\ BumpSchema
    /\ UNCHANGED <<namespaces, tables, schemas, dataVars, memory, leases,
                   snapshot_version, last_applied, manifest_ver, table_manifest_ver>>

RemoveDatanode(n) ==
    /\ n \in DOMAIN datanodes
    /\ datanodes' = Without(datanodes, {n})
    /\ BumpSchema
    /\ UNCHANGED <<namespaces, tables, schemas, dataVars, memory, leases,
                   snapshot_version, last_applied, manifest_ver, table_manifest_ver>>

-----------------------------------------------------------------------------
(* Writes. *)

NewFileAtOnce(t, shard, rows) ==         \* slip: it counts from the present snapshot
    [table |-> t, shard |-> shard, rows |-> rows,
     valid_from |-> snapshot_version, deleted_at |-> 0]

NewFile(t, shard, rows) ==
    [table |-> t, shard |-> shard, rows |-> rows,
     valid_from |-> snapshot_version + 1, deleted_at |-> 0]

\* A key another batch has committed; a key merely claimed (NoBatch) is not.
KeyTaken(k, b) ==
    k \in DOMAIN idempotency /\ idempotency[k].batch \notin {NoBatch, b}

CommitAnyFree(b, K) ==                   \* slip: one free key will do
    b \notin DOMAIN files /\ (K = {} \/ \E k \in K : ~KeyTaken(k, b))

CommitByKeys(b, K) == \A k \in K : ~KeyTaken(k, b)   \* slip: the batch is not looked for

CommitAccepted(b, K) == b \notin DOMAIN files /\ \A k \in K : ~KeyTaken(k, b)

CommitFiles(b, t, shard, rows, K, now) ==
    /\ CommitAccepted(b, K)
    /\ in_flight' = Without(in_flight, {b})
    /\ idempotency' = Over([k \in K |-> [batch |-> b, at |-> now]], idempotency)
    /\ files' = Over(Entry(b, NewFile(t, shard, rows)), files)
    /\ deletions' = deletions
    /\ NextSnapshot
    /\ RefreshTasks({<<t, shard>>})
    /\ BumpManifest(t) /\ Applied
    /\ UNCHANGED <<structure, purged, schema_ver, leases>>

\* One key of the batch belongs to another batch: the whole batch is a
\* duplicate.  Its announcement is already withdrawn.
CommitDuplicate(b, K) ==
    /\ b \notin DOMAIN files
    /\ \E k \in K : KeyTaken(k, b)
    /\ in_flight' = Without(in_flight, {b})
    /\ UNCHANGED <<structure, dataVars, idempotency, purged, counters, leases>>

RecordInFlight(b, now) ==
    /\ b \notin DOMAIN in_flight
    /\ in_flight' = Over(Entry(b, now), in_flight)
    /\ UNCHANGED <<structure, dataVars, idempotency, purged, counters, leases>>

SweepInFlight(ttl, now) ==
    /\ \E b \in DOMAIN in_flight : now >= in_flight[b] + ttl
    /\ in_flight' = RestrictDomain(in_flight, LAMBDA b : now < in_flight[b] + ttl)
    /\ UNCHANGED <<structure, dataVars, idempotency, purged, counters, leases>>

\* The claim of a key at the ingest entry; the first record stays.
RecordIdempotency(k, b, now) ==
    /\ k \notin DOMAIN idempotency
    /\ idempotency' = Over(Entry(k, [batch |-> b, at |-> now]), idempotency)
    /\ UNCHANGED <<structure, dataVars, in_flight, purged, counters, leases>>

SweepIdempotency(ttl, now) ==
    /\ \E k \in DOMAIN idempotency : now >= idempotency[k].at + ttl
    /\ idempotency' =
           RestrictDomain(idempotency, LAMBDA k : now < idempotency[k].at + ttl)
    /\ UNCHANGED <<structure, dataVars, in_flight, purged, counters, leases>>

-----------------------------------------------------------------------------
(* Deletions.  D gives each batch a statement marks rows of their number. *)

AnchorAlive(b) == b \in DOMAIN files => files[b].deleted_at = 0

FreshDeletions(d, D) == {k \in {d} \X DOMAIN D : k \notin DOMAIN deletions}

NewDeletions(t, fresh, D) ==
    [k \in fresh |-> [table |-> t, card |-> D[k[2]],
                      applied_at |-> snapshot_version + 1, revoked_at |-> 0]]

DeletionsOnKnown(D) == DOMAIN D \subseteq DOMAIN files   \* slip: the tombstone is not looked at

\* All the vectors of one statement take effect at one snapshot.  One dead
\* anchor refuses the statement, even if its vector is recorded already.
DeletionsAccepted(D) == \A b \in DOMAIN D : AnchorAlive(b)

ApplyDeletions(d, t, D) ==
    LET fresh == FreshDeletions(d, D) IN
    /\ DeletionsAccepted(D)
    /\ fresh # {}
    /\ deletions' = Over(NewDeletions(t, fresh, D), deletions)
    /\ NextSnapshot
    /\ files' = files
    /\ RefreshTasks(ShardsOfBatches(files, {k[2] : k \in fresh}))
    /\ BumpSchema
    /\ UNCHANGED <<structure, memory, leases,
                   last_applied, manifest_ver, table_manifest_ver>>

\* UPDATE: the vectors over the old rows and the files of the new ones (N
\* gives each its shard and rows) take effect at one snapshot.  Only the
\* anchors of new vectors are looked at.
UpdateAccepted(d, D) == \A k \in FreshDeletions(d, D) : AnchorAlive(k[2])

ApplyUpdate(d, t, D, N, now) ==
    LET fresh == FreshDeletions(d, D)
        new == DOMAIN N \ DOMAIN files
    IN
    /\ UpdateAccepted(d, D)
    /\ fresh # {} \/ new # {}
    /\ files' = Over([b \in new |-> NewFile(t, N[b].shard, N[b].rows)], files)
    /\ deletions' = Over(NewDeletions(t, fresh, D), deletions)
    /\ idempotency' = Over(Entry(d, [batch |-> NoBatch, at |-> now]), idempotency)
    /\ NextSnapshot /\ BumpManifest(t) /\ BumpSchema /\ Applied
    /\ RefreshTasks(ShardsOfBatches(files', new \cup {k[2] : k \in fresh}))
    /\ UNCHANGED <<structure, in_flight, purged, leases>>

\* Compaction has rewritten the file: its vectors stop counting at `at`.
RevokeDeletions(b, at) ==
    LET mine == {k \in DOMAIN deletions : k[2] = b /\ deletions[k].revoked_at = 0} IN
    /\ mine # {}
    /\ deletions' = Over([k \in mine |-> [deletions[k] EXCEPT !.revoked_at = at]], deletions)
    /\ files' = files
    /\ snapshot_version' = snapshot_version
    /\ RefreshTasks(ShardsOfBatches(files, {b}))
    /\ BumpSchema
    /\ UNCHANGED <<structure, memory, leases,
                   last_applied, manifest_ver, table_manifest_ver>>

-----------------------------------------------------------------------------
(* Retirement of files: tombstones at the next snapshot. *)

\* Slip: they go at the present snapshot.
RetiredAtOnce(B) == [b \in B |-> [files[b] EXCEPT !.deleted_at = snapshot_version]]

Retired(B) == [b \in B |-> [files[b] EXCEPT !.deleted_at = snapshot_version + 1]]

\* DELETE without WHERE, once per purge id.
PurgeTable(t, p) ==
    LET victims == {b \in DOMAIN files : files[b].table = t /\ files[b].deleted_at = 0}
        hanging == {k \in DOMAIN deletions :
                       deletions[k].table = t /\ deletions[k].revoked_at = 0}
    IN
    /\ p \notin DOMAIN purged
    /\ victims # {}
    /\ files' = Over(Retired(victims), files)
    /\ deletions' = Over([k \in hanging |->
           [deletions[k] EXCEPT !.revoked_at = snapshot_version + 1]], deletions)
    /\ NextSnapshot
    /\ purged' = Over(Entry(p, snapshot_version + 1), purged)
    /\ RefreshTasks(ShardsOfBatches(files, victims))
    /\ BumpManifest(t) /\ Applied
    /\ UNCHANGED <<structure, idempotency, in_flight, schema_ver, leases>>

\* With nothing to retire the id is remembered all the same, so that it can
\* never take effect on files still to come.
PurgeEmptyTable(t, p) ==
    /\ p \notin DOMAIN purged
    /\ \A b \in DOMAIN files : files[b].table = t => files[b].deleted_at # 0
    /\ purged' = Over(Entry(p, snapshot_version), purged)
    /\ UNCHANGED <<structure, dataVars, idempotency, in_flight, counters, leases>>

DropShard(t, shard) ==
    LET victims == {b \in DOMAIN files :
                       ShardOf(files[b]) = <<t, shard>> /\ files[b].deleted_at = 0}
    IN
    /\ files' = Over(Retired(victims), files)
    /\ deletions' = deletions
    /\ NextSnapshot
    /\ RefreshTasks({<<t, shard>>})
    /\ BumpManifest(t) /\ Applied
    /\ UNCHANGED <<structure, memory, schema_ver, leases>>

\* The fence, and the conflict check: an input retired meanwhile voids the
\* merge.  An input no longer in the manifest at all does not.
Fenced(epoch, purpose) == epoch < leases[purpose].epoch

CompactionUnchecked(O, epoch, purpose) ==    \* slip: no conflict check
    ~Fenced(epoch, purpose)

CompactionAccepted(O, epoch, purpose) ==
    ~Fenced(epoch, purpose) /\ \A b \in O : AnchorAlive(b)

\* Slip: every live file is taken for an input.
EveryLive(O) == {b \in DOMAIN files : files[b].deleted_at = 0}

InputsLeft(O) == O \cap DOMAIN files

CommitCompaction(O, n, t, shard, rows, epoch, purpose) ==
    /\ CompactionAccepted(O, epoch, purpose)
    /\ files' = Over(Entry(n, NewFile(t, shard, rows)),
                     Over(Retired(InputsLeft(O)), files))
    /\ deletions' = deletions
    /\ in_flight' = Without(in_flight, {n})
    /\ NextSnapshot
    /\ RefreshTasks({<<t, shard>>})
    /\ BumpManifest(t) /\ Applied
    /\ UNCHANGED <<structure, idempotency, purged, schema_ver, leases>>

-----------------------------------------------------------------------------
(* A replica restored from a snapshot: everything as it was, except that the
   task directory is computed afresh for the shards in the manifest. *)

TasksAfterRestore ==
    [shard \in {k \in ShardsOfBatches(files, DOMAIN files) : TaskReason(k) # "none"}
        |-> TaskReason(shard)]

RestoreSnapshot ==
    /\ tasks' = TasksAfterRestore
    /\ UNCHANGED <<structure, files, deletions, memory, counters, leases>>

-----------------------------------------------------------------------------

FileEntry ==
    [table : Tables, shard : Shards, rows : Nat, valid_from : Nat, deleted_at : Nat]
DeletionEntry ==
    [table : Tables, card : Nat, applied_at : Nat, revoked_at : Nat]
IdempotencyRecord == [batch : Batches \cup {NoBatch}, at : Nat]

IsMap(f, D, R) == DOMAIN f \subseteq D /\ f \in [DOMAIN f -> R]

CatalogType ==
    /\ LeasesType
    /\ namespaces \subseteq Namespaces
    /\ IsMap(tables, Tables, Nat)
    /\ schemas \subseteq Tables \X Nat
    /\ IsMap(datanodes, Nodes, Addresses)
    /\ IsMap(files, Batches, FileEntry)
    /\ IsMap(deletions, DvIds \X Batches, DeletionEntry)
    /\ IsMap(idempotency, Keys \cup DvIds, IdempotencyRecord)
    /\ IsMap(in_flight, Batches, Nat)
    /\ IsMap(purged, PurgeIds, Nat)
    /\ IsMap(tasks, Tables \X Shards, {"files", "deletions"})
    /\ snapshot_version \in Nat
    /\ last_applied \in Nat
    /\ schema_ver \in Nat
    /\ manifest_ver \in Nat
    /\ IsMap(table_manifest_ver, Tables, Nat)

Nothing == [x \in {} |-> x]

CatalogInit ==
    /\ LeasesInit
    /\ namespaces = {DefaultSchema}
    /\ schemas = {}
    /\ snapshot_version = 1
    /\ tables = Nothing
    /\ datanodes = Nothing
    /\ files = Nothing
    /\ deletions = Nothing
    /\ idempotency = Nothing
    /\ in_flight = Nothing
    /\ purged = Nothing
    /\ tasks = Nothing
    /\ table_manifest_ver = Nothing
    /\ last_applied = 0
    /\ schema_ver = 0
    /\ manifest_ver = 0
=============================================================================
