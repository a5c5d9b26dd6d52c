--------------------------- MODULE CatalogProofs ---------------------------
(***************************************************************************)
(* Theorems about the catalog state machine, for every set of tables,      *)
(* batches, statements, keys and lease purposes and every bound; then      *)
(* about the jobs that share its lease table (LeaseGate), and about the    *)
(* query over rows that move from chunks to files (Reads).                 *)
(***************************************************************************)
EXTENDS CatalogMachine, LeaseGate, Reads, FiniteSetTheorems, WellFoundedInduction, TLAPS

-----------------------------------------------------------------------------
(* Partial functions. *)

\* Overriding one map by another gives a map of the same type.
LEMMA OverIsMap ==
    ASSUME NEW D, NEW R, NEW f, NEW g, IsMap(f, D, R), IsMap(g, D, R)
    PROVE  IsMap(Over(f, g), D, R)
BY DEF IsMap, Over

\* A single entry of the right type is a map.
LEMMA EntryIsMap ==
    ASSUME NEW D, NEW R, NEW k \in D, NEW v \in R
    PROVE  IsMap(Entry(k, v), D, R)
BY DEF IsMap, Entry

\* So is a map restricted to some of its keys.
LEMMA RestrictIsMap ==
    ASSUME NEW D, NEW R, NEW f, IsMap(f, D, R), NEW S \in SUBSET DOMAIN f
    PROVE  IsMap(Restrict(f, S), D, R)
BY DEF IsMap, Restrict

LEMMA WithoutIsMap ==
    ASSUME NEW D, NEW R, NEW f, IsMap(f, D, R), NEW S
    PROVE  IsMap(Without(f, S), D, R)
BY RestrictIsMap DEF Without

LEMMA NothingIsMap ==
    ASSUME NEW D, NEW R
    PROVE  IsMap(Nothing, D, R)
BY DEF IsMap, Nothing

-----------------------------------------------------------------------------
(* The task directory. *)

\* Whatever the manifest, refreshing some shards keeps the directory's type.
LEMMA RefreshKeepsTasks ==
    ASSUME IsMap(tasks, Tables \X Shards, {"files", "deletions"}),
           NEW S \in SUBSET (Tables \X Shards), RefreshTasks(S)
    PROVE  IsMap(tasks', Tables \X Shards, {"files", "deletions"})
<1> DEFINE due == {shard \in S : TaskReason(shard)' # "none"}
           fresh == [shard \in due |-> TaskReason(shard)']
<1>1. \A shard : TaskReason(shard)' \in {"none", "files", "deletions"}
  BY DEF TaskReason
<1>2. IsMap(fresh, Tables \X Shards, {"files", "deletions"})
  BY <1>1 DEF IsMap
<1>3. IsMap(Without(tasks, S), Tables \X Shards, {"files", "deletions"})
  BY WithoutIsMap
<1>4. tasks' = Over(fresh, Without(tasks, S))
  BY DEF RefreshTasks
<1> QED BY <1>2, <1>3, <1>4, OverIsMap

\* The shards of files are shards.
LEMMA ShardsOfFiles ==
    ASSUME NEW fs, IsMap(fs, Batches, FileEntry), NEW B
    PROVE  ShardsOfBatches(fs, B) \subseteq Tables \X Shards
BY DEF IsMap, FileEntry, ShardsOfBatches, ShardOf

-----------------------------------------------------------------------------
(* Types of the records the operations write. *)

LEMMA NewFileType ==
    ASSUME snapshot_version \in Nat, NEW t \in Tables, NEW shard \in Shards, NEW rows \in Nat
    PROVE  NewFile(t, shard, rows) \in FileEntry
BY DEF NewFile, FileEntry

LEMMA RetiredType ==
    ASSUME CatalogType, NEW B \in SUBSET DOMAIN files
    PROVE  IsMap(Retired(B), Batches, FileEntry)
<1>1. B \subseteq Batches /\ \A b \in B : files[b] \in FileEntry
  BY DEF CatalogType, IsMap
<1>2. snapshot_version + 1 \in Nat
  BY DEF CatalogType
<1>3. \A b \in B : [files[b] EXCEPT !.deleted_at = snapshot_version + 1] \in FileEntry
  BY <1>1, <1>2 DEF FileEntry
<1> QED BY <1>1, <1>3 DEF Retired, IsMap

LEMMA NewDeletionsType ==
    ASSUME CatalogType, NEW d \in DvIds, NEW t \in Tables, NEW D, IsMap(D, Batches, Nat)
    PROVE  IsMap(NewDeletions(t, FreshDeletions(d, D), D), DvIds \X Batches, DeletionEntry)
BY DEF CatalogType, NewDeletions, FreshDeletions, IsMap, DeletionEntry

-----------------------------------------------------------------------------
(* Each operation keeps the types. *)

LEMMA DdlKeepsType ==
    ASSUME CatalogType, DdlStep
    PROVE  CatalogType'
<1>1. ASSUME NEW n \in Namespaces, CreateSchema(n) PROVE CatalogType'
  BY <1>1 DEF CreateSchema, BumpSchema, Applied, CatalogType, LeasesType, dataVars, memory
<1>2. ASSUME NEW n \in Namespaces, DropSchema(n) PROVE CatalogType'
  BY <1>2 DEF DropSchema, BumpSchema, Applied, CatalogType, LeasesType, dataVars, memory
<1>3. ASSUME NEW t \in Tables, CreateTable(t) PROVE CatalogType'
  <2>1. IsMap(tables', Tables, Nat)
    BY <1>3, EntryIsMap, OverIsMap DEF CreateTable, CatalogType
  <2> QED
    BY <1>3, <2>1 DEF CreateTable, BumpSchema, Applied, CatalogType, LeasesType, dataVars, memory
<1>4. ASSUME NEW t \in DOMAIN tables, EvolveSchema(t, tables[t]) PROVE CatalogType'
  <2>1. IsMap(tables', Tables, Nat) /\ schemas' \subseteq Tables \X Nat
    BY <1>4 DEF EvolveSchema, CatalogType, IsMap
  <2> QED
    BY <1>4, <2>1 DEF EvolveSchema, BumpSchema, Applied, CatalogType, LeasesType, dataVars, memory
<1>5. ASSUME NEW t \in Tables, DropTable(t) PROVE CatalogType'
  <2>1. IsMap(tables', Tables, Nat)
    BY <1>5, WithoutIsMap DEF DropTable, CatalogType
  <2>2. /\ IsMap(files', Batches, FileEntry)
        /\ IsMap(deletions', DvIds \X Batches, DeletionEntry)
    BY <1>5, RestrictIsMap DEF DropTable, CatalogType, RestrictDomain
  <2>3. IsMap(table_manifest_ver', Tables, Nat) /\ manifest_ver' \in Nat
    BY <1>5, EntryIsMap, OverIsMap DEF DropTable, CatalogType, BumpManifest
  <2> QED
    BY <1>5, <2>1, <2>2, <2>3
    DEF DropTable, NextSnapshot, BumpSchema, Applied, CatalogType, LeasesType, memory
<1>6. ASSUME NEW n \in Nodes, NEW a \in Addresses, RegisterDatanode(n, a) PROVE CatalogType'
  <2>1. IsMap(datanodes', Nodes, Addresses)
    BY <1>6, EntryIsMap, OverIsMap DEF RegisterDatanode, CatalogType
  <2> QED
    BY <1>6, <2>1 DEF RegisterDatanode, BumpSchema, CatalogType, LeasesType, dataVars, memory
<1>7. ASSUME NEW n \in Nodes, RemoveDatanode(n) PROVE CatalogType'
  <2>1. IsMap(datanodes', Nodes, Addresses)
    BY <1>7, WithoutIsMap DEF RemoveDatanode, CatalogType
  <2> QED
    BY <1>7, <2>1 DEF RemoveDatanode, BumpSchema, CatalogType, LeasesType, dataVars, memory
<1> QED BY <1>1, <1>2, <1>3, <1>4, <1>5, <1>6, <1>7 DEF DdlStep

LEMMA CommitFilesKeepsType ==
    ASSUME CatalogType, NEW b \in Batches, NEW t \in Tables, NEW shard \in Shards,
           NEW rows \in Nat, NEW K \in SUBSET Keys, NEW now \in Nat,
           CommitFiles(b, t, shard, rows, K, now)
    PROVE  CatalogType'
<1> DEFINE records == [k \in K |-> [batch |-> b, at |-> now]]
<1>1. IsMap(in_flight', Batches, Nat)
  BY WithoutIsMap DEF CommitFiles, CatalogType
<1>2. IsMap(idempotency', Keys \cup DvIds, IdempotencyRecord)
  <2>1. IsMap(records, Keys \cup DvIds, IdempotencyRecord)
    BY DEF IsMap, IdempotencyRecord
  <2> QED BY <2>1, OverIsMap DEF CommitFiles, CatalogType
<1>3. IsMap(files', Batches, FileEntry)
  BY NewFileType, EntryIsMap, OverIsMap DEF CommitFiles, CatalogType
<1>4. IsMap(tasks', Tables \X Shards, {"files", "deletions"})
  <2>1. {<<t, shard>>} \in SUBSET (Tables \X Shards)
    OBVIOUS
  <2> QED BY <2>1, RefreshKeepsTasks DEF CommitFiles, CatalogType
<1>5. IsMap(table_manifest_ver', Tables, Nat) /\ manifest_ver' \in Nat
  BY EntryIsMap, OverIsMap DEF CommitFiles, CatalogType, BumpManifest
<1> QED
  BY <1>1, <1>2, <1>3, <1>4, <1>5
  DEF CommitFiles, NextSnapshot, Applied, CatalogType, LeasesType, structure

LEMMA FlushKeepsType ==
    ASSUME CatalogType, FlushStep
    PROVE  CatalogType'
<1> USE InputAssumption
<1> Writable \subseteq Tables
  BY DEF CatalogType, IsMap, Writable
<1>1. ASSUME NEW b \in Batches, NEW t \in Writable, NEW shard \in Shards, NEW rows \in RowCounts,
             NEW K \in SUBSET Keys, NEW now \in Times, CommitFiles(b, t, shard, rows, K, now)
      PROVE  CatalogType'
  BY <1>1, CommitFilesKeepsType
<1>2. ASSUME NEW b \in Batches, NEW K \in SUBSET Keys, CommitDuplicate(b, K) PROVE CatalogType'
  BY <1>2, WithoutIsMap
  DEF CommitDuplicate, CatalogType, LeasesType, structure, dataVars, counters
<1>3. ASSUME NEW b \in Batches, NEW now \in Times, RecordInFlight(b, now) PROVE CatalogType'
  <2>1. IsMap(in_flight', Batches, Nat)
    BY <1>3, EntryIsMap, OverIsMap DEF RecordInFlight, CatalogType
  <2> QED
    BY <1>3, <2>1 DEF RecordInFlight, CatalogType, LeasesType, structure, dataVars, counters
<1>4. ASSUME NEW k \in Keys, NEW now \in Times, RecordIdempotency(k, NoBatch, now)
      PROVE  CatalogType'
  <2>1. [batch |-> NoBatch, at |-> now] \in IdempotencyRecord
    BY DEF IdempotencyRecord
  <2>2. IsMap(idempotency', Keys \cup DvIds, IdempotencyRecord)
    BY <1>4, <2>1, EntryIsMap, OverIsMap DEF RecordIdempotency, CatalogType
  <2> QED
    BY <1>4, <2>2 DEF RecordIdempotency, CatalogType, LeasesType, structure, dataVars, counters
<1> QED BY <1>1, <1>2, <1>3, <1>4 DEF FlushStep

LEMMA SweepKeepsType ==
    ASSUME CatalogType, SweepStep
    PROVE  CatalogType'
<1>1. ASSUME NEW now \in Times, SweepInFlight(TTL, now) PROVE CatalogType'
  <2>1. IsMap(in_flight', Batches, Nat)
    BY <1>1, RestrictIsMap DEF SweepInFlight, CatalogType, RestrictDomain
  <2> QED
    BY <1>1, <2>1 DEF SweepInFlight, CatalogType, LeasesType, structure, dataVars, counters
<1>2. ASSUME NEW now \in Times, SweepIdempotency(TTL, now) PROVE CatalogType'
  <2>1. IsMap(idempotency', Keys \cup DvIds, IdempotencyRecord)
    BY <1>2, RestrictIsMap DEF SweepIdempotency, CatalogType, RestrictDomain
  <2> QED
    BY <1>2, <2>1 DEF SweepIdempotency, CatalogType, LeasesType, structure, dataVars, counters
<1> QED BY <1>1, <1>2 DEF SweepStep

LEMMA ApplyDeletionsKeepsType ==
    ASSUME CatalogType, NEW d \in DvIds, NEW t \in Tables, NEW D, IsMap(D, Batches, Nat),
           ApplyDeletions(d, t, D)
    PROVE  CatalogType'
<1> DEFINE fresh == FreshDeletions(d, D)
<1>1. IsMap(deletions', DvIds \X Batches, DeletionEntry)
  BY NewDeletionsType, OverIsMap DEF ApplyDeletions, CatalogType
<1>2. ShardsOfBatches(files, {k[2] : k \in fresh}) \subseteq Tables \X Shards
  BY ShardsOfFiles DEF CatalogType
<1>3. IsMap(tasks', Tables \X Shards, {"files", "deletions"})
  BY <1>2, RefreshKeepsTasks DEF ApplyDeletions, CatalogType
<1> QED
  BY <1>1, <1>3
  DEF ApplyDeletions, NextSnapshot, BumpSchema, CatalogType, LeasesType, structure, memory

LEMMA ApplyUpdateKeepsType ==
    ASSUME CatalogType, NEW d \in DvIds, NEW t \in Tables, NEW D, IsMap(D, Batches, Nat),
           NEW N, IsMap(N, Batches, [shard : Shards, rows : Nat]), NEW now \in Nat,
           ApplyUpdate(d, t, D, N, now)
    PROVE  CatalogType'
<1> DEFINE fresh == FreshDeletions(d, D)
           new == DOMAIN N \ DOMAIN files
           added == [b \in new |-> NewFile(t, N[b].shard, N[b].rows)]
<1>1. IsMap(deletions', DvIds \X Batches, DeletionEntry)
  BY NewDeletionsType, OverIsMap DEF ApplyUpdate, CatalogType
<1>2. IsMap(files', Batches, FileEntry)
  <2>1. \A b \in new : NewFile(t, N[b].shard, N[b].rows) \in FileEntry
    BY DEF NewFile, FileEntry, IsMap, CatalogType
  <2>2. IsMap(added, Batches, FileEntry)
    BY <2>1 DEF IsMap
  <2> QED BY <2>2, OverIsMap DEF ApplyUpdate, CatalogType
<1>3. ShardsOfBatches(files', new \cup {k[2] : k \in fresh}) \subseteq Tables \X Shards
  BY <1>2, ShardsOfFiles
<1>4. IsMap(tasks', Tables \X Shards, {"files", "deletions"})
  BY <1>3, RefreshKeepsTasks DEF ApplyUpdate, CatalogType
<1>5. IsMap(idempotency', Keys \cup DvIds, IdempotencyRecord)
  <2>1. [batch |-> NoBatch, at |-> now] \in IdempotencyRecord
    BY DEF IdempotencyRecord
  <2> QED BY <2>1, EntryIsMap, OverIsMap DEF ApplyUpdate, CatalogType
<1>6. IsMap(table_manifest_ver', Tables, Nat) /\ manifest_ver' \in Nat
  BY EntryIsMap, OverIsMap DEF ApplyUpdate, CatalogType, BumpManifest
<1> QED
  BY <1>1, <1>2, <1>4, <1>5, <1>6
  DEF ApplyUpdate, NextSnapshot, BumpSchema, Applied, CatalogType, LeasesType, structure

LEMMA DmlKeepsType ==
    ASSUME CatalogType, DmlStep
    PROVE  CatalogType'
<1> USE InputAssumption
<1>1. Writable \subseteq Tables
  BY DEF CatalogType, IsMap, Writable
<1> SUFFICES ASSUME NEW d \in DvIds, NEW t \in Writable, NEW s \in Past, NEW card \in Cards,
                    NEW B \in SUBSET VisibleFiles(t, s),
                    LET D == [b \in B |-> card] IN
                    \/ ApplyDeletions(d, t, D)
                    \/ \E b \in Batches \ B, src \in B, now \in Times :
                          ApplyUpdate(d, t, D,
                              Entry(b, [shard |-> files[src].shard, rows |-> card]), now)
             PROVE  CatalogType'
  BY DEF DmlStep
<1> DEFINE D == [b \in B |-> card]
<1>2. B \subseteq DOMAIN files /\ B \subseteq Batches
  BY DEF VisibleFiles, CatalogType, IsMap
<1>3. IsMap(D, Batches, Nat)
  BY <1>2 DEF IsMap
<1>4. CASE ApplyDeletions(d, t, D)
  BY <1>1, <1>3, <1>4, ApplyDeletionsKeepsType
<1>5. ASSUME NEW b \in Batches, NEW src \in B, NEW now \in Times,
             ApplyUpdate(d, t, D, Entry(b, [shard |-> files[src].shard, rows |-> card]), now)
      PROVE  CatalogType'
  <2>1. files[src].shard \in Shards
    BY <1>2 DEF CatalogType, IsMap, FileEntry
  <2>2. IsMap(Entry(b, [shard |-> files[src].shard, rows |-> card]), Batches,
              [shard : Shards, rows : Nat])
    BY <2>1 DEF IsMap, Entry
  <2> QED BY <1>1, <1>3, <1>5, <2>2, ApplyUpdateKeepsType
<1> QED BY <1>4, <1>5

LEMMA RetireKeepsType ==
    ASSUME CatalogType, RetireStep
    PROVE  CatalogType'
<1> USE InputAssumption
<1>0. Writable \subseteq Tables /\ DOMAIN tables \subseteq Tables
  BY DEF CatalogType, IsMap, Writable
<1>1. ASSUME NEW t \in Tables, NEW p \in PurgeIds, PurgeTable(t, p) PROVE CatalogType'
  <2> DEFINE victims == {b \in DOMAIN files : files[b].table = t /\ files[b].deleted_at = 0}
             hanging == {k \in DOMAIN deletions :
                            deletions[k].table = t /\ deletions[k].revoked_at = 0}
             revoked == [k \in hanging |->
                            [deletions[k] EXCEPT !.revoked_at = snapshot_version + 1]]
  <2>1. IsMap(files', Batches, FileEntry)
    BY <1>1, RetiredType, OverIsMap DEF PurgeTable, CatalogType
  <2>2. IsMap(deletions', DvIds \X Batches, DeletionEntry)
    <3>1. snapshot_version + 1 \in Nat
      BY DEF CatalogType
    <3>2. \A k \in hanging : deletions[k] \in DeletionEntry
      BY DEF CatalogType, IsMap
    <3>3. \A k \in hanging :
              [deletions[k] EXCEPT !.revoked_at = snapshot_version + 1] \in DeletionEntry
      BY <3>1, <3>2 DEF DeletionEntry
    <3>4. IsMap(revoked, DvIds \X Batches, DeletionEntry)
      BY <3>3 DEF CatalogType, IsMap
    <3> QED BY <1>1, <3>4, OverIsMap DEF PurgeTable, CatalogType
  <2>3. IsMap(purged', PurgeIds, Nat)
    <3>1. snapshot_version + 1 \in Nat
      BY DEF CatalogType
    <3> QED BY <1>1, <3>1, EntryIsMap, OverIsMap DEF PurgeTable, CatalogType
  <2>4. IsMap(tasks', Tables \X Shards, {"files", "deletions"})
    <3>1. ShardsOfBatches(files, victims) \in SUBSET (Tables \X Shards)
      BY ShardsOfFiles DEF CatalogType
    <3> QED BY <1>1, <3>1, RefreshKeepsTasks DEF PurgeTable, CatalogType
  <2>5. IsMap(table_manifest_ver', Tables, Nat) /\ manifest_ver' \in Nat
    BY <1>1, EntryIsMap, OverIsMap DEF PurgeTable, CatalogType, BumpManifest
  <2> QED
    BY <1>1, <2>1, <2>2, <2>3, <2>4, <2>5
    DEF PurgeTable, NextSnapshot, Applied, CatalogType, LeasesType, structure
<1>2. ASSUME NEW t \in Tables, NEW p \in PurgeIds, PurgeEmptyTable(t, p) PROVE CatalogType'
  <2>1. IsMap(purged', PurgeIds, Nat)
    BY <1>2, EntryIsMap, OverIsMap DEF PurgeEmptyTable, CatalogType
  <2> QED
    BY <1>2, <2>1
    DEF PurgeEmptyTable, CatalogType, LeasesType, structure, dataVars, counters
<1>3. ASSUME NEW t \in Tables, NEW shard \in Shards, DropShard(t, shard) PROVE CatalogType'
  <2>1. IsMap(files', Batches, FileEntry)
    BY <1>3, RetiredType, OverIsMap DEF DropShard, CatalogType
  <2>2. IsMap(tasks', Tables \X Shards, {"files", "deletions"})
    <3>1. {<<t, shard>>} \in SUBSET (Tables \X Shards)
      OBVIOUS
    <3> QED BY <1>3, <3>1, RefreshKeepsTasks DEF DropShard, CatalogType
  <2>3. IsMap(table_manifest_ver', Tables, Nat) /\ manifest_ver' \in Nat
    BY <1>3, EntryIsMap, OverIsMap DEF DropShard, CatalogType, BumpManifest
  <2> QED
    BY <1>3, <2>1, <2>2, <2>3
    DEF DropShard, NextSnapshot, Applied, CatalogType, LeasesType, structure, memory
<1> QED BY <1>0, <1>1, <1>2, <1>3 DEF RetireStep

LEMMA CommitCompactionKeepsType ==
    ASSUME CatalogType, NEW O, NEW n \in Batches, NEW t \in Tables, NEW shard \in Shards,
           NEW rows \in Nat, NEW epoch, NEW purpose,
           CommitCompaction(O, n, t, shard, rows, epoch, purpose)
    PROVE  CatalogType'
<1>1. IsMap(files', Batches, FileEntry)
  <2>1. IsMap(Over(Retired(InputsLeft(O)), files), Batches, FileEntry)
    BY RetiredType, OverIsMap DEF CatalogType, InputsLeft
  <2>2. IsMap(Entry(n, NewFile(t, shard, rows)), Batches, FileEntry)
    BY NewFileType, EntryIsMap DEF CatalogType
  <2> QED BY <2>1, <2>2, OverIsMap DEF CommitCompaction, InputsLeft
<1>2. IsMap(in_flight', Batches, Nat)
  BY WithoutIsMap DEF CommitCompaction, CatalogType
<1>3. IsMap(tasks', Tables \X Shards, {"files", "deletions"})
  <2>1. {<<t, shard>>} \in SUBSET (Tables \X Shards)
    OBVIOUS
  <2> QED BY <2>1, RefreshKeepsTasks DEF CommitCompaction, CatalogType
<1>4. IsMap(table_manifest_ver', Tables, Nat) /\ manifest_ver' \in Nat
  BY EntryIsMap, OverIsMap DEF CommitCompaction, CatalogType, BumpManifest
<1> QED
  BY <1>1, <1>2, <1>3, <1>4
  DEF CommitCompaction, NextSnapshot, Applied, CatalogType, LeasesType, structure

LEMMA RevokeKeepsType ==
    ASSUME CatalogType, NEW b, NEW at \in Nat, RevokeDeletions(b, at)
    PROVE  CatalogType'
<1> DEFINE mine == {k \in DOMAIN deletions : k[2] = b /\ deletions[k].revoked_at = 0}
           revoked == [k \in mine |-> [deletions[k] EXCEPT !.revoked_at = at]]
<1>1. IsMap(deletions', DvIds \X Batches, DeletionEntry)
  <2>1. \A k \in mine : deletions[k] \in DeletionEntry
    BY DEF CatalogType, IsMap
  <2>2. \A k \in mine : [deletions[k] EXCEPT !.revoked_at = at] \in DeletionEntry
    BY <2>1 DEF DeletionEntry
  <2>3. IsMap(revoked, DvIds \X Batches, DeletionEntry)
    BY <2>2 DEF CatalogType, IsMap
  <2> QED BY <2>3, OverIsMap DEF RevokeDeletions, CatalogType
<1>2. IsMap(tasks', Tables \X Shards, {"files", "deletions"})
  <2>1. ShardsOfBatches(files, {b}) \in SUBSET (Tables \X Shards)
    BY ShardsOfFiles DEF CatalogType
  <2> QED BY <2>1, RefreshKeepsTasks DEF RevokeDeletions, CatalogType
<1> QED
  BY <1>1, <1>2 DEF RevokeDeletions, BumpSchema, CatalogType, LeasesType, structure, memory

LEMMA CompactionKeepsType ==
    ASSUME CatalogType, CompactionStep
    PROVE  CatalogType'
<1> USE InputAssumption
<1>1. Writable \subseteq Tables
  BY DEF CatalogType, IsMap, Writable
<1>2. ASSUME NEW t \in Writable, NEW shard \in Shards, NEW s \in Past, NEW rows \in RowCounts,
             NEW n \in Batches, NEW epoch,
             CommitCompaction(FilesIn(t, shard, s), n, t, shard, rows, epoch, "compaction")
      PROVE  CatalogType'
  BY <1>1, <1>2, CommitCompactionKeepsType
<1>3. ASSUME NEW b \in DOMAIN files, RevokeDeletions(b, files[b].deleted_at)
      PROVE  CatalogType'
  <2>1. files[b].deleted_at \in Nat
    BY DEF CatalogType, IsMap, FileEntry
  <2> QED BY <1>3, <2>1, RevokeKeepsType
<1> QED BY <1>2, <1>3 DEF CompactionStep

LEMMA LeaseStepKeepsType ==
    ASSUME CatalogType, LeaseStep
    PROVE  CatalogType'
<1> USE InputAssumption
<1>1. leases \in [Purposes -> LeaseEntry]
  BY DEF CatalogType, LeasesType
<1>2. LeasesType'
  <2> SUFFICES ASSUME NEW p \in Purposes, NEW h \in Holders, NEW now \in Times,
                      \/ AcquireLease(p, h, now, TTL)
                      \/ RenewLease(p, h, leases[p].epoch, now, TTL)
                      \/ ReleaseLease(p, h, leases[p].epoch)
               PROVE  LeasesType'
    BY DEF LeaseStep
  <2>1. leases[p] \in LeaseEntry /\ now + TTL \in Nat
    BY <1>1
  <2>2. CASE AcquireLease(p, h, now, TTL)
    <3>1. GrantEpoch(p, h) \in Nat
      BY <2>1 DEF GrantEpoch, LeaseEntry
    <3> QED BY <1>1, <2>1, <2>2, <3>1 DEF AcquireLease, LeasesType, LeaseEntry
  <2>3. CASE RenewLease(p, h, leases[p].epoch, now, TTL)
    BY <1>1, <2>1, <2>3 DEF RenewLease, LeasesType, LeaseEntry
  <2>4. CASE ReleaseLease(p, h, leases[p].epoch)
    BY <1>1, <2>1, <2>4 DEF ReleaseLease, LeasesType, LeaseEntry
  <2> QED BY <2>2, <2>3, <2>4
<1> QED
  BY <1>2 DEF LeaseStep, CatalogType, structure, dataVars, memory, counters

LEMMA RestoreKeepsType ==
    ASSUME CatalogType, RestoreSnapshot
    PROVE  CatalogType'
<1>1. ShardsOfBatches(files, DOMAIN files) \subseteq Tables \X Shards
  BY ShardsOfFiles DEF CatalogType
<1>2. \A shard : TaskReason(shard) \in {"none", "files", "deletions"}
  BY DEF TaskReason
<1>3. IsMap(tasks', Tables \X Shards, {"files", "deletions"})
  BY <1>1, <1>2 DEF RestoreSnapshot, TasksAfterRestore, IsMap
<1> QED
  BY <1>3 DEF RestoreSnapshot, CatalogType, LeasesType, structure, memory, counters

LEMMA InitType ==
    ASSUME Init
    PROVE  CatalogType
BY SchemaAssumption, NothingIsMap
DEF Init, CatalogInit, CatalogType, LeasesInit, LeasesType, LeaseEntry

LEMMA NextKeepsType ==
    ASSUME CatalogType, [Next]_vars
    PROVE  CatalogType'
<1>1. CASE UNCHANGED vars
  BY <1>1 DEF vars, catalogVars, structure, dataVars, memory, counters, CatalogType, LeasesType
<1> QED
  BY <1>1, DdlKeepsType, FlushKeepsType, SweepKeepsType, DmlKeepsType, RetireKeepsType,
     CompactionKeepsType, LeaseStepKeepsType, RestoreKeepsType DEF Next

\* No sequence of operations, in whatever order clients send them and however
\* stale the listing they were computed from, leaves the catalog ill-formed.
THEOREM TypeCorrect == Spec => []TypeOK
<1>1. Init => TypeOK
  BY InitType DEF TypeOK
<1>2. TypeOK /\ [Next]_vars => TypeOK'
  BY NextKeepsType DEF TypeOK
<1> QED BY <1>1, <1>2, PTL DEF Spec

-----------------------------------------------------------------------------
(* What any operation may do to the manifest and the deletion vectors. *)

Same(f, g, x) == x \in DOMAIN f /\ g[x] = f[x]

\* A file is added at the next snapshot, or retired at it, or left alone; it
\* disappears with its table only.
FilesEvolve ==
    /\ \A b \in DOMAIN files' :
          \/ Same(files, files', b)
          \/ /\ snapshot_version' = snapshot_version + 1
             /\ b \notin DOMAIN files
             /\ files'[b].valid_from = snapshot_version + 1 /\ files'[b].deleted_at = 0
          \/ /\ snapshot_version' = snapshot_version + 1
             /\ b \in DOMAIN files
             /\ files[b].deleted_at = 0
             /\ files'[b] = [files[b] EXCEPT !.deleted_at = snapshot_version + 1]
    /\ \A b \in DOMAIN files \ DOMAIN files' :
          files[b].table \in DOMAIN tables \ DOMAIN tables'

\* Likewise for a deletion vector, save that one revoked after a compaction
\* ends when its file did.
VectorsEvolve ==
    /\ \A k \in DOMAIN deletions' :
          \/ Same(deletions, deletions', k)
          \/ /\ snapshot_version' = snapshot_version + 1
             /\ k \notin DOMAIN deletions
             /\ deletions'[k].applied_at = snapshot_version + 1
             /\ deletions'[k].revoked_at = 0
          \/ /\ snapshot_version' = snapshot_version + 1
             /\ k \in DOMAIN deletions
             /\ deletions[k].revoked_at = 0
             /\ deletions'[k] = [deletions[k] EXCEPT !.revoked_at = snapshot_version + 1]
          \/ /\ files' = files /\ k \in DOMAIN deletions
             /\ deletions[k].revoked_at = 0
             /\ k[2] \in DOMAIN files /\ files[k[2]].deleted_at # 0
             /\ deletions'[k] = [deletions[k] EXCEPT !.revoked_at = files[k[2]].deleted_at]
    /\ \A k \in DOMAIN deletions \ DOMAIN deletions' :
          deletions[k].table \in DOMAIN tables \ DOMAIN tables'

ManifestEvolves ==
    /\ FilesEvolve /\ VectorsEvolve
    /\ snapshot_version' \in {snapshot_version, snapshot_version + 1}

LEMMA NothingChanges ==
    ASSUME UNCHANGED <<files, deletions, snapshot_version>>
    PROVE  ManifestEvolves
BY DEF ManifestEvolves, FilesEvolve, VectorsEvolve, Same

LEMMA DdlEvolves ==
    ASSUME CatalogType, DdlStep
    PROVE  ManifestEvolves
<1>1. ASSUME NEW n \in Namespaces, CreateSchema(n) \/ DropSchema(n) PROVE ManifestEvolves
  BY <1>1, NothingChanges DEF CreateSchema, DropSchema, dataVars
<1>2. ASSUME NEW t \in Tables, CreateTable(t) PROVE ManifestEvolves
  BY <1>2, NothingChanges DEF CreateTable, dataVars
<1>3. ASSUME NEW t \in DOMAIN tables, EvolveSchema(t, tables[t]) PROVE ManifestEvolves
  BY <1>3, NothingChanges DEF EvolveSchema, dataVars
<1>4. ASSUME NEW t \in Tables, DropTable(t) PROVE ManifestEvolves
  <2>1. t \in DOMAIN tables \ DOMAIN tables'
    BY <1>4 DEF DropTable, Without, Restrict
  <2>2. FilesEvolve
    BY <1>4, <2>1 DEF DropTable, FilesEvolve, Same, RestrictDomain, Restrict
  <2>3. VectorsEvolve
    BY <1>4, <2>1 DEF DropTable, VectorsEvolve, Same, RestrictDomain, Restrict
  <2> QED BY <1>4, <2>2, <2>3 DEF DropTable, NextSnapshot, ManifestEvolves
<1>5. ASSUME NEW n \in Nodes, NEW a \in Addresses, RegisterDatanode(n, a) PROVE ManifestEvolves
  BY <1>5, NothingChanges DEF RegisterDatanode, dataVars
<1>6. ASSUME NEW n \in Nodes, RemoveDatanode(n) PROVE ManifestEvolves
  BY <1>6, NothingChanges DEF RemoveDatanode, dataVars
<1> QED BY <1>1, <1>2, <1>3, <1>4, <1>5, <1>6 DEF DdlStep

\* Adding files at the next snapshot.
LEMMA AddingEvolves ==
    ASSUME NEW added, files' = Over(added, files),
           \A b \in DOMAIN added :
               /\ b \notin DOMAIN files
               /\ added[b].valid_from = snapshot_version + 1 /\ added[b].deleted_at = 0,
           snapshot_version' = snapshot_version + 1
    PROVE  FilesEvolve
BY DEF FilesEvolve, Over, Same

\* Adding vectors at the next snapshot.
LEMMA MarkingEvolves ==
    ASSUME NEW d, NEW t, NEW D, deletions' = Over(NewDeletions(t, FreshDeletions(d, D), D), deletions),
           snapshot_version' = snapshot_version + 1
    PROVE  VectorsEvolve
BY DEF VectorsEvolve, Over, Same, NewDeletions, FreshDeletions

\* Retiring live files at the next snapshot.
LEMMA RetiringEvolves ==
    ASSUME NEW B \in SUBSET DOMAIN files, \A b \in B : files[b].deleted_at = 0,
           files' = Over(Retired(B), files),
           snapshot_version' = snapshot_version + 1
    PROVE  FilesEvolve
BY DEF FilesEvolve, Over, Same, Retired

LEMMA CommitFilesEvolves ==
    ASSUME NEW b, NEW t, NEW shard, NEW rows, NEW K, NEW now,
           CommitFiles(b, t, shard, rows, K, now)
    PROVE  ManifestEvolves
<1>1. snapshot_version' = snapshot_version + 1 /\ deletions' = deletions
  BY DEF CommitFiles, NextSnapshot
<1>2. FilesEvolve
  BY <1>1, AddingEvolves DEF CommitFiles, CommitAccepted, Entry, NewFile
<1> QED BY <1>1, <1>2 DEF ManifestEvolves, VectorsEvolve, Same

LEMMA FlushEvolves ==
    ASSUME CatalogType, FlushStep
    PROVE  ManifestEvolves
<1>1. ASSUME NEW b, NEW t, NEW shard, NEW rows, NEW K, NEW now,
             CommitFiles(b, t, shard, rows, K, now)
      PROVE  ManifestEvolves
  BY <1>1, CommitFilesEvolves
<1>2. ASSUME NEW b, NEW K, CommitDuplicate(b, K) PROVE ManifestEvolves
  BY <1>2, NothingChanges DEF CommitDuplicate, dataVars, counters
<1>3. ASSUME NEW b, NEW now, RecordInFlight(b, now) PROVE ManifestEvolves
  BY <1>3, NothingChanges DEF RecordInFlight, dataVars, counters
<1>4. ASSUME NEW k, NEW now, RecordIdempotency(k, NoBatch, now) PROVE ManifestEvolves
  BY <1>4, NothingChanges DEF RecordIdempotency, dataVars, counters
<1> QED BY <1>1, <1>2, <1>3, <1>4 DEF FlushStep

LEMMA ApplyDeletionsEvolves ==
    ASSUME NEW d, NEW t, NEW D, ApplyDeletions(d, t, D)
    PROVE  ManifestEvolves
<1>1. snapshot_version' = snapshot_version + 1 /\ files' = files
  BY DEF ApplyDeletions, NextSnapshot
<1>2. VectorsEvolve
  BY <1>1, MarkingEvolves DEF ApplyDeletions
<1> QED BY <1>1, <1>2 DEF ManifestEvolves, FilesEvolve, Same

LEMMA ApplyUpdateEvolves ==
    ASSUME NEW d, NEW t, NEW D, NEW N, NEW now, ApplyUpdate(d, t, D, N, now)
    PROVE  ManifestEvolves
<1> DEFINE new == DOMAIN N \ DOMAIN files
           added == [b \in new |-> NewFile(t, N[b].shard, N[b].rows)]
<1>1. snapshot_version' = snapshot_version + 1
  BY DEF ApplyUpdate, NextSnapshot
<1>2. files' = Over(added, files)
  BY DEF ApplyUpdate
<1>3. \A b \in DOMAIN added :
          /\ b \notin DOMAIN files
          /\ added[b].valid_from = snapshot_version + 1 /\ added[b].deleted_at = 0
  BY DEF NewFile
<1>4. FilesEvolve
  <2> HIDE DEF added
  <2> QED BY <1>1, <1>2, <1>3, AddingEvolves
<1>5. VectorsEvolve
  BY <1>1, MarkingEvolves DEF ApplyUpdate
<1> QED BY <1>1, <1>4, <1>5 DEF ManifestEvolves

LEMMA DmlEvolves ==
    ASSUME CatalogType, DmlStep
    PROVE  ManifestEvolves
BY ApplyDeletionsEvolves, ApplyUpdateEvolves DEF DmlStep

LEMMA RetireEvolves ==
    ASSUME CatalogType, RetireStep
    PROVE  ManifestEvolves
<1>1. ASSUME NEW t, NEW p, PurgeTable(t, p) PROVE ManifestEvolves
  <2>1. snapshot_version' = snapshot_version + 1
    BY <1>1 DEF PurgeTable, NextSnapshot
  <2>2. FilesEvolve
    BY <1>1, <2>1, RetiringEvolves DEF PurgeTable
  <2>3. VectorsEvolve
    BY <1>1, <2>1 DEF PurgeTable, VectorsEvolve, Over, Same
  <2> QED BY <2>1, <2>2, <2>3 DEF ManifestEvolves
<1>2. ASSUME NEW t, NEW p, PurgeEmptyTable(t, p) PROVE ManifestEvolves
  BY <1>2, NothingChanges DEF PurgeEmptyTable, dataVars, counters
<1>3. ASSUME NEW t, NEW shard, DropShard(t, shard) PROVE ManifestEvolves
  <2>1. snapshot_version' = snapshot_version + 1 /\ deletions' = deletions
    BY <1>3 DEF DropShard, NextSnapshot
  <2>2. FilesEvolve
    BY <1>3, <2>1, RetiringEvolves DEF DropShard
  <2> QED BY <2>1, <2>2 DEF ManifestEvolves, VectorsEvolve, Same
<1> QED BY <1>1, <1>2, <1>3 DEF RetireStep

LEMMA CommitCompactionEvolves ==
    ASSUME NEW O, NEW n, n \notin DOMAIN files, NEW t, NEW shard, NEW rows, NEW epoch, NEW purpose,
           CommitCompaction(O, n, t, shard, rows, epoch, purpose)
    PROVE  ManifestEvolves
<1>1. snapshot_version' = snapshot_version + 1 /\ deletions' = deletions
  BY DEF CommitCompaction, NextSnapshot
<1>2. \A b \in O \cap DOMAIN files : files[b].deleted_at = 0
  BY DEF CommitCompaction, CompactionAccepted, AnchorAlive
<1>3. files' = Over(Entry(n, NewFile(t, shard, rows)),
                    Over(Retired(InputsLeft(O)), files))
  BY DEF CommitCompaction
<1>4. FilesEvolve
  BY <1>1, <1>2, <1>3 DEF FilesEvolve, Over, Same, Retired, Entry, NewFile, InputsLeft
<1> QED BY <1>1, <1>4 DEF ManifestEvolves, VectorsEvolve, Same

LEMMA RevokeEvolves ==
    ASSUME NEW b \in DOMAIN files, files[b].deleted_at # 0,
           RevokeDeletions(b, files[b].deleted_at)
    PROVE  ManifestEvolves
<1>1. files' = files /\ snapshot_version' = snapshot_version
  BY DEF RevokeDeletions
<1>2. VectorsEvolve
  BY <1>1 DEF RevokeDeletions, VectorsEvolve, Over, Same
<1> QED BY <1>1, <1>2 DEF ManifestEvolves, FilesEvolve, Same

LEMMA CompactionEvolves ==
    ASSUME CatalogType, CompactionStep
    PROVE  ManifestEvolves
BY CommitCompactionEvolves, RevokeEvolves DEF CompactionStep

\* Every step of the machine evolves the manifest this way.
LEMMA EveryStepEvolves ==
    ASSUME CatalogType, [Next]_vars
    PROVE  ManifestEvolves
<1>1. CASE SweepStep
  BY <1>1, NothingChanges
  DEF SweepStep, SweepInFlight, SweepIdempotency, dataVars, counters
<1>2. CASE LeaseStep
  BY <1>2, NothingChanges DEF LeaseStep, dataVars, counters
<1>3. CASE RestoreSnapshot
  BY <1>3, NothingChanges DEF RestoreSnapshot, counters
<1>4. CASE UNCHANGED vars
  BY <1>4, NothingChanges DEF vars, catalogVars, dataVars, counters
<1> QED
  BY <1>1, <1>2, <1>3, <1>4, DdlEvolves, FlushEvolves, DmlEvolves, RetireEvolves,
     CompactionEvolves DEF Next

-----------------------------------------------------------------------------
(* Windows, and snapshot isolation. *)

IInv == TypeOK /\ WindowsInOrder

LEMMA WindowsEvolve ==
    ASSUME CatalogType, CatalogType', ManifestEvolves, WindowsInOrder
    PROVE  WindowsInOrder'
<1>1. snapshot_version \in Nat /\ snapshot_version' \in {snapshot_version, snapshot_version + 1}
  BY DEF CatalogType, ManifestEvolves
<1>2. ASSUME NEW b \in DOMAIN files' PROVE FileInOrder(files'[b], snapshot_version')
  <2>1. b \in DOMAIN files => files[b] \in FileEntry /\ FileInOrder(files[b], snapshot_version)
    BY DEF CatalogType, IsMap, WindowsInOrder
  <2>2. CASE Same(files, files', b)
    BY <1>1, <2>1, <2>2 DEF Same, FileInOrder, FileEntry
  <2>3. CASE /\ snapshot_version' = snapshot_version + 1
             /\ files'[b].valid_from = snapshot_version + 1 /\ files'[b].deleted_at = 0
    BY <1>1, <2>3 DEF FileInOrder
  <2>4. CASE /\ snapshot_version' = snapshot_version + 1
             /\ b \in DOMAIN files
             /\ files'[b] = [files[b] EXCEPT !.deleted_at = snapshot_version + 1]
    BY <1>1, <2>1, <2>4 DEF FileInOrder, FileEntry
  <2> QED BY <2>2, <2>3, <2>4 DEF ManifestEvolves, FilesEvolve
<1>3. ASSUME NEW k \in DOMAIN deletions' PROVE VectorInOrder(deletions'[k], snapshot_version')
  <2>1. k \in DOMAIN deletions =>
            deletions[k] \in DeletionEntry /\ VectorInOrder(deletions[k], snapshot_version)
    BY DEF CatalogType, IsMap, WindowsInOrder
  <2>2. CASE Same(deletions, deletions', k)
    BY <1>1, <2>1, <2>2 DEF Same, VectorInOrder, DeletionEntry
  <2>3. CASE /\ snapshot_version' = snapshot_version + 1
             /\ deletions'[k].applied_at = snapshot_version + 1 /\ deletions'[k].revoked_at = 0
    BY <1>1, <2>3 DEF VectorInOrder
  <2>4. CASE /\ snapshot_version' = snapshot_version + 1
             /\ k \in DOMAIN deletions
             /\ deletions'[k] = [deletions[k] EXCEPT !.revoked_at = snapshot_version + 1]
    BY <1>1, <2>1, <2>4 DEF VectorInOrder, DeletionEntry
  <2>5. CASE /\ k \in DOMAIN deletions
             /\ k[2] \in DOMAIN files /\ files[k[2]].deleted_at # 0
             /\ deletions'[k] = [deletions[k] EXCEPT !.revoked_at = files[k[2]].deleted_at]
    <3>1. files[k[2]] \in FileEntry /\ FileInOrder(files[k[2]], snapshot_version)
      BY <2>5 DEF CatalogType, IsMap, WindowsInOrder
    <3>2. files[k[2]].deleted_at \in 0..snapshot_version
      BY <1>1, <2>5, <3>1 DEF FileInOrder, FileEntry
    <3> QED BY <1>1, <2>1, <2>5, <3>2 DEF VectorInOrder, DeletionEntry
  <2> QED BY <2>2, <2>3, <2>4, <2>5 DEF ManifestEvolves, VectorsEvolve
<1> QED BY <1>2, <1>3 DEF WindowsInOrder

LEMMA WindowsStayInOrder ==
    ASSUME IInv, [Next]_vars
    PROVE  WindowsInOrder'
BY EveryStepEvolves, NextKeepsType, WindowsEvolve DEF IInv, TypeOK

\* Files and vectors come into force and go out of it in order and never
\* ahead of the snapshot counter, for any number of operations.
THEOREM WindowsHold == Spec => []WindowsInOrder
<1>1. Init => IInv
  <2> SUFFICES ASSUME Init PROVE IInv
    OBVIOUS
  <2>1. TypeOK
    BY InitType DEF TypeOK
  <2>2. WindowsInOrder
    BY DEF Init, CatalogInit, WindowsInOrder, Nothing
  <2> QED BY <2>1, <2>2 DEF IInv
<1>2. IInv /\ [Next]_vars => IInv'
  <2> SUFFICES ASSUME IInv, [Next]_vars PROVE IInv'
    OBVIOUS
  <2> QED BY WindowsStayInOrder, NextKeepsType DEF IInv, TypeOK
<1>3. IInv => WindowsInOrder
  BY DEF IInv
<1> QED BY <1>1, <1>2, <1>3, PTL DEF Spec

LEMMA ViewStays ==
    ASSUME CatalogType, CatalogType', ManifestEvolves,
           NEW t \in Tables, t \in DOMAIN tables => t \in DOMAIN tables', NEW s \in Past
    PROVE  View(t, s)' = View(t, s)
<1>1. snapshot_version \in Nat /\ s \in Nat /\ s <= snapshot_version
  BY DEF CatalogType, Past
<1>2. \A b \in DOMAIN files : files[b] \in FileEntry
  BY DEF CatalogType, IsMap
<1>3. \A k \in DOMAIN deletions : deletions[k] \in DeletionEntry
  BY DEF CatalogType, IsMap
<1>4. ASSUME NEW b
      PROVE  b \in VisibleFiles(t, s)' <=> b \in VisibleFiles(t, s)
  <2>1. ASSUME b \in VisibleFiles(t, s)' PROVE b \in VisibleFiles(t, s)
    BY <1>1, <1>2, <2>1
    DEF ManifestEvolves, FilesEvolve, Same, VisibleFiles, VisibleAt, ProtectsAt, FileEntry
  <2>2. ASSUME b \in VisibleFiles(t, s) PROVE b \in VisibleFiles(t, s)'
    <3>1. b \in DOMAIN files'
      BY <2>2 DEF ManifestEvolves, FilesEvolve, VisibleFiles
    <3> QED
      BY <1>1, <1>2, <2>2, <3>1
      DEF ManifestEvolves, FilesEvolve, Same, VisibleFiles, VisibleAt, ProtectsAt, FileEntry
  <2> QED BY <2>1, <2>2
<1>5. VisibleFiles(t, s)' = VisibleFiles(t, s)
  BY <1>4
<1>6. ASSUME NEW b \in VisibleFiles(t, s), NEW d \in DvIds
      PROVE  <<d, b>> \in ListDeletions(t, s)' <=> <<d, b>> \in ListDeletions(t, s)
  <2> DEFINE k == <<d, b>>
  <2>0. k[2] = b
    OBVIOUS
  <2>1. b \in DOMAIN files /\ (files[b].deleted_at # 0 => s < files[b].deleted_at)
    BY DEF VisibleFiles, VisibleAt, ProtectsAt
  <2>2. b \in DOMAIN files => files[b] \in FileEntry
    BY <1>2
  <2> HIDE DEF k
  <2>3. ASSUME k \in ListDeletions(t, s)' PROVE k \in ListDeletions(t, s)
    BY <1>1, <1>3, <2>0, <2>1, <2>2, <2>3
    DEF ManifestEvolves, VectorsEvolve, Same, ListDeletions, ActiveAt, DeletionEntry, FileEntry
  <2>4. ASSUME k \in ListDeletions(t, s) PROVE k \in ListDeletions(t, s)'
    <3>1. k \in DOMAIN deletions'
      BY <2>4 DEF ManifestEvolves, VectorsEvolve, ListDeletions
    <3> QED
      BY <1>1, <1>3, <2>0, <2>1, <2>2, <2>4, <3>1
      DEF ManifestEvolves, VectorsEvolve, Same, ListDeletions, ActiveAt, DeletionEntry, FileEntry
  <2> QED BY <2>3, <2>4 DEF k
<1> QED BY <1>5, <1>6 DEF View

\* Snapshot isolation: what a snapshot already taken shows of a table that is
\* not dropped never changes again.
THEOREM SnapshotsAreStable == Spec => SnapshotIsolation
<1>1. TypeOK /\ [Next]_vars =>
        [\A t \in Tables : (t \in DOMAIN tables => t \in DOMAIN tables')
            => \A s \in Past : View(t, s)' = View(t, s)]_vars
  <2> SUFFICES ASSUME TypeOK, [Next]_vars, NEW t \in Tables,
                      t \in DOMAIN tables => t \in DOMAIN tables', NEW s \in Past
               PROVE  View(t, s)' = View(t, s)
    OBVIOUS
  <2> QED BY EveryStepEvolves, NextKeepsType, ViewStays DEF TypeOK
<1> QED BY <1>1, TypeCorrect, PTL DEF Spec, SnapshotIsolation

-----------------------------------------------------------------------------
(* The idempotency index. *)

\* No operation gives a key that one batch has committed to another.
LEMMA KeyKept ==
    ASSUME CatalogType, [Next]_vars, NEW k \in Keys, k \in DOMAIN idempotency,
           k \in DOMAIN idempotency'
    PROVE  idempotency[k].batch \in {NoBatch, idempotency'[k].batch}
<1> DEFINE Kept == idempotency'[k] = idempotency[k]
<1>1. ASSUME Kept PROVE idempotency[k].batch \in {NoBatch, idempotency'[k].batch}
  BY <1>1
<1>2. ASSUME NEW b, NEW t, NEW shard, NEW rows, NEW K, NEW now,
             CommitFiles(b, t, shard, rows, K, now)
      PROVE  idempotency[k].batch \in {NoBatch, idempotency'[k].batch}
  <2>1. CASE k \in K
    <3>1. idempotency[k].batch \in {NoBatch, b}
      BY <1>2, <2>1 DEF CommitFiles, CommitAccepted, KeyTaken
    <3>2. idempotency'[k].batch = b
      BY <1>2, <2>1 DEF CommitFiles, Over
    <3> QED BY <3>1, <3>2
  <2>2. CASE k \notin K
    BY <1>1, <1>2, <2>2 DEF CommitFiles, Over
  <2> QED BY <2>1, <2>2
<1>4. CASE DdlStep
  <2>1. idempotency' = idempotency
    BY <1>4
    DEF DdlStep, CreateSchema, DropSchema, CreateTable, EvolveSchema, DropTable,
        RegisterDatanode, RemoveDatanode, memory
  <2> QED BY <1>1, <2>1
<1>5. CASE FlushStep
  <2>1. ASSUME NEW b, NEW K, CommitDuplicate(b, K) PROVE Kept
    BY <2>1 DEF CommitDuplicate
  <2>2. ASSUME NEW b, NEW now, RecordInFlight(b, now) PROVE Kept
    BY <2>2 DEF RecordInFlight
  <2>3. ASSUME NEW j, NEW now, RecordIdempotency(j, NoBatch, now) PROVE Kept
    BY <2>3 DEF RecordIdempotency, Over, Entry
  <2> QED BY <1>1, <1>2, <1>5, <2>1, <2>2, <2>3 DEF FlushStep
<1>6. CASE SweepStep
  <2>1. ASSUME NEW now, SweepInFlight(TTL, now) PROVE Kept
    BY <2>1 DEF SweepInFlight
  <2>2. ASSUME NEW now, SweepIdempotency(TTL, now) PROVE Kept
    BY <2>2 DEF SweepIdempotency, RestrictDomain, Restrict
  <2> QED BY <1>1, <1>6, <2>1, <2>2 DEF SweepStep
<1>7. CASE DmlStep
  <2>1. ASSUME NEW d, NEW t, NEW D, ApplyDeletions(d, t, D) PROVE Kept
    BY <2>1 DEF ApplyDeletions, memory
  <2>2. ASSUME NEW d \in DvIds, NEW t, NEW D, NEW N, NEW now, ApplyUpdate(d, t, D, N, now)
        PROVE  Kept
    <3>1. k # d
      BY KeysAreNoStatements
    <3> QED BY <2>2, <3>1 DEF ApplyUpdate, Over, Entry
  <2>3. PICK d \in DvIds, t \in Writable, s \in Past, card \in Cards :
            \E B \in (SUBSET VisibleFiles(t, s)) \ {{}} :
                LET D == [b \in B |-> card] IN
                \/ ApplyDeletions(d, t, D)
                \/ \E b \in Batches \ B, src \in B, now \in Times :
                       ApplyUpdate(d, t, D,
                           Entry(b, [shard |-> files[src].shard, rows |-> card]), now)
    BY <1>7 DEF DmlStep
  <2>4. Kept
    <3> HIDE DEF Kept
    <3> QED BY <2>1, <2>2, <2>3
  <2> QED BY <1>1, <2>4
<1>8. CASE RetireStep
  <2>1. idempotency' = idempotency
    BY <1>8 DEF RetireStep, PurgeTable, PurgeEmptyTable, DropShard, memory
  <2> QED BY <1>1, <2>1
<1>9. CASE CompactionStep
  <2>1. ASSUME NEW O, NEW n, NEW t, NEW shard, NEW rows, NEW epoch,
               CommitCompaction(O, n, t, shard, rows, epoch, "compaction")
        PROVE  Kept
    BY <2>1 DEF CommitCompaction
  <2>2. ASSUME NEW b, NEW at, RevokeDeletions(b, at) PROVE Kept
    BY <2>2 DEF RevokeDeletions, memory
  <2>3. Kept
    <3> HIDE DEF Kept
    <3> QED BY <1>9, <2>1, <2>2 DEF CompactionStep
  <2> QED BY <1>1, <2>3
<1>10. CASE LeaseStep \/ RestoreSnapshot \/ UNCHANGED vars
  BY <1>1, <1>10 DEF LeaseStep, RestoreSnapshot, vars, catalogVars, memory
<1> QED BY <1>4, <1>5, <1>6, <1>7, <1>8, <1>9, <1>10 DEF Next

\* A key committed by one batch stays with it while its record lasts: two
\* batches that carry one request are never both taken.
THEOREM KeysKept == Spec => KeysStayCommitted
<1>1. TypeOK /\ [Next]_vars =>
        [\A k \in Keys \cap DOMAIN idempotency \cap DOMAIN idempotency' :
            idempotency[k].batch \in {NoBatch, idempotency'[k].batch}]_vars
  BY KeyKept DEF TypeOK
<1> QED BY <1>1, TypeCorrect, PTL DEF Spec, KeysStayCommitted

-----------------------------------------------------------------------------
(* Vectors and their anchors. *)

\* A vector stays as long as the file it marks, and belongs to its table.
VectorsAnchored ==
    \A k \in DOMAIN deletions :
        k[2] \in DOMAIN files /\ files[k[2]].table = deletions[k].table

\* What a step may do to vectors and files together: a vector that stays keeps
\* its file, and a new one is put on a live file of its table.
AnchorsStay ==
    \A k \in DOMAIN deletions' :
        IF k \in DOMAIN deletions
        THEN (k[2] \in DOMAIN files /\ files[k[2]].table = deletions[k].table)
                 => k[2] \in DOMAIN files'
        ELSE /\ k[2] \in DOMAIN files \cap DOMAIN files'
             /\ files[k[2]].deleted_at = 0 /\ files'[k[2]] = files[k[2]]
             /\ deletions'[k].table = files[k[2]].table

LEMMA NoTableNoVector ==
    ASSUME ManifestEvolves, DOMAIN tables \subseteq DOMAIN tables',
           DOMAIN deletions' \subseteq DOMAIN deletions
    PROVE  AnchorsStay
BY DEF ManifestEvolves, FilesEvolve, AnchorsStay

\* A statement marks files that were visible at some snapshot, and are alive.
LEMMA StatementsAnchor ==
    ASSUME CatalogType, DmlStep, ManifestEvolves
    PROVE  AnchorsStay
<1>2. PICK d \in DvIds, t \in Writable, s \in Past, card \in Cards :
          \E B \in (SUBSET VisibleFiles(t, s)) \ {{}} :
              LET D == [b \in B |-> card] IN
              \/ ApplyDeletions(d, t, D)
              \/ \E b \in Batches \ B, src \in B, now \in Times :
                     ApplyUpdate(d, t, D,
                         Entry(b, [shard |-> files[src].shard, rows |-> card]), now)
  BY DEF DmlStep
<1>3. PICK B \in SUBSET VisibleFiles(t, s) :
          LET D == [b \in B |-> card] IN
          \/ ApplyDeletions(d, t, D)
          \/ \E b \in Batches \ B, src \in B, now \in Times :
                 ApplyUpdate(d, t, D,
                     Entry(b, [shard |-> files[src].shard, rows |-> card]), now)
  BY <1>2
<1> DEFINE D == [b \in B |-> card]
           fresh == FreshDeletions(d, D)
<1>4. B \subseteq DOMAIN files /\ \A b \in B : files[b].table = t
  BY DEF VisibleFiles
<1>5. /\ deletions' = Over(NewDeletions(t, fresh, D), deletions)
      /\ \A k \in fresh : AnchorAlive(k[2])
  <2>1. CASE ApplyDeletions(d, t, D)
    <3>1. DeletionsAccepted(D) /\ deletions' = Over(NewDeletions(t, fresh, D), deletions)
      BY <2>1 DEF ApplyDeletions
    <3>2. \A k \in fresh : k[2] \in DOMAIN D
      BY DEF FreshDeletions
    <3> HIDE DEF D, fresh
    <3> QED BY <3>1, <3>2 DEF DeletionsAccepted
  <2>2. ASSUME NEW N, NEW now, ApplyUpdate(d, t, D, N, now)
        PROVE  /\ deletions' = Over(NewDeletions(t, fresh, D), deletions)
               /\ \A k \in fresh : AnchorAlive(k[2])
    BY <2>2 DEF ApplyUpdate, UpdateAccepted
  <2> HIDE DEF fresh
  <2> QED BY <1>3, <2>1, <2>2
<1>1. \A b \in DOMAIN files : Same(files, files', b) /\ b \in DOMAIN files'
  <2> DEFINE Kept == \A b \in DOMAIN files : Same(files, files', b) /\ b \in DOMAIN files'
  <2>1. ASSUME ApplyDeletions(d, t, D) PROVE Kept
    <3>1. files' = files
      BY <2>1 DEF ApplyDeletions
    <3> QED BY <3>1 DEF Same
  <2>2. ASSUME NEW N, NEW now, ApplyUpdate(d, t, D, N, now) PROVE Kept
    <3> DEFINE new == DOMAIN N \ DOMAIN files
               added == [b \in new |-> NewFile(t, N[b].shard, N[b].rows)]
    <3>1. files' = Over(added, files)
      BY <2>2 DEF ApplyUpdate
    <3>2. DOMAIN added = DOMAIN N \ DOMAIN files
      OBVIOUS
    <3> HIDE DEF added
    <3>3. ASSUME NEW b \in DOMAIN files PROVE files'[b] = files[b] /\ b \in DOMAIN files'
      BY <3>1, <3>2 DEF Over
    <3> QED BY <3>3 DEF Same
  <2> HIDE DEF Kept
  <2>3. Kept
    BY <1>3, <2>1, <2>2
  <2> QED BY <2>3 DEF Kept
<1>6. ASSUME NEW k \in DOMAIN deletions', k \notin DOMAIN deletions
      PROVE  k \in fresh /\ k[2] \in B /\ deletions'[k].table = t
  BY <1>5, <1>6 DEF Over, NewDeletions, FreshDeletions
<1>7. ASSUME NEW k \in DOMAIN deletions', k \notin DOMAIN deletions
      PROVE  /\ k[2] \in DOMAIN files \cap DOMAIN files'
             /\ files[k[2]].deleted_at = 0 /\ files'[k[2]] = files[k[2]]
             /\ deletions'[k].table = files[k[2]].table
  <2>1. k \in fresh /\ k[2] \in B /\ deletions'[k].table = t
    BY <1>6, <1>7
  <2>2. AnchorAlive(k[2])
    BY <1>5, <2>1
  <2> QED BY <1>1, <1>4, <2>1, <2>2 DEF AnchorAlive, Same
<1> QED BY <1>1, <1>7 DEF AnchorsStay

LEMMA DropAnchors ==
    ASSUME NEW t, DropTable(t)
    PROVE  AnchorsStay
BY DEF DropTable, AnchorsStay, RestrictDomain, Restrict

\* Every step keeps vectors on their files.
LEMMA EveryStepAnchors ==
    ASSUME CatalogType, [Next]_vars
    PROVE  AnchorsStay
<1>1. ManifestEvolves
  BY EveryStepEvolves
<1>2. CASE DdlStep
  <2>1. ASSUME NEW t, DropTable(t) PROVE AnchorsStay
    BY <2>1, DropAnchors
  <2>2. ASSUME NEW t, CreateTable(t) PROVE AnchorsStay
    BY <1>1, <2>2, NoTableNoVector DEF CreateTable, Over, Entry, dataVars
  <2>3. ASSUME NEW t, EvolveSchema(t, tables[t]) PROVE AnchorsStay
    BY <1>1, <2>3, NoTableNoVector DEF EvolveSchema, dataVars
  <2>4. ASSUME NEW n, CreateSchema(n) \/ DropSchema(n) PROVE AnchorsStay
    BY <1>1, <2>4, NoTableNoVector DEF CreateSchema, DropSchema, dataVars
  <2>5. ASSUME NEW n, NEW a, RegisterDatanode(n, a) PROVE AnchorsStay
    BY <1>1, <2>5, NoTableNoVector DEF RegisterDatanode, dataVars
  <2>6. ASSUME NEW n, RemoveDatanode(n) PROVE AnchorsStay
    BY <1>1, <2>6, NoTableNoVector DEF RemoveDatanode, dataVars
  <2> QED BY <1>2, <2>1, <2>2, <2>3, <2>4, <2>5, <2>6 DEF DdlStep
<1>3. ASSUME tables' = tables, DOMAIN deletions' \subseteq DOMAIN deletions PROVE AnchorsStay
  BY <1>1, <1>3, NoTableNoVector
<1>4. CASE FlushStep
  <2>1. ASSUME NEW b, NEW t, NEW shard, NEW rows, NEW K, NEW now,
               CommitFiles(b, t, shard, rows, K, now)
        PROVE  AnchorsStay
    BY <1>3, <2>1 DEF CommitFiles, structure
  <2>2. ASSUME NEW b, NEW K, CommitDuplicate(b, K) PROVE AnchorsStay
    BY <1>3, <2>2 DEF CommitDuplicate, structure, dataVars
  <2>3. ASSUME NEW b, NEW now, RecordInFlight(b, now) PROVE AnchorsStay
    BY <1>3, <2>3 DEF RecordInFlight, structure, dataVars
  <2>4. ASSUME NEW j, NEW now, RecordIdempotency(j, NoBatch, now) PROVE AnchorsStay
    BY <1>3, <2>4 DEF RecordIdempotency, structure, dataVars
  <2> QED BY <1>4, <2>1, <2>2, <2>3, <2>4 DEF FlushStep
<1>5. CASE SweepStep
  BY <1>3, <1>5 DEF SweepStep, SweepInFlight, SweepIdempotency, structure, dataVars
<1>6. CASE RetireStep
  <2>1. ASSUME NEW t, NEW p, PurgeTable(t, p) PROVE AnchorsStay
    <3>1. tables' = tables
      BY <2>1 DEF PurgeTable, structure
    <3>2. DOMAIN deletions' \subseteq DOMAIN deletions
      BY <2>1 DEF PurgeTable, Over
    <3> QED BY <1>3, <3>1, <3>2
  <2>2. ASSUME NEW t, NEW p, PurgeEmptyTable(t, p) PROVE AnchorsStay
    BY <1>3, <2>2 DEF PurgeEmptyTable, structure, dataVars
  <2>3. ASSUME NEW t, NEW shard, DropShard(t, shard) PROVE AnchorsStay
    BY <1>3, <2>3 DEF DropShard, structure
  <2> QED BY <1>6, <2>1, <2>2, <2>3 DEF RetireStep
<1>7. CASE CompactionStep
  <2>1. ASSUME NEW O, NEW n, NEW t, NEW shard, NEW rows, NEW epoch,
               CommitCompaction(O, n, t, shard, rows, epoch, "compaction")
        PROVE  AnchorsStay
    BY <1>3, <2>1 DEF CommitCompaction, structure
  <2>2. ASSUME NEW b, NEW at, RevokeDeletions(b, at) PROVE AnchorsStay
    <3>1. tables' = tables
      BY <2>2 DEF RevokeDeletions, structure
    <3>2. DOMAIN deletions' \subseteq DOMAIN deletions
      BY <2>2 DEF RevokeDeletions, Over
    <3> QED BY <1>3, <3>1, <3>2
  <2> QED BY <1>7, <2>1, <2>2 DEF CompactionStep
<1>8. CASE LeaseStep \/ RestoreSnapshot \/ UNCHANGED vars
  BY <1>3, <1>8 DEF LeaseStep, RestoreSnapshot, vars, catalogVars, structure, dataVars
<1> QED
  BY <1>1, <1>2, <1>4, <1>5, <1>6, <1>7, <1>8, StatementsAnchor DEF Next

VInv == IInv /\ VectorsAnchored /\ VectorsHideRows

LEMMA VectorsStayAnchored ==
    ASSUME VInv, [Next]_vars
    PROVE  VectorsAnchored' /\ VectorsHideRows'
<1>1. CatalogType /\ WindowsInOrder /\ ManifestEvolves /\ AnchorsStay
  BY EveryStepEvolves, EveryStepAnchors DEF VInv, IInv, TypeOK
<1>2. snapshot_version \in Nat /\ snapshot_version' \in {snapshot_version, snapshot_version + 1}
  BY <1>1 DEF CatalogType, ManifestEvolves
<1> SUFFICES ASSUME NEW k \in DOMAIN deletions'
             PROVE  /\ k[2] \in DOMAIN files' /\ files'[k[2]].table = deletions'[k].table
                    /\ VisibleAt(files'[k[2]], deletions'[k].applied_at)
  BY DEF VectorsAnchored, VectorsHideRows
<1> DEFINE b == k[2]
<1>3. b \in DOMAIN files /\ b \in DOMAIN files'
  BY <1>1 DEF AnchorsStay, VInv, VectorsAnchored
<1>4. files[b] \in FileEntry /\ FileInOrder(files[b], snapshot_version)
  BY <1>1, <1>3 DEF CatalogType, IsMap, WindowsInOrder
<1>5. \/ files'[b] = files[b]
      \/ /\ files[b].deleted_at = 0
         /\ files'[b] = [files[b] EXCEPT !.deleted_at = snapshot_version + 1]
  BY <1>1, <1>3 DEF ManifestEvolves, FilesEvolve, Same
<1>6. files'[b].table = files[b].table /\ files'[b].valid_from = files[b].valid_from
  BY <1>4, <1>5 DEF FileEntry
<1>7. CASE k \in DOMAIN deletions
  <2>1. deletions[k] \in DeletionEntry /\ VectorInOrder(deletions[k], snapshot_version)
    BY <1>1, <1>7 DEF CatalogType, IsMap, WindowsInOrder
  <2>2. /\ deletions'[k].table = deletions[k].table
        /\ deletions'[k].applied_at = deletions[k].applied_at
    BY <1>1, <1>7, <2>1 DEF ManifestEvolves, VectorsEvolve, Same, DeletionEntry
  <2>3. files[b].table = deletions[k].table /\ VisibleAt(files[b], deletions[k].applied_at)
    BY <1>3, <1>7 DEF VInv, VectorsAnchored, VectorsHideRows
  <2> HIDE DEF b
  <2>4. VisibleAt(files'[b], deletions[k].applied_at)
    <3>1. deletions[k].applied_at \in 1..snapshot_version
      BY <2>1 DEF VectorInOrder
    <3>2. CASE files'[b] = files[b]
      BY <2>3, <3>2
    <3>3. CASE files'[b] = [files[b] EXCEPT !.deleted_at = snapshot_version + 1]
      BY <1>2, <1>4, <2>3, <3>1, <3>3 DEF VisibleAt, ProtectsAt, FileEntry
    <3> QED BY <1>5, <3>2, <3>3
  <2> QED BY <1>3, <1>6, <2>2, <2>3, <2>4 DEF b
<1>8. CASE k \notin DOMAIN deletions
  <2>1. files[b].deleted_at = 0 /\ deletions'[k].table = files[b].table
    BY <1>1, <1>8 DEF AnchorsStay
  <2>2. snapshot_version' = snapshot_version + 1 /\ deletions'[k].applied_at = snapshot_version + 1
    BY <1>1, <1>8 DEF ManifestEvolves, VectorsEvolve, Same
  <2> HIDE DEF b
  <2>3. files'[b] = files[b] /\ files[b].valid_from <= snapshot_version + 1
    BY <1>1, <1>2, <1>4, <1>8 DEF AnchorsStay, FileInOrder, b
  <2> QED BY <1>3, <2>1, <2>2, <2>3 DEF b, VisibleAt, ProtectsAt
<1> QED BY <1>7, <1>8

LEMMA VInvInitially ==
    ASSUME Init
    PROVE  VInv
<1>1. TypeOK
  BY InitType DEF TypeOK
<1>2. WindowsInOrder /\ VectorsAnchored /\ VectorsHideRows
  BY DEF Init, CatalogInit, WindowsInOrder, VectorsAnchored, VectorsHideRows, Nothing
<1> QED BY <1>1, <1>2 DEF VInv, IInv

LEMMA VInvKept ==
    ASSUME VInv, [Next]_vars
    PROVE  VInv'
<1>1. IInv /\ CatalogType
  BY DEF VInv, IInv, TypeOK
<1> QED BY <1>1, WindowsStayInOrder, NextKeepsType, VectorsStayAnchored DEF VInv, IInv, TypeOK

\* No statement marks rows that nobody will ever read: where a vector took
\* effect its file was visible, whatever was retired between the planning of
\* the statement and its application.
THEOREM VectorsHold == Spec => []VectorsHideRows
<1>1. VInv => VectorsHideRows
  BY DEF VInv
<1> QED BY <1>1, VInvInitially, VInvKept, PTL DEF Spec

-----------------------------------------------------------------------------
(***************************************************************************)
(* The task directory is computed shard by shard as operations go by; here *)
(* it is proved to be, at every moment, what a computation over the whole  *)
(* manifest would give.  And the announcement of changes to the caches     *)
(* that compare version counters is proved to miss no change.              *)
(***************************************************************************)

(* The worth of a shard as a function of the manifest alone. *)

LiveIn(fs, shard) == {b \in DOMAIN fs : ShardOf(fs[b]) = shard /\ fs[b].deleted_at = 0}
MarksIn(ds, b) ==
    [k \in {j \in DOMAIN ds : j[2] = b /\ ds[j].revoked_at = 0} |-> ds[k].card]

ReasonIn(fs, ds, shard) ==
    IF Cardinality(LiveIn(fs, shard)) >= TaskFiles THEN "files"
    ELSE IF \E b \in LiveIn(fs, shard) : DvWorth(SumFunction(MarksIn(ds, b)), fs[b].rows)
         THEN "deletions"
    ELSE "none"

\* The present is past every window that has closed and in every one that has
\* opened, so the snapshot counter drops out of the computation.
ReasonsOfManifest == \A shard : TaskReason(shard) = ReasonIn(files, deletions, shard)

LEMMA ReasonIsOfManifest == CatalogType /\ WindowsInOrder => ReasonsOfManifest
<1> SUFFICES ASSUME CatalogType, WindowsInOrder, NEW shard
             PROVE  TaskReason(shard) = ReasonIn(files, deletions, shard)
  BY DEF ReasonsOfManifest
<1>1. snapshot_version \in Nat
  BY DEF CatalogType
<1>2. ASSUME NEW b \in DOMAIN files
      PROVE  ProtectsAt(files[b], snapshot_version) <=> files[b].deleted_at = 0
  <2>1. files[b] \in FileEntry /\ FileInOrder(files[b], snapshot_version)
    BY DEF CatalogType, IsMap, WindowsInOrder
  <2> QED BY <1>1, <2>1 DEF ProtectsAt, FileInOrder, FileEntry
<1>3. ASSUME NEW k \in DOMAIN deletions
      PROVE  ActiveAt(deletions[k], snapshot_version) <=> deletions[k].revoked_at = 0
  <2>1. deletions[k] \in DeletionEntry /\ VectorInOrder(deletions[k], snapshot_version)
    BY DEF CatalogType, IsMap, WindowsInOrder
  <2> QED BY <1>1, <2>1 DEF ActiveAt, VectorInOrder, DeletionEntry
<1> DEFINE live == {b \in DOMAIN files :
                       ShardOf(files[b]) = shard /\ ProtectsAt(files[b], snapshot_version)}
           active(b) == {j \in DOMAIN deletions :
                           j[2] = b /\ ActiveAt(deletions[j], snapshot_version)}
<1>4. live = LiveIn(files, shard)
  BY <1>2 DEF LiveIn
<1>5. ASSUME NEW b PROVE ActiveCard(b) = SumFunction(MarksIn(deletions, b))
  <2>1. active(b) = {j \in DOMAIN deletions : j[2] = b /\ deletions[j].revoked_at = 0}
    BY <1>3
  <2>2. [k \in active(b) |-> deletions[k].card] = MarksIn(deletions, b)
    BY <2>1 DEF MarksIn
  <2> QED BY <2>2 DEF ActiveCard
<1>6. TaskReason(shard) =
          IF Cardinality(live) >= TaskFiles THEN "files"
          ELSE IF \E b \in live : DvWorth(ActiveCard(b), files[b].rows) THEN "deletions"
          ELSE "none"
  BY DEF TaskReason
<1> HIDE DEF live
<1> QED BY <1>4, <1>5, <1>6 DEF ReasonIn

LEMMA ReasonIsOfManifestNext ==
    ASSUME CatalogType', WindowsInOrder', NEW shard
    PROVE  TaskReason(shard)' = ReasonIn(files', deletions', shard)
<1>1. CatalogType' /\ WindowsInOrder' => ReasonsOfManifest'
  BY ReasonIsOfManifest, PTL
<1> QED BY <1>1 DEF ReasonsOfManifest

-----------------------------------------------------------------------------
(* Steps that leave a shard alone. *)

\* The files of the shard stay as they are, and so do the vectors on those
\* that are alive.
ShardKept(shard) ==
    /\ \A b \in DOMAIN files :
           ShardOf(files[b]) = shard => b \in DOMAIN files' /\ files'[b] = files[b]
    /\ \A b \in DOMAIN files' :
           ShardOf(files'[b]) = shard => b \in DOMAIN files /\ files'[b] = files[b]
    /\ \A k \in DOMAIN deletions \cup DOMAIN deletions' :
           k[2] \in LiveIn(files, shard) =>
               /\ k \in DOMAIN deletions \cap DOMAIN deletions'
               /\ deletions'[k] = deletions[k]

LEMMA KeptShardKeepsReason ==
    ASSUME NEW shard, ShardKept(shard)
    PROVE  ReasonIn(files', deletions', shard) = ReasonIn(files, deletions, shard)
<1>1. LiveIn(files', shard) = LiveIn(files, shard)
  BY DEF ShardKept, LiveIn
<1>2. ASSUME NEW b \in LiveIn(files, shard)
      PROVE  files'[b] = files[b] /\ MarksIn(deletions', b) = MarksIn(deletions, b)
  <2>1. files'[b] = files[b]
    BY DEF LiveIn, ShardKept
  <2>2. \A k : (k \in DOMAIN deletions' /\ k[2] = b) <=> (k \in DOMAIN deletions /\ k[2] = b)
    BY DEF ShardKept
  <2>3. \A k \in DOMAIN deletions : k[2] = b => deletions'[k] = deletions[k]
    BY DEF ShardKept
  <2> QED BY <2>1, <2>2, <2>3 DEF MarksIn
<1> QED BY <1>1, <1>2 DEF ReasonIn

-----------------------------------------------------------------------------
(* What a step does to the directory. *)

\* It refreshes every shard whose files or vectors it touches, or touches
\* none that stays, or computes the directory afresh.
TasksRefreshed == \E S : RefreshTasks(S) /\ \A shard : shard \in S \/ ShardKept(shard)
TasksUntouched ==
    tasks' = tasks /\ \A shard \in ShardsOfBatches(files', DOMAIN files') : ShardKept(shard)
TasksFollow == TasksRefreshed \/ TasksUntouched \/ RestoreSnapshot

LEMMA ManifestAlone ==
    ASSUME UNCHANGED <<files, deletions, tasks>>
    PROVE  TasksFollow
<1>1. \A shard : ShardKept(shard)
  BY DEF ShardKept, LiveIn
<1> QED BY <1>1 DEF TasksFollow, TasksUntouched

LEMMA DdlFollows ==
    ASSUME VectorsAnchored, DdlStep
    PROVE  TasksFollow
<1>1. ASSUME NEW t, DropTable(t) PROVE TasksFollow
  <2>1. /\ files' = RestrictDomain(files, LAMBDA b : files[b].table # t)
        /\ deletions' = RestrictDomain(deletions, LAMBDA k : deletions[k].table # t)
        /\ tasks' = tasks
    BY <1>1 DEF DropTable
  <2>2. /\ DOMAIN files' = {b \in DOMAIN files : files[b].table # t}
        /\ \A b \in DOMAIN files' : files'[b] = files[b]
    BY <2>1 DEF RestrictDomain, Restrict
  <2>3. /\ DOMAIN deletions' = {k \in DOMAIN deletions : deletions[k].table # t}
        /\ \A k \in DOMAIN deletions' : deletions'[k] = deletions[k]
    BY <2>1 DEF RestrictDomain, Restrict
  <2>4. ASSUME NEW shard \in ShardsOfBatches(files', DOMAIN files') PROVE ShardKept(shard)
    <3>1. PICK c \in DOMAIN files' : shard = ShardOf(files'[c])
      BY DEF ShardsOfBatches
    <3>2. \A b \in DOMAIN files : ShardOf(files[b]) = shard => files[b].table # t
      BY <2>2, <3>1 DEF ShardOf
    <3> QED BY <2>2, <2>3, <3>2 DEF ShardKept, LiveIn, VectorsAnchored
  <2> QED BY <2>1, <2>4 DEF TasksFollow, TasksUntouched
<1>2. ASSUME NEW t, CreateTable(t) PROVE TasksFollow
  BY <1>2, ManifestAlone DEF CreateTable, dataVars
<1>3. ASSUME NEW t, EvolveSchema(t, tables[t]) PROVE TasksFollow
  BY <1>3, ManifestAlone DEF EvolveSchema, dataVars
<1>4. ASSUME NEW n, CreateSchema(n) \/ DropSchema(n) PROVE TasksFollow
  BY <1>4, ManifestAlone DEF CreateSchema, DropSchema, dataVars
<1>5. ASSUME NEW n, NEW a, RegisterDatanode(n, a) PROVE TasksFollow
  BY <1>5, ManifestAlone DEF RegisterDatanode, dataVars
<1>6. ASSUME NEW n, RemoveDatanode(n) PROVE TasksFollow
  BY <1>6, ManifestAlone DEF RemoveDatanode, dataVars
<1> QED BY <1>1, <1>2, <1>3, <1>4, <1>5, <1>6 DEF DdlStep

LEMMA FlushFollows ==
    ASSUME FlushStep
    PROVE  TasksFollow
<1>1. ASSUME NEW b, NEW t, NEW shard, NEW rows, NEW K, NEW now,
             CommitFiles(b, t, shard, rows, K, now)
      PROVE  TasksFollow
  <2>1. /\ b \notin DOMAIN files
        /\ files' = Over(Entry(b, NewFile(t, shard, rows)), files)
        /\ deletions' = deletions
        /\ RefreshTasks({<<t, shard>>})
    BY <1>1 DEF CommitFiles, CommitAccepted
  <2>2. /\ DOMAIN files' = {b} \cup DOMAIN files
        /\ \A c \in DOMAIN files : files'[c] = files[c]
        /\ ShardOf(files'[b]) = <<t, shard>>
    BY <2>1 DEF Over, Entry, NewFile, ShardOf
  <2>3. ASSUME NEW other, other # <<t, shard>> PROVE ShardKept(other)
    BY <2>1, <2>2, <2>3 DEF ShardKept, LiveIn
  <2> QED BY <2>1, <2>3 DEF TasksFollow, TasksRefreshed
<1>2. ASSUME NEW b, NEW K, CommitDuplicate(b, K) PROVE TasksFollow
  BY <1>2, ManifestAlone DEF CommitDuplicate, dataVars
<1>3. ASSUME NEW b, NEW now, RecordInFlight(b, now) PROVE TasksFollow
  BY <1>3, ManifestAlone DEF RecordInFlight, dataVars
<1>4. ASSUME NEW k, NEW now, RecordIdempotency(k, NoBatch, now) PROVE TasksFollow
  BY <1>4, ManifestAlone DEF RecordIdempotency, dataVars
<1> QED BY <1>1, <1>2, <1>3, <1>4 DEF FlushStep

\* New vectors are put on files whose shards are refreshed.
LEMMA MarkedShardsOnly ==
    ASSUME NEW d, NEW t, NEW D, NEW shard, NEW b \in DOMAIN files,
           ShardOf(files[b]) = shard, \A k \in FreshDeletions(d, D) : k[2] # b,
           deletions' = Over(NewDeletions(t, FreshDeletions(d, D), D), deletions),
           NEW k \in DOMAIN deletions \cup DOMAIN deletions', k[2] = b
    PROVE  k \in DOMAIN deletions \cap DOMAIN deletions' /\ deletions'[k] = deletions[k]
BY DEF Over, NewDeletions

LEMMA DmlFollows ==
    ASSUME DmlStep
    PROVE  TasksFollow
<1>1. ASSUME NEW d, NEW t, NEW D, ApplyDeletions(d, t, D) PROVE TasksFollow
  <2> DEFINE fresh == FreshDeletions(d, D)
             S == ShardsOfBatches(files, {k[2] : k \in fresh})
  <2>1. /\ files' = files
        /\ deletions' = Over(NewDeletions(t, fresh, D), deletions)
        /\ RefreshTasks(S)
    BY <1>1 DEF ApplyDeletions
  <2>2. ASSUME NEW shard, shard \notin S PROVE ShardKept(shard)
    <3>1. \A b \in DOMAIN files : ShardOf(files[b]) = shard => \A k \in fresh : k[2] # b
      BY <2>2 DEF ShardsOfBatches
    <3> QED BY <2>1, <3>1, MarkedShardsOnly DEF ShardKept, LiveIn
  <2> QED BY <2>1, <2>2 DEF TasksFollow, TasksRefreshed
<1>2. ASSUME NEW d, NEW t, NEW D, NEW N, NEW now, ApplyUpdate(d, t, D, N, now)
      PROVE  TasksFollow
  <2> DEFINE fresh == FreshDeletions(d, D)
             new == DOMAIN N \ DOMAIN files
             added == [b \in new |-> NewFile(t, N[b].shard, N[b].rows)]
             S == ShardsOfBatches(files', new \cup {k[2] : k \in fresh})
  <2>1. /\ files' = Over(added, files)
        /\ deletions' = Over(NewDeletions(t, fresh, D), deletions)
        /\ RefreshTasks(S)
    BY <1>2 DEF ApplyUpdate
  <2>2. DOMAIN added = new /\ new \cap DOMAIN files = {}
    OBVIOUS
  <2>3. DOMAIN files' = new \cup DOMAIN files /\ \A b \in DOMAIN files : files'[b] = files[b]
    <3> HIDE DEF added
    <3> QED BY <2>1, <2>2 DEF Over
  <2>4. ASSUME NEW shard, shard \notin S PROVE ShardKept(shard)
    <3>1. \A b \in DOMAIN files : ShardOf(files[b]) = shard => \A k \in fresh : k[2] # b
      BY <2>3, <2>4 DEF ShardsOfBatches
    <3>2. \A b \in new : ShardOf(files'[b]) # shard
      BY <2>3, <2>4 DEF ShardsOfBatches
    <3> HIDE DEF fresh, new
    <3>3. \A k \in DOMAIN deletions \cup DOMAIN deletions' :
             k[2] \in LiveIn(files, shard) =>
                 k \in DOMAIN deletions \cap DOMAIN deletions' /\ deletions'[k] = deletions[k]
      BY <2>1, <3>1, MarkedShardsOnly DEF LiveIn, fresh
    <3> QED BY <2>3, <3>2, <3>3 DEF ShardKept
  <2> HIDE DEF S
  <2> QED BY <2>1, <2>4 DEF TasksFollow, TasksRefreshed
<1>3. PICK d \in DvIds, t \in Writable, s \in Past, card \in Cards :
          \E B \in (SUBSET VisibleFiles(t, s)) \ {{}} :
              LET D == [b \in B |-> card] IN
              \/ ApplyDeletions(d, t, D)
              \/ \E b \in Batches \ B, src \in B, now \in Times :
                     ApplyUpdate(d, t, D,
                         Entry(b, [shard |-> files[src].shard, rows |-> card]), now)
  BY DEF DmlStep
<1> QED BY <1>1, <1>2, <1>3

LEMMA RetiredKeepsShard ==
    ASSUME CatalogType, NEW b \in DOMAIN files, NEW at
    PROVE  ShardOf([files[b] EXCEPT !.deleted_at = at]) = ShardOf(files[b])
<1>1. files[b] \in FileEntry
  BY DEF CatalogType, IsMap
<1> QED BY <1>1 DEF FileEntry, ShardOf

LEMMA RetireFollows ==
    ASSUME CatalogType, VectorsAnchored, RetireStep
    PROVE  TasksFollow
<1>1. ASSUME NEW t, NEW p, PurgeTable(t, p) PROVE TasksFollow
  <2> DEFINE victims == {b \in DOMAIN files : files[b].table = t /\ files[b].deleted_at = 0}
             hanging == {k \in DOMAIN deletions :
                            deletions[k].table = t /\ deletions[k].revoked_at = 0}
             ended == [k \in hanging |->
                          [deletions[k] EXCEPT !.revoked_at = snapshot_version + 1]]
             S == ShardsOfBatches(files, victims)
  <2>1. /\ files' = Over(Retired(victims), files)
        /\ deletions' = Over(ended, deletions)
        /\ RefreshTasks(S)
    BY <1>1 DEF PurgeTable
  <2>2. /\ DOMAIN files' = DOMAIN files
        /\ \A b \in DOMAIN files \ victims : files'[b] = files[b]
        /\ \A b \in victims : ShardOf(files'[b]) = ShardOf(files[b])
    BY <2>1, RetiredKeepsShard DEF Over, Retired
  <2>3. /\ DOMAIN deletions' = DOMAIN deletions
        /\ \A k \in DOMAIN deletions \ hanging : deletions'[k] = deletions[k]
    <3>1. DOMAIN ended = hanging
      OBVIOUS
    <3> HIDE DEF ended
    <3> QED BY <2>1, <3>1 DEF Over
  <2>4. ASSUME NEW shard, shard \notin S PROVE ShardKept(shard)
    <3>1. \A b \in victims : ShardOf(files[b]) # shard
      BY <2>4 DEF ShardsOfBatches
    <3>2. \A k \in hanging : k[2] \notin LiveIn(files, shard)
      BY <3>1 DEF VectorsAnchored, LiveIn
    <3> HIDE DEF victims, hanging
    <3> QED BY <2>2, <2>3, <3>1, <3>2 DEF ShardKept
  <2> HIDE DEF S
  <2> QED BY <2>1, <2>4 DEF TasksFollow, TasksRefreshed
<1>2. ASSUME NEW t, NEW p, PurgeEmptyTable(t, p) PROVE TasksFollow
  BY <1>2, ManifestAlone DEF PurgeEmptyTable, dataVars
<1>3. ASSUME NEW t, NEW shard, DropShard(t, shard) PROVE TasksFollow
  <2> DEFINE victims == {b \in DOMAIN files :
                            ShardOf(files[b]) = <<t, shard>> /\ files[b].deleted_at = 0}
  <2>1. /\ files' = Over(Retired(victims), files)
        /\ deletions' = deletions
        /\ RefreshTasks({<<t, shard>>})
    BY <1>3 DEF DropShard
  <2>2. /\ DOMAIN files' = DOMAIN files
        /\ \A b \in DOMAIN files \ victims : files'[b] = files[b]
        /\ \A b \in victims : ShardOf(files'[b]) = <<t, shard>>
    BY <2>1, RetiredKeepsShard DEF Over, Retired
  <2>3. ASSUME NEW other, other # <<t, shard>> PROVE ShardKept(other)
    <3>1. \A b \in victims : b \in DOMAIN files /\ ShardOf(files[b]) = <<t, shard>>
      OBVIOUS
    <3> HIDE DEF victims
    <3> QED BY <2>1, <2>2, <2>3, <3>1 DEF ShardKept, LiveIn
  <2> QED BY <2>1, <2>3 DEF TasksFollow, TasksRefreshed
<1> QED BY <1>1, <1>2, <1>3 DEF RetireStep

LEMMA CompactionFollows ==
    ASSUME CatalogType, CompactionStep
    PROVE  TasksFollow
<1>1. ASSUME NEW O, NEW n \in Batches \ DOMAIN files, NEW t, NEW shard, NEW rows, NEW epoch,
             \A b \in O : b \in DOMAIN files /\ ShardOf(files[b]) = <<t, shard>>,
             CommitCompaction(O, n, t, shard, rows, epoch, "compaction")
      PROVE  TasksFollow
  <2>1. /\ files' = Over(Entry(n, NewFile(t, shard, rows)), Over(Retired(O), files))
        /\ deletions' = deletions
        /\ RefreshTasks({<<t, shard>>})
    <3>1. InputsLeft(O) = O
      BY <1>1 DEF InputsLeft
    <3> QED BY <1>1, <3>1 DEF CommitCompaction
  <2>2. /\ DOMAIN files' = {n} \cup DOMAIN files
        /\ \A b \in DOMAIN files \ O : files'[b] = files[b]
        /\ \A b \in O : ShardOf(files'[b]) = <<t, shard>>
        /\ ShardOf(files'[n]) = <<t, shard>>
    <3>1. \A b \in O : ShardOf(Retired(O)[b]) = <<t, shard>>
      BY <1>1, RetiredKeepsShard DEF Retired
    <3>2. DOMAIN Retired(O) = O
      BY DEF Retired
    <3>3. ShardOf(NewFile(t, shard, rows)) = <<t, shard>>
      BY DEF NewFile, ShardOf
    <3> QED BY <1>1, <2>1, <3>1, <3>2, <3>3 DEF Over, Entry
  <2>3. ASSUME NEW other, other # <<t, shard>> PROVE ShardKept(other)
    BY <1>1, <2>1, <2>2, <2>3 DEF ShardKept, LiveIn
  <2> QED BY <2>1, <2>3 DEF TasksFollow, TasksRefreshed
<1>2. ASSUME NEW b, NEW at, RevokeDeletions(b, at) PROVE TasksFollow
  <2> DEFINE mine == {k \in DOMAIN deletions : k[2] = b /\ deletions[k].revoked_at = 0}
             ended == [k \in mine |-> [deletions[k] EXCEPT !.revoked_at = at]]
             S == ShardsOfBatches(files, {b})
  <2>1. /\ files' = files
        /\ deletions' = Over(ended, deletions)
        /\ RefreshTasks(S)
    BY <1>2 DEF RevokeDeletions
  <2>2. /\ DOMAIN deletions' = DOMAIN deletions
        /\ \A k \in DOMAIN deletions : k[2] # b => deletions'[k] = deletions[k]
    <3>1. DOMAIN ended = mine
      OBVIOUS
    <3> HIDE DEF ended
    <3> QED BY <2>1, <3>1 DEF Over
  <2>3. ASSUME NEW shard, shard \notin S PROVE ShardKept(shard)
    <3>1. b \notin LiveIn(files, shard)
      BY <2>3 DEF LiveIn, ShardsOfBatches
    <3> QED BY <2>1, <2>2, <3>1 DEF ShardKept
  <2> HIDE DEF S
  <2> QED BY <2>1, <2>3 DEF TasksFollow, TasksRefreshed
<1>3. ASSUME NEW t, NEW shard, NEW s, NEW b \in FilesIn(t, shard, s)
      PROVE  b \in DOMAIN files /\ ShardOf(files[b]) = <<t, shard>>
  BY DEF FilesIn, VisibleFiles, ShardOf
<1>4. ASSUME NEW t, NEW shard, NEW s, NEW n \in Batches \ DOMAIN files, NEW rows, NEW epoch,
             CommitCompaction(FilesIn(t, shard, s), n, t, shard, rows, epoch, "compaction")
      PROVE  TasksFollow
  BY <1>1, <1>3, <1>4
<1> HIDE DEF TasksFollow
<1> QED BY <1>2, <1>4 DEF CompactionStep

LEMMA EveryStepFollows ==
    ASSUME CatalogType, VectorsAnchored, [Next]_vars
    PROVE  TasksFollow
<1>1. CASE SweepStep \/ LeaseStep \/ UNCHANGED vars
  BY <1>1, ManifestAlone
  DEF SweepStep, SweepInFlight, SweepIdempotency, LeaseStep, vars, catalogVars, dataVars
<1>2. CASE RestoreSnapshot
  BY <1>2 DEF TasksFollow
<1> QED
  BY <1>1, <1>2, DdlFollows, FlushFollows, DmlFollows, RetireFollows, CompactionFollows DEF Next

-----------------------------------------------------------------------------

LEMMA FollowingIsUpToDate ==
    ASSUME CatalogType, CatalogType', WindowsInOrder, WindowsInOrder',
           TasksFollow, TasksUpToDate
    PROVE  TasksUpToDate'
<1> USE DEF ShardsOfBatches
<1>1. \A shard : TaskReason(shard) = ReasonIn(files, deletions, shard)
  BY ReasonIsOfManifest DEF ReasonsOfManifest
<1>2. \A shard : TaskReason(shard)' = ReasonIn(files', deletions', shard)
  BY ReasonIsOfManifestNext
<1> SUFFICES ASSUME NEW shard \in ShardsOfBatches(files', DOMAIN files')
             PROVE  IF ReasonIn(files', deletions', shard) = "none"
                    THEN shard \notin DOMAIN tasks'
                    ELSE shard \in DOMAIN tasks' /\ tasks'[shard] = ReasonIn(files', deletions', shard)
  BY <1>2 DEF TasksUpToDate
<1>3. ASSUME ShardKept(shard)
      PROVE  IF ReasonIn(files', deletions', shard) = "none"
             THEN shard \notin DOMAIN tasks
             ELSE shard \in DOMAIN tasks /\ tasks[shard] = ReasonIn(files', deletions', shard)
  <2>1. shard \in ShardsOfBatches(files, DOMAIN files)
    BY <1>3 DEF ShardKept
  <2> QED BY <1>1, <1>3, <2>1, KeptShardKeepsReason DEF TasksUpToDate
<1>4. CASE TasksRefreshed
  <2>1. PICK S : RefreshTasks(S) /\ \A other : other \in S \/ ShardKept(other)
    BY <1>4 DEF TasksRefreshed
  <2> DEFINE due == {other \in S : ReasonIn(files', deletions', other) # "none"}
  <2>2. tasks' = Over([other \in due |-> ReasonIn(files', deletions', other)], Without(tasks, S))
    BY <1>2, <2>1 DEF RefreshTasks
  <2>3. CASE shard \in S
    BY <2>2, <2>3 DEF Over, Without, Restrict
  <2>4. CASE shard \notin S
    BY <1>3, <2>1, <2>2, <2>4 DEF Over, Without, Restrict
  <2> QED BY <2>3, <2>4
<1>5. CASE TasksUntouched
  BY <1>3, <1>5 DEF TasksUntouched
<1>6. CASE RestoreSnapshot
  <2>1. files' = files /\ deletions' = deletions /\ tasks' = TasksAfterRestore
    BY <1>6 DEF RestoreSnapshot
  <2> QED BY <1>1, <2>1 DEF TasksAfterRestore
<1> QED BY <1>4, <1>5, <1>6 DEF TasksFollow

TInv == VInv /\ TasksUpToDate

\* The task directory is never behind: for every shard in the manifest it says
\* what a computation over all files and vectors would say, though an
\* operation recomputes only the shards it names and DROP TABLE none.
THEOREM TasksStayUpToDate == Spec => []TasksUpToDate
<1>1. Init => TInv
  <2> SUFFICES ASSUME Init PROVE TInv
    OBVIOUS
  <2>1. VInv
    BY VInvInitially
  <2>2. TasksUpToDate
    BY DEF Init, CatalogInit, TasksUpToDate, ShardsOfBatches, Nothing
  <2> QED BY <2>1, <2>2 DEF TInv
<1>2. TInv /\ [Next]_vars => TInv'
  <2> SUFFICES ASSUME TInv, [Next]_vars PROVE TInv'
    OBVIOUS
  <2>1. VInv'
    BY VInvKept DEF TInv
  <2>2. /\ CatalogType /\ CatalogType' /\ WindowsInOrder /\ WindowsInOrder'
        /\ VectorsAnchored /\ TasksUpToDate
    BY <2>1 DEF TInv, VInv, IInv, TypeOK
  <2> QED BY <2>1, <2>2, EveryStepFollows, FollowingIsUpToDate DEF TInv
<1>3. TInv => TasksUpToDate
  BY DEF TInv
<1> QED BY <1>1, <1>2, <1>3, PTL DEF Spec

-----------------------------------------------------------------------------
(* Announcements. *)

\* The files and the vectors of the table stay as they are.
Kept(old, new, t) ==
    /\ \A x \in DOMAIN old : old[x].table = t => x \in DOMAIN new /\ new[x] = old[x]
    /\ \A x \in DOMAIN new : new[x].table = t => x \in DOMAIN old /\ new[x] = old[x]
TableKept(t) == Kept(files, files', t) /\ Kept(deletions, deletions', t)

\* A step moves schema_ver, or stamps the one table it touches, or touches
\* none.
Stamps(t) ==
    /\ BumpManifest(t)
    /\ \A u : u = t \/ TableKept(u)
Announces == BumpSchema \/ (\E t : Stamps(t)) \/ (\A u : TableKept(u))

LEMMA AllKept ==
    ASSUME UNCHANGED <<files, deletions>>
    PROVE  Announces
BY DEF Announces, TableKept, Kept

LEMMA KeptTableKeepsView ==
    ASSUME CatalogType, WindowsInOrder, NEW t, TableKept(t),
           snapshot_version' \in {snapshot_version, snapshot_version + 1}
    PROVE  View(t, snapshot_version)' = View(t, snapshot_version)
<1>1. snapshot_version \in Nat
  BY DEF CatalogType
<1>2. ASSUME NEW b \in DOMAIN files
      PROVE  VisibleAt(files[b], snapshot_version') <=> VisibleAt(files[b], snapshot_version)
  <2>1. files[b] \in FileEntry /\ FileInOrder(files[b], snapshot_version)
    BY DEF CatalogType, IsMap, WindowsInOrder
  <2> QED BY <1>1, <2>1 DEF VisibleAt, ProtectsAt, FileInOrder, FileEntry
<1>3. ASSUME NEW k \in DOMAIN deletions
      PROVE  ActiveAt(deletions[k], snapshot_version') <=> ActiveAt(deletions[k], snapshot_version)
  <2>1. deletions[k] \in DeletionEntry /\ VectorInOrder(deletions[k], snapshot_version)
    BY DEF CatalogType, IsMap, WindowsInOrder
  <2> QED BY <1>1, <2>1 DEF ActiveAt, VectorInOrder, DeletionEntry
<1>4. VisibleFiles(t, snapshot_version)' = VisibleFiles(t, snapshot_version)
  BY <1>2 DEF VisibleFiles, TableKept, Kept
<1>5. ListDeletions(t, snapshot_version)' = ListDeletions(t, snapshot_version)
  BY <1>3 DEF ListDeletions, TableKept, Kept
<1> QED BY <1>4, <1>5 DEF View

LEMMA RetiredTable ==
    ASSUME CatalogType, NEW B \in SUBSET DOMAIN files, NEW b \in B
    PROVE  Retired(B)[b].table = files[b].table
<1>1. files[b] \in FileEntry
  BY DEF CatalogType, IsMap
<1> QED BY <1>1 DEF FileEntry, Retired

\* Retiring files of one table, adding files to it and revoking its vectors
\* leave the others alone.
LEMMA ChangedTableOnly ==
    ASSUME CatalogType, NEW t, BumpManifest(t), NEW B \in SUBSET DOMAIN files,
           \A b \in B : files[b].table = t,
           NEW added, DOMAIN added \cap DOMAIN files = {}, \A b \in DOMAIN added : added[b].table = t,
           files' = Over(added, Over(Retired(B), files)),
           DOMAIN deletions' = DOMAIN deletions,
           \A k \in DOMAIN deletions :
               deletions'[k] = deletions[k] \/ (deletions[k].table = t /\ deletions'[k].table = t)
    PROVE  Announces
<1>1. DOMAIN Retired(B) = B
  BY DEF Retired
<1>2. /\ DOMAIN files' = DOMAIN added \cup DOMAIN files
      /\ \A b \in DOMAIN files \ B : files'[b] = files[b]
      /\ \A b \in B : files'[b].table = t
      /\ \A b \in DOMAIN added : files'[b].table = t
  BY <1>1, RetiredTable DEF Over
<1>3. ASSUME NEW u, u # t PROVE TableKept(u)
  BY <1>2, <1>3 DEF TableKept, Kept
<1> QED BY <1>3 DEF Announces, Stamps

LEMMA FlushAnnounces ==
    ASSUME CatalogType, FlushStep
    PROVE  Announces
<1>1. ASSUME NEW b, NEW t, NEW shard, NEW rows, NEW K, NEW now,
             CommitFiles(b, t, shard, rows, K, now)
      PROVE  Announces
  <2>1. /\ b \notin DOMAIN files /\ deletions' = deletions /\ BumpManifest(t)
        /\ files' = Over(Entry(b, NewFile(t, shard, rows)), files)
    BY <1>1 DEF CommitFiles, CommitAccepted
  <2>2. /\ DOMAIN files' = {b} \cup DOMAIN files
        /\ \A c \in DOMAIN files : files'[c] = files[c]
        /\ files'[b].table = t
    BY <2>1 DEF Over, Entry, NewFile
  <2>3. ASSUME NEW u, u # t PROVE TableKept(u)
    BY <2>1, <2>2, <2>3 DEF TableKept, Kept
  <2> QED BY <2>1, <2>3 DEF Announces, Stamps
<1>2. ASSUME NEW b, NEW K, CommitDuplicate(b, K) PROVE Announces
  BY <1>2, AllKept DEF CommitDuplicate, dataVars
<1>3. ASSUME NEW b, NEW now, RecordInFlight(b, now) PROVE Announces
  BY <1>3, AllKept DEF RecordInFlight, dataVars
<1>4. ASSUME NEW k, NEW now, RecordIdempotency(k, NoBatch, now) PROVE Announces
  BY <1>4, AllKept DEF RecordIdempotency, dataVars
<1> QED BY <1>1, <1>2, <1>3, <1>4 DEF FlushStep

LEMMA RetireAnnounces ==
    ASSUME CatalogType, RetireStep
    PROVE  Announces
<1> DEFINE none == [b \in {} |-> 0]
<1>1. ASSUME NEW B \in SUBSET DOMAIN files, files' = Over(Retired(B), files)
      PROVE  files' = Over(none, Over(Retired(B), files))
  BY <1>1 DEF Over
<1>2. DOMAIN none = {}
  OBVIOUS
<1> HIDE DEF none
<1>3. ASSUME NEW t, NEW p, PurgeTable(t, p) PROVE Announces
  <2> DEFINE victims == {b \in DOMAIN files : files[b].table = t /\ files[b].deleted_at = 0}
             hanging == {k \in DOMAIN deletions :
                            deletions[k].table = t /\ deletions[k].revoked_at = 0}
             ended == [k \in hanging |->
                          [deletions[k] EXCEPT !.revoked_at = snapshot_version + 1]]
  <2>1. /\ files' = Over(Retired(victims), files)
        /\ deletions' = Over(ended, deletions)
        /\ BumpManifest(t)
    BY <1>3 DEF PurgeTable
  <2>2. victims \subseteq DOMAIN files /\ \A b \in victims : files[b].table = t
    OBVIOUS
  <2>3. DOMAIN ended = hanging /\ \A k \in hanging : k \in DOMAIN deletions /\ deletions[k].table = t
    OBVIOUS
  <2>4. \A k \in hanging : ended[k].table = t
    <3>1. \A k \in hanging : deletions[k] \in DeletionEntry
      BY DEF CatalogType, IsMap
    <3> QED BY <3>1 DEF DeletionEntry
  <2> HIDE DEF victims, hanging, ended
  <2>5. /\ DOMAIN deletions' = DOMAIN deletions
        /\ \A k \in DOMAIN deletions :
               deletions'[k] = deletions[k] \/ (deletions[k].table = t /\ deletions'[k].table = t)
    BY <2>1, <2>3, <2>4 DEF Over
  <2> QED BY <1>1, <1>2, <2>1, <2>2, <2>5, ChangedTableOnly
<1>4. ASSUME NEW t, NEW p, PurgeEmptyTable(t, p) PROVE Announces
  BY <1>4, AllKept DEF PurgeEmptyTable, dataVars
<1>5. ASSUME NEW t, NEW shard, DropShard(t, shard) PROVE Announces
  <2> DEFINE victims == {b \in DOMAIN files :
                            ShardOf(files[b]) = <<t, shard>> /\ files[b].deleted_at = 0}
  <2>1. /\ files' = Over(Retired(victims), files)
        /\ deletions' = deletions
        /\ BumpManifest(t)
    BY <1>5 DEF DropShard
  <2>2. victims \subseteq DOMAIN files /\ \A b \in victims : files[b].table = t
    BY DEF ShardOf
  <2> HIDE DEF victims
  <2> QED BY <1>1, <1>2, <2>1, <2>2, ChangedTableOnly
<1> QED BY <1>3, <1>4, <1>5 DEF RetireStep

LEMMA CompactionAnnounces ==
    ASSUME CatalogType, CompactionStep
    PROVE  Announces
<1>1. ASSUME NEW t, NEW shard, NEW s, NEW n \in Batches \ DOMAIN files, NEW rows, NEW epoch,
             CommitCompaction(FilesIn(t, shard, s), n, t, shard, rows, epoch, "compaction")
      PROVE  Announces
  <2> DEFINE O == FilesIn(t, shard, s)
             added == Entry(n, NewFile(t, shard, rows))
  <2>1. O \subseteq DOMAIN files /\ \A b \in O : files[b].table = t
    BY DEF FilesIn, VisibleFiles
  <2>2. InputsLeft(O) = O
    BY <2>1 DEF InputsLeft
  <2>3. files' = Over(added, Over(Retired(O), files)) /\ deletions' = deletions /\ BumpManifest(t)
    BY <1>1, <2>2 DEF CommitCompaction
  <2>4. DOMAIN added = {n} /\ added[n].table = t
    BY DEF Entry, NewFile
  <2> HIDE DEF O, added
  <2> QED BY <2>1, <2>3, <2>4, ChangedTableOnly
<1>2. ASSUME NEW b, NEW at, RevokeDeletions(b, at) PROVE Announces
  BY <1>2 DEF RevokeDeletions, Announces
<1> HIDE DEF Announces
<1> QED BY <1>1, <1>2 DEF CompactionStep

LEMMA EveryStepAnnounces ==
    ASSUME CatalogType, [Next]_vars
    PROVE  Announces
<1>1. CASE SweepStep \/ LeaseStep \/ RestoreSnapshot \/ UNCHANGED vars
  BY <1>1, AllKept
  DEF SweepStep, SweepInFlight, SweepIdempotency, LeaseStep, RestoreSnapshot,
      vars, catalogVars, dataVars
<1>2. CASE DdlStep
  BY <1>2
  DEF DdlStep, CreateSchema, DropSchema, CreateTable, EvolveSchema, DropTable,
      RegisterDatanode, RemoveDatanode, Announces
<1>3. CASE DmlStep
  <2>1. ASSUME NEW d, NEW t, NEW D, ApplyDeletions(d, t, D) PROVE Announces
    BY <2>1 DEF ApplyDeletions, Announces
  <2>2. ASSUME NEW d, NEW t, NEW D, NEW N, NEW now, ApplyUpdate(d, t, D, N, now) PROVE Announces
    BY <2>2 DEF ApplyUpdate, Announces
  <2>3. PICK d \in DvIds, t \in Writable, s \in Past, card \in Cards :
            \E B \in (SUBSET VisibleFiles(t, s)) \ {{}} :
                LET D == [b \in B |-> card] IN
                \/ ApplyDeletions(d, t, D)
                \/ \E b \in Batches \ B, src \in B, now \in Times :
                       ApplyUpdate(d, t, D,
                           Entry(b, [shard |-> files[src].shard, rows |-> card]), now)
    BY <1>3 DEF DmlStep
  <2> HIDE DEF Announces
  <2> QED BY <2>1, <2>2, <2>3
<1> QED
  BY <1>1, <1>2, <1>3, FlushAnnounces, RetireAnnounces, CompactionAnnounces DEF Next

\* A cache that compares version counters misses nothing: a step that changes
\* what the present shows of a table moves schema_ver or stamps the table with
\* the manifest version it reaches, the mere advance of the snapshot changing
\* no view.
THEOREM NothingChangesUnannounced == Spec => ChangesAreAnnounced
<1>1. IInv /\ [Next]_vars =>
        [\A t \in Tables :
            View(t, snapshot_version)' # View(t, snapshot_version)
               => \/ schema_ver' > schema_ver
                  \/ \E v \in {manifest_ver} : t \in ManifestDelta(v)']_vars
  <2> SUFFICES ASSUME IInv, [Next]_vars, NEW t \in Tables,
                      View(t, snapshot_version)' # View(t, snapshot_version)
               PROVE  \/ schema_ver' > schema_ver
                      \/ \E v \in {manifest_ver} : t \in ManifestDelta(v)'
    OBVIOUS
  <2>1. CatalogType /\ WindowsInOrder /\ Announces /\ ManifestEvolves
    BY EveryStepAnnounces, EveryStepEvolves DEF IInv, TypeOK
  <2>2. ~TableKept(t)
    BY <2>1, KeptTableKeepsView DEF ManifestEvolves
  <2>3. schema_ver \in Nat /\ manifest_ver \in Nat
    BY <2>1 DEF CatalogType
  <2>4. CASE BumpSchema
    BY <2>3, <2>4 DEF BumpSchema
  <2>5. CASE \E u : Stamps(u)
    <3>1. BumpManifest(t)
      BY <2>2, <2>5 DEF Stamps
    <3>2. t \in DOMAIN table_manifest_ver' /\ table_manifest_ver'[t] = manifest_ver + 1
      BY <3>1 DEF BumpManifest, Over, Entry
    <3> QED BY <2>3, <3>2 DEF ManifestDelta
  <2> QED BY <2>1, <2>2, <2>4, <2>5 DEF Announces
<1>2. Init => IInv
  BY VInvInitially DEF VInv
<1>3. IInv /\ [Next]_vars => IInv'
  <2> SUFFICES ASSUME IInv, [Next]_vars PROVE IInv'
    OBVIOUS
  <2> QED BY WindowsStayInOrder, NextKeepsType DEF IInv, TypeOK
<1> QED BY <1>1, <1>2, <1>3, PTL DEF Spec, ChangesAreAnnounced

-----------------------------------------------------------------------------
(* The lease table among them, for every number of jobs, every term and     *)
(* every bound: epochs name one holder for good, and, as long as no request *)
(* outlives its caller and clocks agree, two jobs are never both entitled.  *)


(* Type correctness: every reachable state of the protocol is well typed. *)

LEMMA ReplyTyped ==
    ASSUME LeasesType, NEW r \in Request
    PROVE  ReplyTo(r) \in Reply
BY JobAssumption, TermAssumption
   DEF ReplyTo, Reply, Request, Ops, LeasesType, LeaseEntry,
       HeldByOther, GrantEpoch, Renewable, Releasable

LEMMA ApplyTyped ==
    ASSUME GateTypeOK, NEW r \in Request, Apply(r)
    PROVE  /\ LeasesType'
           /\ granted' \subseteq [holder : Holders, epoch : Nat]
<1> USE JobAssumption, TermAssumption
<1>e. GrantEpoch(Job, r.holder) \in Nat
  BY DEF GateTypeOK, GrantEpoch, LeasesType, LeaseEntry, Request
<1>1. CASE AcquireLease(Job, r.holder, r.now, LeaseTTL)
           /\ granted' = granted \cup
                {[holder |-> r.holder, epoch |-> GrantEpoch(Job, r.holder)]}
  BY <1>1, <1>e DEF AcquireLease, GateTypeOK, LeasesType, LeaseEntry, Request
<1>2. CASE RenewLease(Job, r.holder, r.epoch, r.now, LeaseTTL) /\ UNCHANGED granted
  BY <1>2 DEF RenewLease, GateTypeOK, LeasesType, LeaseEntry, Request
<1>3. CASE ReleaseLease(Job, r.holder, r.epoch) /\ UNCHANGED granted
  BY <1>3 DEF ReleaseLease, GateTypeOK, LeasesType, LeaseEntry, Request
<1>4. CASE UNCHANGED <<leases, granted>>
  BY <1>4 DEF GateTypeOK, LeasesType
<1>5. QED
  BY <1>1, <1>2, <1>3, <1>4 DEF Apply

LEMMA TypeInit == GateInit => GateTypeOK
BY DEF GateInit, GateTypeOK, LeasesInit, LeasesType, LeaseEntry, NoGate, Idle, Call

LEMMA TypeStep == GateTypeOK /\ [GateNext]_gateVars => GateTypeOK'
<1> SUFFICES ASSUME GateTypeOK, [GateNext]_gateVars PROVE GateTypeOK'
  OBVIOUS
<1> USE DEF LeasesType
<1>1. CASE UNCHANGED gateVars
  BY <1>1 DEF GateTypeOK, gateVars
<1>2. CASE Tick
  BY <1>2 DEF GateTypeOK, Tick
<1>3. ASSUME NEW h \in Holders, StartRound(h) PROVE GateTypeOK'
  <2>1. PICK skew \in 0..MaxSkew :
             \/ AskForLease(h, clock + skew)
             \/ KeepLease(h, clock + skew)
             \/ AskForRenewal(h, clock + skew)
    BY <1>3 DEF StartRound
  <2>a. steady' \in BOOLEAN
    BY <1>3 DEF StartRound, GateTypeOK
  <2>2. clock + skew \in Nat
    BY TermAssumption DEF GateTypeOK
  <2>3. CASE AskForLease(h, clock + skew)
    BY <2>2, <2>a, <2>3 DEF AskForLease, Send, Waiting, GateTypeOK, Call, Request, Ops
  <2>4. CASE KeepLease(h, clock + skew)
    BY <2>a, <2>4 DEF KeepLease, GateTypeOK
  <2>5. CASE AskForRenewal(h, clock + skew)
    BY <2>2, <2>a, <2>5 DEF AskForRenewal, Send, Waiting, GateTypeOK, Call, Request, Ops
  <2>6. QED
    BY <2>1, <2>3, <2>4, <2>5
<1>4. ASSUME NEW h \in Holders, Deliver(h) PROVE GateTypeOK'
  <2>1. call[h].req \in Request
    BY <1>4 DEF Deliver, GateTypeOK, Call
  <2>2. ReplyTo(call[h].req) \in Reply
    BY <2>1, ReplyTyped DEF GateTypeOK
  <2>3. LeasesType' /\ granted' \subseteq [holder : Holders, epoch : Nat]
    BY <1>4, <2>1, ApplyTyped DEF Deliver
  <2>4. QED
    BY <1>4, <2>1, <2>2, <2>3 DEF Deliver, Answered, GateTypeOK, Call
<1>5. ASSUME NEW h \in Holders, TakeReply(h) PROVE GateTypeOK'
  <2>1. call[h].reply \in Reply
    BY <1>5 DEF TakeReply, GateTypeOK, Call
  <2>2. GateAfter(call[h].req, call[h].reply) \in [epoch : Nat, expires : Nat]
    BY <2>1 DEF GateAfter, NoGate, Reply
  <2>3. (call[h].reply.ok /\ call[h].req.op # "release") \in BOOLEAN
    BY <2>1 DEF Reply
  <2>4. QED
    BY <1>5, <2>2, <2>3 DEF TakeReply, GateTypeOK, Call, Idle
<1>6. ASSUME NEW h \in Holders, CallFails(h) PROVE GateTypeOK'
  BY <1>6 DEF CallFails, Abandon, GateTypeOK, Call, Idle, NoGate
<1>7. ASSUME NEW h \in Holders, FinishRound(h) PROVE GateTypeOK'
  BY <1>7 DEF FinishRound, GateTypeOK
<1>8. ASSUME NEW h \in Holders, GiveBack(h) PROVE GateTypeOK'
  BY <1>8 DEF GiveBack, Waiting, GateTypeOK, Call, Request, Ops, NoGate
<1>9. ASSUME NEW h \in Holders, Crash(h) PROVE GateTypeOK'
  BY <1>9 DEF Crash, Abandon, GateTypeOK, Call, Idle, NoGate
<1>10. ASSUME NEW r \in late, DeliverLate(r) PROVE GateTypeOK'
  <2>1. r \in Request
    BY <1>10 DEF GateTypeOK
  <2>2. LeasesType' /\ granted' \subseteq [holder : Holders, epoch : Nat]
    BY <1>10, <2>1, ApplyTyped DEF DeliverLate
  <2>3. QED
    BY <1>10, <2>2 DEF DeliverLate, GateTypeOK
<1>11. QED
  BY <1>1, <1>2, <1>3, <1>4, <1>5, <1>6, <1>7, <1>8, <1>9, <1>10 DEF GateNext

(* Every reachable state is well typed. *)
THEOREM GateTypeCorrect == GateSpec => []GateTypeOK
BY TypeInit, TypeStep, PTL DEF GateSpec

-----------------------------------------------------------------------------
(* The epochs granted so far lie below the watermark, and the epoch at the
   watermark belongs to its present holder unless the entry is free. *)
GrantsBelowWatermark ==
    \A g \in granted :
        /\ g.epoch <= leases[Job].epoch
        /\ g.epoch = leases[Job].epoch => leases[Job].holder \in {g.holder, NoHolder}

EpochInv == GateTypeOK /\ GrantsBelowWatermark /\ GrantsUnique

LEMMA ApplyKeepsEpochs ==
    ASSUME EpochInv, NEW r \in Request, Apply(r)
    PROVE  GrantsBelowWatermark' /\ GrantsUnique'
<1> USE JobAssumption
<1>1. CASE AcquireLease(Job, r.holder, r.now, LeaseTTL)
           /\ granted' = granted \cup
                {[holder |-> r.holder, epoch |-> GrantEpoch(Job, r.holder)]}
  <2> DEFINE new == [holder |-> r.holder, epoch |-> GrantEpoch(Job, r.holder)]
  <2>1. leases[Job].epoch \in Nat /\ r.holder \in Holders /\ r.holder # NoHolder
    BY NoHolderIsNobody DEF EpochInv, GateTypeOK, LeasesType, LeaseEntry, Request
  <2>2. leases'[Job].holder = r.holder /\ leases'[Job].epoch = new.epoch
    BY <1>1 DEF AcquireLease, EpochInv, GateTypeOK, LeasesType
  <2>3. \A g \in granted : g.epoch \in Nat
    BY DEF EpochInv, GateTypeOK
  <2>4. \A g \in granted : /\ g.epoch <= new.epoch
                           /\ g.epoch = new.epoch => g.holder = r.holder
    BY <2>1, <2>3 DEF EpochInv, GrantsBelowWatermark, GrantEpoch
  <2>5. GrantsBelowWatermark'
    BY <1>1, <2>1, <2>2, <2>4 DEF GrantsBelowWatermark, GrantEpoch
  <2>6. GrantsUnique'
    BY <1>1, <2>4 DEF EpochInv, GrantsUnique
  <2>7. QED
    BY <2>5, <2>6
<1>2. CASE RenewLease(Job, r.holder, r.epoch, r.now, LeaseTTL) /\ UNCHANGED granted
  <2>1. leases'[Job].epoch = leases[Job].epoch /\ leases'[Job].holder = leases[Job].holder
    BY <1>2 DEF RenewLease, EpochInv, GateTypeOK, LeasesType, LeaseEntry
  <2>2. QED
    BY <1>2, <2>1 DEF EpochInv, GrantsBelowWatermark, GrantsUnique
<1>3. CASE ReleaseLease(Job, r.holder, r.epoch) /\ UNCHANGED granted
  <2>1. leases'[Job].epoch = leases[Job].epoch /\ leases'[Job].holder = NoHolder
    BY <1>3 DEF ReleaseLease, EpochInv, GateTypeOK, LeasesType, LeaseEntry
  <2>2. QED
    BY <1>3, <2>1 DEF EpochInv, GrantsBelowWatermark, GrantsUnique
<1>4. CASE UNCHANGED <<leases, granted>>
  BY <1>4 DEF EpochInv, GrantsBelowWatermark, GrantsUnique
<1>5. QED
  BY <1>1, <1>2, <1>3, <1>4 DEF Apply

LEMMA EpochStep == EpochInv /\ [GateNext]_gateVars => EpochInv'
<1> SUFFICES ASSUME EpochInv, [GateNext]_gateVars PROVE GrantsBelowWatermark' /\ GrantsUnique'
  BY TypeStep DEF EpochInv
<1>1. CASE UNCHANGED <<leases, granted>>
  BY <1>1 DEF EpochInv, GrantsBelowWatermark, GrantsUnique
<1>2. ASSUME NEW h \in Holders, Deliver(h)
      PROVE  GrantsBelowWatermark' /\ GrantsUnique'
  <2>1. call[h].req \in Request
    BY <1>2 DEF Deliver, EpochInv, GateTypeOK, Call
  <2>2. QED
    BY <1>2, <2>1, ApplyKeepsEpochs DEF Deliver
<1>3. ASSUME NEW r \in late, DeliverLate(r)
      PROVE  GrantsBelowWatermark' /\ GrantsUnique'
  <2>1. r \in Request
    BY DEF EpochInv, GateTypeOK
  <2>2. QED
    BY <1>3, <2>1, ApplyKeepsEpochs DEF DeliverLate
<1>4. ASSUME NEW h \in Holders, StartRound(h) PROVE UNCHANGED <<leases, granted>>
  BY <1>4 DEF StartRound, AskForLease, KeepLease, AskForRenewal
<1>5. QED
  BY <1>1, <1>2, <1>3, <1>4
     DEF GateNext, gateVars, Tick, TakeReply, CallFails, FinishRound, GiveBack, Crash

(* An epoch of the lease names one holder for good, whatever requests are
   lost, delayed past their callers, or sent by skewed clocks. *)
THEOREM EpochsNameOneHolder == GateSpec => []GrantsUnique
<1>1. GateInit => EpochInv
  BY TypeInit DEF EpochInv, GateInit, GrantsBelowWatermark, GrantsUnique
<1>2. EpochInv => GrantsUnique
  BY DEF EpochInv
<1>3. QED
  BY <1>1, <1>2, EpochStep, PTL DEF GateSpec

-----------------------------------------------------------------------------
(* Mutual exclusion.  A belief -- a gate, or a grant still on its way to the
   job -- that has not run out is what the table says, or less. *)

Backed(entry, h, epoch, expires) ==
    /\ entry.holder = h
    /\ entry.epoch = epoch
    /\ expires <= entry.expires

GatesBacked ==
    \A h \in Holders :
        gate[h].epoch # 0 =>
            /\ gate[h].expires <= clock + LeaseTTL
            /\ clock < gate[h].expires => Backed(leases[Job], h, gate[h].epoch, gate[h].expires)

\* A request carries a time already past, and is sent from the gate it names.
RequestsHonest ==
    \A h \in Holders : call[h].stage # "idle" =>
        /\ call[h].req.holder = h
        /\ call[h].req.now <= clock
        /\ call[h].req.op \in {"acquire", "release"} => gate[h].epoch = 0
        /\ call[h].req.op = "renew" =>
               /\ gate[h].epoch # 0
               /\ call[h].req.epoch = gate[h].epoch
               /\ gate[h].expires <= call[h].req.now + LeaseTTL

GrantsBacked ==
    \A h \in Holders :
        (/\ call[h].stage = "answered"
         /\ call[h].req.op # "release"
         /\ call[h].reply.ok)
            => /\ call[h].reply.expires = call[h].req.now + LeaseTTL
               /\ clock < call[h].reply.expires =>
                      Backed(leases[Job], h, call[h].reply.epoch, call[h].reply.expires)

ExclusionParts == GatesBacked /\ RequestsHonest /\ GrantsBacked

ExclusionInv == GateTypeOK /\ (steady => ExclusionParts)

\* Applying the request of one job leaves every unexpired belief backed.
LEMMA DeliverKeepsBeliefs ==
    ASSUME GateTypeOK, ExclusionParts, NEW h \in Holders, Deliver(h)
    PROVE  ExclusionParts'
<1> DEFINE r == call[h].req
<1> USE JobAssumption, TermAssumption
<1>1. /\ r \in Request /\ r.holder = h /\ r.now <= clock
      /\ h # NoHolder /\ clock \in Nat
      /\ call[h].stage = "sent"
  BY NoHolderIsNobody
     DEF Deliver, ExclusionParts, RequestsHonest, GateTypeOK, Call
<1>2. /\ UNCHANGED <<clock, gate, late>>
      /\ call'[h] = Answered(r, ReplyTo(r))
      /\ \A k \in Holders : k # h => call'[k] = call[k]
      /\ Apply(r)
  BY DEF Deliver, GateTypeOK
<1>3. leases[Job] \in LeaseEntry
  BY DEF GateTypeOK, LeasesType
\* Whoever else believes: the table names them, and only an expired entry of
\* theirs could have been taken, so nothing has changed for them.
<1>4. ASSUME NEW k \in Holders, k # h, NEW e, NEW x \in Nat,
             clock < x, Backed(leases[Job], k, e, x)
      PROVE  Backed(leases'[Job], k, e, x)
  <2>1. CASE AcquireLease(Job, h, r.now, LeaseTTL)
    BY <1>1, <1>3, <1>4, <2>1 DEF AcquireLease, HeldByOther, Backed, LeaseEntry, Request
  <2>2. CASE RenewLease(Job, h, r.epoch, r.now, LeaseTTL)
    BY <1>4, <2>2 DEF RenewLease, Renewable, Backed
  <2>3. CASE ReleaseLease(Job, h, r.epoch)
    BY <1>4, <2>3 DEF ReleaseLease, Releasable, Backed
  <2>4. CASE UNCHANGED leases
    BY <1>4, <2>4 DEF Backed
  <2>5. QED
    BY <1>1, <1>2, <2>1, <2>2, <2>3, <2>4 DEF Apply
\* The job itself, when it asked for the lease: its gate is empty, and the
\* answer is the new entry.
<1>5. ASSUME r.op # "release", ReplyTo(r).ok
      PROVE  /\ ReplyTo(r).expires = r.now + LeaseTTL
             /\ Backed(leases'[Job], h, ReplyTo(r).epoch, ReplyTo(r).expires)
  <2>1. CASE r.op = "acquire"
    <3>1. ~HeldByOther(Job, h, r.now)
      BY <1>1, <1>5, <2>1 DEF ReplyTo
    <3>2. AcquireLease(Job, h, r.now, LeaseTTL)
      BY <1>1, <1>2, <1>5, <2>1 DEF Apply
    <3>3. ReplyTo(r) = [ok |-> TRUE, epoch |-> GrantEpoch(Job, h), expires |-> r.now + LeaseTTL]
      BY <1>1, <2>1, <3>1 DEF ReplyTo
    <3>4. leases'[Job] = [holder |-> h, epoch |-> GrantEpoch(Job, h), expires |-> r.now + LeaseTTL]
      BY <3>2 DEF AcquireLease, GateTypeOK, LeasesType
    <3>5. r.now + LeaseTTL \in Nat
      BY <1>1 DEF Request
    <3>6. QED
      BY <3>3, <3>4, <3>5 DEF Backed
  <2>2. CASE r.op = "renew"
    <3>1. RenewLease(Job, h, r.epoch, r.now, LeaseTTL)
      BY <1>1, <1>2, <1>5, <2>2 DEF Apply
    <3>2. ReplyTo(r).epoch = r.epoch /\ ReplyTo(r).expires = r.now + LeaseTTL
      BY <2>2 DEF ReplyTo
    <3>3. /\ leases'[Job].holder = h
          /\ leases'[Job].epoch = r.epoch
          /\ leases'[Job].expires = r.now + LeaseTTL
      BY <1>3, <3>1 DEF RenewLease, Renewable, LeaseEntry, GateTypeOK, LeasesType
    <3>4. r.now + LeaseTTL \in Nat
      BY <1>1 DEF Request
    <3>5. QED
      BY <3>2, <3>3, <3>4 DEF Backed
  <2>3. QED
    BY <1>1, <1>5, <2>1, <2>2 DEF Request, Ops
\* ... and when it asked for a renewal, the new term covers the old one.
<1>6. ASSUME gate[h].epoch # 0, clock < gate[h].expires
      PROVE  Backed(leases'[Job], h, gate[h].epoch, gate[h].expires)
  <2>1. /\ Backed(leases[Job], h, gate[h].epoch, gate[h].expires)
        /\ r.op = "renew" /\ r.epoch = gate[h].epoch
        /\ gate[h].expires <= r.now + LeaseTTL
    BY <1>1, <1>6 DEF ExclusionParts, GatesBacked, RequestsHonest, Request, Ops
  <2>2. CASE ReplyTo(r).ok
    <3>1. ReplyTo(r).epoch = r.epoch
      BY <2>1 DEF ReplyTo
    <3>2. gate[h].expires \in Nat /\ r.now + LeaseTTL \in Nat /\ leases'[Job].expires \in Nat
      <4>1. LeasesType'
        BY <1>1, <1>2, ApplyTyped
      <4>2. QED
        BY <1>1, <4>1 DEF GateTypeOK, LeasesType, LeaseEntry, Request
    <3>3. QED
      BY <1>5, <2>1, <2>2, <3>1, <3>2 DEF Backed
  <2>3. CASE ~ReplyTo(r).ok
    <3>1. UNCHANGED leases
      BY <1>1, <1>2, <2>1, <2>3 DEF Apply, ReplyTo, RenewLease
    <3>2. QED
      BY <2>1, <3>1 DEF Backed
  <2>4. QED
    BY <2>2, <2>3
<1>7. \A k \in Holders : gate[k].expires \in Nat
  BY DEF GateTypeOK
<1>8. GatesBacked'
  BY <1>2, <1>4, <1>6, <1>7 DEF GatesBacked, ExclusionParts
<1>9. RequestsHonest'
  BY <1>1, <1>2 DEF RequestsHonest, ExclusionParts, Answered
<1>10. GrantsBacked'
  <2> SUFFICES ASSUME NEW k \in Holders,
                      call'[k].stage = "answered",
                      call'[k].req.op # "release",
                      call'[k].reply.ok
               PROVE  /\ call'[k].reply.expires = call'[k].req.now + LeaseTTL
                      /\ clock < call'[k].reply.expires =>
                           Backed(leases'[Job], k, call'[k].reply.epoch, call'[k].reply.expires)
    BY <1>2 DEF GrantsBacked
  <2>1. CASE k = h
    BY <1>2, <1>5, <2>1 DEF Answered
  <2>2. CASE k # h
    <3>1. call'[k] = call[k]
      BY <1>2, <2>2
    <3>2. call[k].reply.expires \in Nat
      BY <3>1 DEF GateTypeOK, Call, Reply
    <3>3. QED
      BY <1>4, <2>2, <3>1, <3>2 DEF ExclusionParts, GrantsBacked
  <2>3. QED
    BY <2>1, <2>2
<1>11. QED
  BY <1>2, <1>8, <1>9, <1>10 DEF ExclusionParts

LEMMA ExclusionStep == ExclusionInv /\ [GateNext]_gateVars => ExclusionInv'
<1> SUFFICES ASSUME ExclusionInv, [GateNext]_gateVars, steady' PROVE ExclusionParts'
  BY TypeStep DEF ExclusionInv
<1> USE TermAssumption
<1>1. steady
  BY DEF GateNext, gateVars, Tick, StartRound, Deliver, TakeReply, CallFails, FinishRound,
         GiveBack, Crash, DeliverLate
<1>2. GateTypeOK /\ GatesBacked /\ RequestsHonest /\ GrantsBacked
  BY <1>1 DEF ExclusionInv, ExclusionParts
<1> USE DEF Backed
<1>3. CASE UNCHANGED gateVars
  BY <1>2, <1>3 DEF gateVars, ExclusionParts, GatesBacked, RequestsHonest, GrantsBacked
<1>4. CASE Tick
  <2>1. /\ clock' = clock + 1 /\ clock \in Nat
        /\ UNCHANGED <<leases, gate, call>>
    BY <1>2, <1>4 DEF Tick, GateTypeOK
  <2>2. \A h \in Holders : gate[h].expires \in Nat
    BY <1>2 DEF GateTypeOK
  <2>3. GatesBacked'
    BY <1>2, <2>1, <2>2 DEF GatesBacked
  <2>4. RequestsHonest'
    <3>1. \A h \in Holders : call[h].stage # "idle" => call[h].req.now \in Nat
      BY <1>2 DEF GateTypeOK, Call, Request
    <3>2. QED
      BY <1>2, <2>1, <3>1 DEF RequestsHonest
  <2>5. GrantsBacked'
    <3>1. \A h \in Holders : call[h].stage = "answered" => call[h].reply.expires \in Nat
      BY <1>2 DEF GateTypeOK, Call, Reply
    <3>2. QED
      BY <1>2, <2>1, <3>1 DEF GrantsBacked
  <2>6. QED
    BY <2>1, <2>3, <2>4, <2>5 DEF ExclusionParts
<1>5. ASSUME NEW h \in Holders, StartRound(h) PROVE ExclusionParts'
  <2>1. /\ clock \in Nat
        /\ AskForLease(h, clock) \/ KeepLease(h, clock) \/ AskForRenewal(h, clock)
        /\ call[h] = Idle
    BY <1>2, <1>5 DEF StartRound, GateTypeOK
  <2>2. CASE AskForLease(h, clock)
    BY <1>2, <2>1, <2>2
       DEF AskForLease, Send, Waiting, GateTypeOK, ExclusionParts,
           GatesBacked, RequestsHonest, GrantsBacked
  <2>3. CASE KeepLease(h, clock)
    BY <1>2, <2>3
       DEF KeepLease, ExclusionParts, GatesBacked, RequestsHonest, GrantsBacked
  <2>4. CASE AskForRenewal(h, clock)
    BY <1>2, <2>1, <2>4
       DEF AskForRenewal, Send, Waiting, GateTypeOK, ExclusionParts,
           GatesBacked, RequestsHonest, GrantsBacked
  <2>5. QED
    BY <2>1, <2>2, <2>3, <2>4
<1>6. ASSUME NEW h \in Holders, Deliver(h) PROVE ExclusionParts'
  BY <1>2, <1>6, DeliverKeepsBeliefs DEF ExclusionParts
<1>7. ASSUME NEW h \in Holders, TakeReply(h) PROVE ExclusionParts'
  <2>1. /\ call[h].stage = "answered"
        /\ call[h].req \in Request /\ call[h].reply \in Reply
    BY <1>2, <1>7 DEF TakeReply, GateTypeOK, Call
  <2>2. /\ gate' = [gate EXCEPT ![h] = GateAfter(call[h].req, call[h].reply)]
        /\ call' = [call EXCEPT ![h] = Idle]
        /\ UNCHANGED <<leases, clock>>
    BY <1>7 DEF TakeReply
  <2>3. GatesBacked'
    BY <1>2, <2>1, <2>2
       DEF GatesBacked, GrantsBacked, RequestsHonest, GateAfter, NoGate, GateTypeOK, Request, Reply
  <2>4. RequestsHonest' /\ GrantsBacked'
    BY <1>2, <2>2 DEF RequestsHonest, GrantsBacked, Idle, GateTypeOK
  <2>5. QED
    BY <2>2, <2>3, <2>4 DEF ExclusionParts
<1>8. ASSUME NEW h \in Holders, CallFails(h) \/ Crash(h) PROVE ExclusionParts'
  <2>1. /\ call' = [call EXCEPT ![h] = Idle]
        /\ gate' = [gate EXCEPT ![h] = NoGate]
        /\ UNCHANGED <<leases, clock>>
    BY <1>8 DEF CallFails, Crash, Abandon
  <2>2. QED
    BY <1>2, <2>1
       DEF ExclusionParts, GatesBacked, RequestsHonest, GrantsBacked, Idle, NoGate, GateTypeOK
<1>9. ASSUME NEW h \in Holders, FinishRound(h) PROVE ExclusionParts'
  BY <1>2, <1>9
     DEF FinishRound, ExclusionParts, GatesBacked, RequestsHonest, GrantsBacked
<1>10. ASSUME NEW h \in Holders, GiveBack(h) PROVE ExclusionParts'
  BY <1>2, <1>10
     DEF GiveBack, Waiting, ExclusionParts, GatesBacked, RequestsHonest, GrantsBacked,
         NoGate, GateTypeOK
<1>11. ASSUME NEW r \in late, DeliverLate(r) PROVE ExclusionParts'
  BY <1>11 DEF DeliverLate
<1>12. QED
  BY <1>3, <1>4, <1>5, <1>6, <1>7, <1>8, <1>9, <1>10, <1>11 DEF GateNext

(* As long as clocks have agreed and no request was applied after its caller
   gave up, two jobs never both hold an unexpired lease by their own account. *)
THEOREM LeaseMutualExclusion == GateSpec => []LeaseExclusive
<1>1. GateInit => ExclusionInv
  BY TypeInit
     DEF ExclusionInv, ExclusionParts, GateInit, GatesBacked, RequestsHonest, GrantsBacked,
         NoGate, Idle
<1>2. ExclusionInv => LeaseExclusive
  BY DEF ExclusionInv, ExclusionParts, GatesBacked, Backed, LeaseExclusive, Entitled
<1>3. QED
  BY <1>1, <1>2, ExclusionStep, PTL DEF GateSpec

-----------------------------------------------------------------------------
(* The rows of a table on their way from chunks to files (Reads): where they *)
(* lie, what snapshots show of them, what copies and a query know.           *)

\* What a snapshot shows of a table: rows, each with its file.
RowsAt(t, s) == RowsOf(VisibleFiles(t, s), ListDeletions(t, s))
KeyIn(X, k) == \E x \in X : KeyOf(x[2]) = k

\* The rows of a batch lie in its chunk, then in files, and a key in files
\* has its own file, of the same table and no younger.
RowsLie ==
    /\ IsMap(content, Batches, SUBSET (Batches \X Nat)) /\ IsFiniteSet(DOMAIN content)
    /\ DOMAIN content = DOMAIN chunks \cup DOMAIN files
    /\ \A b \in DOMAIN files : \A row \in content[b] :
           /\ KeyOf(row) \in DOMAIN files
           /\ files[KeyOf(row)].table = files[b].table
           /\ files[KeyOf(row)].valid_from <= files[b].valid_from

\* A chunk holds the batch as it came; its file, once there is one, is noted
\* before, and marked with the snapshot of its commit.
ChunksInOrder ==
    /\ IsMap(chunks, Batches, [table : Tables, noted : BOOLEAN, committed : Nat])
    /\ \A b \in DOMAIN chunks :
           /\ content[b] = {<<b, 0>>}
           /\ chunks[b].committed # 0 =>
                  b \in DOMAIN files /\ chunks[b].committed = files[b].valid_from
           /\ b \in DOMAIN files => chunks[b].noted /\ files[b].table = chunks[b].table

\* A batch without a chunk has been freed, and the watermark says so.
FreedAreMarked ==
    /\ released_watermark \in 0..snapshot_version
    /\ \A k \in Written \ DOMAIN chunks :
           k \in DOMAIN files /\ files[k].valid_from <= released_watermark

VectorsAreMarked ==
    /\ IsMap(marks, DvIds \X Batches, SUBSET (Batches \X Nat))
    /\ DOMAIN marks = DOMAIN deletions
    /\ \A k \in DOMAIN deletions : k[2] \in DOMAIN files

\* From its commit on, every snapshot shows a key that is not deleted, ...
KeysStay ==
    \A k \in (Written \cap DOMAIN files) \ erased :
        \A s \in files[k].valid_from..snapshot_version : KeyIn(RowsAt(files[k].table, s), k)

\* ... and no snapshot shows one twice.
KeysOnce ==
    \A t \in Tables, s \in Past : \A x, y \in RowsAt(t, s) :
        KeyOf(x[2]) = KeyOf(y[2]) => x = y

RowInv ==
    /\ CatalogType /\ WindowsInOrder
    /\ RowsLie /\ ChunksInOrder /\ FreedAreMarked /\ VectorsAreMarked /\ KeysStay /\ KeysOnce

\* A copy is of the past, and knows of nothing that never was.
CopyType ==
    [ver : [schema : Nat, manifest : Nat], snapshot : Nat,
     tables : [Tables -> [files : SUBSET DOMAIN files, deletions : SUBSET DOMAIN deletions]]]
OfThePast(c) == c \in CopyType /\ c.snapshot \in Past

Refreshing ==
    [at : {"version", "delta", "list", "swap"}, ver : [schema : Nat, manifest : Nat],
     base : CopyType, names : SUBSET Tables]
CopiesInv ==
    /\ OfThePast(cache)
    /\ work \in [Refreshers -> {AtRest} \cup Refreshing]
    /\ \A r \in Refreshers : work[r] # AtRest => OfThePast(work[r].base)

RowSets == SUBSET (Batches \X (Batches \X Nat))
Query ==
    [pc : {"attempt", "fresh", "freshening", "session", "far", "hot", "chunks", "mark", "judge",
           "answered", "failed", "restale", "partial"},
     kind : {"scan", "aggregate"}, table : Tables, tries : Nat, born : SUBSET Batches,
     plan : CopyType, copy : CopyType, share : SUBSET DOMAIN files, mark : Nat,
     hot : RowSets, cold : RowSets, far : RowSets, odd : SUBSET {"moved", "unmarked", "freed"}]

\* The files an aggregate gives away are of its plan, and before the session
\* nothing is read.
PlanOf(q) == q.plan.tables[q.table]
PlanOK(q) ==
    q.pc \in {"fresh", "freshening", "session", "far"} =>
        /\ q.share \subseteq PlanOf(q).files
        /\ q.kind = "scan" => q.share = {}
        /\ q.far = {}

\* What is read from files is what the plan shows, here and at the others.
ColdOK(q) ==
    q.odd = {} =>
        /\ q.pc \in {"far", "hot", "chunks", "mark", "judge", "answered"} =>
               q.cold = {x \in Shown(PlanOf(q)) : x[1] \notin q.share}
        /\ q.pc \in {"hot", "chunks", "mark", "judge", "answered"} =>
               q.far = {x \in Shown(PlanOf(q)) : x[1] \in q.share}

\* The plan shows what the catalog showed at the plan's snapshot.
PlanTrue(q) ==
    /\ PlanOf(q).files = VisibleFiles(q.table, q.plan.snapshot)
    /\ Shown(PlanOf(q)) = RowsAt(q.table, q.plan.snapshot)

\* The hot rows are none of those, and a row in neither was freed late.
HotOK(q) ==
    (q.pc \in {"mark", "judge", "answered"} /\ q.odd = {} /\ PlanTrue(q)) =>
        /\ \A x \in q.hot : x = <<x[1], <<x[1], 0>>>> /\ ~KeyIn(Shown(PlanOf(q)), x[1])
        /\ \A k \in q.born \ erased :
              \/ KeyIn(q.hot, k) \/ KeyIn(Shown(PlanOf(q)), k)
              \/ q.pc = "mark" /\ q.plan.snapshot < released_watermark
              \/ q.pc # "mark" /\ q.plan.snapshot < q.mark

AskedWell(q) ==
    /\ q \in Query /\ OfThePast(q.plan)
    /\ q.born \subseteq WrittenTo(q.table)
    /\ PlanOK(q) /\ ColdOK(q) /\ HotOK(q)
    /\ q.pc = "answered" => q.mark <= q.plan.snapshot
QueryInv == query = [pc |-> "none"] \/ AskedWell(query)

ReadsInv == RowInv /\ CopiesInv /\ QueryInv

\* A set of numbers has a least one.
LEMMA LeastNumber ==
  ASSUME NEW X, X \subseteq Nat, X # {}
  PROVE  \E m \in X : \A x \in X : m <= x
<1> DEFINE R == {ss \in Nat \X Nat : ss[1] < ss[2]}
<1>1. IsWellFoundedOn(R, Nat)
  BY NatLessThanWellFounded DEF OpToRel
<1>2. PICK m \in X : \A y \in X : ~ (<<y, m>> \in R)
  <2> HIDE DEF R
  <2> QED BY <1>1, WFMin
<1>3. ASSUME NEW x \in X, x < m PROVE FALSE
  <2>1. <<x, m>> \in Nat \X Nat
    BY DEF R
  <2>2. <<x, m>>[1] < <<x, m>>[2]
    BY <1>3
  <2>3. <<x, m>> \in R
    BY <2>1, <2>2
  <2> QED BY <1>2, <2>3
<1>4. \A x \in X : m <= x
  <2> HIDE DEF R
  <2> QED BY <1>3
<1> QED BY <1>4

\* The largest of a set is what it is.
LEMMA MaxIs ==
  ASSUME NEW S, S \subseteq Nat, NEW k \in S, \A y \in S : y <= k
  PROVE  Max(S) = k
<1>1. \A x \in S : (\A y \in S : x >= y) => x = k
  OBVIOUS
<1>2. QED
  BY <1>1 DEF Max

\* A bounded set of numbers has a largest.
LEMMA MaxBounded ==
  ASSUME NEW S, S # {}, NEW b \in Nat, S \subseteq 0..b
  PROVE  Max(S) \in S /\ \A y \in S : y <= Max(S)
<1> DEFINE T == {x \in 0..b : \A y \in S : y <= x}
<1>1. T \subseteq Nat /\ T # {}
  <2>1. b \in T
    OBVIOUS
  <2>2. QED
    BY <2>1
<1>2. PICK k \in T : \A x \in T : k <= x
  <2> HIDE DEF T
  <2>1. QED
    BY <1>1, LeastNumber
<1>3. k \in S
  <2> SUFFICES ASSUME k \notin S PROVE FALSE
    OBVIOUS
  <2>1. PICK y \in S : TRUE
    OBVIOUS
  <2>2. k \in Nat /\ y \in Nat /\ y <= k /\ y # k
    BY <2>1
  <2>3. k - 1 \in T
    BY <2>2
  <2>4. QED
    BY <1>2, <2>2, <2>3
<1>4. S \subseteq Nat /\ \A y \in S : y <= k
  OBVIOUS
<1>5. Max(S) = k
  BY <1>3, <1>4, MaxIs
<1>6. QED
  BY <1>3, <1>4, <1>5

-----------------------------------------------------------------------------
(* Members of what is shown. *)

\* A row of a set of files is one of a file's that no vector of the set marks.
LEMMA RowsOfHas ==
    ASSUME NEW F, NEW D, NEW b, NEW row
    PROVE  <<b, row>> \in RowsOf(F, D) <=> b \in F /\ row \in content[b] \ Hidden(b, D)
BY DEF RowsOf

\* The members are pairs of a file and a row.
LEMMA RowsArePairs ==
    ASSUME NEW F, NEW D, NEW x \in RowsOf(F, D)
    PROVE  /\ x = <<x[1], x[2]>> /\ x[1] \in F
           /\ x[2] \in content[x[1]] \ Hidden(x[1], D)
BY DEF RowsOf

\* A row the present shows: its file is alive and no vector in force marks it.
InForce(b, row, t) ==
    /\ b \in DOMAIN files /\ files[b].table = t /\ files[b].deleted_at = 0
    /\ row \in content[b]
    /\ \A k \in DOMAIN deletions :
          k[2] = b /\ deletions[k].table = t /\ deletions[k].revoked_at = 0 => row \notin marks[k]

PresentIsInForce ==
    \A t, b, row : <<b, row>> \in RowsAt(t, snapshot_version) <=> InForce(b, row, t)

\* That is what the present snapshot shows.
LEMMA PresentShows == CatalogType /\ WindowsInOrder => PresentIsInForce
<1> SUFFICES ASSUME CatalogType, WindowsInOrder, NEW t, NEW b, NEW row
             PROVE  <<b, row>> \in RowsAt(t, snapshot_version) <=> InForce(b, row, t)
  BY DEF PresentIsInForce
<1>1. snapshot_version \in Nat
  BY DEF CatalogType
<1>2. \A c \in DOMAIN files :
          VisibleAt(files[c], snapshot_version) <=> files[c].deleted_at = 0
  BY <1>1 DEF CatalogType, IsMap, FileEntry, WindowsInOrder, FileInOrder, VisibleAt, ProtectsAt
<1>3. \A k \in DOMAIN deletions :
          ActiveAt(deletions[k], snapshot_version) <=> deletions[k].revoked_at = 0
  BY <1>1 DEF CatalogType, IsMap, DeletionEntry, WindowsInOrder, VectorInOrder, ActiveAt
<1>4. b \in VisibleFiles(t, snapshot_version) <=>
          b \in DOMAIN files /\ files[b].table = t /\ files[b].deleted_at = 0
  BY <1>2 DEF VisibleFiles
<1>5. \A k : k \in ListDeletions(t, snapshot_version) <=>
          k \in DOMAIN deletions /\ deletions[k].table = t /\ deletions[k].revoked_at = 0
  BY <1>3 DEF ListDeletions
<1>6. row \in Hidden(b, ListDeletions(t, snapshot_version)) <=>
          \E k \in DOMAIN deletions :
             k[2] = b /\ deletions[k].table = t /\ deletions[k].revoked_at = 0 /\ row \in marks[k]
  BY <1>5 DEF Hidden
<1> QED BY <1>4, <1>6, RowsOfHas DEF RowsAt, InForce

\* The same of the next state.
LEMMA PresentShowsNext ==
    ASSUME CatalogType', WindowsInOrder', NEW t, NEW b, NEW row
    PROVE  <<b, row>> \in RowsAt(t, snapshot_version)' <=> InForce(b, row, t)'
<1>1. CatalogType' /\ WindowsInOrder' => PresentIsInForce'
  BY PresentShows, PTL
<1> QED BY <1>1 DEF PresentIsInForce

-----------------------------------------------------------------------------
(* What is shown of the past does not change. *)

Extended(f, g) == \A x \in DOMAIN f : x \in DOMAIN g /\ g[x] = f[x]

\* Files and vectors that are known keep standing for the same rows.
LEMMA ShownStays ==
    ASSUME Extended(content, content'), Extended(marks, marks'),
           NEW F, F \subseteq DOMAIN content, NEW D, D \subseteq DOMAIN marks
    PROVE  RowsOf(F, D)' = RowsOf(F, D)
<1>1. \A b : Hidden(b, D)' = Hidden(b, D)
  BY DEF Extended, Hidden
<1>2. \A b \in F : content'[b] = content[b]
  BY DEF Extended
<1> QED BY <1>1, <1>2 DEF RowsOf

\* A snapshot of the past goes on showing the same files and rows.
LEMMA PastStays ==
    ASSUME CatalogType, CatalogType', ManifestEvolves, tables' = tables, RowsLie,
           VectorsAreMarked, Extended(content, content'), Extended(marks, marks'),
           NEW t \in Tables, NEW s \in Past
    PROVE  /\ VisibleFiles(t, s)' = VisibleFiles(t, s)
           /\ RowsAt(t, s)' = RowsAt(t, s)
<1>1. View(t, s)' = View(t, s)
  BY ViewStays
<1>2. VisibleFiles(t, s)' = VisibleFiles(t, s)
  BY <1>1 DEF View
<1>3. ASSUME NEW b \in VisibleFiles(t, s)
      PROVE  Hidden(b, ListDeletions(t, s))' = Hidden(b, ListDeletions(t, s))
  <2>1. \A d \in DvIds : <<d, b>> \in ListDeletions(t, s)' <=> <<d, b>> \in ListDeletions(t, s)
    <3>1. View(t, s)[b] = {d \in DvIds : <<d, b>> \in ListDeletions(t, s)}
      BY DEF View
    <3>2. View(t, s)'[b] = {d \in DvIds : <<d, b>> \in ListDeletions(t, s)'}
      BY <1>2 DEF View
    <3> QED BY <1>1, <3>1, <3>2
  <2>2. \A k \in DOMAIN deletions : k[2] = b => \E d \in DvIds : k = <<d, b>>
    BY DEF CatalogType, IsMap
  <2>3. \A k \in DOMAIN deletions' : k[2] = b => \E d \in DvIds : k = <<d, b>>
    BY DEF CatalogType, IsMap
  <2>4. /\ ListDeletions(t, s) \subseteq DOMAIN deletions
        /\ ListDeletions(t, s)' \subseteq DOMAIN deletions'
    BY DEF ListDeletions
  <2>5. {k \in ListDeletions(t, s)' : k[2] = b} = {k \in ListDeletions(t, s) : k[2] = b}
    BY <2>1, <2>2, <2>3, <2>4
  <2>6. \A k \in ListDeletions(t, s) : marks'[k] = marks[k]
    BY <2>4 DEF VectorsAreMarked, Extended
  <2>7. Hidden(b, ListDeletions(t, s))' =
            UNION {marks'[k] : k \in {j \in ListDeletions(t, s)' : j[2] = b}}
    BY DEF Hidden
  <2> QED BY <2>5, <2>6, <2>7 DEF Hidden
<1>4. \A b \in VisibleFiles(t, s) : content'[b] = content[b]
  BY DEF VisibleFiles, RowsLie, Extended
<1>5. \A b, row : <<b, row>> \in RowsAt(t, s)' <=>
          b \in VisibleFiles(t, s)' /\ row \in content'[b] \ Hidden(b, ListDeletions(t, s))'
  BY DEF RowsAt, RowsOf
<1>6. RowsAt(t, s)' =
          UNION {{b} \X (content'[b] \ Hidden(b, ListDeletions(t, s))') : b \in VisibleFiles(t, s)'}
  BY DEF RowsAt, RowsOf
<1> QED BY <1>2, <1>3, <1>4, <1>6 DEF RowsAt, RowsOf

-----------------------------------------------------------------------------
(* Keys in the present, and from one snapshot to the next. *)

PairsOnce ==
    \A t \in Tables : \A b, c, row, other :
        InForce(b, row, t) /\ InForce(c, other, t) /\ KeyOf(row) = KeyOf(other)
            => b = c /\ row = other

PairsStay ==
    \A k \in (Written \cap DOMAIN files) \ erased :
        \E b, row : InForce(b, row, files[k].table) /\ KeyOf(row) = k

\* Keys are once, and there, in the present.
LEMMA PresentPairs ==
    ASSUME RowInv
    PROVE  PairsOnce /\ PairsStay
<1>0. CatalogType /\ WindowsInOrder /\ PresentIsInForce
  BY PresentShows DEF RowInv
<1>1. \A b \in DOMAIN files :
          snapshot_version \in Past /\ files[b].valid_from \in 1..snapshot_version
  BY <1>0 DEF CatalogType, WindowsInOrder, FileInOrder, Past
<1>2. PairsOnce
  <2> SUFFICES ASSUME NEW t \in Tables, NEW b, NEW c, NEW row, NEW other,
                      InForce(b, row, t), InForce(c, other, t), KeyOf(row) = KeyOf(other)
               PROVE  b = c /\ row = other
    BY DEF PairsOnce
  <2>1. <<b, row>> \in RowsAt(t, snapshot_version) /\ <<c, other>> \in RowsAt(t, snapshot_version)
    BY <1>0 DEF PresentIsInForce
  <2>2. snapshot_version \in Past
    BY <1>1 DEF InForce
  <2>3. <<b, row>> = <<c, other>>
    BY <2>1, <2>2 DEF RowInv, KeysOnce
  <2> QED BY <2>3
<1>3. PairsStay
  <2> SUFFICES ASSUME NEW k \in (Written \cap DOMAIN files) \ erased
               PROVE  \E b, row : InForce(b, row, files[k].table) /\ KeyOf(row) = k
    BY DEF PairsStay
  <2>1. snapshot_version \in files[k].valid_from..snapshot_version
    BY <1>0, <1>1 DEF CatalogType
  <2>2. PICK x \in RowsAt(files[k].table, snapshot_version) : KeyOf(x[2]) = k
    BY <2>1 DEF RowInv, KeysStay, KeyIn
  <2>3. x = <<x[1], x[2]>>
    BY RowsArePairs DEF RowsAt
  <2>4. InForce(x[1], x[2], files[k].table)
    BY <1>0, <2>2, <2>3 DEF PresentIsInForce
  <2> QED BY <2>2, <2>4
<1> QED BY <1>2, <1>3

\* A step that leaves them so in a new present keeps them so in every snapshot.
LEMMA KeysEvolve ==
    ASSUME RowInv, CatalogType', WindowsInOrder', ManifestEvolves, tables' = tables,
           Extended(content, content'), Extended(marks, marks'),
           Written' \cap DOMAIN files \subseteq Written, erased \subseteq erased',
           snapshot_version' # snapshot_version => PairsOnce' /\ PairsStay'
    PROVE  KeysStay' /\ KeysOnce'
<1>0. /\ CatalogType /\ RowsLie /\ VectorsAreMarked /\ WindowsInOrder
      /\ snapshot_version \in Nat
      /\ snapshot_version' \in {snapshot_version, snapshot_version + 1}
  BY DEF RowInv, CatalogType, ManifestEvolves
<1>1. ASSUME NEW t \in Tables, NEW s \in Past
      PROVE  RowsAt(t, s)' = RowsAt(t, s)
  BY <1>0, <1>1, PastStays
<1>2. \A s \in Past' :
          s \in Past \/ (s = snapshot_version' /\ snapshot_version' # snapshot_version)
  BY <1>0 DEF Past
<1>3. KeysOnce'
  <2> SUFFICES ASSUME NEW t \in Tables, NEW s \in Past',
                      NEW x \in RowsAt(t, s)', NEW y \in RowsAt(t, s)',
                      KeyOf(x[2]) = KeyOf(y[2])
               PROVE  x = y
    BY DEF KeysOnce, Past
  <2>1. CASE s \in Past
    BY <1>1, <2>1 DEF RowInv, KeysOnce
  <2>2. CASE s = snapshot_version' /\ snapshot_version' # snapshot_version
    <3>1. x = <<x[1], x[2]>> /\ y = <<y[1], y[2]>>
      BY DEF RowsAt, RowsOf
    <3>2. InForce(x[1], x[2], t)' /\ InForce(y[1], y[2], t)'
      BY <2>2, <3>1, PresentShowsNext
    <3>3. x[1] = y[1] /\ x[2] = y[2]
      BY <2>2, <3>2 DEF PairsOnce
    <3> QED BY <3>1, <3>3
  <2> QED BY <1>2, <2>1, <2>2
<1>4. KeysStay'
  <2> SUFFICES ASSUME NEW k \in (Written' \cap DOMAIN files') \ erased',
                      NEW s \in files'[k].valid_from..snapshot_version',
                      NEW t, t = files'[k].table
               PROVE  KeyIn(RowsAt(t, s)', k)
    BY DEF KeysStay, KeyIn
  <2>1. files'[k] \in FileEntry /\ FileInOrder(files'[k], snapshot_version')
    BY DEF CatalogType, IsMap, WindowsInOrder
  <2>2. s \in Past' /\ t \in Tables
    BY <1>0, <2>1 DEF FileEntry, FileInOrder, Past
  <2>3. CASE s \in Past
    <3>1. k \in DOMAIN files /\ files'[k].valid_from = files[k].valid_from /\ t = files[k].table
      <4>1. \/ Same(files, files', k)
            \/ /\ k \in DOMAIN files
               /\ files'[k] = [files[k] EXCEPT !.deleted_at = snapshot_version + 1]
        BY <1>0, <2>1, <2>3 DEF ManifestEvolves, FilesEvolve, FileEntry, Past
      <4>2. k \in DOMAIN files => files[k] \in FileEntry
        BY <1>0 DEF CatalogType, IsMap
      <4> QED BY <4>1, <4>2 DEF Same, FileEntry
    <3>2. k \in Written
      BY <3>1
    <3>3. s \in files[k].valid_from..snapshot_version
      BY <1>0, <2>1, <2>3, <3>1 DEF Past, FileEntry
    <3>4. KeyIn(RowsAt(t, s), k)
      BY <3>1, <3>2, <3>3 DEF RowInv, KeysStay
    <3> QED BY <1>1, <2>2, <2>3, <3>4
  <2>4. CASE s = snapshot_version' /\ snapshot_version' # snapshot_version
    <3>1. PICK b, row : InForce(b, row, t)' /\ KeyOf(row) = k
      BY <2>4 DEF PairsStay, KeyOf, InForce
    <3>2. <<b, row>> \in RowsAt(t, snapshot_version)'
      BY <3>1, PresentShowsNext
    <3> QED BY <2>4, <3>1, <3>2 DEF KeyIn
  <2> QED BY <1>2, <2>2, <2>3, <2>4
<1> QED BY <1>3, <1>4

-----------------------------------------------------------------------------
(* What the store does. *)

\* What every step leaves of what there is.
RowsEvolve ==
    /\ ManifestEvolves /\ tables' = tables
    /\ Extended(content, content') /\ Extended(marks, marks')
    /\ erased \subseteq erased' /\ released_watermark <= released_watermark'
    /\ \A b \in DOMAIN chunks \cap DOMAIN chunks' : chunks'[b].table = chunks[b].table
    /\ DOMAIN chunks \ DOMAIN chunks' \subseteq DOMAIN files

\* A step that leaves the catalog and its vectors alone leaves the snapshots.
LEMMA StoreSteps ==
    ASSUME RowInv, UNCHANGED <<catalogVars, marks, erased>>, Extended(content, content'),
           Written' \cap DOMAIN files \subseteq Written
    PROVE  /\ CatalogType' /\ WindowsInOrder' /\ VectorsAreMarked' /\ KeysStay' /\ KeysOnce'
           /\ UNCHANGED <<files, deletions, snapshot_version, tables>>
           /\ ManifestEvolves /\ Extended(marks, marks') /\ erased' = erased
<1>1. UNCHANGED <<files, deletions, snapshot_version, tables>>
  BY DEF catalogVars, dataVars, counters, structure
<1>2. CatalogType'
  BY DEF RowInv, catalogVars, structure, dataVars, memory, counters, CatalogType, LeasesType
<1>3. WindowsInOrder' /\ VectorsAreMarked'
  BY <1>1 DEF RowInv, WindowsInOrder, VectorsAreMarked
<1>4. ManifestEvolves
  BY <1>1, NothingChanges
<1>5. Extended(marks, marks')
  BY DEF Extended
<1> QED BY <1>1, <1>2, <1>3, <1>4, <1>5, KeysEvolve

\* A key is written by a row that has it.
LEMMA WrittenHas ==
    ASSUME NEW k
    PROVE  /\ k \in Written <=> \E b \in DOMAIN content : \E row \in content[b] : k = KeyOf(row)
           /\ k \in Written' <=>
                  \E b \in DOMAIN content' : \E row \in content'[b] : k = KeyOf(row)
BY DEF Written

\* A step of the copies or of the query touches no row.
LEMMA QuietKeepsRows ==
    ASSUME RowInv, UNCHANGED <<catalogVars, rowVars, storeVars>>
    PROVE  RowInv' /\ RowsEvolve
<1>1. UNCHANGED <<content, marks, erased, chunks, released_watermark>>
  BY DEF rowVars, storeVars
<1>2. Extended(content, content') /\ Written' \cap DOMAIN files \subseteq Written
  BY <1>1 DEF Extended, Written
<1>3. /\ CatalogType' /\ WindowsInOrder' /\ VectorsAreMarked' /\ KeysStay' /\ KeysOnce'
      /\ UNCHANGED <<files, deletions, snapshot_version, tables>>
      /\ ManifestEvolves /\ Extended(marks, marks') /\ erased' = erased
  BY <1>1, <1>2, StoreSteps
<1>4. RowsLie' /\ ChunksInOrder' /\ FreedAreMarked'
  BY <1>1, <1>3 DEF RowInv, RowsLie, ChunksInOrder, FreedAreMarked, Written
<1>5. RowsEvolve
  BY <1>1, <1>2, <1>3 DEF RowsEvolve, RowInv, FreedAreMarked
<1> QED BY <1>3, <1>4, <1>5 DEF RowInv

\* A batch that is absorbed has a key of its own.
LEMMA AbsorbKeepsRows ==
    ASSUME RowInv, NEW b \in Batches, NEW t \in Tables, Absorb(b, t)
    PROVE  RowInv' /\ RowsEvolve
<1> DEFINE chunk == [table |-> t, noted |-> FALSE, committed |-> 0]
<1>1. /\ UNCHANGED <<catalogVars, marks, erased, released_watermark>> /\ b \notin DOMAIN content
      /\ content' = Over(Entry(b, {<<b, 0>>}), content) /\ chunks' = Over(Entry(b, chunk), chunks)
  BY DEF Absorb
<1>2. Extended(content, content')
  BY <1>1 DEF Extended, Over, Entry
<1>3. b \notin DOMAIN files /\ b \notin DOMAIN chunks
  BY <1>1 DEF RowInv, RowsLie
<1>4. \A k : k \in Written' <=> k \in Written \/ k = b
  <2>1. \A c : c \in DOMAIN content' <=> c \in DOMAIN content \/ c = b
    BY <1>1 DEF Over, Entry
  <2>2. content'[b] = {<<b, 0>>} /\ \A c \in DOMAIN content : content'[c] = content[c]
    BY <1>1, <1>2 DEF Over, Entry, Extended
  <2> SUFFICES ASSUME NEW k PROVE k \in Written' <=> k \in Written \/ k = b
    OBVIOUS
  <2>3. \E row \in content'[b] : b = KeyOf(row)
    BY <2>2 DEF KeyOf
  <2>4. \A row \in content'[b] : KeyOf(row) = b
    BY <2>2 DEF KeyOf
  <2> QED BY <2>1, <2>2, <2>3, <2>4, WrittenHas
<1>5. /\ CatalogType' /\ WindowsInOrder' /\ VectorsAreMarked' /\ KeysStay' /\ KeysOnce'
      /\ UNCHANGED <<files, deletions, snapshot_version, tables>>
      /\ ManifestEvolves /\ Extended(marks, marks') /\ erased' = erased
  BY <1>1, <1>2, <1>3, <1>4, StoreSteps
<1>6. DOMAIN content' = DOMAIN content \cup {b} /\ DOMAIN chunks' = DOMAIN chunks \cup {b}
  BY <1>1 DEF Over, Entry
<1>7. content'[b] = {<<b, 0>>} /\ chunks'[b] = chunk
  BY <1>1 DEF Over, Entry
<1>8. \A c \in DOMAIN chunks : chunks'[c] = chunks[c]
  BY <1>1, <1>3 DEF Over, Entry
<1>9. \A c \in DOMAIN content : content'[c] = content[c]
  BY <1>2 DEF Extended
<1>10. RowsLie'
  <2>1. IsMap(content', Batches, SUBSET (Batches \X Nat))
    <3>1. {<<b, 0>>} \in SUBSET (Batches \X Nat)
      OBVIOUS
    <3>2. IsMap(Entry(b, {<<b, 0>>}), Batches, SUBSET (Batches \X Nat))
      BY <3>1, EntryIsMap
    <3> QED BY <1>1, <3>2, OverIsMap DEF RowInv, RowsLie
  <2>2. DOMAIN content' = DOMAIN chunks' \cup DOMAIN files'
    BY <1>5, <1>6 DEF RowInv, RowsLie
  <2>3. \A c \in DOMAIN files' : content'[c] = content[c]
    BY <1>5, <1>9 DEF RowInv, RowsLie
  <2>4. IsFiniteSet(DOMAIN content')
    BY <1>6, FS_AddElement DEF RowInv, RowsLie
  <2> QED BY <1>5, <2>1, <2>2, <2>3, <2>4 DEF RowInv, RowsLie
<1>11. ChunksInOrder'
  <2>1. chunk \in [table : Tables, noted : BOOLEAN, committed : Nat]
    OBVIOUS
  <2>2. IsMap(chunks', Batches, [table : Tables, noted : BOOLEAN, committed : Nat])
    BY <1>1, <2>1, EntryIsMap, OverIsMap DEF RowInv, ChunksInOrder
  <2>3. \A c \in DOMAIN chunks : content'[c] = content[c]
    BY <1>9 DEF RowInv, RowsLie
  <2> QED BY <1>3, <1>5, <1>6, <1>7, <1>8, <2>2, <2>3 DEF RowInv, ChunksInOrder
<1>12. FreedAreMarked'
  BY <1>1, <1>4, <1>5, <1>6 DEF RowInv, FreedAreMarked
<1>13. RowsEvolve
  <2>1. released_watermark <= released_watermark'
    BY <1>1 DEF RowInv, FreedAreMarked
  <2>2. \A c \in DOMAIN chunks \cap DOMAIN chunks' : chunks'[c].table = chunks[c].table
    BY <1>8
  <2> QED BY <1>2, <1>5, <1>6, <2>1, <2>2 DEF RowsEvolve
<1> QED BY <1>5, <1>10, <1>11, <1>12, <1>13 DEF RowInv

\* Chunks change in the store only.
LEMMA ChunkSteps ==
    ASSUME RowInv, UNCHANGED <<catalogVars, rowVars>>
    PROVE  /\ CatalogType' /\ WindowsInOrder' /\ VectorsAreMarked' /\ KeysStay' /\ KeysOnce'
           /\ UNCHANGED <<files, deletions, snapshot_version, tables, content, marks, erased>>
           /\ Written' = Written
           /\ ManifestEvolves /\ Extended(content, content') /\ Extended(marks, marks')
<1>1. UNCHANGED <<content, marks, erased>>
  BY DEF rowVars
<1>2. Written' = Written /\ Extended(content, content')
  BY <1>1 DEF Written, Extended
<1> QED BY <1>1, <1>2, StoreSteps

\* A chunk is noted before its commit.
LEMMA NoteKeepsRows ==
    ASSUME RowInv, NEW b \in Batches, Note(b)
    PROVE  RowInv' /\ RowsEvolve
<1>1. /\ CatalogType' /\ WindowsInOrder' /\ VectorsAreMarked' /\ KeysStay' /\ KeysOnce'
      /\ UNCHANGED <<files, deletions, snapshot_version, tables, content, marks, erased>>
      /\ Written' = Written
      /\ ManifestEvolves /\ Extended(content, content') /\ Extended(marks, marks')
  BY ChunkSteps DEF Note
<1>2. /\ b \in DOMAIN chunks /\ chunks' = [chunks EXCEPT ![b].noted = TRUE]
      /\ released_watermark' = released_watermark
  BY DEF Note
<1>3. IsMap(chunks, Batches, [table : Tables, noted : BOOLEAN, committed : Nat])
  BY DEF RowInv, ChunksInOrder
<1>4. IsMap(chunks', Batches, [table : Tables, noted : BOOLEAN, committed : Nat])
  BY <1>2, <1>3 DEF IsMap
<1>5. \A c \in DOMAIN chunks : /\ chunks'[c].table = chunks[c].table
                               /\ chunks'[c].committed = chunks[c].committed
                               /\ chunks[c].noted => chunks'[c].noted
  BY <1>2, <1>3 DEF IsMap
<1>6. DOMAIN chunks' = DOMAIN chunks
  BY <1>2, <1>3 DEF IsMap
<1>7. RowsLie' /\ FreedAreMarked'
  BY <1>1, <1>2, <1>6 DEF RowInv, RowsLie, FreedAreMarked
<1>8. ChunksInOrder'
  BY <1>1, <1>4, <1>5, <1>6 DEF RowInv, ChunksInOrder
<1>9. RowsEvolve
  BY <1>1, <1>2, <1>5 DEF RowsEvolve, RowInv, FreedAreMarked
<1> QED BY <1>1, <1>7, <1>8, <1>9 DEF RowInv

\* A chunk is marked with the snapshot its file is of.
LEMMA MarkKeepsRows ==
    ASSUME RowInv, NEW b \in Batches, Mark(b)
    PROVE  RowInv' /\ RowsEvolve
<1>1. /\ CatalogType' /\ WindowsInOrder' /\ VectorsAreMarked' /\ KeysStay' /\ KeysOnce'
      /\ UNCHANGED <<files, deletions, snapshot_version, tables, content, marks, erased>>
      /\ Written' = Written
      /\ ManifestEvolves /\ Extended(content, content') /\ Extended(marks, marks')
  BY ChunkSteps DEF Mark
<1>2. /\ b \in DOMAIN chunks /\ b \in DOMAIN files
      /\ chunks' = [chunks EXCEPT ![b].committed = files[b].valid_from]
      /\ released_watermark' = released_watermark
  BY DEF Mark
<1>3. /\ IsMap(chunks, Batches, [table : Tables, noted : BOOLEAN, committed : Nat])
      /\ files[b].valid_from \in Nat
  BY <1>2 DEF RowInv, ChunksInOrder, CatalogType, IsMap, FileEntry
<1>4. IsMap(chunks', Batches, [table : Tables, noted : BOOLEAN, committed : Nat])
  BY <1>2, <1>3 DEF IsMap
<1>5. \A c \in DOMAIN chunks : /\ chunks'[c].table = chunks[c].table
                               /\ chunks'[c].committed \in {chunks[c].committed} \cup
                                      (IF c = b THEN {files[c].valid_from} ELSE {})
                               /\ chunks'[c].noted = chunks[c].noted
  BY <1>2, <1>3 DEF IsMap
<1>6. DOMAIN chunks' = DOMAIN chunks
  BY <1>2, <1>3 DEF IsMap
<1>7. RowsLie' /\ FreedAreMarked'
  BY <1>1, <1>2, <1>6 DEF RowInv, RowsLie, FreedAreMarked
<1>8. ChunksInOrder'
  BY <1>1, <1>2, <1>4, <1>5, <1>6 DEF RowInv, ChunksInOrder
<1>9. RowsEvolve
  BY <1>1, <1>2, <1>5 DEF RowsEvolve, RowInv, FreedAreMarked
<1> QED BY <1>1, <1>7, <1>8, <1>9 DEF RowInv

\* Chunks that are freed are of files no younger than the watermark.
LEMMA ReclaimKeepsRows ==
    ASSUME RowInv, NEW s \in Past, Reclaim(s), UNCHANGED <<catalogVars, rowVars>>
    PROVE  RowInv' /\ RowsEvolve
<1> DEFINE freed == {b \in DOMAIN chunks : CaughtUp(b, s)}
           marked == {released_watermark} \cup {chunks[b].committed : b \in freed}
<1>1. /\ CatalogType' /\ WindowsInOrder' /\ VectorsAreMarked' /\ KeysStay' /\ KeysOnce'
      /\ UNCHANGED <<files, deletions, snapshot_version, tables, content, marks, erased>>
      /\ Written' = Written
      /\ ManifestEvolves /\ Extended(content, content') /\ Extended(marks, marks')
  BY ChunkSteps
<1>2. chunks' = Without(chunks, freed) /\ released_watermark' = Max(marked)
  BY DEF Reclaim
<1>3. \A b \in freed : b \in DOMAIN files /\ chunks[b].committed = files[b].valid_from
  BY DEF RowInv, ChunksInOrder, CaughtUp
<1>4. snapshot_version \in Nat /\ marked # {} /\ marked \subseteq 0..snapshot_version
  BY <1>3 DEF RowInv, CatalogType, FreedAreMarked, WindowsInOrder, FileInOrder
<1>5. released_watermark' \in marked /\ \A y \in marked : y <= released_watermark'
  <2> HIDE DEF marked
  <2> QED BY <1>2, <1>4, MaxBounded
<1>6. DOMAIN chunks' = DOMAIN chunks \ freed /\ \A c \in DOMAIN chunks' : chunks'[c] = chunks[c]
  BY <1>2 DEF Without, Restrict
<1>7. IsMap(chunks', Batches, [table : Tables, noted : BOOLEAN, committed : Nat])
  BY <1>2, WithoutIsMap DEF RowInv, ChunksInOrder
<1>8. RowsLie' /\ ChunksInOrder'
  BY <1>1, <1>3, <1>6, <1>7 DEF RowInv, RowsLie, ChunksInOrder
<1>9. FreedAreMarked'
  <2>1. released_watermark' \in 0..snapshot_version' /\ released_watermark <= released_watermark'
    BY <1>1, <1>4, <1>5
  <2>2. ASSUME NEW k \in Written \ DOMAIN chunks'
        PROVE  k \in DOMAIN files /\ files[k].valid_from <= released_watermark'
    <3>1. CASE k \in DOMAIN chunks
      <4>1. k \in freed
        BY <1>6, <2>2, <3>1
      <4> QED BY <1>3, <1>5, <4>1
    <3>2. CASE k \notin DOMAIN chunks
      BY <2>1, <2>2, <3>2, <1>4 DEF RowInv, FreedAreMarked, CatalogType, IsMap, FileEntry
    <3> QED BY <3>1, <3>2
  <2> QED BY <1>1, <2>1, <2>2 DEF FreedAreMarked
<1>10. RowsEvolve
  BY <1>1, <1>3, <1>5, <1>6 DEF RowsEvolve
<1> QED BY <1>1, <1>8, <1>9, <1>10 DEF RowInv

-----------------------------------------------------------------------------
(* What commits do. *)

\* No file leaves the manifest: no table is dropped here.
LEMMA FilesPersist ==
    ASSUME CatalogType, ManifestEvolves, tables' = tables, NEW c \in DOMAIN files
    PROVE  /\ c \in DOMAIN files'
           /\ files'[c].table = files[c].table /\ files'[c].valid_from = files[c].valid_from
<1>1. c \in DOMAIN files'
  BY DEF ManifestEvolves, FilesEvolve
<1>2. files[c] \in FileEntry
  BY DEF CatalogType, IsMap
<1>3. files'[c] = files[c] \/ files'[c] = [files[c] EXCEPT !.deleted_at = snapshot_version + 1]
  BY <1>1 DEF ManifestEvolves, FilesEvolve, Same
<1> QED BY <1>1, <1>2, <1>3 DEF FileEntry

\* Where the rows of new files come from.
NewFilesLie ==
    \A c \in DOMAIN files' \ DOMAIN files : \A row \in content'[c] :
        /\ KeyOf(row) \in DOMAIN files'
        /\ files'[KeyOf(row)].table = files'[c].table
        /\ files'[KeyOf(row)].valid_from <= files'[c].valid_from

CommitsAreNoted ==
    \A b \in DOMAIN chunks : b \in DOMAIN files' \ DOMAIN files =>
        chunks[b].noted /\ files'[b].table = chunks[b].table

\* What a commit must show to keep the rows: where the rows of its files come from,
\* that their chunks are noted, and that keys are once and there in the new present.
LEMMA CommitKeepsRows ==
    ASSUME RowInv, CatalogType', ManifestEvolves, tables' = tables, UNCHANGED storeVars,
           Extended(content, content'), Extended(marks, marks'),
           Written' \subseteq Written, erased \subseteq erased',
           IsMap(content', Batches, SUBSET (Batches \X Nat)), IsFiniteSet(DOMAIN content'),
           DOMAIN content' = DOMAIN chunks \cup DOMAIN files', NewFilesLie, CommitsAreNoted,
           VectorsAreMarked',
           snapshot_version' # snapshot_version => PairsOnce' /\ PairsStay'
    PROVE  RowInv' /\ RowsEvolve
<1>0. /\ CatalogType /\ RowsLie /\ ChunksInOrder /\ FreedAreMarked /\ WindowsInOrder
      /\ chunks' = chunks /\ released_watermark' = released_watermark
      /\ snapshot_version \in Nat
      /\ snapshot_version' \in {snapshot_version, snapshot_version + 1}
  BY DEF RowInv, CatalogType, ManifestEvolves, storeVars
<1>1. WindowsInOrder'
  BY <1>0, WindowsEvolve
<1>2. KeysStay' /\ KeysOnce'
  BY <1>1, KeysEvolve
<1>3. \A c \in DOMAIN files : /\ c \in DOMAIN files' /\ files'[c].table = files[c].table
                              /\ files'[c].valid_from = files[c].valid_from
  BY <1>0, FilesPersist
<1>4. \A c \in DOMAIN content : content'[c] = content[c]
  BY DEF Extended
<1>5. RowsLie'
  <2> SUFFICES ASSUME NEW c \in DOMAIN files', NEW row \in content'[c]
               PROVE  /\ KeyOf(row) \in DOMAIN files'
                      /\ files'[KeyOf(row)].table = files'[c].table
                      /\ files'[KeyOf(row)].valid_from <= files'[c].valid_from
    BY <1>0 DEF RowsLie, KeyOf
  <2>1. CASE c \in DOMAIN files
    <3>1. row \in content[c]
      BY <1>0, <1>4, <2>1 DEF RowsLie
    <3> QED BY <1>0, <1>3, <2>1, <3>1 DEF RowsLie
  <2>2. CASE c \notin DOMAIN files
    BY <2>2 DEF NewFilesLie
  <2> QED BY <2>1, <2>2
<1>6. ChunksInOrder'
  <2> SUFFICES ASSUME NEW b \in DOMAIN chunks
               PROVE  /\ content'[b] = {<<b, 0>>}
                      /\ chunks[b].committed # 0 =>
                             b \in DOMAIN files' /\ chunks[b].committed = files'[b].valid_from
                      /\ b \in DOMAIN files' => chunks[b].noted /\ files'[b].table = chunks[b].table
    BY <1>0 DEF ChunksInOrder
  <2>1. content'[b] = {<<b, 0>>}
    BY <1>0, <1>4 DEF ChunksInOrder, RowsLie
  <2> QED BY <1>0, <1>3, <2>1 DEF ChunksInOrder, CommitsAreNoted
<1>7. FreedAreMarked'
  BY <1>0, <1>3 DEF FreedAreMarked
<1>8. RowsEvolve
  BY <1>0 DEF RowsEvolve, FreedAreMarked
<1> QED BY <1>1, <1>2, <1>5, <1>6, <1>7, <1>8 DEF RowInv

\* A flush puts the rows of a chunk in a file.
LEMMA FlushKeepsRows ==
    ASSUME RowInv, NEW b \in Batches, FlushCommit(b)
    PROVE  RowInv' /\ RowsEvolve
<1> DEFINE t == chunks[b].table
<1>0. CatalogType /\ RowsLie /\ ChunksInOrder /\ VectorsAreMarked /\ PairsOnce /\ PairsStay
  BY PresentPairs DEF RowInv
<1>1. /\ b \in DOMAIN chunks /\ chunks[b].noted /\ CommitFiles(b, t, S0, 1, {}, 0)
      /\ UNCHANGED <<rowVars, storeVars, cache, work, query, ambient>>
  BY DEF FlushCommit
<1>2. t \in Tables
  BY <1>0, <1>1 DEF ChunksInOrder, IsMap
<1>3. CatalogType'
  BY <1>0, <1>1, <1>2, CommitFilesKeepsType, ReadsAssumption
<1>4. ManifestEvolves
  BY <1>1, CommitFilesEvolves
<1>5. /\ UNCHANGED <<tables, content, marks, erased, chunks, deletions>> /\ b \notin DOMAIN files
      /\ files' = Over(Entry(b, NewFile(t, S0, 1)), files)
      /\ snapshot_version' = snapshot_version + 1
  BY <1>1 DEF CommitFiles, CommitAccepted, structure, rowVars, storeVars, NextSnapshot
<1>6. /\ DOMAIN files' = DOMAIN files \cup {b} /\ files'[b] = NewFile(t, S0, 1)
      /\ \A c \in DOMAIN files : files'[c] = files[c]
  BY <1>5 DEF Over, Entry
<1>7. /\ files'[b].table = t /\ files'[b].deleted_at = 0
      /\ files'[b].valid_from = snapshot_version + 1
  BY <1>6 DEF NewFile
<1>8. content[b] = {<<b, 0>>}
  BY <1>0, <1>1 DEF ChunksInOrder
<1>9. ASSUME NEW c, NEW row, NEW u
      PROVE  InForce(c, row, u)' <=> InForce(c, row, u) \/ (c = b /\ row = <<b, 0>> /\ u = t)
  <2>1. CASE c = b
    <3>1. ~ \E k \in DOMAIN deletions : k[2] = b
      BY <1>0, <1>5 DEF VectorsAreMarked
    <3> QED BY <1>5, <1>6, <1>7, <1>8, <2>1, <3>1 DEF InForce
  <2>2. CASE c # b
    BY <1>5, <1>6, <2>2 DEF InForce
  <2> QED BY <2>1, <2>2
<1>10. KeyOf(<<b, 0>>) = b
  BY DEF KeyOf
<1>11. \A c, row, u : InForce(c, row, u) => KeyOf(row) \in DOMAIN files
  BY <1>0 DEF InForce, RowsLie
<1>12. PairsOnce'
  <2> SUFFICES ASSUME NEW u \in Tables, NEW c, NEW e, NEW row, NEW other,
                      InForce(c, row, u)', InForce(e, other, u)', KeyOf(row) = KeyOf(other)
               PROVE  c = e /\ row = other
    BY DEF PairsOnce, KeyOf
  <2> HIDE DEF t
  <2> QED BY <1>0, <1>5, <1>9, <1>10, <1>11 DEF PairsOnce
<1>13. PairsStay'
  <2> SUFFICES ASSUME NEW k \in (Written \cap DOMAIN files') \ erased,
                      NEW u, u = files'[k].table
               PROVE  \E c, row : InForce(c, row, u)' /\ KeyOf(row) = k
    BY <1>5 DEF PairsStay, KeyOf, Written, InForce
  <2>1. CASE k = b
    BY <1>7, <1>9, <1>10, <2>1
  <2>2. CASE k # b
    <3>1. k \in DOMAIN files /\ u = files[k].table
      BY <1>6, <2>2
    <3> QED BY <1>0, <1>9, <3>1 DEF PairsStay
  <2> QED BY <2>1, <2>2
<1>14. NewFilesLie
  <2>1. \A row \in content'[b] : KeyOf(row) = b
    BY <1>5, <1>8, <1>10
  <2>2. files'[b].valid_from <= files'[b].valid_from
    BY <1>0, <1>7 DEF CatalogType
  <2> QED BY <1>6, <2>1, <2>2 DEF NewFilesLie
<1>15. CommitsAreNoted
  BY <1>1, <1>6, <1>7 DEF CommitsAreNoted
<1>16. VectorsAreMarked'
  BY <1>0, <1>5, <1>6 DEF VectorsAreMarked
<1>17. /\ Extended(content, content') /\ Extended(marks, marks') /\ Written' = Written
  BY <1>5 DEF Extended, Written
<1>18. DOMAIN content' = DOMAIN chunks \cup DOMAIN files'
  BY <1>0, <1>1, <1>5, <1>6 DEF RowsLie
<1>19. UNCHANGED storeVars
  BY <1>1
<1> QED
  BY <1>0, <1>3, <1>4, <1>5, <1>12, <1>13, <1>14, <1>15, <1>16, <1>17, <1>18, <1>19,
     CommitKeepsRows
  DEF RowsLie

\* The rows a merge or a statement takes of a live file are those in force.
LEMMA NowIsInForce ==
    ASSUME RowInv, NEW b, Live(b), NEW row
    PROVE  row \in RowsNow(b) <=> InForce(b, row, files[b].table)
<1>0. CatalogType /\ WindowsInOrder /\ PresentIsInForce
  BY PresentShows DEF RowInv
<1>1. b \in VisibleFiles(files[b].table, snapshot_version)
  BY <1>0 DEF Live, VisibleFiles, VisibleAt, ProtectsAt, WindowsInOrder, FileInOrder, CatalogType
<1>2. row \in RowsNow(b) <=> <<b, row>> \in RowsAt(files[b].table, snapshot_version)
  BY <1>1, RowsOfHas DEF RowsNow, RowsAt
<1> QED BY <1>0, <1>2 DEF PresentIsInForce

\* A merge puts the rows its files show in one file.
LEMMA MergeKeepsRows ==
    ASSUME RowInv, NEW O \in SUBSET DOMAIN files, O # {}, NEW n \in Batches, Merge(O, n)
    PROVE  RowInv' /\ RowsEvolve
<1>0. /\ CatalogType /\ RowsLie /\ ChunksInOrder /\ VectorsAreMarked /\ PairsOnce /\ PairsStay
      /\ WindowsInOrder /\ snapshot_version \in Nat
  BY PresentPairs DEF RowInv, CatalogType
<1>1. PICK t \in Tables : \A o \in O : files[o].table = t /\ Live(o)
  BY DEF Merge
<1>2. n \notin DOMAIN content /\ n \notin DOMAIN files /\ n \notin DOMAIN chunks /\ n \notin O
  BY <1>0 DEF Merge, RowsLie
<1>3. /\ CommitCompaction(O, n, t, S0, Cardinality(O), 0, "compaction")
      /\ content' = Over(Entry(n, UNION {RowsNow(o) : o \in O}), content)
      /\ UNCHANGED <<marks, erased>> /\ UNCHANGED storeVars
  BY <1>1 DEF Merge, Untouched
<1>4. Cardinality(O) \in Nat
  <2>1. IsFiniteSet(O)
    BY <1>0, FS_Subset DEF RowsLie
  <2> QED BY <2>1, FS_CardinalityType
<1>5. CatalogType'
  BY <1>0, <1>3, <1>4, CommitCompactionKeepsType, ReadsAssumption
<1>6. ManifestEvolves
  BY <1>2, <1>3, CommitCompactionEvolves
<1>7. /\ UNCHANGED <<tables, chunks, deletions>> /\ snapshot_version' = snapshot_version + 1
      /\ files' = Over(Entry(n, NewFile(t, S0, Cardinality(O))), Over(Retired(O), files))
  <2>1. InputsLeft(O) = O
    BY DEF InputsLeft
  <2> QED BY <1>3, <2>1 DEF CommitCompaction, structure, storeVars, NextSnapshot
<1>8. /\ DOMAIN files' = DOMAIN files \cup {n} /\ files'[n] = NewFile(t, S0, Cardinality(O))
      /\ \A c \in DOMAIN files \ O : files'[c] = files[c]
      /\ \A c \in O : files'[c] = [files[c] EXCEPT !.deleted_at = snapshot_version + 1]
  BY <1>2, <1>7 DEF Over, Entry, Retired
<1>9. /\ files'[n].table = t /\ files'[n].deleted_at = 0
      /\ files'[n].valid_from = snapshot_version + 1
  BY <1>8 DEF NewFile
<1>10. \A c \in O : files'[c].deleted_at # 0
  <2> SUFFICES ASSUME NEW c \in O PROVE files'[c].deleted_at = snapshot_version + 1
    BY <1>0
  <2>1. files[c] \in FileEntry
    BY <1>0 DEF CatalogType, IsMap
  <2>2. [files[c] EXCEPT !.deleted_at = snapshot_version + 1].deleted_at = snapshot_version + 1
    BY <2>1 DEF FileEntry
  <2> QED BY <1>8, <2>2
<1>11. /\ DOMAIN content' = DOMAIN content \cup {n}
       /\ \A c \in DOMAIN content : content'[c] = content[c]
  BY <1>2, <1>3 DEF Over, Entry
<1>12. \A row : row \in content'[n] <=> \E o \in O : InForce(o, row, t)
  <2>1. content'[n] = UNION {RowsNow(o) : o \in O}
    BY <1>3 DEF Over, Entry
  <2>2. \A o \in O : \A row : row \in RowsNow(o) <=> InForce(o, row, t)
    BY <1>1, NowIsInForce
  <2> QED BY <2>1, <2>2
<1>13. ASSUME NEW c, NEW row, NEW u
       PROVE  InForce(c, row, u)' <=>
                  \/ InForce(c, row, u) /\ c \notin O
                  \/ c = n /\ u = t /\ \E o \in O : InForce(o, row, t)
  <2>1. CASE c = n
    <3>1. ~ \E k \in DOMAIN deletions : k[2] = n
      BY <1>0, <1>2 DEF VectorsAreMarked
    <3>2. ~InForce(n, row, u)
      BY <1>2 DEF InForce
    <3>3. InForce(n, row, u)' <=> u = t /\ row \in content'[n]
      BY <1>7, <1>8, <1>9, <3>1 DEF InForce
    <3> QED BY <1>12, <2>1, <3>2, <3>3
  <2>2. CASE c \in O
    BY <1>2, <1>10, <2>2 DEF InForce
  <2>3. CASE c # n /\ c \notin O
    <3>1. c \in DOMAIN files => content'[c] = content[c]
      BY <1>0, <1>11 DEF RowsLie
    <3> QED BY <1>3, <1>7, <1>8, <2>3, <3>1 DEF InForce
  <2> QED BY <2>1, <2>2, <2>3
<1>14. PairsOnce'
  <2> SUFFICES ASSUME NEW u \in Tables, NEW c, NEW e, NEW row, NEW other,
                      InForce(c, row, u)', InForce(e, other, u)', KeyOf(row) = KeyOf(other)
               PROVE  c = e /\ row = other
    BY DEF PairsOnce, KeyOf
  <2> QED BY <1>0, <1>13 DEF PairsOnce
<1>15. PairsStay'
  <2> SUFFICES ASSUME NEW k \in (Written' \cap DOMAIN files') \ erased',
                      NEW u, u = files'[k].table
               PROVE  \E c, row : InForce(c, row, u)' /\ KeyOf(row) = k
    BY DEF PairsStay, KeyOf, InForce
  <2>1. k \in Written
    <3>1. PICK c, row : c \in DOMAIN content' /\ row \in content'[c] /\ k = KeyOf(row)
      BY WrittenHas
    <3>2. CASE c = n
      BY <1>0, <1>12, <3>1, <3>2, WrittenHas DEF InForce, RowsLie
    <3>3. CASE c # n
      BY <1>11, <3>1, <3>3, WrittenHas
    <3> QED BY <3>2, <3>3
  <2>2. k \in DOMAIN files
    <3>1. PICK c, row : c \in DOMAIN content /\ row \in content[c] /\ k = KeyOf(row)
      BY <2>1, WrittenHas
    <3>2. c \in DOMAIN files => k \in DOMAIN files
      BY <1>0, <3>1 DEF RowsLie
    <3>3. c \in DOMAIN chunks => k = c
      BY <1>0, <3>1 DEF ChunksInOrder, KeyOf
    <3> QED BY <1>0, <1>2, <1>8, <3>1, <3>2, <3>3 DEF RowsLie
  <2>3. u = files[k].table
    BY <1>0, <1>5, <1>6, <1>7, <2>2, FilesPersist
  <2>4. PICK c, row : InForce(c, row, u) /\ KeyOf(row) = k
    BY <1>0, <1>3, <2>1, <2>2, <2>3 DEF PairsStay
  <2>5. CASE c \in O
    <3>1. u = t
      BY <1>1, <2>4, <2>5 DEF InForce
    <3> QED BY <1>13, <2>4, <2>5, <3>1
  <2>6. CASE c \notin O
    BY <1>13, <2>4, <2>6
  <2> QED BY <2>5, <2>6
<1>16. Written' \subseteq Written
  <2> SUFFICES ASSUME NEW k \in Written' PROVE k \in Written
    OBVIOUS
  <2>1. PICK c, row : c \in DOMAIN content' /\ row \in content'[c] /\ k = KeyOf(row)
    BY WrittenHas
  <2>2. CASE c = n
    BY <1>0, <1>12, <2>1, <2>2, WrittenHas DEF InForce, RowsLie
  <2>3. CASE c # n
    BY <1>11, <2>1, <2>3, WrittenHas
  <2> QED BY <2>2, <2>3
<1>17. NewFilesLie
  <2> SUFFICES ASSUME NEW row \in content'[n]
               PROVE  /\ KeyOf(row) \in DOMAIN files'
                      /\ files'[KeyOf(row)].table = files'[n].table
                      /\ files'[KeyOf(row)].valid_from <= files'[n].valid_from
    BY <1>8 DEF NewFilesLie
  <2>1. PICK o \in O : InForce(o, row, t)
    BY <1>12
  <2>2. /\ KeyOf(row) \in DOMAIN files /\ files[KeyOf(row)].table = t
        /\ files[KeyOf(row)].valid_from \in 1..snapshot_version
    BY <1>0, <2>1 DEF InForce, RowsLie, WindowsInOrder, FileInOrder
  <2>3. KeyOf(row) \in DOMAIN files' /\ files'[KeyOf(row)].table = t
        /\ files'[KeyOf(row)].valid_from = files[KeyOf(row)].valid_from
    BY <1>0, <1>6, <1>7, <2>2, FilesPersist
  <2> QED BY <1>0, <1>9, <2>2, <2>3
<1>18. CommitsAreNoted
  BY <1>2, <1>8 DEF CommitsAreNoted
<1>19. VectorsAreMarked'
  BY <1>0, <1>3, <1>7, <1>8 DEF VectorsAreMarked
<1>20. Extended(content, content') /\ Extended(marks, marks')
  BY <1>3, <1>11 DEF Extended
<1>21. IsMap(content', Batches, SUBSET (Batches \X Nat)) /\ IsFiniteSet(DOMAIN content')
  <2>1. UNION {RowsNow(o) : o \in O} \in SUBSET (Batches \X Nat)
    <3>1. \A o \in O : content[o] \in SUBSET (Batches \X Nat)
      BY <1>0 DEF RowsLie, IsMap
    <3> QED BY <3>1 DEF RowsNow
  <2>2. IsMap(Entry(n, UNION {RowsNow(o) : o \in O}), Batches, SUBSET (Batches \X Nat))
    BY <2>1, EntryIsMap
  <2>3. IsFiniteSet(DOMAIN content')
    BY <1>0, <1>11, FS_AddElement DEF RowsLie
  <2> QED BY <1>0, <1>3, <2>2, <2>3, OverIsMap DEF RowsLie
<1>22. DOMAIN content' = DOMAIN chunks \cup DOMAIN files'
  BY <1>0, <1>8, <1>11 DEF RowsLie
<1> QED
  BY <1>3, <1>5, <1>6, <1>7, <1>14, <1>15, <1>16, <1>17, <1>18, <1>19, <1>20, <1>21, <1>22,
     CommitKeepsRows

\* A vector revoked ends when its file did: nothing shown changes.
LEMMA RevokeKeepsRows ==
    ASSUME RowInv, NEW b \in DOMAIN files, Revoke(b)
    PROVE  RowInv' /\ RowsEvolve
<1>0. CatalogType /\ RowsLie /\ VectorsAreMarked /\ files[b] \in FileEntry
  BY DEF RowInv, CatalogType, IsMap
<1>1. /\ RevokeDeletions(b, files[b].deleted_at) /\ files[b].deleted_at # 0
      /\ UNCHANGED rowVars /\ UNCHANGED storeVars
  BY DEF Revoke, Live, Untouched
<1>2. CatalogType'
  BY <1>0, <1>1, RevokeKeepsType DEF FileEntry
<1>3. ManifestEvolves
  BY <1>1, RevokeEvolves
<1>4. UNCHANGED <<tables, files, snapshot_version, content, marks, erased, chunks>>
  BY <1>1 DEF RevokeDeletions, structure, rowVars, storeVars
<1>5. DOMAIN deletions' = DOMAIN deletions
  BY <1>1 DEF RevokeDeletions, Over
<1>6. Extended(content, content') /\ Extended(marks, marks') /\ Written' = Written
  BY <1>4 DEF Extended, Written
<1>7. NewFilesLie /\ CommitsAreNoted /\ VectorsAreMarked'
  BY <1>0, <1>4, <1>5 DEF NewFilesLie, CommitsAreNoted, VectorsAreMarked
<1> QED
  BY <1>0, <1>1, <1>2, <1>3, <1>4, <1>6, <1>7, CommitKeepsRows DEF RowsLie

\* The one vector of a new statement.
LEMMA OneVector ==
    ASSUME NEW d, NEW b, NEW t, Drawn(d),
           deletions' =
               Over(NewDeletions(t, FreshDeletions(d, Entry(b, 1)), Entry(b, 1)), deletions)
    PROVE  /\ <<d, b>> \notin DOMAIN deletions
           /\ DOMAIN deletions' = DOMAIN deletions \cup {<<d, b>>}
           /\ deletions'[<<d, b>>].table = t /\ deletions'[<<d, b>>].revoked_at = 0
           /\ \A k \in DOMAIN deletions : deletions'[k] = deletions[k]
<1> DEFINE v == <<d, b>>
           fresh == FreshDeletions(d, Entry(b, 1))
           added == NewDeletions(t, fresh, Entry(b, 1))
<1>1. v \notin DOMAIN deletions
  BY DEF Drawn
<1>2. fresh = {v}
  BY <1>1 DEF FreshDeletions, Entry
<1>3. DOMAIN added = {v} /\ added[v].table = t /\ added[v].revoked_at = 0
  BY <1>2 DEF NewDeletions
<1>4. deletions' = Over(added, deletions)
  OBVIOUS
<1> HIDE DEF added
<1>5. /\ DOMAIN deletions' = DOMAIN deletions \cup {v} /\ deletions'[v] = added[v]
      /\ \A k \in DOMAIN deletions : deletions'[k] = deletions[k]
  BY <1>1, <1>3, <1>4 DEF Over
<1> QED BY <1>1, <1>3, <1>5

\* A statement marks one row of a file, with a vector of its own.
MarksOne(d, b, row) ==
    /\ Live(b) /\ row \in RowsNow(b)
    /\ <<d, b>> \notin DOMAIN deletions
    /\ DOMAIN deletions' = DOMAIN deletions \cup {<<d, b>>}
    /\ deletions'[<<d, b>>].table = files[b].table /\ deletions'[<<d, b>>].revoked_at = 0
    /\ \A k \in DOMAIN deletions : deletions'[k] = deletions[k]
    /\ marks' = Over(Entry(<<d, b>>, {row}), marks)
    /\ \A c \in DOMAIN files : c \in DOMAIN files' /\ files'[c] = files[c]
    /\ \A c \in DOMAIN content : c \in DOMAIN content' /\ content'[c] = content[c]

\* The vector hides its row from now on, and no other.
LEMMA MarkedRow ==
    ASSUME RowInv, NEW d \in DvIds, NEW b, NEW row, MarksOne(d, b, row)
    PROVE  /\ Extended(marks, marks') /\ VectorsAreMarked'
           /\ \A c \in DOMAIN files : \A other, u :
                 InForce(c, other, u)' <=> InForce(c, other, u) /\ ~(c = b /\ other = row)
<1> DEFINE v == <<d, b>>
<1>0. CatalogType /\ RowsLie /\ VectorsAreMarked
  BY DEF RowInv
<1> USE DEF MarksOne
<1>1. /\ DOMAIN marks' = DOMAIN deletions' /\ marks'[v] = {row}
      /\ \A k \in DOMAIN deletions : marks'[k] = marks[k]
  BY <1>0 DEF VectorsAreMarked, Over, Entry
<1>2. Extended(marks, marks')
  BY <1>0, <1>1 DEF Extended, VectorsAreMarked
<1>3. b \in DOMAIN files /\ b \in Batches /\ v[2] = b /\ v \in DvIds \X Batches
  BY <1>0 DEF Live, CatalogType, IsMap
<1>4. row \in Batches \X Nat
  BY <1>0, <1>3 DEF RowsNow, RowsLie, IsMap
<1>5. VectorsAreMarked'
  <2>1. IsMap(Entry(v, {row}), DvIds \X Batches, SUBSET (Batches \X Nat))
    BY <1>3, <1>4, EntryIsMap
  <2>2. IsMap(marks', DvIds \X Batches, SUBSET (Batches \X Nat))
    BY <1>0, <2>1, OverIsMap DEF VectorsAreMarked
  <2>3. \A k \in DOMAIN deletions' : k[2] \in DOMAIN files'
    BY <1>0, <1>3 DEF VectorsAreMarked
  <2> QED BY <1>1, <2>2, <2>3 DEF VectorsAreMarked
<1>6. ASSUME NEW c \in DOMAIN files, NEW other, NEW u
      PROVE  InForce(c, other, u)' <=> InForce(c, other, u) /\ ~(c = b /\ other = row)
  <2> HIDE DEF v
  <2>1. content'[c] = content[c] /\ c \in DOMAIN files' /\ files'[c] = files[c]
    BY <1>0 DEF RowsLie
  <2>2. \A k \in DOMAIN deletions : deletions'[k] = deletions[k] /\ marks'[k] = marks[k]
    BY <1>1
  <2>3. DOMAIN deletions' = DOMAIN deletions \cup {v} /\ v[2] = b /\ marks'[v] = {row}
        /\ deletions'[v].table = files[b].table /\ deletions'[v].revoked_at = 0
    BY <1>1, <1>3 DEF v
  <2>4. ASSUME InForce(c, other, u)' PROVE InForce(c, other, u) /\ ~(c = b /\ other = row)
    <3>1. InForce(c, other, u)
      BY <2>1, <2>2, <2>3, <2>4 DEF InForce
    <3>2. ASSUME c = b, other = row PROVE FALSE
      <4>1. v \in DOMAIN deletions' /\ v[2] = c /\ deletions'[v].table = u /\ other \in marks'[v]
        BY <2>1, <2>3, <2>4, <3>2 DEF InForce
      <4> QED BY <2>3, <2>4, <4>1 DEF InForce
    <3> QED BY <3>1, <3>2
  <2>5. ASSUME InForce(c, other, u), ~(c = b /\ other = row) PROVE InForce(c, other, u)'
    <3>1. ASSUME NEW k \in DOMAIN deletions', k[2] = c, deletions'[k].table = u,
                 deletions'[k].revoked_at = 0
          PROVE  other \notin marks'[k]
      <4>1. CASE k = v
        BY <2>3, <2>5, <3>1, <4>1
      <4>2. CASE k \in DOMAIN deletions
        BY <2>2, <2>5, <3>1, <4>2 DEF InForce
      <4> QED BY <2>3, <4>1, <4>2
    <3> QED BY <2>1, <2>5, <3>1 DEF InForce
  <2> QED BY <2>4, <2>5
<1> QED BY <1>2, <1>5, <1>6

\* A delete hides one row, whose key is erased.
LEMMA DeleteKeepsRows ==
    ASSUME RowInv, NEW d \in DvIds, NEW b \in DOMAIN files, NEW row, Delete(d, b, row)
    PROVE  RowInv' /\ RowsEvolve
<1> DEFINE t == files[b].table
<1>0. /\ CatalogType /\ RowsLie /\ ChunksInOrder /\ VectorsAreMarked /\ PairsOnce /\ PairsStay
      /\ t \in Tables /\ b \in Batches
  BY PresentPairs DEF RowInv, CatalogType, IsMap, FileEntry
<1>1. /\ Drawn(d) /\ Live(b) /\ row \in RowsNow(b) /\ ApplyDeletions(d, t, Entry(b, 1))
      /\ marks' = Over(Entry(<<d, b>>, {row}), marks) /\ erased' = erased \cup {KeyOf(row)}
      /\ content' = content /\ UNCHANGED storeVars
  BY DEF Delete, Untouched
<1>2. CatalogType'
  <2>1. IsMap(Entry(b, 1), Batches, Nat)
    BY <1>0, EntryIsMap
  <2> QED BY <1>0, <1>1, <2>1, ApplyDeletionsKeepsType
<1>3. ManifestEvolves
  BY <1>1, ApplyDeletionsEvolves
<1>4. UNCHANGED <<tables, files, chunks>>
  BY <1>1 DEF ApplyDeletions, structure, storeVars
<1>5. deletions' =
               Over(NewDeletions(t, FreshDeletions(d, Entry(b, 1)), Entry(b, 1)), deletions)
  BY <1>1 DEF ApplyDeletions
<1>6. /\ Extended(marks, marks') /\ VectorsAreMarked'
      /\ \A c \in DOMAIN files : \A other, u :
            InForce(c, other, u)' <=> InForce(c, other, u) /\ ~(c = b /\ other = row)
  <2>1. /\ <<d, b>> \notin DOMAIN deletions
        /\ DOMAIN deletions' = DOMAIN deletions \cup {<<d, b>>}
        /\ deletions'[<<d, b>>].table = t /\ deletions'[<<d, b>>].revoked_at = 0
        /\ \A k \in DOMAIN deletions : deletions'[k] = deletions[k]
    BY <1>1, <1>5, OneVector
  <2>2. \A c \in DOMAIN files : c \in DOMAIN files' /\ files'[c] = files[c]
    BY <1>4
  <2>3. \A c \in DOMAIN content : c \in DOMAIN content' /\ content'[c] = content[c]
    BY <1>1
  <2>4. Live(b) /\ row \in RowsNow(b) /\ marks' = Over(Entry(<<d, b>>, {row}), marks)
    BY <1>1
  <2>5. MarksOne(d, b, row)
    BY <2>1, <2>2, <2>3, <2>4 DEF MarksOne
  <2> QED BY <2>5, MarkedRow
<1>7. \A c, other, u :
          InForce(c, other, u)' <=> InForce(c, other, u) /\ ~(c = b /\ other = row)
  BY <1>4, <1>6 DEF InForce
<1>8. PairsOnce'
  <2> SUFFICES ASSUME NEW u \in Tables, NEW c, NEW e, NEW r, NEW other,
                      InForce(c, r, u)', InForce(e, other, u)', KeyOf(r) = KeyOf(other)
               PROVE  c = e /\ r = other
    BY DEF PairsOnce, KeyOf
  <2> QED BY <1>0, <1>7 DEF PairsOnce
<1>9. Written' = Written /\ Extended(content, content')
  BY <1>1 DEF Written, Extended
<1>10. PairsStay'
  <2> SUFFICES ASSUME NEW k \in (Written \cap DOMAIN files) \ erased', NEW u, u = files[k].table
               PROVE  \E c, r : InForce(c, r, u)' /\ KeyOf(r) = k
    BY <1>4, <1>9 DEF PairsStay, KeyOf, InForce
  <2> QED BY <1>0, <1>1, <1>7 DEF PairsStay
<1>11. NewFilesLie /\ CommitsAreNoted
  BY <1>4 DEF NewFilesLie, CommitsAreNoted
<1>12. erased \subseteq erased'
  BY <1>1
<1> QED
  BY <1>0, <1>1, <1>2, <1>3, <1>4, <1>6, <1>8, <1>9, <1>10, <1>11, <1>12,
     CommitKeepsRows DEF RowsLie

\* An update hides one row and writes another of its key.
LEMMA UpdateKeepsRows ==
    ASSUME RowInv, NEW d \in DvIds, NEW b \in DOMAIN files, NEW row, NEW n \in Batches,
           Update(d, b, row, n)
    PROVE  RowInv' /\ RowsEvolve
<1> DEFINE t == files[b].table
           next == <<row[1], row[2] + 1>>
           D == Entry(b, 1)
           N == Entry(n, [shard |-> S0, rows |-> 1])
<1>0. /\ CatalogType /\ RowsLie /\ ChunksInOrder /\ VectorsAreMarked /\ PairsOnce /\ PairsStay
      /\ t \in Tables /\ b \in Batches /\ WindowsInOrder /\ snapshot_version \in Nat
  BY PresentPairs DEF RowInv, CatalogType, IsMap, FileEntry
<1>1. /\ Drawn(d) /\ Live(b) /\ row \in RowsNow(b) /\ n \notin DOMAIN content
      /\ ApplyUpdate(d, t, D, N, 0)
      /\ marks' = Over(Entry(<<d, b>>, {row}), marks) /\ erased' = erased
      /\ content' = Over(Entry(n, {next}), content) /\ UNCHANGED storeVars
  BY DEF Update, Untouched
<1>2. n \notin DOMAIN files /\ n \notin DOMAIN chunks /\ n # b
  BY <1>0, <1>1 DEF RowsLie
<1>3. CatalogType'
  <2>1. IsMap(D, Batches, Nat)
    BY <1>0, EntryIsMap
  <2>2. IsMap(N, Batches, [shard : Shards, rows : Nat])
    BY ReadsAssumption, EntryIsMap
  <2> HIDE DEF D, N
  <2> QED BY <1>0, <1>1, <2>1, <2>2, ApplyUpdateKeepsType
<1>4. ManifestEvolves
  BY <1>1, ApplyUpdateEvolves
<1>5. UNCHANGED <<tables, chunks>> /\ snapshot_version' = snapshot_version + 1
  BY <1>1 DEF ApplyUpdate, structure, storeVars, NextSnapshot
<1>6. deletions' = Over(NewDeletions(t, FreshDeletions(d, D), D), deletions)
  BY <1>1 DEF ApplyUpdate
<1>7. /\ DOMAIN files' = DOMAIN files \cup {n}
      /\ files'[n].table = t /\ files'[n].deleted_at = 0
      /\ files'[n].valid_from = snapshot_version + 1
      /\ \A c \in DOMAIN files : files'[c] = files[c]
  <2>1. DOMAIN N \ DOMAIN files = {n} /\ N[n] = [shard |-> S0, rows |-> 1]
    BY <1>2 DEF Entry
  <2>2. files' = Over([c \in {n} |-> NewFile(t, N[c].shard, N[c].rows)], files)
    BY <1>1, <2>1 DEF ApplyUpdate
  <2>3. DOMAIN files' = DOMAIN files \cup {n} /\ files'[n] = NewFile(t, N[n].shard, N[n].rows)
        /\ \A c \in DOMAIN files : files'[c] = files[c]
    BY <1>2, <2>2 DEF Over
  <2> QED BY <2>3 DEF NewFile
<1>8. /\ DOMAIN content' = DOMAIN content \cup {n} /\ content'[n] = {next}
      /\ \A c \in DOMAIN content : content'[c] = content[c]
  BY <1>1 DEF Over, Entry
<1>9. row \in Batches \X Nat /\ row \in content[b] /\ next \in Batches \X Nat
  <2>1. row \in content[b]
    BY <1>1 DEF RowsNow
  <2>2. row \in Batches \X Nat
    BY <1>0, <2>1 DEF RowsLie, IsMap
  <2> QED BY <2>1, <2>2
<1>10. KeyOf(next) = KeyOf(row)
  BY DEF KeyOf
<1>11. InForce(b, row, t)
  BY <1>1, NowIsInForce
<1>12. /\ <<d, b>> \notin DOMAIN deletions /\ DOMAIN deletions' = DOMAIN deletions \cup {<<d, b>>}
       /\ deletions'[<<d, b>>].table = t /\ deletions'[<<d, b>>].revoked_at = 0
       /\ \A k \in DOMAIN deletions : deletions'[k] = deletions[k]
  BY <1>1, <1>6, OneVector
<1>13. /\ Extended(marks, marks') /\ VectorsAreMarked'
       /\ \A c \in DOMAIN files : \A other, u :
             InForce(c, other, u)' <=> InForce(c, other, u) /\ ~(c = b /\ other = row)
  <2>1. \A c \in DOMAIN files : c \in DOMAIN files' /\ files'[c] = files[c]
    BY <1>7
  <2>2. \A c \in DOMAIN content : c \in DOMAIN content' /\ content'[c] = content[c]
    BY <1>8
  <2>3. Live(b) /\ row \in RowsNow(b) /\ marks' = Over(Entry(<<d, b>>, {row}), marks)
    BY <1>1
  <2> HIDE DEF next, D, N
  <2>4. MarksOne(d, b, row)
    BY <1>12, <2>1, <2>2, <2>3 DEF MarksOne
  <2> QED BY <2>4, MarkedRow
<1>14. ASSUME NEW c, NEW other, NEW u
       PROVE  InForce(c, other, u)' <=>
                  \/ InForce(c, other, u) /\ ~(c = b /\ other = row)
                  \/ c = n /\ other = next /\ u = t
  <2>1. CASE c = n
    <3>1. \A k \in DOMAIN deletions' : k[2] # n
      BY <1>0, <1>2, <1>12 DEF VectorsAreMarked
    <3>2. ~InForce(n, other, u)
      BY <1>2 DEF InForce
    <3> HIDE DEF next
    <3>3. InForce(n, other, u)' <=> u = t /\ other = next
      BY <1>7, <1>8, <3>1 DEF InForce
    <3> QED BY <2>1, <3>2, <3>3
  <2>2. CASE c \in DOMAIN files
    BY <1>2, <1>13, <2>2
  <2>3. CASE c # n /\ c \notin DOMAIN files
    BY <1>7, <2>3 DEF InForce
  <2> QED BY <2>1, <2>2, <2>3
<1> HIDE DEF next, D, N
<1>15. PairsOnce'
  <2> SUFFICES ASSUME NEW u \in Tables, NEW c, NEW e, NEW r, NEW other,
                      InForce(c, r, u)', InForce(e, other, u)', KeyOf(r) = KeyOf(other)
               PROVE  c = e /\ r = other
    BY DEF PairsOnce, KeyOf
  <2> QED BY <1>0, <1>10, <1>11, <1>14 DEF PairsOnce
<1>16. Written' \subseteq Written
  <2> SUFFICES ASSUME NEW k \in Written' PROVE k \in Written
    OBVIOUS
  <2>1. PICK c, r : c \in DOMAIN content' /\ r \in content'[c] /\ k = KeyOf(r)
    BY WrittenHas
  <2>2. b \in DOMAIN content
    BY <1>0 DEF RowsLie
  <2> QED BY <1>8, <1>9, <1>10, <2>1, <2>2, WrittenHas
<1>17. PairsStay'
  <2> SUFFICES ASSUME NEW k \in (Written' \cap DOMAIN files') \ erased, NEW u, u = files'[k].table
               PROVE  \E c, r : InForce(c, r, u)' /\ KeyOf(r) = k
    <3>1. erased' = erased
      BY <1>1
    <3> QED BY <3>1 DEF PairsStay, KeyOf, InForce
  <2>1. k \in Written /\ k # n
    <3>1. k \in Written
      BY <1>16
    <3>2. PICK c, r : c \in DOMAIN content /\ r \in content[c] /\ k = KeyOf(r)
      BY <3>1, WrittenHas
    <3>3. k \in DOMAIN files \/ k \in DOMAIN chunks
      BY <1>0, <3>2 DEF RowsLie, ChunksInOrder, KeyOf
    <3> QED BY <1>2, <3>1, <3>3
  <2>2. k \in DOMAIN files /\ u = files[k].table
    BY <1>7, <2>1
  <2>3. CASE k = KeyOf(row)
    <3>1. u = t
      BY <1>0, <1>9, <2>2, <2>3 DEF RowsLie
    <3> QED BY <1>10, <1>14, <2>3, <3>1
  <2>4. CASE k # KeyOf(row)
    <3>1. PICK c, r : InForce(c, r, u) /\ KeyOf(r) = k
      BY <1>0, <2>1, <2>2 DEF PairsStay
    <3> QED BY <1>14, <2>4, <3>1
  <2> QED BY <2>3, <2>4
<1>18. NewFilesLie
  <2>1. /\ KeyOf(row) \in DOMAIN files /\ files[KeyOf(row)].table = t
        /\ files[KeyOf(row)].valid_from \in 1..snapshot_version
    BY <1>0, <1>9 DEF RowsLie, WindowsInOrder, FileInOrder
  <2> QED BY <1>0, <1>7, <1>8, <1>10, <2>1 DEF NewFilesLie
<1>19. CommitsAreNoted
  BY <1>2, <1>7 DEF CommitsAreNoted
<1>20. Extended(content, content')
  BY <1>8 DEF Extended
<1>21. IsMap(content', Batches, SUBSET (Batches \X Nat)) /\ IsFiniteSet(DOMAIN content')
  <2>1. IsMap(Entry(n, {next}), Batches, SUBSET (Batches \X Nat))
    BY <1>9, EntryIsMap
  <2>2. IsFiniteSet(DOMAIN content')
    BY <1>0, <1>8, FS_AddElement DEF RowsLie
  <2> QED BY <1>0, <1>1, <2>1, <2>2, OverIsMap DEF RowsLie
<1>22. DOMAIN content' = DOMAIN chunks \cup DOMAIN files'
  BY <1>0, <1>7, <1>8 DEF RowsLie
<1> QED
  BY <1>1, <1>3, <1>4, <1>5, <1>13, <1>15, <1>16, <1>17, <1>18, <1>19, <1>20, <1>21, <1>22,
     CommitKeepsRows

-----------------------------------------------------------------------------
(* Every step. *)

\* There are no rows at first.
LEMMA RowsInitially == ReadsInit => RowInv
<1> SUFFICES ASSUME ReadsInit PROVE RowInv
  OBVIOUS
<1>0. /\ files = Nothing /\ deletions = Nothing /\ content = Nothing /\ marks = Nothing
      /\ chunks = Nothing /\ released_watermark = 0 /\ snapshot_version = 1 /\ DOMAIN Nothing = {}
  BY DEF ReadsInit, Nothing
<1>1. CatalogType
  <2>1. IsMap(tables, Tables, Nat) /\ schemas \subseteq Tables \X Nat
    BY DEF ReadsInit, IsMap
  <2> QED
    BY <2>1, SchemaAssumption, NothingIsMap
    DEF ReadsInit, CatalogType, LeasesInit, LeasesType, LeaseEntry
<1>2. WindowsInOrder
  BY <1>0 DEF WindowsInOrder
<1>3. Written = {}
  BY <1>0 DEF Written
<1>4. IsFiniteSet({})
  BY FS_EmptySet
<1>5. RowsLie /\ ChunksInOrder /\ FreedAreMarked /\ VectorsAreMarked
  BY <1>0, <1>3, <1>4, NothingIsMap DEF RowsLie, ChunksInOrder, FreedAreMarked, VectorsAreMarked
<1>6. KeysStay
  BY <1>3 DEF KeysStay
<1>7. KeysOnce
  BY <1>0 DEF KeysOnce, RowsAt, RowsOf, VisibleFiles
<1> QED BY <1>1, <1>2, <1>5, <1>6, <1>7 DEF RowInv

\* A copy may be swapped in, in one process with a reclaim by its number.
LEMMA SwapKeepsRows ==
    ASSUME RowInv, CopiesInv, NEW r \in Refreshers, Swap(r)
    PROVE  RowInv' /\ RowsEvolve
<1>1. /\ UNCHANGED <<catalogVars, rowVars>> /\ work[r] # AtRest
      /\ IF deployment = "standalone" THEN Reclaim(work[r].base.snapshot) ELSE UNCHANGED storeVars
  BY DEF Swap, RefreshOnly, AtRest
<1>2. work[r].base.snapshot \in Past
  BY <1>1 DEF CopiesInv, OfThePast
<1>3. CASE deployment = "standalone"
  BY <1>1, <1>2, <1>3, ReclaimKeepsRows
<1>4. CASE deployment # "standalone"
  BY <1>1, <1>4, QuietKeepsRows
<1> QED BY <1>3, <1>4

\* Every step keeps the rows.
LEMMA StepKeepsRows ==
    ASSUME RowInv, CopiesInv, [ReadsNext]_readsVars
    PROVE  RowInv' /\ RowsEvolve
<1>1. CASE UNCHANGED readsVars
  BY <1>1, QuietKeepsRows DEF readsVars
<1>2. ASSUME NEW b \in Batches, NEW t \in Tables, Absorb(b, t) PROVE RowInv' /\ RowsEvolve
  BY <1>2, AbsorbKeepsRows
<1>3. ASSUME NEW b \in Batches, ChunkStep(b) PROVE RowInv' /\ RowsEvolve
  BY <1>3, NoteKeepsRows, FlushKeepsRows, MarkKeepsRows DEF ChunkStep
<1>4. CASE DataNodeReclaims
  <2>1. PICK s \in Past : Reclaim(s)
    BY <1>4 DEF DataNodeReclaims, Past
  <2> QED BY <1>4, <2>1, ReclaimKeepsRows DEF DataNodeReclaims
<1>5. CASE Maintains
  <2>1. ASSUME NEW O \in (SUBSET DOMAIN files) \ {{}}, NEW n \in Batches, Merge(O, n)
        PROVE  RowInv' /\ RowsEvolve
    BY <2>1, MergeKeepsRows
  <2>2. ASSUME NEW b \in DOMAIN files, Revoke(b) PROVE RowInv' /\ RowsEvolve
    BY <2>2, RevokeKeepsRows
  <2>3. ASSUME NEW d \in DvIds, NEW b \in DOMAIN files, NEW row \in content[b], Delete(d, b, row)
        PROVE  RowInv' /\ RowsEvolve
    BY <2>3, DeleteKeepsRows
  <2>4. ASSUME NEW d \in DvIds, NEW b \in DOMAIN files, NEW row \in content[b], NEW n \in Batches,
               Update(d, b, row, n)
        PROVE  RowInv' /\ RowsEvolve
    BY <2>4, UpdateKeepsRows
  <2> QED BY <1>5, <2>1, <2>2, <2>3, <2>4 DEF Maintains
<1>6. CASE LoopBegins
  BY <1>6, QuietKeepsRows DEF LoopBegins, RefreshOnly
<1>7. ASSUME NEW r \in Refreshers, RefreshStep(r) PROVE RowInv' /\ RowsEvolve
  <2>1. CASE Choose(r) \/ AskDelta(r) \/ List(r)
    BY <2>1, QuietKeepsRows DEF Choose, AskDelta, List, RefreshOnly
  <2> QED BY <1>7, <2>1, SwapKeepsRows DEF RefreshStep
<1>8. ASSUME NEW r \in Refreshers, RefreshFails(r) PROVE RowInv' /\ RowsEvolve
  BY <1>8, QuietKeepsRows DEF RefreshFails
<1>9. CASE QueryBegins
  BY <1>9, QuietKeepsRows DEF QueryBegins, Ask, QueryOnly
<1>10. CASE QueryStep
  BY <1>10, QuietKeepsRows
  DEF QueryStep, Attempt, Throttled, EnsureFresh, Refreshed, Session, FoldFar, FallBack,
      ReadMarkFirst, ReadStore, Unreachable, Answer, Retry, GiveUp, QueryOnly
<1> QED BY <1>1, <1>2, <1>3, <1>4, <1>5, <1>6, <1>7, <1>8, <1>9, <1>10 DEF ReadsNext

-----------------------------------------------------------------------------
(* What any step leaves of the past. *)

\* Files and vectors stay known, and so do the snapshots.
LEMMA PastGrows ==
    ASSUME RowInv, RowInv', RowsEvolve
    PROVE  /\ DOMAIN files \subseteq DOMAIN files' /\ DOMAIN deletions \subseteq DOMAIN deletions'
           /\ Past \subseteq Past' /\ snapshot_version <= snapshot_version'
           /\ released_watermark <= released_watermark' /\ erased \subseteq erased'
           /\ snapshot_version \in Nat /\ snapshot_version' \in Nat
<1>1. DOMAIN files \subseteq DOMAIN files'
  BY FilesPersist DEF RowInv, RowsEvolve
<1>2. DOMAIN deletions \subseteq DOMAIN deletions'
  BY DEF RowInv, VectorsAreMarked, RowsEvolve, Extended
<1>3. /\ snapshot_version \in Nat /\ snapshot_version' \in Nat
      /\ snapshot_version' \in {snapshot_version, snapshot_version + 1}
  BY DEF RowInv, CatalogType, RowsEvolve, ManifestEvolves
<1>4. Past \subseteq Past'
  BY <1>3 DEF Past
<1> QED BY <1>1, <1>2, <1>3, <1>4 DEF RowsEvolve

\* So a copy of the past remains one, ...
LEMMA CopiesRemain ==
    ASSUME RowInv, RowInv', RowsEvolve
    PROVE  /\ CopyType \subseteq CopyType' /\ Past \subseteq Past'
           /\ Refreshing \subseteq Refreshing' /\ Query \subseteq Query'
<1>1. /\ DOMAIN files \subseteq DOMAIN files' /\ DOMAIN deletions \subseteq DOMAIN deletions'
      /\ Past \subseteq Past'
  BY PastGrows
<1>2. CopyType \subseteq CopyType'
  <2>1. [files : SUBSET DOMAIN files, deletions : SUBSET DOMAIN deletions]
            \subseteq [files : SUBSET DOMAIN files', deletions : SUBSET DOMAIN deletions']
    BY <1>1
  <2> QED BY <2>1 DEF CopyType
<1>3. Refreshing \subseteq Refreshing'
  BY <1>2 DEF Refreshing
<1>4. Query \subseteq Query'
  BY <1>1, <1>2 DEF Query, RowSets
<1> QED BY <1>1, <1>2, <1>3, <1>4

\* ... a snapshot shows what it showed, ...
LEMMA ShowsRemain ==
    ASSUME RowInv, RowInv', RowsEvolve, NEW t \in Tables, NEW s \in Past
    PROVE  VisibleFiles(t, s)' = VisibleFiles(t, s) /\ RowsAt(t, s)' = RowsAt(t, s)
BY PastStays DEF RowInv, RowsEvolve

\* ... files known show what they showed, ...
LEMMA RowsRemain ==
    ASSUME RowInv, RowsEvolve, NEW F \in SUBSET DOMAIN files, NEW D \in SUBSET DOMAIN deletions
    PROVE  RowsOf(F, D)' = RowsOf(F, D)
<1>1. F \subseteq DOMAIN content /\ D \subseteq DOMAIN marks
  BY DEF RowInv, RowsLie, VectorsAreMarked
<1> QED BY <1>1, ShownStays DEF RowsEvolve

\* ... and a row written to a table stays written to it.
LEMMA WrittenRemains ==
    ASSUME RowInv, RowInv', RowsEvolve, NEW t
    PROVE  WrittenTo(t) \subseteq WrittenTo(t)'
<1> SUFFICES ASSUME NEW k \in WrittenTo(t) PROVE k \in WrittenTo(t)'
  OBVIOUS
<1>1. k \in Written'
  BY WrittenHas DEF WrittenTo, RowsEvolve, Extended
<1>2. ASSUME k \in DOMAIN files, files[k].table = t PROVE k \in WrittenTo(t)'
  BY <1>1, <1>2, FilesPersist DEF RowInv, RowsEvolve, WrittenTo
<1>3. ASSUME k \in DOMAIN chunks, chunks[k].table = t PROVE k \in WrittenTo(t)'
  <2>1. CASE k \in DOMAIN chunks'
    BY <1>1, <1>3, <2>1 DEF RowsEvolve, WrittenTo
  <2>2. CASE k \notin DOMAIN chunks'
    <3>1. k \in DOMAIN files /\ files[k].table = t
      BY <1>3, <2>2 DEF RowsEvolve, RowInv, ChunksInOrder
    <3> QED BY <1>2, <3>1
  <2> QED BY <2>1, <2>2
<1> QED BY <1>2, <1>3 DEF WrittenTo

-----------------------------------------------------------------------------
(* The copies of the catalog. *)

\* The first copy is of the first snapshot.
LEMMA CopiesInitially == ReadsInit => CopiesInv
<1> SUFFICES ASSUME ReadsInit PROVE CopiesInv
  OBVIOUS
<1>1. cache \in CopyType
  BY DEF ReadsInit, CopyType
<1>2. cache.snapshot \in Past
  BY DEF ReadsInit, Past
<1>3. \A r \in Refreshers : work[r] = AtRest
  BY DEF ReadsInit
<1>4. work \in [Refreshers -> {AtRest} \cup Refreshing]
  BY DEF ReadsInit
<1> QED BY <1>1, <1>2, <1>3, <1>4 DEF CopiesInv, OfThePast

\* A copy that lists its tables now is of the past.
LEMMA NextCopyIsCopy ==
    ASSUME CatalogType, NEW w \in Refreshing, NEW s \in Past, s = snapshot_version
    PROVE  NextCopy(w) \in CopyType /\ NextCopy(w).snapshot \in Past
<1> DEFINE lists == Listed(w.names, snapshot_version)
<1>1. w.names \subseteq Tables /\ w.base \in CopyType /\ w.ver \in [schema : Nat, manifest : Nat]
  BY DEF Refreshing
<1>2. /\ DOMAIN lists = w.names
      /\ \A t \in w.names :
            lists[t] \in [files : SUBSET DOMAIN files, deletions : SUBSET DOMAIN deletions]
  BY DEF Listed, VisibleFiles, ListDeletions
<1>3. w.base.tables \in
          [Tables -> [files : SUBSET DOMAIN files, deletions : SUBSET DOMAIN deletions]]
  BY <1>1 DEF CopyType
<1>4. Over(lists, w.base.tables) \in
          [Tables -> [files : SUBSET DOMAIN files, deletions : SUBSET DOMAIN deletions]]
  <2> HIDE DEF lists
  <2>1. DOMAIN Over(lists, w.base.tables) = Tables
    BY <1>1, <1>2, <1>3 DEF Over
  <2> QED BY <1>1, <1>2, <1>3, <2>1 DEF Over
<1>5. snapshot_version \in Nat
  BY DEF CatalogType
<1>6. NextCopy(w) = [ver |-> w.ver, snapshot |-> snapshot_version,
                     tables |-> Over(lists, w.base.tables)]
  BY DEF NextCopy
<1> HIDE DEF lists
<1> QED BY <1>1, <1>4, <1>5, <1>6 DEF CopyType

\* A copy, and a refresh on its way, stay of the past.
LEMMA WorkRemains ==
    ASSUME RowInv, RowInv', RowsEvolve, CopiesInv
    PROVE  /\ cache \in CopyType' /\ cache.snapshot \in Past'
           /\ work \in [Refreshers -> {AtRest} \cup Refreshing']
           /\ \A r \in Refreshers :
                 \/ work[r] = AtRest
                 \/ /\ work[r] \in Refreshing'
                    /\ work[r].base \in CopyType' /\ work[r].base.snapshot \in Past'
<1>1. CopyType \subseteq CopyType' /\ Past \subseteq Past' /\ Refreshing \subseteq Refreshing'
  BY CopiesRemain
<1> QED BY <1>1 DEF CopiesInv, OfThePast

\* A step of one refresh that comes to a copy of the past.
LEMMA OneRefreshes ==
    ASSUME RowInv, RowInv', RowsEvolve, CopiesInv, NEW r \in Refreshers, NEW w,
           work' = [work EXCEPT ![r] = w],
           w = AtRest \/ (w \in Refreshing' /\ w.base \in CopyType' /\ w.base.snapshot \in Past'),
           cache' \in CopyType', cache'.snapshot \in Past'
    PROVE  CopiesInv'
BY WorkRemains DEF CopiesInv, OfThePast

\* Every step keeps the copies of the past.
LEMMA StepKeepsCopies ==
    ASSUME RowInv, RowInv', RowsEvolve, CopiesInv, [ReadsNext]_readsVars
    PROVE  CopiesInv'
<1>0. /\ cache \in CopyType /\ cache.snapshot \in Past
      /\ cache \in CopyType' /\ cache.snapshot \in Past'
      /\ CatalogType /\ snapshot_version \in Past
  <2>1. snapshot_version \in Past
    BY DEF CopiesInv, OfThePast, Past, RowInv, CatalogType
  <2> QED BY <2>1, WorkRemains DEF CopiesInv, OfThePast, RowInv
<1>1. ASSUME UNCHANGED <<cache, work>> PROVE CopiesInv'
  BY <1>1, WorkRemains DEF CopiesInv, OfThePast
<1>2. ASSUME NEW r \in Refreshers, AskVersion(r), cache' = cache PROVE CopiesInv'
  <2> DEFINE w == [at |-> "version", ver |-> Version, base |-> cache, names |-> {}]
  <2>1. w \in Refreshing /\ w.base = cache
    BY <1>0 DEF Refreshing, Version, CatalogType
  <2>2. w \in Refreshing'
    BY <2>1, CopiesRemain
  <2>3. work' = [work EXCEPT ![r] = w]
    BY <1>2 DEF AskVersion
  <2> HIDE DEF w
  <2> QED BY <1>0, <1>2, <2>1, <2>2, <2>3, OneRefreshes
<1>3. ASSUME NEW r \in Refreshers, Choose(r) PROVE CopiesInv'
  <2> DEFINE w == IF work[r].ver.schema # cache.ver.schema
                  THEN [work[r] EXCEPT !.at = "list", !.base = cache, !.names = Tables]
                  ELSE IF work[r].ver.manifest # cache.ver.manifest
                       THEN [work[r] EXCEPT !.at = "delta", !.base = cache]
                       ELSE AtRest
  <2>1. work[r] \in Refreshing
    BY <1>3 DEF Choose, CopiesInv, AtRest
  <2>2. w = AtRest \/ (w \in Refreshing /\ w.base = cache)
    BY <1>0, <2>1 DEF Refreshing
  <2>3. work' = [work EXCEPT ![r] = w] /\ cache' = cache
    BY <1>3 DEF Choose
  <2> HIDE DEF w
  <2> QED BY <1>0, <2>2, <2>3, OneRefreshes, CopiesRemain
<1>4. ASSUME NEW r \in Refreshers, AskDelta(r) PROVE CopiesInv'
  <2> DEFINE w == [work[r] EXCEPT !.at = "list",
                                  !.names = ManifestDelta(work[r].base.ver.manifest)]
  <2>1. work[r] \in Refreshing /\ work[r].base.snapshot \in Past
    BY <1>4 DEF AskDelta, CopiesInv, OfThePast, AtRest
  <2>2. ManifestDelta(work[r].base.ver.manifest) \subseteq Tables
    BY <1>0 DEF ManifestDelta, CatalogType, IsMap
  <2>3. w \in Refreshing /\ w.base = work[r].base
    BY <2>1, <2>2 DEF Refreshing
  <2>4. work' = [work EXCEPT ![r] = w] /\ cache' = cache
    BY <1>4, <2>1 DEF AskDelta, CopiesInv
  <2>5. w.base \in CopyType
    BY <2>3 DEF Refreshing
  <2> HIDE DEF w
  <2> QED BY <1>0, <2>1, <2>3, <2>4, <2>5, OneRefreshes, CopiesRemain
<1>5. ASSUME NEW r \in Refreshers, List(r) PROVE CopiesInv'
  <2> DEFINE w == [work[r] EXCEPT !.at = "swap", !.base = NextCopy(work[r])]
  <2>1. work[r] \in Refreshing
    BY <1>5 DEF List, CopiesInv, AtRest
  <2>2. NextCopy(work[r]) \in CopyType /\ NextCopy(work[r]).snapshot \in Past
    BY <1>0, <2>1, NextCopyIsCopy
  <2>3. w \in Refreshing /\ w.base = NextCopy(work[r])
    BY <2>1, <2>2 DEF Refreshing
  <2>4. work' = [work EXCEPT ![r] = w] /\ cache' = cache
    BY <1>5 DEF List
  <2> HIDE DEF w
  <2> QED BY <1>0, <2>2, <2>3, <2>4, OneRefreshes, CopiesRemain
<1>6. ASSUME NEW r \in Refreshers, Swap(r) PROVE CopiesInv'
  <2>1. work[r] \in Refreshing' /\ work[r].base \in CopyType' /\ work[r].base.snapshot \in Past'
    BY <1>6, WorkRemains DEF Swap, AtRest
  <2>2. work' = [work EXCEPT ![r] = AtRest] /\ cache' = work[r].base
    BY <1>6 DEF Swap
  <2> QED BY <2>1, <2>2, OneRefreshes
<1>7. ASSUME NEW r \in Refreshers, RefreshFails(r) PROVE CopiesInv'
  BY <1>0, <1>7, OneRefreshes DEF RefreshFails
<1>8. CASE UNCHANGED readsVars
  BY <1>1, <1>8 DEF readsVars
<1>9. CASE \E b \in Batches, t \in Tables : Absorb(b, t)
  BY <1>1, <1>9 DEF Absorb
<1>10. CASE (\E b \in Batches : ChunkStep(b)) \/ DataNodeReclaims
  BY <1>1, <1>10 DEF ChunkStep, Note, FlushCommit, Mark, DataNodeReclaims
<1>11. CASE Maintains
  BY <1>1, <1>11 DEF Maintains, Merge, Revoke, Delete, Update, Untouched
<1>12. CASE LoopBegins
  BY <1>2, <1>12 DEF LoopBegins, Refreshers
<1>13. CASE QueryBegins
  BY <1>1, <1>13 DEF QueryBegins, Ask, QueryOnly
<1>14. CASE QueryStep
  <2>1. CASE EnsureFresh \/ Retry
    BY <1>2, <2>1 DEF EnsureFresh, Retry, QueryOnly, Refreshers
  <2>2. CASE ~(EnsureFresh \/ Retry)
    BY <1>1, <1>14, <2>2
    DEF QueryStep, Attempt, Throttled, Refreshed, Session, FoldFar, FallBack,
        ReadMarkFirst, ReadStore, Unreachable, Answer, GiveUp, QueryOnly
  <2> QED BY <2>1, <2>2
<1> QED
  BY <1>3, <1>4, <1>5, <1>6, <1>7, <1>8, <1>9, <1>10, <1>11, <1>12, <1>13, <1>14
  DEF ReadsNext, RefreshStep

-----------------------------------------------------------------------------
(* What a step of another leaves of a query. *)

\* A plan goes on standing for the same rows.
LEMMA ShownRemains ==
    ASSUME RowInv, RowInv', RowsEvolve, NEW q, q \in Query
    PROVE  Shown(PlanOf(q))' = Shown(PlanOf(q))
<1>1. /\ PlanOf(q).files \in SUBSET DOMAIN files
      /\ PlanOf(q).deletions \in SUBSET DOMAIN deletions
  BY DEF Query, PlanOf, CopyType
<1>2. RowsOf(PlanOf(q).files, PlanOf(q).deletions)' = RowsOf(PlanOf(q).files, PlanOf(q).deletions)
  BY <1>1, RowsRemain DEF PlanOf
<1> QED BY <1>2 DEF Shown, PlanOf

\* So what a query has read stays what its plan shows, and the watermark only rises.
LEMMA AskedWellRemains ==
    ASSUME RowInv, RowInv', RowsEvolve, NEW q, AskedWell(q)
    PROVE  AskedWell(q)'
<1>0. q \in Query /\ q.plan \in CopyType /\ q.plan.snapshot \in Past /\ q.table \in Tables
  BY DEF AskedWell, OfThePast, Query
<1>1. q \in Query' /\ OfThePast(q.plan)'
  BY <1>0, CopiesRemain DEF OfThePast
<1>2. (q.born \subseteq WrittenTo(q.table))'
  BY <1>0, WrittenRemains DEF AskedWell
<1>3. PlanOK(q)'
  BY DEF AskedWell, PlanOK, PlanOf
<1>4. Shown(PlanOf(q))' = Shown(PlanOf(q))
  BY <1>0, ShownRemains
<1>5. ColdOK(q)'
  BY <1>4 DEF AskedWell, ColdOK
<1>6. PlanTrue(q)' <=> PlanTrue(q)
  BY <1>0, <1>4, ShowsRemain DEF PlanTrue, PlanOf
<1>7. erased \subseteq erased' /\ released_watermark <= released_watermark'
  BY DEF RowsEvolve
<1>8. HotOK(q)'
  <2> SUFFICES ASSUME q.pc \in {"mark", "judge", "answered"}, q.odd = {}, PlanTrue(q)'
               PROVE  /\ \A x \in q.hot :
                            x = <<x[1], <<x[1], 0>>>> /\ ~KeyIn(Shown(PlanOf(q))', x[1])
                      /\ \A k \in q.born \ erased' :
                            \/ KeyIn(q.hot, k) \/ KeyIn(Shown(PlanOf(q))', k)
                            \/ q.pc = "mark" /\ q.plan.snapshot < released_watermark'
                            \/ q.pc # "mark" /\ q.plan.snapshot < q.mark
    BY DEF HotOK, KeyIn, KeyOf
  <2>1. /\ \A x \in q.hot : x = <<x[1], <<x[1], 0>>>> /\ ~KeyIn(Shown(PlanOf(q)), x[1])
        /\ \A k \in q.born \ erased :
              \/ KeyIn(q.hot, k) \/ KeyIn(Shown(PlanOf(q)), k)
              \/ q.pc = "mark" /\ q.plan.snapshot < released_watermark
              \/ q.pc # "mark" /\ q.plan.snapshot < q.mark
    BY <1>6 DEF AskedWell, HotOK
  <2>2. q.plan.snapshot \in Nat /\ released_watermark \in Nat /\ released_watermark' \in Nat
    BY <1>0 DEF RowInv, FreedAreMarked, Past
  <2> QED BY <1>4, <1>7, <2>1, <2>2
<1>9. (q.pc = "answered" => q.mark <= q.plan.snapshot)'
  BY DEF AskedWell
<1> QED BY <1>1, <1>2, <1>3, <1>5, <1>8, <1>9 DEF AskedWell

\* A query that asked well, put in the place of another.
LEMMA AskedWellNext ==
    ASSUME NEW q, AskedWell(q)', query' = q
    PROVE  QueryInv'
BY DEF QueryInv, AskedWell, OfThePast, WrittenTo, PlanOK, PlanOf, ColdOK, Shown, HotOK, PlanTrue,
       KeyIn, KeyOf, RowsOf, RowsAt, Hidden, VisibleFiles, ListDeletions

-----------------------------------------------------------------------------
(* What a query finds in the store. *)

\* Keys are batches.
LEMMA KeysAreBatches == RowInv => Written \subseteq Batches
<1> SUFFICES ASSUME RowInv, NEW k \in Written PROVE k \in Batches
  OBVIOUS
<1>1. PICK b, row : b \in DOMAIN content /\ row \in content[b] /\ k = KeyOf(row)
  BY WrittenHas
<1> QED BY <1>1 DEF RowInv, RowsLie, IsMap, KeyOf

\* None of these chunks was merged away before it was marked.
NoneMerged(found, s) ==
    \A b \in found :
        ~(/\ chunks[b].committed = 0 /\ b \in DOMAIN files
          /\ ~VisibleAt(files[b], s) /\ files[b].valid_from <= s)

\* A chunk that is found is of no file the plan shows ...
LEMMA FoundIsNew ==
    ASSUME RowInv, NEW t \in Tables, NEW s \in Past, NEW F, F = VisibleFiles(t, s),
           NEW k \in VisibleChunks(t, s, F),
           NoneMerged({k}, s)
    PROVE  ~KeyIn(RowsAt(t, s), k)
<1> SUFFICES ASSUME NEW x \in RowsAt(t, s), KeyOf(x[2]) = k PROVE FALSE
  BY DEF KeyIn
<1>1. /\ k \in DOMAIN chunks /\ chunks[k].table = t /\ ~(chunks[k].noted /\ k \in F)
      /\ chunks[k].committed = 0 \/ s < chunks[k].committed
  BY DEF VisibleChunks
<1>2. x[1] \in VisibleFiles(t, s) /\ x[2] \in content[x[1]]
  BY RowsArePairs DEF RowsAt
<1>3. x[1] \in DOMAIN files /\ files[x[1]].table = t /\ files[x[1]].valid_from <= s
  BY <1>2 DEF VisibleFiles, VisibleAt
<1>4. k \in DOMAIN files /\ files[k].table = t /\ files[k].valid_from <= files[x[1]].valid_from
  BY <1>2, <1>3 DEF RowInv, RowsLie
<1>5. files[k].valid_from \in Nat /\ files[x[1]].valid_from \in Nat /\ s \in Nat
  BY <1>3, <1>4 DEF RowInv, CatalogType, IsMap, FileEntry, Past
<1>6. files[k].valid_from <= s
  BY <1>3, <1>4, <1>5
<1>7. chunks[k].noted /\ k \notin VisibleFiles(t, s)
  BY <1>1, <1>4 DEF RowInv, ChunksInOrder
<1>8. ~VisibleAt(files[k], s)
  BY <1>4, <1>7 DEF VisibleFiles
<1>9. chunks[k].committed = 0
  BY <1>1, <1>4, <1>5, <1>6 DEF RowInv, ChunksInOrder
<1> QED BY <1>4, <1>6, <1>8, <1>9 DEF NoneMerged

\* ... and one that is not found is of a file it does show, or was freed late.
LEMMA NotFoundIsShown ==
    ASSUME RowInv, NEW t \in Tables, NEW s \in Past, NEW F, F = VisibleFiles(t, s),
           NEW k \in WrittenTo(t) \ erased, k \notin VisibleChunks(t, s, F)
    PROVE  KeyIn(RowsAt(t, s), k) \/ s < released_watermark
<1>0. k \in Written /\ s \in Nat /\ s \in 1..snapshot_version /\ released_watermark \in Nat
  BY DEF WrittenTo, Past, RowInv, FreedAreMarked
<1>1. ASSUME k \in DOMAIN files, files[k].table = t, files[k].valid_from <= s
      PROVE  KeyIn(RowsAt(t, s), k)
  <2>1. s \in files[k].valid_from..snapshot_version
    BY <1>0, <1>1 DEF RowInv, CatalogType, IsMap, FileEntry
  <2> QED BY <1>0, <1>1, <2>1 DEF RowInv, KeysStay
<1>2. CASE k \notin DOMAIN chunks
  <2>1. k \in DOMAIN files /\ files[k].valid_from <= released_watermark /\ files[k].table = t
    BY <1>0, <1>2 DEF RowInv, FreedAreMarked, WrittenTo
  <2>2. files[k].valid_from \in Nat
    BY <2>1 DEF RowInv, CatalogType, IsMap, FileEntry
  <2> QED BY <1>0, <1>1, <2>1, <2>2
<1>3. CASE k \in DOMAIN chunks
  <2>1. chunks[k].table = t
    BY <1>3 DEF RowInv, ChunksInOrder, WrittenTo
  <2>2. CASE k \in F
    BY <1>1, <2>2 DEF VisibleFiles, VisibleAt
  <2>3. CASE chunks[k].committed # 0 /\ ~(s < chunks[k].committed)
    <3>1. /\ k \in DOMAIN files /\ chunks[k].committed = files[k].valid_from
          /\ files[k].table = t
      BY <1>3, <2>1, <2>3 DEF RowInv, ChunksInOrder
    <3>2. files[k].valid_from \in Nat
      BY <3>1 DEF RowInv, CatalogType, IsMap, FileEntry
    <3> QED BY <1>0, <1>1, <2>3, <3>1, <3>2
  <2> QED BY <1>3, <2>1, <2>2, <2>3 DEF VisibleChunks
<1> QED BY <1>2, <1>3

\* Hot rows that are none of what the plan shows, and leave out only what it
\* shows or what was freed late.
HotFits(q, hot) ==
    /\ \A x \in hot : x = <<x[1], <<x[1], 0>>>> /\ ~KeyIn(Shown(PlanOf(q)), x[1])
    /\ \A k \in q.born \ erased :
          \/ KeyIn(hot, k) \/ KeyIn(Shown(PlanOf(q)), k)
          \/ q.plan.snapshot < released_watermark

\* The chunks found are such.
LEMMA HotRowsFit ==
    ASSUME RowInv, NEW q, q \in Query, OfThePast(q.plan), q.born \subseteq WrittenTo(q.table),
           PlanTrue(q),
           NEW found, found = VisibleChunks(q.table, q.plan.snapshot, PlanOf(q).files),
           NEW hot, hot = UNION {{b} \X content[b] : b \in found},
           NoneMerged(found, q.plan.snapshot)
    PROVE  HotFits(q, hot)
<1>0. q.table \in Tables /\ q.plan.snapshot \in Past
  BY DEF Query, OfThePast
<1>1. PlanOf(q).files = VisibleFiles(q.table, q.plan.snapshot)
  BY DEF PlanTrue
<1>2. Shown(PlanOf(q)) = RowsAt(q.table, q.plan.snapshot)
  BY DEF PlanTrue
<1>3. \A b \in found : content[b] = {<<b, 0>>}
  BY DEF VisibleChunks, RowInv, ChunksInOrder
<1>4. ASSUME NEW x \in hot
      PROVE  x = <<x[1], <<x[1], 0>>>> /\ ~KeyIn(Shown(PlanOf(q)), x[1])
  <2>1. PICK b \in found : x \in {b} \X content[b]
    OBVIOUS
  <2>2. x = <<b, <<b, 0>>>>
    BY <1>3, <2>1
  <2>3. ~KeyIn(RowsAt(q.table, q.plan.snapshot), b)
    <3>1. /\ NoneMerged({b}, q.plan.snapshot)
          /\ b \in VisibleChunks(q.table, q.plan.snapshot, PlanOf(q).files)
      BY DEF NoneMerged
    <3> QED BY <1>0, <1>1, <3>1, FoundIsNew
  <2> QED BY <1>2, <2>2, <2>3
<1>5. ASSUME NEW k \in q.born \ erased
      PROVE  \/ KeyIn(hot, k) \/ KeyIn(Shown(PlanOf(q)), k)
             \/ q.plan.snapshot < released_watermark
  <2>1. CASE k \in found
    <3>1. <<k, <<k, 0>>>> \in hot
      BY <1>3, <2>1
    <3> QED BY <3>1 DEF KeyIn, KeyOf
  <2>2. CASE k \notin found
    BY <1>0, <1>1, <1>2, <2>2, NotFoundIsShown
  <2> QED BY <2>1, <2>2
<1> QED BY <1>4, <1>5 DEF HotFits

-----------------------------------------------------------------------------
(* The steps of a query. *)

\* Before the session there is nothing to say of what is read.
LEMMA NothingReadYet ==
    ASSUME NEW q, q \in Query, OfThePast(q.plan), q.born \subseteq WrittenTo(q.table), PlanOK(q),
           q.pc \in {"attempt", "fresh", "freshening", "session", "restale", "failed", "partial"}
    PROVE  AskedWell(q)
BY DEF AskedWell, ColdOK, HotOK

\* What is known of a query on its way.
LEMMA AskedWellBefore ==
    ASSUME QueryInv, query.pc # "none"
    PROVE  /\ query \in Query /\ OfThePast(query.plan)
           /\ query.born \subseteq WrittenTo(query.table)
           /\ PlanOK(query) /\ ColdOK(query) /\ HotOK(query) /\ query.plan.snapshot \in Nat
BY DEF QueryInv, AskedWell, OfThePast, Past

\* A query begins with the rows of its table, and the copy of the moment.
LEMMA AskAsksWell ==
    ASSUME RowInv, CopiesInv, QueryBegins, NEW q, q = query'
    PROVE  AskedWell(q)
<1>1. PICK kind \in {"scan", "aggregate"}, t \in Tables : Ask(kind, t)
  BY DEF QueryBegins
<1>2. q = [pc |-> "attempt", kind |-> kind, table |-> t, tries |-> 0,
           born |-> WrittenTo(t) \ erased, plan |-> cache, copy |-> cache, share |-> {},
           mark |-> 0, hot |-> {}, cold |-> {}, far |-> {}, odd |-> {}]
  BY <1>1 DEF Ask
<1>3. WrittenTo(t) \ erased \in SUBSET Batches
  BY KeysAreBatches DEF WrittenTo
<1>4. cache \in CopyType /\ OfThePast(cache)
  BY DEF CopiesInv, OfThePast
<1>5. q \in Query
  BY <1>2, <1>3, <1>4 DEF Query, RowSets
<1> QED BY <1>2, <1>4, <1>5, NothingReadYet DEF PlanOK

\* An attempt takes the copy of the moment as its plan.
LEMMA PlansAskWell ==
    ASSUME CopiesInv, QueryInv, NEW q, q = query',
           Attempt \/ Throttled \/ EnsureFresh \/ Refreshed \/ FallBack
    PROVE  AskedWell(q)
<1>0. /\ query \in Query /\ OfThePast(query.plan) /\ query.born \subseteq WrittenTo(query.table)
      /\ PlanOK(query)
  BY AskedWellBefore DEF Attempt, Throttled, EnsureFresh, Refreshed, FallBack, At
<1>1. CASE Attempt
  <2>1. PICK share \in SUBSET cache.tables[query.table].files :
            /\ share # {} => query.kind = "aggregate"
            /\ q = [query EXCEPT !.pc = "fresh", !.plan = cache, !.share = share,
                                 !.hot = {}, !.cold = {}, !.far = {}, !.odd = {}]
    BY <1>1 DEF Attempt
  <2>2. /\ cache \in CopyType /\ OfThePast(cache)
        /\ cache.tables[query.table].files \subseteq DOMAIN files
    BY <1>0 DEF CopiesInv, OfThePast, CopyType, Query
  <2>3. q \in Query /\ q.plan = cache /\ q.born = query.born /\ q.table = query.table
    <3>1. share \in SUBSET DOMAIN files
      BY <2>2
    <3>2. {} \in RowSets
      BY DEF RowSets
    <3> QED BY <1>0, <2>1, <2>2, <3>1, <3>2 DEF Query
  <2>4. q.pc = "fresh" /\ q.share = share /\ q.kind = query.kind /\ q.far = {}
    BY <1>0, <2>1 DEF Query
  <2>5. PlanOK(q)
    BY <1>0, <2>1, <2>3, <2>4 DEF PlanOK, PlanOf, Query
  <2> QED BY <1>0, <2>2, <2>3, <2>4, <2>5, NothingReadYet
<1>2. CASE Throttled \/ EnsureFresh \/ Refreshed
  <2>1. PICK pc \in {"session", "freshening", "attempt"} : q = [query EXCEPT !.pc = pc]
    BY <1>2 DEF Throttled, EnsureFresh, Refreshed
  <2>2. q \in Query /\ q.pc = pc /\ q.plan = query.plan /\ q.born = query.born
    BY <1>0, <2>1 DEF Query
  <2>3. q.table = query.table /\ q.share = query.share /\ q.kind = query.kind /\ q.far = query.far
    BY <1>0, <2>1 DEF Query
  <2>4. query.pc \in {"fresh", "freshening"} \/ pc = "attempt"
    BY <1>0, <1>2, <2>1, <2>2 DEF Throttled, EnsureFresh, Refreshed, At, Query
  <2>5. PlanOK(q)
    BY <1>0, <2>2, <2>3, <2>4 DEF PlanOK, PlanOf
  <2> QED BY <1>0, <2>2, <2>3, <2>5, NothingReadYet
<1>3. CASE FallBack
  <2>1. q = [query EXCEPT !.pc = "fresh", !.share = {}] /\ query.pc = "far"
    BY <1>3 DEF FallBack, At
  <2>2. q \in Query /\ q.pc = "fresh" /\ q.plan = query.plan /\ q.born = query.born
    BY <1>0, <2>1 DEF Query
  <2>3. q.table = query.table /\ q.share = {} /\ q.kind = query.kind /\ q.far = query.far
    BY <1>0, <2>1 DEF Query
  <2>4. PlanOK(q)
    BY <1>0, <2>1, <2>2, <2>3 DEF PlanOK, PlanOf
  <2> QED BY <1>0, <2>2, <2>3, <2>4, NothingReadYet
<1> QED BY <1>1, <1>2, <1>3

\* A session that shows what the plan shows reads the plan's part here.
LEMMA SessionAsksWell ==
    ASSUME RowInv, CopiesInv, QueryInv, NEW q, q = query', Session
    PROVE  AskedWell(q)
<1> DEFINE here == cache.tables[query.table]
           mine == IF query.kind = "scan" THEN here.files
                   ELSE here.files \cap (PlanFiles \ query.share)
           plan == IF query.kind = "scan" THEN cache ELSE query.plan
           pc == IF query.share = {} THEN "hot" ELSE "far"
           odd == query.odd \cup (IF query.kind = "aggregate" /\ Shown(here) # Shown(PlanTable)
                                  THEN {"moved"} ELSE {})
<1>0. /\ query \in Query /\ OfThePast(query.plan) /\ query.born \subseteq WrittenTo(query.table)
      /\ PlanOK(query) /\ query.pc = "session"
  BY AskedWellBefore DEF Session, At
<1>1. q = [query EXCEPT !.pc = pc, !.plan = plan, !.copy = cache,
                        !.cold = RowsOf(mine, here.deletions), !.odd = odd]
  BY <1>0 DEF Session, Query
<1>2. PlanTable = PlanOf(query) /\ PlanFiles = PlanOf(query).files
  BY DEF PlanTable, PlanFiles, PlanOf
<1>3. cache \in CopyType /\ OfThePast(cache) /\ here.files \subseteq DOMAIN files
  BY <1>0 DEF CopiesInv, OfThePast, CopyType, Query
<1>4. mine \subseteq here.files /\ mine \subseteq Batches
  BY <1>3 DEF RowInv, CatalogType, IsMap
<1>5. RowsOf(mine, here.deletions) \in RowSets
  <2> HIDE DEF mine, here
  <2>1. \A b \in mine : content[b] \subseteq Batches \X Nat
    BY <1>3, <1>4 DEF RowInv, RowsLie, IsMap
  <2> QED BY <1>4, <2>1 DEF RowsOf, RowSets
<1>6. odd \in SUBSET {"moved", "unmarked", "freed"}
  BY <1>0 DEF Query
<1>7. plan \in CopyType /\ OfThePast(plan)
  BY <1>0, <1>3 DEF Query
<1> HIDE DEF odd, mine, here
<1>8. /\ q \in Query /\ q.pc = pc /\ q.plan = plan /\ q.born = query.born /\ q.odd = odd
      /\ q.table = query.table /\ q.share = query.share /\ q.kind = query.kind
      /\ q.far = query.far /\ q.cold = RowsOf(mine, here.deletions)
  <2> DEFINE cold == RowsOf(mine, here.deletions)
  <2>1. q = [query EXCEPT !.pc = pc, !.plan = plan, !.copy = cache, !.cold = cold, !.odd = odd]
    BY <1>1
  <2>2. pc \in {"hot", "far"} /\ cold \in RowSets
    BY <1>5
  <2> HIDE DEF plan, pc, cold
  <2>3. q \in Query
    BY <1>0, <1>3, <1>6, <1>7, <2>1, <2>2 DEF Query
  <2> QED BY <1>0, <2>1, <2>3 DEF Query, cold
<1>9. query.far = {} /\ query.share \subseteq PlanOf(query).files
      /\ (query.kind = "scan" => query.share = {})
  BY <1>0 DEF PlanOK
<1>10. PlanOK(q)
  BY <1>8, <1>9 DEF PlanOK, PlanOf
<1>11. ASSUME odd = {}
       PROVE  /\ q.cold = {x \in Shown(PlanOf(q)) : x[1] \notin q.share}
              /\ {} = {x \in Shown(PlanOf(q)) : x[1] \in q.share} \/ pc = "far"
  <2>1. CASE query.kind = "scan"
    <3>1. PlanOf(q) = here /\ mine = here.files /\ q.share = {}
      BY <1>8, <1>9, <2>1 DEF PlanOf, here, mine
    <3> QED BY <1>8, <3>1 DEF Shown
  <2>2. CASE query.kind # "scan"
    <3>1. PlanOf(q) = PlanOf(query) /\ mine = here.files \cap (PlanOf(query).files \ query.share)
      BY <1>2, <1>8, <2>2 DEF PlanOf, mine
    <3>2. Shown(here) = Shown(PlanOf(query))
      BY <1>0, <1>2, <1>11, <2>2 DEF odd, Query
    <3>3. ASSUME NEW b, NEW row
          PROVE  <<b, row>> \in RowsOf(mine, here.deletions) <=>
                     <<b, row>> \in Shown(PlanOf(query)) /\ b \notin query.share
      <4>1. <<b, row>> \in RowsOf(mine, here.deletions) <=>
                b \in mine /\ row \in content[b] \ Hidden(b, here.deletions)
        BY RowsOfHas
      <4>2. <<b, row>> \in Shown(here) <=>
                b \in here.files /\ row \in content[b] \ Hidden(b, here.deletions)
        BY RowsOfHas DEF Shown
      <4>3. <<b, row>> \in Shown(PlanOf(query)) => b \in PlanOf(query).files
        BY RowsOfHas DEF Shown
      <4> QED BY <3>1, <3>2, <4>1, <4>2, <4>3
    <3>4. \A x \in RowsOf(mine, here.deletions) : x = <<x[1], x[2]>>
      BY RowsArePairs
    <3>5. \A x \in Shown(PlanOf(query)) : x = <<x[1], x[2]>>
      BY RowsArePairs DEF Shown
    <3>6. RowsOf(mine, here.deletions) = {x \in Shown(PlanOf(query)) : x[1] \notin query.share}
      BY <3>3, <3>4, <3>5
    <3> QED BY <1>8, <3>1, <3>6
  <2> QED BY <2>1, <2>2
<1>12. ColdOK(q)
  BY <1>8, <1>9, <1>11 DEF ColdOK
<1>13. HotOK(q) /\ q.pc # "answered"
  BY <1>8 DEF HotOK
<1> QED BY <1>0, <1>7, <1>8, <1>10, <1>12, <1>13 DEF AskedWell

\* The others read the plan's other part.
LEMMA FarAsksWell ==
    ASSUME RowInv, QueryInv, NEW q, q = query', FoldFar
    PROVE  AskedWell(q)
<1> DEFINE far == RowsOf(query.share, PlanTable.deletions)
<1>0. /\ query \in Query /\ OfThePast(query.plan) /\ query.born \subseteq WrittenTo(query.table)
      /\ PlanOK(query) /\ ColdOK(query) /\ query.pc = "far"
  BY AskedWellBefore DEF FoldFar, At
<1>1. q = [query EXCEPT !.pc = "hot", !.far = far]
  BY DEF FoldFar
<1>2. PlanTable = PlanOf(query) /\ query.share \subseteq PlanOf(query).files
  BY <1>0 DEF PlanTable, PlanOf, PlanOK
<1>3. far \in RowSets
  <2>1. query.share \subseteq Batches
    BY <1>0 DEF Query, RowInv, CatalogType, IsMap
  <2>2. \A b \in query.share : content[b] \subseteq Batches \X Nat
    BY <1>0 DEF Query, RowInv, RowsLie, IsMap
  <2> QED BY <2>1, <2>2 DEF RowsOf, RowSets
<1>4. far = {x \in Shown(PlanOf(query)) : x[1] \in query.share}
  <2>1. ASSUME NEW b, NEW row
        PROVE  <<b, row>> \in far <=> <<b, row>> \in Shown(PlanOf(query)) /\ b \in query.share
    <3>1. <<b, row>> \in far <=>
              b \in query.share /\ row \in content[b] \ Hidden(b, PlanTable.deletions)
      BY RowsOfHas
    <3>2. <<b, row>> \in Shown(PlanOf(query)) <=>
              b \in PlanOf(query).files /\ row \in content[b] \ Hidden(b, PlanTable.deletions)
      BY <1>2, RowsOfHas DEF Shown
    <3> QED BY <1>2, <3>1, <3>2
  <2>2. \A x \in far : x = <<x[1], x[2]>>
    BY RowsArePairs
  <2>3. \A x \in Shown(PlanOf(query)) : x = <<x[1], x[2]>>
    BY RowsArePairs DEF Shown
  <2> HIDE DEF far
  <2> QED BY <2>1, <2>2, <2>3
<1> HIDE DEF far
<1>5. /\ q \in Query /\ q.pc = "hot" /\ q.plan = query.plan /\ q.born = query.born
      /\ q.odd = query.odd /\ q.table = query.table /\ q.share = query.share
      /\ q.cold = query.cold /\ q.far = far
  BY <1>0, <1>1, <1>3 DEF Query
<1>6. PlanOf(q) = PlanOf(query)
  BY <1>5 DEF PlanOf
<1>7. ColdOK(q)
  BY <1>0, <1>4, <1>5, <1>6 DEF ColdOK
<1>8. PlanOK(q) /\ HotOK(q)
  BY <1>5 DEF PlanOK, HotOK
<1> QED BY <1>0, <1>5, <1>7, <1>8 DEF AskedWell

\* A step that keeps the plan and what is read from files.
SameCold(q) ==
    /\ q.plan = query.plan /\ q.born = query.born /\ q.table = query.table
    /\ q.share = query.share /\ q.cold = query.cold /\ q.far = query.far
    /\ query.odd \subseteq q.odd

\* Such a step leaves only the hot rows to be looked at.
LEMMA ColdStays ==
    ASSUME QueryInv, NEW q, q \in Query, SameCold(q), HotOK(q),
           q.pc = "answered" => q.mark <= q.plan.snapshot,
           query.pc \in {"hot", "chunks", "mark", "judge"},
           q.pc \in {"chunks", "mark", "judge", "answered"}
    PROVE  AskedWell(q)
<1>0. /\ query \in Query /\ OfThePast(query.plan) /\ query.born \subseteq WrittenTo(query.table)
      /\ ColdOK(query)
  BY AskedWellBefore
<1>1. PlanOf(q) = PlanOf(query)
  BY DEF PlanOf, SameCold
<1>2. ColdOK(q)
  BY <1>0, <1>1 DEF ColdOK, SameCold
<1>3. PlanOK(q)
  BY DEF PlanOK
<1> QED BY <1>0, <1>2, <1>3 DEF AskedWell, SameCold

\* The read of the store, before its watermark or after.
LEMMA StoreAsksWell ==
    ASSUME RowInv, QueryInv, NEW q, q = query', ReadChunks
    PROVE  AskedWell(q)
<1> DEFINE found == VisibleChunks(query.table, query.plan.snapshot, PlanFiles)
           hot == UNION {{b} \X content[b] : b \in found}
           odd == query.odd \cup (IF \E b \in found : MergedUnmarked(b) THEN {"unmarked"} ELSE {})
<1>0. /\ query \in Query /\ OfThePast(query.plan) /\ query.born \subseteq WrittenTo(query.table)
      /\ query.pc \in {"chunks", "hot"}
  BY AskedWellBefore DEF ReadChunks, At
<1>1. PICK pc \in {"judge", "mark"}, more \in SUBSET {"freed"} :
          /\ q = [query EXCEPT !.pc = pc, !.hot = hot, !.odd = odd \cup more]
          /\ pc = "judge" /\ more = {} => released_watermark = query.mark
  <2>1. HotRead = [query EXCEPT !.hot = hot, !.odd = odd]
    BY DEF HotRead
  <2> HIDE DEF hot, odd
  <2>2. HotRead.odd = odd
    BY <1>0, <2>1 DEF Query
  <2>3. CASE q = [HotRead EXCEPT !.pc = "judge",
                     !.odd = @ \cup (IF released_watermark # query.mark THEN {"freed"} ELSE {})]
    <3> DEFINE more == IF released_watermark # query.mark THEN {"freed"} ELSE {}
    <3>1. q = [query EXCEPT !.pc = "judge", !.hot = hot, !.odd = odd \cup more]
      BY <1>0, <2>1, <2>3 DEF Query
    <3>2. more \in SUBSET {"freed"} /\ (more = {} => released_watermark = query.mark)
      OBVIOUS
    <3> HIDE DEF more
    <3> QED BY <3>1, <3>2
  <2>4. CASE q = [HotRead EXCEPT !.pc = "mark"]
    <3>1. q = [query EXCEPT !.pc = "mark", !.hot = hot, !.odd = odd]
      BY <1>0, <2>1, <2>4 DEF Query
    <3>2. odd \cup {} = odd
      OBVIOUS
    <3>3. q = [query EXCEPT !.pc = "mark", !.hot = hot, !.odd = odd \cup {}]
      BY <3>1, <3>2
    <3> QED BY <3>3
  <2> QED BY <2>3, <2>4 DEF ReadChunks
<1>2. PlanFiles = PlanOf(query).files
  BY DEF PlanTable, PlanFiles, PlanOf
<1>3. hot \in RowSets
  <2>1. \A b \in found : b \in Batches /\ content[b] \subseteq Batches \X Nat
    BY DEF VisibleChunks, RowInv, ChunksInOrder, RowsLie, IsMap
  <2> HIDE DEF found
  <2> QED BY <2>1 DEF RowSets
<1>4. odd \cup more \in SUBSET {"moved", "unmarked", "freed"}
  BY <1>0 DEF Query
<1>5. odd = {} => \A b \in found : ~MergedUnmarked(b)
  OBVIOUS
<1> HIDE DEF found, hot, odd
<1>6. /\ q \in Query /\ q.pc = pc /\ q.hot = hot /\ q.odd = odd \cup more /\ q.mark = query.mark
      /\ q.plan = query.plan /\ q.born = query.born /\ q.table = query.table
      /\ q.share = query.share /\ q.cold = query.cold /\ q.far = query.far
  BY <1>0, <1>1, <1>3, <1>4 DEF Query
<1>7. SameCold(q)
  BY <1>6 DEF SameCold, odd
<1>8. HotOK(q)
  <2> SUFFICES ASSUME q.odd = {}, PlanTrue(q)
               PROVE  /\ \A x \in q.hot :
                            x = <<x[1], <<x[1], 0>>>> /\ ~KeyIn(Shown(PlanOf(q)), x[1])
                      /\ \A k \in q.born \ erased :
                            \/ KeyIn(q.hot, k) \/ KeyIn(Shown(PlanOf(q)), k)
                            \/ q.pc = "mark" /\ q.plan.snapshot < released_watermark
                            \/ q.pc # "mark" /\ q.plan.snapshot < q.mark
    BY DEF HotOK
  <2>1. odd = {} /\ more = {} /\ PlanOf(q) = PlanOf(query)
    BY <1>6 DEF PlanOf
  <2>2. found = VisibleChunks(q.table, q.plan.snapshot, PlanOf(q).files)
    BY <1>2, <1>6, <2>1 DEF found
  <2>3. hot = UNION {{b} \X content[b] : b \in found}
    BY DEF hot
  <2>4. NoneMerged(found, q.plan.snapshot)
    BY <1>5, <1>6, <2>1 DEF MergedUnmarked, NoneMerged
  <2>5. OfThePast(q.plan) /\ q.born \subseteq WrittenTo(q.table)
    BY <1>0, <1>6
  <2>6. HotFits(q, hot)
    BY <1>6, <2>2, <2>3, <2>4, <2>5, HotRowsFit
  <2> QED BY <1>1, <1>6, <2>1, <2>6 DEF HotFits
<1> QED BY <1>0, <1>6, <1>7, <1>8, ColdStays

\* The watermark is read first or last, and judged at the end.
LEMMA MarksAskWell ==
    ASSUME RowInv, QueryInv, NEW q, q = query', ReadMarkFirst \/ ReadMarkLast \/ Answer
    PROVE  AskedWell(q)
<1>0. query \in Query /\ HotOK(query) /\ released_watermark \in Nat /\ query.plan.snapshot \in Nat
  BY AskedWellBefore DEF RowInv, FreedAreMarked, ReadMarkFirst, ReadMarkLast, Answer, At
<1>1. CASE ReadMarkFirst
  <2>1. q = [query EXCEPT !.pc = "chunks", !.mark = released_watermark] /\ query.pc = "hot"
    BY <1>1 DEF ReadMarkFirst, At
  <2>2. q \in Query /\ q.pc = "chunks" /\ SameCold(q)
    BY <1>0, <2>1 DEF Query, SameCold
  <2> QED BY <2>1, <2>2, ColdStays DEF HotOK
<1>2. CASE ReadMarkLast
  <2>1. q = [query EXCEPT !.pc = "judge", !.mark = released_watermark] /\ query.pc = "mark"
    BY <1>2 DEF ReadMarkLast, At
  <2>2. /\ q \in Query /\ q.pc = "judge" /\ SameCold(q) /\ q.odd = query.odd
        /\ q.hot = query.hot /\ q.mark = released_watermark
    BY <1>0, <2>1 DEF Query, SameCold
  <2>3. HotOK(q)
    BY <1>0, <2>1, <2>2 DEF HotOK, PlanTrue, PlanOf, SameCold
  <2> QED BY <2>1, <2>2, <2>3, ColdStays
<1>3. CASE Answer
  <2>1. q = [query EXCEPT !.pc = "answered"] /\ query.pc = "judge" /\ ~Stale
    BY <1>3 DEF Answer, At
  <2>2. /\ q \in Query /\ q.pc = "answered" /\ SameCold(q) /\ q.odd = query.odd
        /\ q.hot = query.hot /\ q.mark = query.mark
    BY <1>0, <2>1 DEF Query, SameCold
  <2>3. HotOK(q)
    BY <1>0, <2>1, <2>2 DEF HotOK, PlanTrue, PlanOf, SameCold
  <2>4. q.mark <= q.plan.snapshot
    BY <1>0, <2>1, <2>2 DEF Stale, SameCold, Query
  <2> QED BY <2>1, <2>2, <2>3, <2>4, ColdStays
<1> QED BY <1>1, <1>2, <1>3

\* A query that ends otherwise, or asks again, answers nothing.
LEMMA EndsAskWell ==
    ASSUME QueryInv, NEW q, q = query', Unreachable \/ Retry \/ GiveUp
    PROVE  AskedWell(q)
<1>0. /\ query \in Query /\ OfThePast(query.plan) /\ query.born \subseteq WrittenTo(query.table)
  BY AskedWellBefore DEF Unreachable, Retry, GiveUp, At
<1>1. PICK pc \in {"partial", "restale", "failed"}, n \in Nat :
          q = [query EXCEPT !.pc = pc, !.tries = n]
  <2>1. query.tries \in Nat /\ query.tries + 1 \in Nat
    BY <1>0 DEF Query
  <2>2. CASE Retry
    BY <2>1, <2>2 DEF Retry
  <2>3. CASE Unreachable \/ GiveUp
    <3>1. PICK pc \in {"partial", "failed"} : q = [query EXCEPT !.pc = pc]
      BY <2>3 DEF Unreachable, GiveUp
    <3>2. q = [query EXCEPT !.pc = pc, !.tries = query.tries]
      BY <1>0, <3>1 DEF Query
    <3> QED BY <2>1, <3>2
  <2> QED BY <2>2, <2>3
<1>2. /\ q \in Query /\ q.pc = pc /\ q.plan = query.plan /\ q.born = query.born
      /\ q.table = query.table
  BY <1>0, <1>1 DEF Query
<1> QED BY <1>0, <1>2, NothingReadYet DEF PlanOK

\* Whatever the step, the query comes out as one that asked well.
LEMMA StepKeepsQuery ==
    ASSUME RowInv, RowInv', RowsEvolve, CopiesInv, QueryInv, [ReadsNext]_readsVars
    PROVE  QueryInv'
<1>1. ASSUME NEW q, q = query', AskedWell(q) PROVE QueryInv'
  BY <1>1, AskedWellRemains, AskedWellNext
<1>2. ASSUME query' = query PROVE QueryInv'
  <2>1. CASE query = [pc |-> "none"]
    BY <1>2, <2>1 DEF QueryInv
  <2>2. CASE AskedWell(query)
    <3>1. PICK q : q = query
      OBVIOUS
    <3>2. AskedWell(q)
      BY <2>2, <3>1
    <3> QED BY <1>1, <1>2, <3>1, <3>2
  <2> QED BY <2>1, <2>2 DEF QueryInv
<1>3. CASE QueryStep
  <2>1. PICK q : q = query'
    OBVIOUS
  <2>2. AskedWell(q)
    BY <1>3, <2>1, PlansAskWell, SessionAsksWell, FarAsksWell, StoreAsksWell,
       MarksAskWell, EndsAskWell
    DEF QueryStep, ReadStore
  <2> QED BY <1>1, <2>1, <2>2
<1>4. CASE QueryBegins
  <2>1. PICK q : q = query'
    OBVIOUS
  <2> QED BY <1>1, <1>4, <2>1, AskAsksWell
<1>5. ASSUME NEW r \in Refreshers, RefreshFails(r) PROVE QueryInv'
  <2>1. CASE r = "query" /\ query.pc = "restale"
    <3>1. PICK q : q = query'
      OBVIOUS
    <3>2. /\ query \in Query /\ OfThePast(query.plan)
          /\ query.born \subseteq WrittenTo(query.table)
      BY <2>1, AskedWellBefore
    <3>3. q = [query EXCEPT !.pc = "failed"]
      BY <1>5, <2>1, <3>1 DEF RefreshFails
    <3>4. /\ q \in Query /\ q.pc = "failed" /\ q.plan = query.plan /\ q.born = query.born
          /\ q.table = query.table
      BY <3>2, <3>3 DEF Query
    <3>5. AskedWell(q)
      BY <3>2, <3>4, NothingReadYet DEF PlanOK
    <3> QED BY <1>1, <3>1, <3>5
  <2>2. CASE ~(r = "query" /\ query.pc = "restale")
    BY <1>2, <1>5, <2>2 DEF RefreshFails
  <2> QED BY <2>1, <2>2
<1>6. CASE UNCHANGED readsVars
  BY <1>2, <1>6 DEF readsVars
<1>7. CASE \E b \in Batches, t \in Tables : Absorb(b, t)
  BY <1>2, <1>7 DEF Absorb
<1>8. CASE (\E b \in Batches : ChunkStep(b)) \/ DataNodeReclaims
  BY <1>2, <1>8 DEF ChunkStep, Note, FlushCommit, Mark, DataNodeReclaims
<1>9. CASE Maintains
  BY <1>2, <1>9 DEF Maintains, Merge, Revoke, Delete, Update, Untouched
<1>10. CASE LoopBegins \/ (\E r \in Refreshers : RefreshStep(r))
  BY <1>2, <1>10 DEF LoopBegins, RefreshStep, Choose, AskDelta, List, Swap, RefreshOnly
<1> QED BY <1>3, <1>4, <1>5, <1>6, <1>7, <1>8, <1>9, <1>10 DEF ReadsNext

-----------------------------------------------------------------------------

\* A copy that is true of a table shows the rows of its snapshot.
LEMMA TrueCopyShows ==
    ASSUME NEW c, NEW t, Faithful(c, t)
    PROVE  /\ c.tables[t].files = VisibleFiles(t, c.snapshot)
           /\ Shown(c.tables[t]) = RowsAt(t, c.snapshot)
<1> DEFINE F == c.tables[t].files
           D == c.tables[t].deletions
           L == ListDeletions(t, c.snapshot)
<1>1. F = VisibleFiles(t, c.snapshot)
  BY DEF Faithful
<1>2. \A b \in F : Hidden(b, D) = Hidden(b, L)
  BY DEF Faithful
<1>3. RowsOf(F, D) = RowsOf(F, L)
  <2> HIDE DEF F, D, L
  <2> QED BY <1>2 DEF RowsOf
<1> QED BY <1>1, <1>3 DEF Shown, RowsAt

-----------------------------------------------------------------------------

\* The invariant holds at first, ...
LEMMA ReadsInvInitially == ReadsInit => ReadsInv
<1> SUFFICES ASSUME ReadsInit PROVE ReadsInv
  OBVIOUS
<1>1. QueryInv
  BY DEF ReadsInit, QueryInv
<1> QED BY <1>1, RowsInitially, CopiesInitially DEF ReadsInv

\* ... and every step keeps it.
LEMMA ReadsInvKept == ReadsInv /\ [ReadsNext]_readsVars => ReadsInv'
<1> SUFFICES ASSUME ReadsInv, [ReadsNext]_readsVars PROVE ReadsInv'
  OBVIOUS
<1>1. RowInv' /\ RowsEvolve
  BY StepKeepsRows DEF ReadsInv
<1>2. CopiesInv'
  BY <1>1, StepKeepsCopies DEF ReadsInv
<1>3. QueryInv'
  BY <1>1, StepKeepsQuery DEF ReadsInv
<1> QED BY <1>1, <1>2, <1>3 DEF ReadsInv

\* A row written is in the store or shown by every copy that is true, unless
\* it was deleted, or the copy's number is below the store's watermark, by
\* which the next query that plans from it is told so (store/src/shard.rs:63).
THEOREM NothingFalls == ReadsSpec => []NothingFallsBetween
<1>1. ReadsInv => NothingFallsBetween
  <2> SUFFICES ASSUME ReadsInv, NEW k \in Written \ (DOMAIN chunks \cup erased), NEW t \in Tables,
                      k \in WrittenTo(t), Faithful(cache, t), released_watermark <= cache.snapshot
               PROVE  \E x \in Shown(cache.tables[t]) : KeyOf(x[2]) = k
    BY DEF NothingFallsBetween
  <2>1. cache \in CopyType /\ cache.snapshot \in Past /\ snapshot_version \in Nat
    BY DEF ReadsInv, CopiesInv, OfThePast, RowInv, CatalogType
  <2>2. k \in DOMAIN files /\ files[k].valid_from <= released_watermark /\ files[k].table = t
    BY DEF ReadsInv, RowInv, FreedAreMarked, WrittenTo
  <2>3. files[k].valid_from \in Nat /\ released_watermark \in Nat
    BY <2>2 DEF ReadsInv, RowInv, FreedAreMarked, CatalogType, IsMap, FileEntry
  <2>4. cache.snapshot \in files[k].valid_from..snapshot_version
    BY <2>1, <2>2, <2>3 DEF Past
  <2>5. KeyIn(RowsAt(t, cache.snapshot), k)
    BY <2>2, <2>4 DEF ReadsInv, RowInv, KeysStay
  <2>6. Shown(cache.tables[t]) = RowsAt(t, cache.snapshot)
    BY TrueCopyShows
  <2> QED BY <2>5, <2>6 DEF KeyIn
<1> QED BY <1>1, ReadsInvInitially, ReadsInvKept, PTL DEF ReadsSpec

\* How often a key is among three sets of rows.
OfKey(S, k) == {x \in S : KeyOf(x[2]) = k}
InAll(S, T, U, k) ==
    Cardinality(OfKey(S, k)) + Cardinality(OfKey(T, k)) + Cardinality(OfKey(U, k))

\* Rows shown, each key once, in two parts, and hot rows of other keys.
Parted(hot, cold, far, shown, share) ==
    /\ cold = {x \in shown : x[1] \notin share} /\ far = {x \in shown : x[1] \in share}
    /\ \A x, y \in shown : KeyOf(x[2]) = KeyOf(y[2]) => x = y
    /\ \A x \in hot : x = <<x[1], <<x[1], 0>>>> /\ ~KeyIn(shown, x[1])

\* Each key is counted once at most, and once if it is among the rows at all.
LEMMA KeyCounted ==
    ASSUME NEW hot, NEW cold, NEW far, NEW shown, NEW share, NEW k,
           Parted(hot, cold, far, shown, share)
    PROVE  /\ InAll(hot, cold, far, k) \in {0, 1}
           /\ KeyIn(hot, k) \/ KeyIn(shown, k) => InAll(hot, cold, far, k) = 1
<1>0. /\ cold = {x \in shown : x[1] \notin share} /\ far = {x \in shown : x[1] \in share}
      /\ \A x, y \in shown : KeyOf(x[2]) = KeyOf(y[2]) => x = y
      /\ \A x \in hot : x = <<x[1], <<x[1], 0>>>> /\ ~KeyIn(shown, x[1])
  BY DEF Parted
<1>1. Cardinality({}) = 0 /\ \A x : Cardinality({x}) = 1
  BY FS_EmptySet, FS_Singleton
<1>2. CASE KeyIn(hot, k)
  <2>1. PICK h \in hot : KeyOf(h[2]) = k
    BY <1>2 DEF KeyIn
  <2>2. h = <<k, <<k, 0>>>> /\ h[1] = k /\ ~KeyIn(shown, k)
    BY <1>0, <2>1 DEF KeyOf
  <2>3. \A x \in hot : KeyOf(x[2]) = k => x = <<k, <<k, 0>>>>
    BY <1>0 DEF KeyOf
  <2>4. OfKey(hot, k) = {h}
    BY <2>1, <2>2, <2>3 DEF OfKey
  <2>5. OfKey(cold, k) = {} /\ OfKey(far, k) = {}
    BY <1>0, <2>2 DEF OfKey, KeyIn
  <2>6. Cardinality(OfKey(hot, k)) = 1
    BY <1>1, <2>4
  <2>7. Cardinality(OfKey(cold, k)) = 0 /\ Cardinality(OfKey(far, k)) = 0
    BY <1>1, <2>5
  <2> QED BY <2>6, <2>7 DEF InAll
<1>3. CASE ~KeyIn(hot, k) /\ KeyIn(shown, k)
  <2>1. OfKey(hot, k) = {}
    BY <1>3 DEF OfKey, KeyIn
  <2>2. PICK x \in shown : KeyOf(x[2]) = k
    BY <1>3 DEF KeyIn
  <2>3. \A y \in shown : KeyOf(y[2]) = k => y = x
    BY <1>0, <2>2
  <2>4. CASE x[1] \in share
    <3>1. OfKey(hot, k) = {} /\ OfKey(far, k) = {x} /\ OfKey(cold, k) = {}
      BY <1>0, <2>1, <2>2, <2>3, <2>4 DEF OfKey
    <3>2. Cardinality(OfKey(hot, k)) = 0 /\ Cardinality(OfKey(cold, k)) = 0
      BY <1>1, <3>1
    <3>3. Cardinality(OfKey(far, k)) = 1
      BY <1>1, <3>1
    <3> QED BY <3>2, <3>3 DEF InAll
  <2>5. CASE x[1] \notin share
    <3>1. OfKey(hot, k) = {} /\ OfKey(cold, k) = {x} /\ OfKey(far, k) = {}
      BY <1>0, <2>1, <2>2, <2>3, <2>5 DEF OfKey
    <3>2. Cardinality(OfKey(hot, k)) = 0 /\ Cardinality(OfKey(far, k)) = 0
      BY <1>1, <3>1
    <3>3. Cardinality(OfKey(cold, k)) = 1
      BY <1>1, <3>1
    <3> QED BY <3>2, <3>3 DEF InAll
  <2> QED BY <2>4, <2>5
<1>4. CASE ~KeyIn(hot, k) /\ ~KeyIn(shown, k)
  <2>1. OfKey(hot, k) = {} /\ OfKey(cold, k) = {} /\ OfKey(far, k) = {}
    BY <1>0, <1>4 DEF OfKey, KeyIn
  <2>2. Cardinality(OfKey(hot, k)) = 0 /\ Cardinality(OfKey(cold, k)) = 0
    BY <1>1, <2>1
  <2>3. Cardinality(OfKey(far, k)) = 0
    BY <1>1, <2>1
  <2> QED BY <1>4, <2>2, <2>3 DEF InAll
<1> QED BY <1>2, <1>3, <1>4

\* An answer holds every row that was there when it was asked for, and was not
\* deleted meanwhile, once, and no row twice, however chunks were committed,
\* marked and freed, files merged, rows updated and copies swapped while the
\* query read one after the other; a plan that was never true, and the three
\* moments the query cannot see, are excepted (query/src/table.rs).
THEOREM AnswersAreExact == ReadsSpec => []AnswerExact
<1>1. ReadsInv => AnswerExact
  <2> SUFFICES ASSUME ReadsInv, query.pc = "answered", query.odd = {},
                      Faithful(query.plan, query.table)
               PROVE  /\ \A k \in Batches : Copies(k) <= 1
                      /\ \A k \in query.born \ erased : Copies(k) = 1
    BY DEF AnswerExact
  <2> DEFINE shown == Shown(PlanOf(query))
  <2>1. /\ query \in Query /\ OfThePast(query.plan) /\ ColdOK(query) /\ HotOK(query)
        /\ query.mark <= query.plan.snapshot /\ query.born \subseteq WrittenTo(query.table)
    BY DEF ReadsInv, QueryInv, AskedWell
  <2>2. query.table \in Tables /\ query.plan.snapshot \in Past
    BY <2>1 DEF Query, OfThePast
  <2>3. PlanTrue(query) /\ shown = RowsAt(query.table, query.plan.snapshot)
    BY TrueCopyShows DEF PlanTrue, PlanOf
  <2>4. /\ query.cold = {x \in shown : x[1] \notin query.share}
        /\ query.far = {x \in shown : x[1] \in query.share}
    BY <2>1 DEF ColdOK
  <2>5. \A x, y \in shown : KeyOf(x[2]) = KeyOf(y[2]) => x = y
    BY <2>2, <2>3 DEF ReadsInv, RowInv, KeysOnce
  <2>6. /\ \A x \in query.hot : x = <<x[1], <<x[1], 0>>>> /\ ~KeyIn(shown, x[1])
        /\ \A k \in query.born \ erased : KeyIn(query.hot, k) \/ KeyIn(shown, k)
    <3>1. query.mark \in Nat /\ query.plan.snapshot \in Nat
      BY <2>1, <2>2 DEF Query, Past
    <3> QED BY <2>1, <2>3, <3>1 DEF HotOK
  <2> HIDE DEF shown
  <2>7. \A k : Copies(k) \in {0, 1} /\ (KeyIn(query.hot, k) \/ KeyIn(shown, k) => Copies(k) = 1)
    <3> SUFFICES ASSUME NEW k
                 PROVE  /\ Copies(k) \in {0, 1}
                        /\ KeyIn(query.hot, k) \/ KeyIn(shown, k) => Copies(k) = 1
      OBVIOUS
    <3>1. Copies(k) = InAll(query.hot, query.cold, query.far, k)
      BY DEF Copies, InAll, OfKey
    <3>2. Parted(query.hot, query.cold, query.far, shown, query.share)
      BY <2>4, <2>5, <2>6 DEF Parted
    <3> QED BY <3>1, <3>2, KeyCounted
  <2> QED BY <2>6, <2>7
<1> QED BY <1>1, ReadsInvInitially, ReadsInvKept, PTL DEF ReadsSpec
=============================================================================
