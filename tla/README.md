# Yuntun in TLA+

Yuntun is a lakehouse for append-mostly time series: clients write batches over
Flight SQL or MySQL, a node logs them (WAL), buffers them in memory (chunks),
flushes them as files to an object store and commits the files in a catalog
replicated with raft. Queries read files and buffers together; DELETE and UPDATE
register deletion vectors; a background compaction merges files and folds the
vectors in. This directory models the parts of it in which the order of steps
matters, checks them with TLC and proves what holds for every size with TLAPS.

Paths below are relative to `crates/`.

## 1. The system

| Component | State it keeps | Operations | Talks to |
|---|---|---|---|
| Lease table (`catalog/state.rs`) | purpose → holder, epoch, expiry | acquire, renew, release | part of the catalog; used by compaction, cleanup and DML |
| Lease gates (`compaction/lib.rs` LeaseGate, `catalog/lease.rs` LeaseSet) | the epoch and expiry a job believes it holds | acquire_or_renew, release | lease table, by call |
| Catalog state machine (`catalog/state.rs`) | tables and schema versions, files, deletion vectors, idempotency records, announcements (`in_flight`), leases, purges, counters; derived: task directory, per-table manifest versions | some twenty-five operations, all deterministic, all carrying the caller's clock | replicated by the metanode, or in memory |
| Ingest pipeline (`ingest/`) | idempotency filter, schema cache, position in the WAL, batch states | ingest, accumulate, flush, recover | WAL, chunks, object store, catalog |
| WAL (`wal/`) | segments, next and synced sequence number, batch tracker | append (group commit), recover, clean up | ingest, DML |
| Chunk store (`chunk/`) | chunks with their state, memory ledger, released watermarks | append, seal, spill, flush, reclaim, read | ingest, queries (local or by shard RPC) |
| Compaction (`compaction/`) | what a round has read | round over the task directory, merge, commit, revoke | catalog, object store |
| Orphan cleanup (`compaction/`) | candidates and their age | scan, delete | catalog, object store |
| DELETE / UPDATE / TRUNCATE (`sql/dml.rs`) | leases, located rows | lock, locate, log, apply, unlock | catalog, WAL, object store |
| DDL (`sql/lib.rs`, `ingest/ddl.rs`, `ingest/schema_cache.rs`) | cached schemas; epochs of tables in the store | CREATE, ALTER, DROP, evolve by a write, replay | catalog, WAL, chunk store |
| Replay of statements (`ingest/dml.rs`) | — | replay at start-up | WAL, catalog |
| Catalog cache (`query/cache.rs`), remote client (`meta/remote_catalog.rs`) | (snapshot, file list, vectors) and versions | probe, fetch full or delta, apply | metanode, queries |
| Query engine (`query/`) | one snapshot per query | plan, scan, merge hot and cold, push down aggregates | cache, chunks, shard RPC |
| Metanode (`meta/`) | raft log, hard state, applied index, membership | propose, apply, snapshot, join, remove | its peers, every client of the catalog |
| Protocol ends, assembly, client (`server/`, `sqlwire/`, `datanode/`, `standalone/`, `client/`) | sessions, configuration | translate requests, wire the parts up | all |

What is hard in it:

* *Nobody holds still.* A statement or a merge reads at one snapshot, takes a
  lease some calls later, and commits later still. Writers, statements and
  compactors of several nodes interleave at every call to the catalog.
* *Leases are advice.* They expire by the caller's clock, requests may arrive
  after their caller gave up, and work already begun is not stopped. What really
  protects the data are the checks the catalog makes when it applies an operation.
* *Two logs.* Each node has its WAL, the catalog has the raft log. A restart
  replays the first against a catalog that has moved on.
* *Answers that are not answers.* A metanode that has waited ten seconds says
  *unavailable* although the proposal may still be applied; a client repeats it elsewhere.
* *A schema is known in four places*: the catalog, the cache of the writer, the chunk
  and the file; and a table's life in two, the catalog and the log.
* *Derived state.* The task directory, the per-table versions and the caches
  must follow every operation, and there are many operations.

What makes each component correct:

* leases: epochs never repeat for two holders, no tenure ends early, and in the
  absence of trouble they exclude;
* catalog: a snapshot once taken never changes; every change is noticed by
  caches; tasks agree with the manifest; keys, windows and version chains stay
  in order;
* statements and compaction: a table behaves like a set of rows on which each
  insert, DELETE and UPDATE happens at an instant, and merges change nothing;
* ingest, WAL, chunks: an acknowledged batch is visible once from then on,
  through flush, reclaim, crash and retry;
* cleanup: nothing that is, or may still be, referenced is deleted;
* caches: what a query uses is one snapshot some catalog really had, and it catches up;
* queries: every row once, whether it is in a chunk, a file, or on its way between them; what
  is pruned holds no row wanted, and a folded aggregate is that of one pass;
* WAL and archive: what was acknowledged is read back at its number, and what is not
  past the watermark is not counted on;
* metanode: the state machine is the log up to the applied index, and a waiter gets
  the answer to its own proposal;
* DDL: nothing from before a DROP comes back, and a restart rebuilds the table.

## 2. Modules

```
Leases ---> LeaseGate --------> CatalogProofs              MCLeaseGate
   |
   v
Catalog --> CatalogMachine ---> CatalogProofs              MCCatalog
   |
   |------> Maintenance ..implements..> RowTable           MCMaintenance, MCTable
   |            `---------------> MaintenanceProofs
   |------> Ingest -------------> IngestProofs             MCIngest
   |------> OrphanCleanup ------> OrphanCleanupProofs       MCOrphanCleanup
   |------> Reads ----------------> CatalogProofs          MCReads
   `------> RemoteCatalog --> RemoteWrites                 MCRemoteCatalog

Metanode ---------------------> MetanodeProofs             MCMetanode
Wal --------------------------> WalProofs                  MCWal
Pruning --> Pushdown ---------> PushdownProofs             MCPushdown
Schemas --> TableLife --------> TableLifeProofs            MCTableLife
```

An arrow is EXTENDS: what lies under `Catalog` composes its component with the
real operations of the catalog, refresh of derived state included.

**Leases** is the lease table and its three operations, shared by everything
else. Operations refused change nothing; they are conditions
(`HeldByOther`, `Renewable`, `Releasable`), not actions. The entry of a released
lease stays, with its epoch: that is the watermark.

**LeaseGate** puts jobs around one lease: each reads its own clock (up to
`MaxSkew` ahead), asks for the lease or a renewal, works, keeps the gate for the
next round or gives it back, crashes and comes back under its old name. A call
is a record `call[h]` that is sent, answered and taken; a caller that gives up
leaves the request in `late`, from where it may be applied at any time or never.
`granted` and `steady` are history variables.

**Catalog** has one operator per operation of `CatalogState`, each with the
guard, the early returns and every change the code makes, the refresh of the
task directory, `bump_manifest_ver` and `bump_schema_ver` included. Files are
records over batch ids, as in the code, where the file map is keyed by batch.
Maps grow and shrink (`Over`, `Without`), so a retired entry is absent rather
than blank. Rows are numbers only. `RestoreSnapshot` keeps exactly the fields
`to_snapshot_msg` writes and recomputes the rest.

**CatalogMachine** is the machine under every sequence of operations, with
arguments a client can have: what it listed at any snapshot up to now.

**Maintenance** is one shard of one table with real rows: a batch has a content, a
bitmap marks rows, and a reader's view is computed the way `deletion_bitmaps` and
`apply_deletions` of `compaction/lib.rs` do it. Writers flush; DELETE and UPDATE
run through lock, locate, log, apply and unlock; compactors through claim, lock,
read, announce, commit, revoke, unlock and yield; each step between two calls
to the catalog is an action, and what an actor read it keeps in its record
(`stmt[d]`, `worker[c]`). Restart, replay and the refusal to start
are there, and so is the expiry of every lease. It `EXTENDS Catalog`: the calls
are the catalog's own operators.

**RowTable** is the abstract table: `Insert`, `Ask`, `Execute`, `GiveUp`. The
refinement mapping in Maintenance sends the files, windows, vectors and bitmaps to the
set of rows a reader finds, and a statement to *asked* until the catalog has
its record.

**MCTable** runs Maintenance in four mixes: statements with a restart, two UPDATEs one of which may outlive its lease, merges,
and statements and merges racing with a compactor that crashes. Only in the first and the third is `RowTable` implemented (`TableApart`).
`term[d]` is when the lease granted to a statement runs out, and `overtaken` whether the catalog has taken an UPDATE after its term and after another holder.

**OrphanCleanup** is the collector next to whoever uploads an object before its file is
committed: flushes and merges, which announce their batch, and statements, which do not. A round lists,
asks what is known, asks what vectors are referenced, and deletes one object at a time what it has seen
unprotected for `Grace`. What is known depends on the deployment (`metanode`, chosen at the start and never changed). With the catalog in the process
(`MemoryCatalog`: `--meta` left out, or the memory mode) it is the files shown and the announcements, and nothing sweeps
those. With metanodes, which is the default and what every data node of a cluster has, the collector asks the copy of its own node
(`RemoteCatalog::known_batch_ids`): all files it has heard of, retired or not, and no announcement. `copy[g]` is that copy;
a refresh adds any part of what the machine has (`Refresh`), which covers a replica that lags, a delta with holes and a failed
request, and takes nothing away. The sweep of announcements belongs to the leader of the metanodes, so only to this deployment.
Times are ages, cut off where no comparison tells them apart, so the clock
needs no bound and liveness can be checked. `born`, `overdue` and `shared` are history: when an object was uploaded, what some
collector has found unknown as late as the grace after that, and what shares its observation with an orphaned vector.

**RemoteCatalog** is the client of a metanode: the probe, the tables changed since, the payload, the
application to the cache and what it retains. Replicas lag (`follower`), refreshes of one client overlap (`work[r]`),
any request may fail. `past` is what the machine showed at each snapshot, `holes` names the ways the
cache is known to differ from it. **RemoteWrites** adds one write that is proposed to one metanode after
the other; `write.at` ends as what the caller is told, `write.took` counts how often it was applied.

**Metanode** is the driver thread around raft: proposals and the queue of those waiting for an answer,
membership changes, application, compaction with its artifact, installation of a snapshot, restart from
disk. The raft crate is abstract: an election is one step of a quorum and replication one step of a pair,
with raft's own election restriction and commit rule. An entry of the log that compaction removed from the disk stays in
`log[n]` for the properties, and no action reads it.

**Wal** is one node's log as files: a file is a sequence of pieces, each a record or the torn
beginning of one, and a number comes from the file's header and the position, as in the code. The commit thread
goes through write, sync and rotation (create, directory, header, CURRENT) with an error or a crash
between any two; recovery truncates, skips or refuses as `recovery.rs` does; the archiver uploads by length
and a start on an empty disk restores.

**Reads** is a query between a store and a catalog. It materialises a copy of the catalog in steps,
reads the chunks past the copy's watermark, and retries when the store has freed a chunk the copy does not have yet
(`Stale`). A background loop refreshes the same copy. An aggregate reads its cold half through a second copy.
A statement draws its id anew (`Drawn`), and all batches are of one shard, `S0`.

**Pruning** is what bounds and index filters refute (`query/prune.rs`, `model/predicate.rs`, `query/index.rs`) as
operators over three-valued comparisons with NULL and NaN; **Pushdown** is a scan or an aggregate over files,
row groups and shards: plan, placement, partial states, fallback and fold. A file remembers the types its columns had when it was written
(`kinds`), and the table may have widened integers to floats since (`Widens`). `Bounds` are the values `compute_stats_lite` finds, and `Decoded` is what is left of
one when it is encoded in the file's type and decoded in the table's: itself, if the types agree; of an integer read as a float, 0, something just above 0, or no number.
Numbers are compared in halves to have room for that. Left out are the two zeros of floats.

**Schemas** has the pure part of schema evolution (`model/schema.rs`): what widens what, the merge of
two schemas and its refusals. **TableLife** is one table on one node from CREATE to DROP and again: sessions that
change the catalog and log afterwards, writers that judge a batch by their schema cache, evolve and log, the accumulator
with its epochs, flushes, a crash between any two steps, and the replay of the DDL followed by the batches. `trouble` names
the accidents after which the code keeps less than it says.

**Ingest** is one node's write path, with the log under it. Rows are positions
in the log: `wal` is the sequence of every record ever synced, `gone` the
positions of removed segments, and a file (`content[b]`) or a chunk is a set of positions.
A request goes `idle`, `checked`, `logged`, `done` (`req[i]`); the accumulator,
which is one task in the code too, absorbs (`read` is `last_read`), seals, and
runs one flush at a time (`flush`, with its phase: announce, upload, commit, finish). The
monitor of `wal/cleanup.rs` aborts batches and removes segments next to it, by what it
knows: the records its tracker saw and the segments listed at start-up (`booted`). `Crash`
drops everything but the log, the objects and, if `durable`, the catalog; recovery is
`Reindex`, then `Recommit`, `Redo` or `GiveUp` of each batch in order, each possibly
interrupted by the next crash, and `claims` is `replay_skip`. The state of a batch is
computed from the records (`KnownIn`, `StatusIn`), as `apply_record` does. `trouble` is
a history variable that names the accidents after which the code promises less.

Definitions marked *slip* are the ways a plausible mistake would have changed the
definition that follows them. They are used by nothing: `PROJECT.json` names
the property each of them would break.

## 3. Runs

| Run | What it asks | Bounds and why they suffice |
|---|---|---|
| `lease_gate` | Do epochs name one holder? Do leases exclude? | two jobs, a term of 2, clocks one tick apart, one late request, three epochs, time to 4: a lease is taken, lost, retaken by the same and by another, with an old request in flight |
| `catalog` | Are past snapshots fixed, changes announced, tasks right, keys kept, windows in order, vectors on live files? | three batches, two statements and two tables or shards or keys; four mixes of resources, because their product is out of reach. Three batches are two inputs and the output of a merge, or a file, its update and a bystander |
| `maint_table` | Are rows read once, do accepted statements hide what they marked, does every due shard get merged, is the abstract table implemented? | four mixes: three statements (two UPDATEs) with a restart; two UPDATEs, of which one may outlive its lease, with a restart; two compactors, six batches and a term that passes; a statement against two compactors of which one crashes. `MaxBusy` actors at most are between two of their steps at a time |
| `ingest` | Is a key committed once, an answered write recoverable at every moment, and found once by a query? | a catalog in memory or durable; five mixes: one key twice, keyed and not, two windows, and three writes so that the range of a batch encloses one of another group, or one that another batch committed; one crash (`MaxCrashes`), one fault (`MaxFaults`), two records to a segment, one to three batches: one crash at every point of two flushes and their recovery |
| `cleanup` | Does a shown file keep its object, a reader its files, a vector its bitmap, and does garbage go? | each deployment in five mixes of flushes, merges, DELETE and UPDATE: the catalog in the process with one collector (such a catalog has one process), a query, a fault; at metanodes with one or two collectors, copies that lag at will, a fault, and no query, since the retired files it may read are never deleted there. Grace and term of two ticks, so that either may run out first |
| `remote` | Is the cache what the machine was, does a repeated write take effect once, does history stand, does the cache catch up? | eight mixes: what others change (tables, files, vectors, roster), one or two refreshes at a time, or a write of two kinds through two metanodes; one fault |
| `metanode` | Is every state machine its log, does an answer go to its asker, is the membership that of the log? | three voters, or two and a third that joins, is promoted and removed; two terms, four entries, one restart, compaction after two: an entry is replaced, compacted, sent as a snapshot and replayed |
| `wal` | Is what was acknowledged read at its number, is the watermark honest, does the archive catch up? | four records, one of them three times as long, segments of four bytes, batches of two, three segments, two crashes, one error: every rotation is torn at every point, and a torn piece can pass for a record |
| `reads` | Does a query find each row once, does anything fall between store and files, does the copy catch up? | four mixes (two tables; races with the refresh; merges; updates), two refreshers, two tries, one refused request |
| `reads_aggregate` | `AggregateExact`, expected to fail | the same, aggregates only |
| `pushdown` | Does pruning keep every row wanted, is the folded answer that of one pass? | every table of two or three files over a column of three values with NULL and NaN, two readers, two hot shards, every comparison, both sides of a literal, conjunctions and disjunctions; files of integers under a column of floats, NaN in every place |
| `tables` | Do epochs follow the log, does a drop last, is what was answered kept and found whole, does replay rebuild? | five mixes: two sessions and two writers; four DDL statements in a row; ALTERs; batches that widen; three narrow and wide batches in one chunk; one crash, catalogs that survive or not |

Each module's `TypeOK` (`CatalogType`, `WritesTypeOK`, …) holds in its instance too; where a theorem
states it the runs leave it out.

Deadlock is not checked: every instance stops when its bounds (batches, clock,
rounds, snapshots) are used up, and the program never has to move. Symmetry is used in `lease_gate`,
`catalog`, `metanode` and `ingest` (two writes that are alike) only, which check no liveness.

### What the runs show

*Leases.* Epochs and the watermark do what the catalog's comments say, also with skew, late requests
and restarts under the same name. Exclusion holds exactly while clocks agree and no request outlives its caller;
the code relies on the checks at the commit otherwise.

*The table.* Those checks suffice for rows no statement names (`UntouchedRowsOnce`): with leases expired and
compactors crashed, `commit_compaction` still refuses inputs that were merged away. An accepted statement hides
every row it marked (`AcceptedHides`): an anchor merged away is refused. Statements alone are atomic, also across a restart,
and merges alone are invisible (`TableApart`). No row is in the table twice until an UPDATE reaches the catalog behind the next holder
of its lease (`RowOnceUntilOvertaken`). Then it is: nobody looks at the lease again when a statement applies (`sql/src/dml.rs:744`), and the catalog
refuses only bitmaps on files that are gone, which the file of a located row is not. So two UPDATEs of one row are both accepted, and a
query reads both new versions: UPDATE 1 takes the lease and locates the row, its term of 30 s runs out, UPDATE 2 takes the lease, locates the same version and applies, UPDATE 1 applies. The mix of two UPDATEs has this
behaviour (`NoRowTwice` is false in it); `catalog/src/lease.rs:12` promises that a failed lease is found out at the commit. Statements and merges together are not atomic either:

1. **A deleted row returns.** A compaction round takes its snapshot before it takes any lease
   (`compaction/src/lib.rs:851`) and `compact_shard` reads at it after the shard lease is granted. A DELETE that
   begins and ends in between leaves its bitmap on an input that the merge then replaces. `sql/src/dml.rs:61` describes this
   very accident as what the shared leases prevent.
2. **The fence never refuses.** The round holds `task:T:S` and passes that epoch; the commit names
   `compaction:T:S` (`compaction/src/lib.rs:503`), a lease nobody takes. The check on inputs still prevents double rows.
3. **A server does not start.** Replaying an applied DELETE whose file has been merged away since is an error
   (`catalog/src/state.rs:862` tests the anchors before it looks for records already present) and start-up gives up on it,
   although `server/src/lib.rs:580` calls the replay idempotent. A DELETE followed by a TRUNCATE does the same on a catalog that survives.

*The write path* commits a key once whatever happens, short of a removed segment, whose keys recovery cannot read
(`KeyedOnce`). An answered write stays in a file or recoverable (`AckedKeptUnlessDropped`) and a query at any snapshot that is not stale
finds it once (`ReadOnce`), unless one of the accidents the hypothesis names has happened:

4. **The keys of others.** A batch commits the keys of *every* record in its range (`ingest/src/flush.rs:460`). Write *x* in window 1,
   *y* with a key in window 2, *z* in window 1: the batch of *x* and *z* registers the key of *y*, and the batch of *y* is a duplicate. Its chunk is
   marked flushed and freed; *y* was answered and is nowhere. No fault is needed. The same goes for other tables and shards, whose records share the log.
   Within one window it takes a crash: *x*, *y* with a key and *z* in that order, the chunk of *y* flushed before that of *x*. After the restart *y* is claimed by its batch and skipped, *x* and *z* share a chunk, and their batch,
   whose range encloses *y*, is a duplicate by its key: *x* and *z* are lost (`StrayKey`; the mix `skipped` of the run is this case).
5. **The rows of others.** Recovery repeats a Pending batch with every row of its table in its range (`ingest/src/pipeline.rs:868`), rows of other windows
   and shards included, and the chunk of those rows commits them again.
6. **Writes no batch has taken.** The monitor removes a segment no batch under way needs (`wal/src/cleanup.rs:72`); rows still in an
   open chunk are in no batch. A segment that was empty at start-up goes without any question once it is not the current one.

*Cleanup.* With the catalog in the process, a file announced before its upload keeps its object for any grace, and a query its files for the grace.
The new files of an UPDATE are not announced (`sql/src/dml.rs:658`) and have the grace only, and a deletion vector shares the `first_seen` entry of its
anchor's data file. Nothing sweeps announcements in that deployment: what a writer leaves behind that died announced, and is not restarted in this process, is kept for good.
With metanodes announcements protect nothing, and a file is safe if its commit reaches every collector's copy within the grace from its upload, which is an hour by default:
that is what `NoDanglingFile` asks of this deployment (`overdue`). A writer that is slower, or a flush taken up from the log later than that, commits a file without an object, though announced:
a collector lists the upload, asks, finds it unknown, and once more a grace later, and the commit comes after. `compaction/src/lib.rs:723` and `:763` say that the known set holds the announcements and call a small grace safe.
Objects that were never committed are reclaimed (`GarbageGoes`). Objects of files that merges have retired are not, against `compaction/src/lib.rs:726`:
the copy keeps their tombstones, and what it has heard of is known; with metanodes `GarbageGoes` does not ask for them. It also means that no query loses a file the collectors have heard of.

*The log.* What was acknowledged is read at its number unless the log was harmed: a refused write or a failed sync leaves its bytes in the file while `next_seq` goes back
(`"write"`); the file of an interrupted rotation makes every later rotation fail (`"stray"`); and a failed restore is only reported (`datanode/src/main.rs:408`, `server/src/lib.rs:523`), after which
the archive is overwritten by the empty log's segments (`"restore"`). A segment without a header refuses the start.

*The client of a metanode* shows at each snapshot what the machine showed, except for numbers that run ahead of files (`remote_catalog.rs:271`) and for tables dropped and created again between two refreshes (`"recreated"`,
`"overtaken"`, `"raced"`). A write repeated on another node takes effect at most once and is reported done only when it is,
while its table stays (`AnsweredOnce`). `remote_catalog.rs:152` takes Unavailable to mean *not processed*; `meta/src/lib.rs:327` says it also after ten seconds of
waiting for a proposal that may still be applied. So a DROP proposed twice takes a table created in between with it; a CREATE, a DROP or a merge is reported refused though done;
`evolve_schema` returns success with the old schema when no metanode answered; and a merge is told the number of the cache rather than that of its commit, so that
`compaction/src/lib.rs:374` revokes vectors at a snapshot before the merge and shows deleted rows at the snapshots between (`"rewritten"`).

*Metanodes.* State machines and artifacts are the log at every index. A leader whose queue was inherited from nothing answers in log order; after a change of leader the queue is
matched by position (`meta/src/lib.rs:1831`) and may answer a waiter with another's index. A restored snapshot changes the membership in the cache only, against the comment at
`meta/src/fjall_storage.rs:117`, so a restart takes it back.

*Reads.* A scan finds each row once and nothing falls between store and files, as long as the copy shows its tables at one moment: an incremental
refresh stamps the copy with a number ahead of the tables it did not ask for (`query/src/cache.rs:657`); a chunk whose file is merged away before
it is marked, and one freed between the watermark and the chunks (`chunk/src/store.rs:1114`), are the other two exceptions. **`AggregateExact` fails**: a pushed-down
aggregate plans from one copy and reads its cold half in a session that took another, and a row whose file is merged or updated away in between is counted in neither.

*Pushdown.* Folded answers are whole, and pruning keeps what is wanted in files whose columns have the type they were written in and hide no NaN (`PruneKeepsMatches`). `query/src/prune.rs:11` says
more, and the code does not keep it; the instance has such files, and the property leaves them out. Bounds are written in the file's type (`model/src/meta.rs:613`) and decoded in the table's (`query/src/prune.rs:245`), so after a widening from integers to floats, which a write can cause, a file
with 2 in it has bounds next to 0 and is skipped for `a = 2`. A NaN behind a number does not count in the bounds (`model/src/meta.rs:547`), though the engine sorts it above all numbers, so a file is skipped for a filter that only the NaN
satisfies. Left out of the instance: MIN and MAX over a text column that is all NULL fail (`query/src/agg_pushdown.rs:759`).

*Tables.* The epochs of the store follow the log, and nothing from before a DROP comes back unless a flush past its `is_stale` check commits after the DROP (`"late"`). `trouble` names what else makes
the code keep less than it says: a replayed CREATE, DROP, CREATE drops the live table of a catalog that survived; a CREATE IF NOT EXISTS on an existing table is logged and raises the epoch, whereupon buffered
rows are discarded at the next start (`sql/src/lib.rs:899`); a DROP applied and not yet logged, or two logged in another order than applied (`"unlogged"`, `"disordered"`); the columns a write added are not in the log and are lost with a catalog in memory (`"forgotten"`), or
dropped when an older ALTER is replayed over them (`"narrowed"`); the schema cache is never invalidated (`"stale"`); a chunk turns away narrower batches that `model/src/schema.rs:5` calls compatible (`"turned away"`);
`resolve_schema_version` returns after one evolution although `schema.rs:10` promises all (`"halfway"`); a replayed CREATE has no partition columns, whatever the table had (`ingest/src/ddl.rs:42`; `ReplayRebuilds` compares the schema only); and a replayed ALTER that no longer applies ends the start (`ingest/src/ddl.rs:86` against `:11`).

Seen while reading, outside the modules: a delayed acquisition or renewal of the present holder can move its expiry back (`catalog/src/state.rs:184`); a cleanup round does not look at its lease again
(`compaction/src/lib.rs:811`); `drop_table` leaves the tasks of the table's shards (`state.rs:1111`); an error
in the middle of `LeaseSet::acquire` leaves the leases taken until their term; a TRUNCATE replayed over a catalog in memory takes rows written after it too, for the batches are recommitted before it (`ingest/src/dml.rs:172`);
`datanode/src/main.rs` never replays the statements of its log, which `sql/src/dml.rs:410` counts on; a DELETE flushes the chunks of its own node only; WAL cleanup removes segments that hold DDL records.

### Fairness

* `maint_table`: weak fairness of each compactor's next step in the mix of merges. A compactor is a loop over a timer that waits for nothing but its own calls (`spawn_compaction_loop`). None for flushes, the clock, or for
  *succeeding*: a round may lose its claim, its lease or its commit. `[]<>` *no task is left* holds without statements; a shard whose every row is deleted is read and left alone in each round, for good (`compaction/src/lib.rs:276`).
* `cleanup`: the clock, the rounds of a collector and, with metanodes, the sweep of announcements, all timers. A refresh may bring nothing, for ever. Failures are bounded, not unfair.
* `remote`: a replica follows, a refresh begins, is answered and applied. Requests that fail are bounded by `MaxFaults`.
* `wal`: the commit thread, the start of a process that is down, the archiver's loop.
* `reads`: the background loop begins, and each refresh takes its next step. Queries are under no fairness.

Nobody is fair to clients, statements or operators: nothing obliges them.

## 4. Proofs

TLAPS checks, for all values of the constants that meet their named assumptions:

| Theorem | Statement |
|---|---|
| `CatalogProofs!GateTypeCorrect` | `GateSpec => []GateTypeOK` |
| `CatalogProofs!EpochsNameOneHolder` | `GateSpec => []GrantsUnique` |
| `CatalogProofs!LeaseMutualExclusion` | `GateSpec => []LeaseExclusive` |
| `CatalogProofs!TypeCorrect` | `Spec => []TypeOK` |
| `CatalogProofs!WindowsHold` | `Spec => []WindowsInOrder` |
| `CatalogProofs!SnapshotsAreStable` | `Spec => SnapshotIsolation` |
| `CatalogProofs!KeysKept` | `Spec => KeysStayCommitted` |
| `CatalogProofs!VectorsHold` | `Spec => []VectorsHideRows` |
| `CatalogProofs!TasksStayUpToDate` | `Spec => []TasksUpToDate` |
| `CatalogProofs!NothingChangesUnannounced` | `Spec => ChangesAreAnnounced` |
| `CatalogProofs!NothingFalls` | `ReadsSpec => []NothingFallsBetween` |
| `CatalogProofs!AnswersAreExact` | `ReadsSpec => []AnswerExact` |
| `IngestProofs!KeysCommitOnce` | `Spec => []KeyedOnce` |
| `IngestProofs!AnsweredWritesAreKept` | `Spec => []AckedKeptUnlessDropped` |
| `IngestProofs!AbsorbedIsReadOnce` | `Spec => []ReadOnce` |
| `MaintenanceProofs!UntouchedRowsHold` | `Spec => []UntouchedRowsOnce` |
| `MetanodeProofs!MetanodeTypeCorrect` | `Spec => []TypeOK` |
| `MetanodeProofs!StateMachineFollowsLog` | `Spec => []StateFollowsLog` |
| `MetanodeProofs!QueueFollowsLog` | `Spec => []QueueMatchesLog` |
| `OrphanCleanupProofs!ShownFilesHaveObjects` | `Spec => []NoDanglingFile` |
| `OrphanCleanupProofs!VectorsHaveObjects` | `Spec => []VectorsAreThere` |
| `OrphanCleanupProofs!ReadersAreServed` | `Spec => []ReadersHaveGrace` |
| `PushdownProofs!PruningIsSound` | `Spec => []PruneKeepsMatches` |
| `TableLifeProofs!EpochsFollowTheLog` | `Spec => []LivenessFollowsLog` |
| `TableLifeProofs!DropIsForGood` | `Spec => []DroppedStaysDropped` |
| `TableLifeProofs!AnsweredRowsAreKept` | `Spec => []AnsweredKept` |
| `TableLifeProofs!FoundRowsAreWhole` | `Spec => []FoundWhole` |
| `TableLifeProofs!ReplayRebuildsTheTable` | `Spec => ReplayRebuilds` |
| `WalProofs!WInvHolds` | `Spec => []WInv` |
| `WalProofs!AnswersAreRead` | `Spec => []AckedReadableUnlessHarmed` |
| `WalProofs!WatermarkIsSynced` | `Spec => []WatermarkHonest` |

*Unique epochs.* `GrantsUnique` is not inductive: an acquisition must know that
no grant lies above the present watermark, and that grants at the
watermark are the present holder's unless the entry is free (`GrantsBelowWatermark`). With it, a
takeover's epoch is new and a repeated acquisition's is the holder's own.

*Exclusion.* While `steady` holds, three facts carry each other
(`ExclusionParts`): a gate that is set is backed by a grant of that epoch
(`GatesBacked`), a request under way carries the true time or an earlier one and
its sender's own epoch (`RequestsHonest`), and an answer not taken yet promises no more
than the table has (`GrantsBacked`). A gate not yet expired then
is the table's entry, and the entry has one holder. The moment a clock differs or a late
request is applied, `steady` is false for good and the theorem is silent, as is the code.

*Snapshot isolation.* Twenty-odd operations are reduced to one predicate on a step,
`ManifestEvolves`: files present stay with their window, or get closed at a number above the
present snapshot; new files and vectors open above it; vectors present stay or are
revoked above it; a dropped table is the exception. Every operation satisfies it (one lemma per group), and
from it and `WindowsInOrder`, which is inductive together with `TypeOK`, the view at any number up to
the present one is unchanged.

*Keys.* A claim never replaces a record, a sweep removes it, and a commit is accepted only if its keys are free or its own; so the batch a record names stays while the record does. An
UPDATE writes its statement id, with no batch, into the same index: that this takes no client's key away is `KeysAreNoStatements`, a difference of the two kinds of ids.

*Vectors.* `VectorsHideRows` is inductive with `VectorsAnchored`: a vector lasts no longer than its file and is of its table. Each operation is shown to keep vectors on their files and to
put new ones on live files (`AnchorsStay`); a window closed later closes above the snapshot the vector took effect at.

*Tasks.* The present lies past every window that closed and inside every one that opened (`WindowsInOrder`), so what a shard is worth depends on live files and unrevoked vectors only, not on the counter.
Each operation then refreshes every shard whose live files or their vectors it touches, or touches none that stays, or computes all anew (`TasksFollow`).

*Announcements.* Every operation moves `schema_ver`, stamps the table it changes with the manifest version it reaches, or leaves the files and vectors of every table as they are (`Announces`).

*Exact answers.* `ReadsInv` has three parts. `RowInv` says where rows lie: a key that is in a file has a file of its own, of the same table and no younger (`RowsLie`), a chunk is noted before it has a file and marked with that
file's snapshot (`ChunksInOrder`), and a batch whose chunk is gone has a file no younger than the watermark (`FreedAreMarked`). From the commit of its file on, every snapshot shows a key that is not deleted, and none shows one twice (`KeysStay`, `KeysOnce`): a
commit has to show this of the new present only (`PairsOnce`, `PairsStay`, one lemma per operation), since by `ManifestEvolves` what a snapshot of the past shows never changes. `CopiesInv` says that a copy, also one under way, has the number of a snapshot of the
past and only files and vectors that exist. It does not say that the copy is true to that snapshot, which the code does not keep and the properties take as a premise (`Faithful`). `QueryInv` follows the query: what it has read from files, here and at the other
nodes, is what its plan stands for (`ColdOK`), and once it has read the store, hot rows have keys the plan does not show, and a row that is in neither was freed above the plan's snapshot (`HotOK`), which the watermark then tells, read first or last. All of
it speaks of snapshots gone by, so it outlives any number of flushes, merges, statements and swaps (`AskedWellRemains`). Each exception in `odd` is used once in the proof: a session of another copy in `ColdOK`, a chunk merged away unmarked in `FoundIsNew`, and one freed between
watermark and chunks in `StoreAsksWell`.

*Untouched rows.* The strengthening `MInv` follows a row no statement names through the merges. It is in exactly one live file (`OneHome`); what a worker carries between its read and its
commit holds exactly the untouched rows of its inputs (`MergesOK`), however old the snapshot it read; its output belongs to nobody else until committed (`OutputsOK`); bitmaps and new files of a statement
hold only rows of its key (`MarksOK`, `StmtsOK`). None of it mentions a lease: the conflict check of `CommitCompaction`, which wants every input live, carries the proof, so expired terms, a second worker, crashes and
replays cannot break it. `RowOnceUntilOvertaken` and `AcceptedHides` speak of rows statements do name, and are model-checked only: the first rests on the lease up to its last tick, and past it
is false.

*Keys and files.* `KeyedOnce` follows from `KeysNameFiles`: the key of a row in a file is in the index and names that file. A commit keeps it if the keys it takes are those of all rows in the object, and these are two
different readings of the log: the rows were chosen when the chunk was flushed or the batch repeated, the keys are read from the range at the commit, perhaps after a restart. `KInv` ties them together: every Pending record of a
batch names one range (`OneRange`), before anything else the log says of it (`PendingFirst`), so a batch that ends with one has no file yet; an object holds rows of that range only (`ObjectsInRange`); what is past its upload has its object
and only that has a file (`LandedHasObject`, `FilesLanded`); the flush under way is where its records say (`FlushLogged`). It needs the log whole: once a segment is gone the theorem says nothing, as `KeyedOnce` does.
That a set of log positions has a first and a last is proved from the well-foundedness of the naturals (`LeastNumber`, `GreatestNumber`).

*Answered writes.* A write is lost where a batch covers it without holding it: recovery takes everything in the range of a batch it knows to be in that batch. `Account` therefore says of each such hole, a write of the range and
group of a batch that its object leaves out, that it is housed: in the object of a batch of a strictly narrower range that is in the catalog or will be (`ObjectHoles`, `FlushHoles`). Narrower, so that no two batches excuse each other
with neither holding the write. A chunk gets a hole only where recovery has claimed positions between two of its own (`ChunkHoles`, `HousedAsClaimed`), and what was claimed there is a narrower range. While recovery runs nothing is in a chunk, and what it has dealt with is in a file or has lost its
key to one that is (`Resumed`, `FlushDone`); once the node serves, all it has claimed is housed (`ClaimsHoused`). A keyed write whose batch lost its key is in the file that took it, unless the key was taken for a write of another group or range: that case,
`StrayKey`, is the code's (`flush.rs`), and an excepted accident of the property. The accidents last (`Clean` never comes back), so the account is kept up to the first of them only.

*Read once.* A write has one home, and `Whereabouts` says which: a chunk until its flush is recorded, a file from its commit on, and between the two the snapshot decides. Files share no row and chunks share none (`RowsApart`, `ChunksApart`); a flushed chunk
is its file, with the same rows and the same snapshot (`FlushedAreFiles`); no file has a row of a chunk not yet flushed, unless its batch is committed and the chunk is about to say so (`UnflushedAreNot`, `Finishing`). That a commit adds a file and no second copy is
`FlushOfChunk` and `FlushFiled`: while the node serves, a flush is of one sealed chunk and all its rows. And it adds that file: no commit short of an accident finds a duplicate (`NoDuplicateUp`, `NoDuplicateResumed`). In service a keyed write of a chunk would otherwise be in a file too; in a recovery the batches known are of separate ranges
(`RangesApart`: that they are not is the accident `"retried"`) and hold writes of their group only (`RowsOfGroup`). At the end of a recovery everything it claimed is in a file no newer than `booted`; a chunk is freed only when its file is no newer than `released` (`Homes`); and nothing in a file is still to be absorbed (`FiledAreRead`). At a snapshot past both, each write
read so far is then in exactly one visible place (`ChunkOrFile`, `OneCopy`). Accidents last (`SpotlessLasts`), so `Whereabouts` is kept up to the first one.

*Collectors.* A collector works from three answers, each older than the next, and any number of commits, crashes and other collectors lie between them. Two invariants say what each answer still means when it is used.
`OInv` is for the catalog in the process. A data object in
the store, or in a listing of it, belongs to a batch in flight or done (`Stock`); so one not found known by the next question is of a job that is done and of a file no longer present, and `Finished` never
ends (`RoundOK`, `FinishedStays`). The order listing before question is what the proof turns on. Only what is finished is observed, and no query begins that would read it (`Observed`), so who reads it began before the observation;
as the clock of a round is read last, what is old enough then has outlived every such query's grace (`Judged`, `Served`). What an UPDATE writes unannounced and what shares an entry
with an orphaned vector (`shared`) is left out of each part, as it is of the properties.
`GInv` holds in both deployments, and knows of no announcement. What is in the store, in a listing or in an observation was born, and no later than it was seen (`Dated`, `Listing`, `SeenDated`); a round deletes a data object only if the
observation it found is as old as the grace when it reads its clock, so then the object is as old, and the file, which the round did not know, is in `overdue` (`RoundsDated`, `Kept`). What is not overdue therefore keeps its object, which is all that the code promises with metanodes.
A file of `overdue` need not be lost: it is what the collectors *may* take. What a copy holds, and how far it lags, does not matter to this argument.
For vectors the walk over the paths of one batch has to be followed (`WalkOK`, by induction from the well-foundedness of the naturals): the data file comes
first, and if it is known its verdict wipes the entry, so its vectors are at most observed anew. That takes some grace, and the file's own object to be listed: the proof showed that `VectorsAreThere` has to say both.
With no grace a vector goes at once, and next to a lost unannounced file its observation can grow old.

*State machines.* What an index holds never changes below the applied index of a node: a follower's log is cut only above what is
committed (`StateFollowsLog` with the types of logs and indexes), and artifact and state machine are prefixes of one log at the compacted and the applied index.
A leader elected with an empty queue and no op left to apply queues each op it appends, and applying a stretch of the log removes as many waiters as it has ops; ranks of ops in the log shift by that number (`QueueMatchesLog`).

*Pruning.* Per comparison, bounds that are refuted leave no value between them that satisfies it (`BoundsExclude`), and bounds that are no numbers refute nothing (`NoNumberExcludesNothing`); NULL is in no comparison, and conjunctions and disjunctions
follow by cases. The premise, that the columns of the file have the type they were written in and that no NaN stands behind a number, is used where the bounds are decoded and where every value is said to lie between them, and in no other place; without it the
theorem is false, as the instance shows. A file may have been written in any type the table's has been widened from (`PushdownAssumption`).

*Epochs and drops.* The store counts the CREATEs of the log it has read, recovery those of the whole log (`Within /\ LivenessFollowsLog`). For
drops, rows of a chunk or a batch come from one era on (`EraHasNoDrop`, by counting CREATEs), and while no DROP has overtaken a flush nothing of an earlier era is in a file.

*Answered rows.* What must not get lost is a row of the present life (`Quiet`: no CREATE or DROP lies behind it in the log). `KInv` keeps an account of those rows: absorbed, a row is in a chunk or in a committed
batch (`Stored`); what recovery skips as its own is committed (`Claimed`); and a committed batch is in a file (`Landed`) unless a DROP is applied and not yet logged. A pending batch names a range, and a crash makes
recovery rewrite the whole range, so the account must also say that everything in a batch's range is in some batch (`Covered`), which follows from the same about the reach of a chunk when it is flushed (`Held`), and this
from there being one open chunk of an epoch (`OneOpen`). `Taken`, that no chunk turned a batch away, is the theorem's premise, since without it the row is lost by the code (`store.rs`), and is used in no other place.

*Found whole.* What a write goes by is a copy of the table's schema, of some life of it: within a life that is still the present one, the table's own schema reads whatever the copy reads (`EntryOK`), since a change
that is no harm adds a column or widens one (`ChangeWidens`), and reading whole is transitive (`ReadsOn`, by the order of the types' ranks). So each row of the present life is read whole when it is logged and after every change
(`FoundNow`), as long as the table is never rebuilt. A replay rebuilds it, and then one must know that the same table comes out. `HInv` says so with three histories that no variable keeps. `A[n]` is the table that the first n records make from nothing
(`LogTold`). `C[t]` is the table statement t found; the statements from some k on wait for the log, one each, and `C[k]` is where the log has got to (`TurnsTold`): logged in turn they make the table that is there. And while the process is down the last
`A` has the schema the table had (`PhaseTold`). A catalog that has survived goes its own way in the replay: it is `Carried`, which promises only that a log that neither drops nor alters from here on leaves it as the log would have made it. It needs the schemas to be
functions from columns to types (`ShapesAssumption`), for two that cover each other to be equal. Where a write has widened the schema the log does not know it; then the table must have survived and no record may have taken it, and `FoundNow` holds all through the replay.

*The log.* A start takes, of the local file and the archive's copy of a segment, one by its length, cuts it at the first torn record, and gives out numbers from there on; whether what was acknowledged is read back then depends on
both. `WInv` says what makes the choice harmless, as long as nothing harmed the log (`Fine`). Neither copy has a record where the other has a different one (`Agree`), so the copy of more bytes has whatever can be read in the other. Only the last piece of a file is ever torn, and only past what was synced (`Untorn`). The numbers of a segment end before those of the next, whichever copies are taken (`Ordered`), so a number is read in one place
(`VisibleIs`), and nothing lies past the segment that is opened but an empty file of a rotation (`Ends`). Each acknowledged record is in the synced part of a file or in the archive (`Located`). Where the commit thread is says how
the current file, `next_seq` and the batch go together (`Threaded`): a number is given out once. Of the watermark it says that what a file has below `next_seq` is synced or older than this process (`Marked`). The archiver reads files while the thread writes them, before their sync; its copy can therefore outlive
the local bytes, and a start then takes it, which `Agree` and `Ordered` allow for. The scan of readers is a set of records here, since a number occurs once in it, and a file's bytes are a set counted, so that both can be reasoned about.

Only model-checked: `RowOnceUntilOvertaken`, `AcceptedHides` and the refinement of `RowTable` (see *Untouched rows*); RemoteCatalog, RemoteWrites and the folding of aggregates;
`MembershipCurrent`, which needs the safety of the raft crate's membership changes, external here; and liveness, which is out of the prover's reach.

## 5. Not modelled, and why

* Parsing, planning and execution inside DataFusion, the registry of sessions and the shim: no state that another session reads, and no order of steps of this code's own.
* MySQL wire, Flight SQL, metrics, configuration, the client SDK, command lines: adapters. A client's retry with its key is an input of Ingest.
* Process assembly: the order in which restore, replay, recovery and the loops start is a guard of Wal, Maintenance, Ingest and TableLife.
* Encodings and file formats (Vortex, snapshots, private directories): data. What a conversion loses, `RestoreSnapshot` and the bounds of a file say.
* Consensus inside the raft crate, its transport and redialling: external to the repository's own logic.
* Spill and the choice of the pressure ladder; LIMIT, streaming and the decoding budget; statements over several shards, TRUNCATE as a statement and the forced
  flush before it (`PurgeTable`, which it calls, is in Catalog); schemas' own DDL in the log; several tables on one node in TableLife.
* Fault injection (`chaos/`) is test code.

Bitmaps are sets of rows, and objects are contents that never get lost once uploaded. A large part of each source file is its own tests, which no definition maps.
