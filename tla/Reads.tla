------------------------------- MODULE Reads --------------------------------
(***************************************************************************)
(* A query over rows that are on their way from the chunks of a data node  *)
(* to the files of the catalog (query/src/lib.rs, table.rs, cache.rs,      *)
(* chunk/src/store.rs).                                                    *)
(*                                                                         *)
(* The query node plans from a materialised copy of the catalog, which two *)
(* actors refresh request by request: the background loop and the query    *)
(* itself.  A query reads the hot rows of the store and the files of the   *)
(* copy; meanwhile chunks are flushed, marked and freed, files are merged, *)
(* and statements delete and update rows.  A refresh takes several answers *)
(* of the catalog, and the catalog moves between any two of them.          *)
(***************************************************************************)
EXTENDS Catalog

CONSTANTS
    MaxTries,            \* HOT_STALE_MAX_ATTEMPTS
    MaxSchema, MaxManifest, MaxFaults      \* bounds of a run

S0 == "s0"               \* the shard all batches are of

ASSUME ReadsAssumption ==
    /\ {MaxTries, MaxSchema, MaxManifest, MaxFaults} \subseteq Nat
    /\ S0 \in Shards

VARIABLES
    deployment,          \* "standalone": store and query in one process; "separate"
    content,             \* file -> rows of its object
    marks,               \* (statement, file) -> rows its bitmap marks
    chunks,              \* batch -> its chunk in the store, while it has one
    released_watermark,  \* highest commit whose chunk was freed
    cache,               \* LocalCatalog.current
    work,                \* actor -> how far its refresh is
    query,               \* the query
    erased,              \* history: keys of rows deleted
    faults               \* requests refused so far

storeVars == <<chunks, released_watermark>>
rowVars == <<content, marks, erased>>
ambient == <<deployment, faults>>
readsVars == <<catalogVars, rowVars, storeVars, cache, work, query, ambient>>

Refreshers == {"loop", "query"}

\* A row is a key and a version; the key is the batch the row arrived in.
KeyOf(row) == row[1]

-----------------------------------------------------------------------------
(* The chunk store. *)

Absorb(b, t) ==
    /\ b \notin DOMAIN content
    /\ content' = Over(Entry(b, {<<b, 0>>}), content)
    /\ chunks' = Over(Entry(b, [table |-> t, noted |-> FALSE, committed |-> 0]), chunks)
    /\ UNCHANGED <<catalogVars, marks, erased, released_watermark, cache, work, query, ambient>>

\* note_batch_id: before the commit.
Note(b) ==
    /\ b \in DOMAIN chunks
    /\ ~chunks[b].noted
    /\ chunks' = [chunks EXCEPT ![b].noted = TRUE]
    /\ UNCHANGED <<catalogVars, rowVars, released_watermark, cache, work, query, ambient>>

Bounded == schema_ver' <= MaxSchema /\ manifest_ver' <= MaxManifest

FlushCommit(b) ==
    /\ b \in DOMAIN chunks
    /\ chunks[b].noted
    /\ CommitFiles(b, chunks[b].table, S0, 1, {}, 0)
    /\ Bounded
    /\ UNCHANGED <<rowVars, storeVars, cache, work, query, ambient>>

\* mark_committed, with the snapshot the commit answered.
Mark(b) ==
    /\ b \in DOMAIN chunks \cap DOMAIN files
    /\ chunks[b].committed = 0
    /\ chunks' = [chunks EXCEPT ![b].committed = files[b].valid_from]
    /\ UNCHANGED <<catalogVars, rowVars, released_watermark, cache, work, query, ambient>>

CaughtUp(b, s) == chunks[b].committed # 0 /\ s >= chunks[b].committed

\* Slip: the watermark is left where it was.
ReclaimQuietly(s) ==
    /\ chunks' = RestrictDomain(chunks, LAMBDA b : ~CaughtUp(b, s))
    /\ released_watermark' = released_watermark

\* Flushed chunks that the snapshot covers are freed, and the watermark says
\* up to which commit.
Reclaim(s) ==
    LET freed == {b \in DOMAIN chunks : CaughtUp(b, s)} IN
    /\ chunks' = Without(chunks, freed)
    /\ released_watermark' =
           Max({released_watermark} \cup {chunks[b].committed : b \in freed})

\* A data node frees its chunks by a copy of the catalog of its own, which
\* may be as new as the catalog.
DataNodeReclaims ==
    /\ deployment = "separate"
    /\ \E s \in 1..snapshot_version :
          /\ \E b \in DOMAIN chunks : CaughtUp(b, s)
          /\ Reclaim(s)
    /\ UNCHANGED <<catalogVars, rowVars, cache, work, query, ambient>>

\* Slip: the batches the reader has as files are not left out.
VisibleByMarkOnly(t, s, exclude) ==
    {b \in DOMAIN chunks : /\ chunks[b].table = t
                           /\ chunks[b].committed = 0 \/ s < chunks[b].committed}

\* visible_chunks_excluding: the fence by batch id, then the snapshot.
VisibleChunks(t, s, exclude) ==
    {b \in DOMAIN chunks :
        /\ chunks[b].table = t
        /\ ~(chunks[b].noted /\ b \in exclude)
        /\ chunks[b].committed = 0 \/ s < chunks[b].committed}

-----------------------------------------------------------------------------
(* Merges and statements, each at its commit.  The refresh a statement ends
   with is one more round of the loop. *)

Hidden(b, D) == UNION {marks[k] : k \in {j \in D : j[2] = b}}
RowsNow(b) == content[b] \ Hidden(b, ListDeletions(files[b].table, snapshot_version))
Live(b) == b \in DOMAIN files /\ files[b].deleted_at = 0

Untouched == UNCHANGED <<storeVars, cache, work, query, ambient>>

Merge(O, n) ==
    /\ \A b \in O : Live(b)
    /\ \E t \in Tables : \A b \in O : files[b].table = t
    /\ n \notin DOMAIN content
    /\ UNION {RowsNow(b) : b \in O} # {}
    /\ \E b \in O : CommitCompaction(O, n, files[b].table, S0, Cardinality(O), 0, "compaction")
    /\ Bounded
    /\ content' = Over(Entry(n, UNION {RowsNow(b) : b \in O}), content)
    /\ UNCHANGED <<marks, erased>> /\ Untouched

Revoke(b) ==
    /\ b \in DOMAIN files /\ ~Live(b)
    /\ RevokeDeletions(b, files[b].deleted_at)
    /\ Bounded
    /\ UNCHANGED rowVars /\ Untouched

\* The id of a statement is drawn where it is planned.
Drawn(d) == \A k \in DOMAIN deletions : k[1] # d

Delete(d, b, row) ==
    /\ Drawn(d)
    /\ Live(b) /\ row \in RowsNow(b)
    /\ ApplyDeletions(d, files[b].table, Entry(b, 1))
    /\ Bounded
    /\ marks' = Over(Entry(<<d, b>>, {row}), marks)
    /\ erased' = erased \cup {KeyOf(row)}
    /\ UNCHANGED content /\ Untouched

Update(d, b, row, n) ==
    /\ Drawn(d)
    /\ Live(b) /\ row \in RowsNow(b)
    /\ n \notin DOMAIN content
    /\ ApplyUpdate(d, files[b].table, Entry(b, 1), Entry(n, [shard |-> S0, rows |-> 1]), 0)
    /\ Bounded
    /\ marks' = Over(Entry(<<d, b>>, {row}), marks)
    /\ content' = Over(Entry(n, {<<row[1], row[2] + 1>>}), content)
    /\ UNCHANGED erased /\ Untouched

-----------------------------------------------------------------------------
(* The copy of the catalog: LocalCatalog::refresh. *)

Version == [schema |-> schema_ver, manifest |-> manifest_ver]

Listed(names, s) == [t \in names |-> [files |-> VisibleFiles(t, s), deletions |-> ListDeletions(t, s)]]

AtRest == [at |-> "idle"]
RefreshOnly == UNCHANGED <<catalogVars, rowVars, query>>

AskVersion(r) ==
    work' = [work EXCEPT ![r] = [at |-> "version", ver |-> Version, base |-> cache, names |-> {}]]

LoopBegins ==
    /\ work["loop"] = AtRest
    /\ cache.ver # Version
    /\ AskVersion("loop")
    /\ UNCHANGED <<storeVars, cache, ambient>> /\ RefreshOnly

\* The version decides: everything anew, what changed since, or nothing.
Choose(r) ==
    /\ work[r].at = "version"
    /\ work' = [work EXCEPT ![r] =
           IF work[r].ver.schema # cache.ver.schema
           THEN [work[r] EXCEPT !.at = "list", !.base = cache, !.names = Tables]
           ELSE IF work[r].ver.manifest # cache.ver.manifest
                THEN [work[r] EXCEPT !.at = "delta", !.base = cache]
                ELSE AtRest]
    /\ UNCHANGED <<storeVars, cache, ambient>> /\ RefreshOnly

AskDelta(r) ==
    /\ work[r].at = "delta"
    /\ work' = [work EXCEPT ![r].at = "list",
                            ![r].names = ManifestDelta(work[r].base.ver.manifest)]
    /\ UNCHANGED <<storeVars, cache, ambient>> /\ RefreshOnly

\* Slip: the copy carries the version of the moment its tables are listed.
NextCopyStampedLate(w) ==
    [ver |-> Version, snapshot |-> snapshot_version,
     tables |-> Over(Listed(w.names, snapshot_version), w.base.tables)]

\* The tables named are listed at the snapshot of this moment, which is also
\* the number of the whole copy; the version is the one asked for at first.
NextCopy(w) ==
    [ver |-> w.ver, snapshot |-> snapshot_version,
     tables |-> Over(Listed(w.names, snapshot_version), w.base.tables)]

List(r) ==
    /\ work[r].at = "list"
    /\ work' = [work EXCEPT ![r].at = "swap", ![r].base = NextCopy(work[r])]
    /\ UNCHANGED <<storeVars, cache, ambient>> /\ RefreshOnly

\* The copy replaces the present one, newer or older, and in one process the
\* store frees what the copy's number covers.
Swap(r) ==
    /\ work[r].at = "swap"
    /\ cache' = work[r].base
    /\ IF deployment = "standalone" THEN Reclaim(work[r].base.snapshot) ELSE UNCHANGED storeVars
    /\ work' = [work EXCEPT ![r] = AtRest]
    /\ UNCHANGED ambient /\ RefreshOnly

RefreshStep(r) == Choose(r) \/ AskDelta(r) \/ List(r) \/ Swap(r)

\* A request of the refresh is refused or lost: the old copy stays.  A query
\* that only wanted a fresh copy goes on with it, one that was told its copy
\* is stale fails.
RefreshFails(r) ==
    /\ work[r].at \in {"version", "delta", "list"}
    /\ faults < MaxFaults
    /\ faults' = faults + 1
    /\ work' = [work EXCEPT ![r] = AtRest]
    /\ query' = IF r = "query" /\ query.pc = "restale" THEN [query EXCEPT !.pc = "failed"] ELSE query
    /\ UNCHANGED <<catalogVars, rowVars, storeVars, cache, deployment>>

-----------------------------------------------------------------------------
(* The query.  A scan takes one copy; an aggregate that is pushed down plans
   from one copy, and the session of its cold half takes another. *)

At(pc) == query.pc = pc
QueryOnly == UNCHANGED <<catalogVars, rowVars, storeVars, cache, ambient>>

Written == {KeyOf(row) : row \in UNION {content[b] : b \in DOMAIN content}}
WrittenTo(t) ==
    {k \in Written : \/ k \in DOMAIN chunks /\ chunks[k].table = t
                     \/ k \in DOMAIN files /\ files[k].table = t}

Ask(kind, t) ==
    /\ At("none")
    /\ query' = [pc |-> "attempt", kind |-> kind, table |-> t, tries |-> 0,
                 born |-> WrittenTo(t) \ erased, plan |-> cache, copy |-> cache, share |-> {},
                 mark |-> 0, hot |-> {}, cold |-> {}, far |-> {}, odd |-> {}]
    /\ UNCHANGED work /\ QueryOnly

PlanTable == query.plan.tables[query.table]
PlanFiles == PlanTable.files

\* The rows a table of a copy stands for, each with its file.
RowsOf(F, D) == UNION {{b} \X (content[b] \ Hidden(b, D)) : b \in F}
Shown(tab) == RowsOf(tab.files, tab.deletions)

\* Each attempt starts from nothing.  Which files of an aggregate go to the
\* other nodes is placement::assign's choice.
Attempt ==
    /\ At("attempt")
    /\ \E share \in SUBSET cache.tables[query.table].files :
          /\ share # {} => query.kind = "aggregate" /\ deployment = "separate"
          /\ query' = [query EXCEPT !.pc = "fresh", !.plan = cache, !.share = share,
                                    !.hot = {}, !.cold = {}, !.far = {}, !.odd = {}]
    /\ UNCHANGED work /\ QueryOnly

\* ensure_fresh, which may find it too early to ask again.
Throttled ==
    /\ At("fresh")
    /\ query' = [query EXCEPT !.pc = "session"]
    /\ UNCHANGED work /\ QueryOnly

EnsureFresh ==
    /\ At("fresh")
    /\ AskVersion("query")
    /\ query' = [query EXCEPT !.pc = "freshening"]
    /\ QueryOnly

Refreshed ==
    /\ At("freshening") \/ At("restale")
    /\ work["query"] = AtRest
    /\ query' = [query EXCEPT !.pc = IF At("restale") THEN "attempt" ELSE "session"]
    /\ UNCHANGED work /\ QueryOnly

\* The session reads the files its own copy shows, of an aggregate only
\* those the plan gave to this node.
Session ==
    LET here == cache.tables[query.table]
        mine == IF query.kind = "scan" THEN here.files
                ELSE here.files \cap (PlanFiles \ query.share)
    IN
    /\ At("session")
    /\ query' = [query EXCEPT
           !.pc = IF query.share = {} THEN "hot" ELSE "far",
           !.plan = IF query.kind = "scan" THEN cache ELSE @,
           !.copy = cache,
           !.cold = RowsOf(mine, here.deletions),
           !.odd = @ \cup (IF query.kind = "aggregate" /\ Shown(here) # Shown(PlanTable)
                           THEN {"moved"} ELSE {})]
    /\ UNCHANGED work /\ QueryOnly

\* The other nodes are sent the files and the vectors of the plan.
FoldFar ==
    /\ At("far")
    /\ query' = [query EXCEPT !.pc = "hot",
           !.far = RowsOf(query.share, PlanTable.deletions)]
    /\ UNCHANGED work /\ QueryOnly

\* They do not answer: this node reads their share, in another session.
FallBack ==
    /\ At("far")
    /\ query' = [query EXCEPT !.pc = "fresh", !.share = {}]
    /\ UNCHANGED work /\ QueryOnly

\* The store's own read_table_excluding takes the watermark first; a scan of
\* a remote store reads its shards first.
MarkFirst == deployment = "standalone" \/ query.kind = "aggregate"

ReadMarkFirst ==
    /\ At("hot") /\ MarkFirst
    /\ query' = [query EXCEPT !.pc = "chunks", !.mark = released_watermark]
    /\ UNCHANGED work /\ QueryOnly

\* A chunk whose file is committed and merged away before it is marked.
MergedUnmarked(b) ==
    /\ chunks[b].committed = 0
    /\ b \in DOMAIN files
    /\ ~VisibleAt(files[b], query.plan.snapshot)
    /\ files[b].valid_from <= query.plan.snapshot

HotRead ==
    LET found == VisibleChunks(query.table, query.plan.snapshot, PlanFiles) IN
    [query EXCEPT !.hot = UNION {{b} \X content[b] : b \in found},
                  !.odd = @ \cup (IF \E b \in found : MergedUnmarked(b) THEN {"unmarked"} ELSE {})]

ReadChunks ==
    \/ /\ At("chunks")
       /\ query' = [HotRead EXCEPT !.pc = "judge",
              !.odd = @ \cup (IF released_watermark # query.mark THEN {"freed"} ELSE {})]
    \/ /\ At("hot") /\ ~MarkFirst
       /\ query' = [HotRead EXCEPT !.pc = "mark"]

ReadMarkLast ==
    /\ At("mark")
    /\ query' = [query EXCEPT !.pc = "judge", !.mark = released_watermark]

ReadStore == (ReadChunks \/ ReadMarkLast) /\ UNCHANGED work /\ QueryOnly

\* The node does not answer within the budget: the rows it holds are missing
\* and the answer says so.
Unreachable ==
    /\ At("hot") \/ At("mark")
    /\ deployment = "separate"
    /\ query' = [query EXCEPT !.pc = "partial"]
    /\ UNCHANGED work /\ QueryOnly

Stale == query.mark > query.plan.snapshot

Answer ==
    /\ At("judge") /\ ~Stale
    /\ query' = [query EXCEPT !.pc = "answered"]
    /\ UNCHANGED work /\ QueryOnly

Retry ==
    /\ At("judge") /\ Stale
    /\ query.tries + 1 < MaxTries
    /\ AskVersion("query")
    /\ query' = [query EXCEPT !.pc = "restale", !.tries = @ + 1]
    /\ QueryOnly

GiveUp ==
    /\ At("judge") /\ Stale
    /\ query.tries + 1 >= MaxTries
    /\ query' = [query EXCEPT !.pc = "failed"]
    /\ UNCHANGED work /\ QueryOnly

-----------------------------------------------------------------------------

\* Two tables, empty, and a copy of the catalog that knows them.
ReadsInit ==
    /\ LeasesInit
    /\ namespaces = {DefaultSchema}
    /\ tables = [t \in Tables |-> 1] /\ schemas = Tables \X {1}
    /\ snapshot_version = 1 /\ last_applied = 1 /\ schema_ver = 1
    /\ datanodes = Nothing /\ files = Nothing /\ deletions = Nothing
    /\ idempotency = Nothing /\ in_flight = Nothing /\ purged = Nothing
    /\ tasks = Nothing /\ manifest_ver = 0 /\ table_manifest_ver = Nothing
    /\ content = Nothing /\ marks = Nothing /\ erased = {}
    /\ chunks = Nothing /\ released_watermark = 0
    /\ cache = [ver |-> [schema |-> 1, manifest |-> 0], snapshot |-> 1,
                tables |-> [t \in Tables |-> [files |-> {}, deletions |-> {}]]]
    /\ work = [r \in Refreshers |-> AtRest]
    /\ query = [pc |-> "none"]
    /\ faults = 0
    /\ deployment \in {"standalone", "separate"}

ChunkStep(b) == Note(b) \/ FlushCommit(b) \/ Mark(b)

Maintains ==
    \/ \E O \in (SUBSET DOMAIN files) \ {{}}, n \in Batches : Merge(O, n)
    \/ \E b \in DOMAIN files : Revoke(b)
    \/ \E d \in DvIds, b \in DOMAIN files : \E row \in content[b] :
           Delete(d, b, row) \/ \E n \in Batches : Update(d, b, row, n)

QueryBegins == \E kind \in {"scan", "aggregate"}, t \in Tables : Ask(kind, t)

QueryStep ==
    \/ Attempt \/ Throttled \/ EnsureFresh \/ Refreshed
    \/ Session \/ FoldFar \/ FallBack
    \/ ReadMarkFirst \/ ReadStore \/ Unreachable
    \/ Answer \/ Retry \/ GiveUp

ReadsNext ==
    \/ \E b \in Batches, t \in Tables : Absorb(b, t)
    \/ \E b \in Batches : ChunkStep(b)
    \/ DataNodeReclaims
    \/ Maintains
    \/ LoopBegins
    \/ \E r \in Refreshers : RefreshStep(r)
    \/ \E r \in Refreshers : RefreshFails(r)
    \/ QueryBegins
    \/ QueryStep

\* The background loop wakes again and again, by its poll or its TTL, and the
\* requests of a refresh are answered; only a bounded number fails.
Fairness ==
    /\ WF_readsVars(LoopBegins)
    /\ \A r \in Refreshers : WF_readsVars(RefreshStep(r))

ReadsSpec == ReadsInit /\ [][ReadsNext]_readsVars /\ Fairness

-----------------------------------------------------------------------------
(* Properties. *)

Copy ==
    [ver : [schema : Nat, manifest : Nat], snapshot : Nat,
     tables : [Tables -> [files : SUBSET Batches, deletions : SUBSET (DvIds \X Batches)]]]

\* The catalog, the chunks, the copy and the query have the shape of the
\* structs they stand for, and a chunk is marked only once it has a file.
ReadsTypeOK ==
    /\ CatalogType
    /\ IsMap(chunks, Batches, [table : Tables, noted : BOOLEAN, committed : Nat])
    /\ \A b \in DOMAIN chunks : chunks[b].committed # 0 => b \in DOMAIN files
    /\ released_watermark \in 0..snapshot_version
    /\ cache \in Copy
    /\ erased \subseteq Batches /\ DOMAIN content \subseteq Batches
    /\ \A r \in Refreshers : work[r].at \in {"idle", "version", "delta", "list", "swap"}
    /\ query.pc # "none" => query.plan \in Copy /\ query.tries < MaxTries
    /\ faults \in 0..MaxFaults
    /\ deployment \in {"standalone", "separate"}

\* A copy shows table t as the catalog had it at the copy's number.
Faithful(c, t) ==
    /\ c.tables[t].files = VisibleFiles(t, c.snapshot)
    /\ \A b \in c.tables[t].files :
           Hidden(b, c.tables[t].deletions) = Hidden(b, ListDeletions(t, c.snapshot))

Copies(k) ==
    LET of(S) == Cardinality({x \in S : KeyOf(x[2]) = k})
    IN  of(query.hot) + of(query.cold) + of(query.far)

\* An answer has every row that was there when the query was asked, and was
\* not deleted meanwhile, exactly once, and none twice, in whichever version:
\* while it is absorbed, committed, marked, freed, merged and updated.  The
\* exceptions are a copy that lists tables at different moments, an aggregate
\* whose session takes a newer copy than its plan, a chunk merged away before
\* it is marked, and one freed between the watermark and the chunks.
AnswerExact ==
    (query.pc = "answered" /\ query.odd = {} /\ Faithful(query.plan, query.table)) =>
        /\ \A k \in Batches : Copies(k) <= 1
        /\ \A k \in query.born \ erased : Copies(k) = 1

\* A row whose chunk was freed is shown by the copy, or the next query is
\* told that its copy is stale: nothing falls between store and files
\* (store/src/shard.rs:63).
NothingFallsBetween ==
    \A k \in Written \ (DOMAIN chunks \cup erased) :
        \A t \in Tables :
            (k \in WrittenTo(t) /\ Faithful(cache, t) /\ released_watermark <= cache.snapshot) =>
                \E x \in Shown(cache.tables[t]) : KeyOf(x[2]) = k

\* Once the catalog rests, the copy comes to show it, and stays: no change is
\* missed for good, however refreshes overlap and overwrite each other.
CopyCatchesUp ==
    <>[](cache.ver = Version /\ \A t \in Tables : Shown(cache.tables[t]) =
             RowsOf(VisibleFiles(t, snapshot_version), ListDeletions(t, snapshot_version)))

\* An aggregate counts every row that was there, as a scan does.
AggregateExact ==
    (query.pc = "answered" /\ query.kind = "aggregate"
        /\ query.odd \subseteq {"moved"} /\ Faithful(query.plan, query.table)) =>
        \A k \in query.born \ erased : Copies(k) = 1
=============================================================================
