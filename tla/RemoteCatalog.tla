--------------------------- MODULE RemoteCatalog ---------------------------
(***************************************************************************)
(* The catalog as a client of the metadata service keeps it                *)
(* (meta/src/remote_catalog.rs): a cache of tables, files, deletion        *)
(* vectors, tasks and roster, and the refresh every read starts with.      *)
(*                                                                         *)
(* A refresh is two or three requests, each answered by any replica: a     *)
(* probe of the versions, the tables changed since, and the payload, which *)
(* is then applied to the cache.  Refreshes of one client overlap, replicas*)
(* lag, and any request may fail, which ends that refresh.                 *)
(***************************************************************************)
EXTENDS Catalog

CONSTANTS
    Refreshers,                       \* refreshes one client runs at a time
    Retention,                        \* snapshots whose tombstones it keeps
    MaxSchema, MaxManifest, MaxFaults \* bounds of a run

ASSUME RemoteAssumption ==
    /\ Retention \in Nat \ {0}
    /\ MaxSchema \in Nat /\ MaxManifest \in Nat /\ MaxFaults \in Nat

VARIABLES
    follower,   \* what a lagging replica answers from
    cache,      \* RemoteCatalog.cache
    work,       \* refresher -> how far its refresh is
    faults,     \* requests lost and clients restarted so far
    past,       \* history: snapshot -> what it showed
    dropped,    \* history: tables that have ever been dropped
    holes       \* history: how the cache may differ from the machine

remoteVars == <<follower, cache, work, faults, past, dropped, holes>>
vars == <<catalogVars, remoteVars>>

-----------------------------------------------------------------------------
(* What a replica answers. *)

Served ==
    [schema |-> schema_ver, manifest |-> manifest_ver, snapshot |-> snapshot_version,
     tables |-> tables, files |-> files, deletions |-> deletions, tasks |-> tasks,
     datanodes |-> datanodes, changed |-> table_manifest_ver]

ChangedSince(st, s) ==
    {b \in DOMAIN st.files : st.files[b].valid_from > s \/ st.files[b].deleted_at > s}

\* The tables named, those of their files that changed since, and always
\* every vector and every task.
PayloadNamed(st, names, since) ==
    [schema |-> st.schema, manifest |-> st.manifest, snapshot |-> st.snapshot,
     tables |-> Restrict(st.tables, names \cap DOMAIN st.tables),
     files |-> Restrict(st.files,
                   {b \in ChangedSince(st, since) : st.files[b].table \in names}),
     deletions |-> st.deletions, tasks |-> st.tasks, changed |-> st.changed]

PayloadFull(st) ==
    [PayloadNamed(st, DOMAIN st.tables, 0) EXCEPT !.files = st.files]

-----------------------------------------------------------------------------
(* The client. *)

EmptyCache ==
    [schema |-> 0, manifest |-> 0, snapshot |-> 0, primed |-> FALSE, floor |-> 0,
     tables |-> Nothing, files |-> Nothing, deletions |-> Nothing, tasks |-> Nothing,
     datanodes |-> Nothing]

Idle == [at |-> "idle"]

Begin(r) ==
    /\ work[r] = Idle
    /\ work' = [work EXCEPT ![r] =
           [at |-> "probe", schema |-> cache.schema, manifest |-> cache.manifest,
            snapshot |-> cache.snapshot, primed |-> cache.primed]]
    /\ UNCHANGED <<catalogVars, follower, cache, faults, past, dropped, holes>>

\* Slip: the schema version is not looked at.
NextUnlessManifestMoved(w, st) ==
    IF w.primed /\ st.manifest = w.manifest THEN Idle
    ELSE IF ~w.primed \/ st.manifest < w.manifest
         THEN [w EXCEPT !.at = "full"]
         ELSE [w EXCEPT !.at = "delta"]

\* The roster is taken over at once; the versions decide what follows.  A
\* replica behind the client says so, and that too means everything anew.
NextAfterProbe(w, st) ==
    IF w.primed /\ st.schema = w.schema /\ st.manifest = w.manifest THEN Idle
    ELSE IF ~w.primed \/ st.schema # w.schema \/ st.manifest < w.manifest
         THEN [w EXCEPT !.at = "full"]
         ELSE [w EXCEPT !.at = "delta"]

\* Slip: the snapshot number, too, is taken over from the probe.
ProbeAdvances(r, st) ==
    /\ work[r].at = "probe"
    /\ cache' = [cache EXCEPT !.datanodes = st.datanodes, !.snapshot = st.snapshot]
    /\ work' = [work EXCEPT ![r] = NextAfterProbe(work[r], st)]
    /\ UNCHANGED <<catalogVars, follower, faults, past, dropped, holes>>

Probe(r, st) ==
    /\ work[r].at = "probe"
    /\ cache' = [cache EXCEPT !.datanodes = st.datanodes]
    /\ work' = [work EXCEPT ![r] = NextAfterProbe(work[r], st)]
    /\ UNCHANGED <<catalogVars, follower, faults, past, dropped, holes>>

Delta(r, st) ==
    /\ work[r].at = "delta"
    /\ work' = [work EXCEPT ![r] =
           IF st.schema # work[r].schema
           THEN [work[r] EXCEPT !.at = "full"]
           ELSE Over([at |-> "payload", names |-> {t \in DOMAIN st.changed :
                                                      st.changed[t] > work[r].manifest}],
                     work[r])]
    /\ UNCHANGED <<catalogVars, follower, cache, faults, past, dropped, holes>>

Fetch(r, st) ==
    /\ work[r].at \in {"full", "payload"}
    /\ work' = [work EXCEPT ![r] =
           IF work[r].at = "full"
           THEN Over([at |-> "apply", full |-> TRUE, names |-> {},
                      resp |-> PayloadFull(st)], work[r])
           ELSE Over([at |-> "apply", full |-> FALSE,
                      resp |-> PayloadNamed(st, work[r].names, work[r].snapshot)], work[r])]
    /\ UNCHANGED <<catalogVars, follower, cache, faults, past, dropped, holes>>

\* Tables that the payload shows to be gone: asked for and not sent.
GoneTables(c, w) ==
    (IF w.full THEN DOMAIN c.tables ELSE w.names \cap DOMAIN c.tables)
        \ DOMAIN w.resp.tables

\* Slip: the subtraction wraps below zero.
FloorUnchecked(c, resp) == resp.snapshot - Retention

\* Below its floor the cache has lost tombstones and refuses to answer.
FloorAfter(c, resp) ==
    IF resp.snapshot > Retention THEN Max({c.floor, resp.snapshot - Retention}) ELSE c.floor

\* Files are added and overwritten, never taken out but with their table or
\* as tombstones past the retention; what the tables leave behind among the
\* vectors goes with a full payload; the tasks are replaced every time.
AppliedTo(c, w) ==
    LET gone == GoneTables(c, w)
        kept == RestrictDomain(c.files, LAMBDA b : c.files[b].table \notin gone)
        tabs == Without(Over(w.resp.tables, c.tables), gone)
        vecs == IF w.full
                THEN RestrictDomain(c.deletions,
                                    LAMBDA k : c.deletions[k].table \in DOMAIN tabs)
                ELSE c.deletions
        fs   == Over(w.resp.files, kept)
        low  == FloorAfter(c, w.resp)
    IN  [c EXCEPT
            !.schema = w.resp.schema, !.manifest = w.resp.manifest,
            !.snapshot = w.resp.snapshot, !.primed = TRUE, !.floor = low,
            !.tables = tabs, !.tasks = w.resp.tasks,
            !.deletions = Over(w.resp.deletions, vecs),
            !.files = IF low > c.floor
                      THEN RestrictDomain(fs, LAMBDA b : ProtectsAt(fs[b], low)) ELSE fs]

\* The files of a present table that a full payload does not know: they are
\* of a table that was dropped and created again in the meantime.
Leftover(c, resp) ==
    {b \in DOMAIN c.files : /\ c.files[b].table \in DOMAIN resp.tables
                            /\ b \notin DOMAIN resp.files
                            /\ c.files[b].valid_from <= resp.snapshot}

\* The increment is not all that changed, for the machine moved between the
\* two requests or another replica answered the second.
Raced(w) ==
    \/ w.resp.schema # w.schema
    \/ \E t \in DOMAIN w.resp.changed :
           w.resp.changed[t] > w.manifest /\ t \notin w.names

\* The increment does not fit the cache, which an older answer has set back.
Overtaken(c, w) == c.schema # w.schema \/ c.snapshot < w.snapshot

HolesAfter(c, w) ==
    IF w.full
    THEN (holes \cap {"rewritten"})
             \cup (IF Leftover(c, w.resp) = {} THEN {} ELSE {"recreated"})
    ELSE holes \cup (IF Raced(w) THEN {"raced"} ELSE {})
               \cup (IF Overtaken(c, w) THEN {"overtaken"} ELSE {})

Apply(r) ==
    /\ work[r].at = "apply"
    /\ cache' = AppliedTo(cache, work[r])
    /\ holes' = HolesAfter(cache, work[r])
    /\ work' = [work EXCEPT ![r] = Idle]
    /\ UNCHANGED <<catalogVars, follower, faults, past, dropped>>

\* A request times out or is refused by every node.
Fail(r) ==
    /\ work[r].at \in {"probe", "delta", "full", "payload"}
    /\ faults < MaxFaults
    /\ work' = [work EXCEPT ![r] = Idle]
    /\ faults' = faults + 1
    /\ UNCHANGED <<catalogVars, follower, cache, past, dropped, holes>>

Restart ==
    /\ faults < MaxFaults
    /\ cache' = EmptyCache
    /\ work' = [r \in Refreshers |-> Idle]
    /\ faults' = faults + 1
    /\ holes' = holes \cap {"rewritten"}
    /\ UNCHANGED <<catalogVars, follower, past, dropped>>

\* A replica that lagged has caught up for the moment.
Follow ==
    /\ follower # Served
    /\ follower' = Served
    /\ UNCHANGED <<catalogVars, cache, work, faults, past, dropped, holes>>

-----------------------------------------------------------------------------
(* The machine: the operations of each kind a refresh tells apart. *)

\* What a query at snapshot s reads of the files: their rows but those the
\* vectors mark.
View(fs, ds, s) ==
    {<<fs[b].table, b, {k[1] : k \in {j \in DOMAIN ds : j[2] = b /\ ActiveAt(ds[j], s)}}>> :
        b \in {c \in DOMAIN fs : VisibleAt(fs[c], s)}}

Bounded == schema_ver < MaxSchema /\ manifest_ver < MaxManifest

Recorded ==
    /\ past' = Over(Entry(snapshot_version', View(files', deletions', snapshot_version')), past)
    /\ UNCHANGED <<follower, cache, work, faults, holes>>

\* Batch ids are never used again.
NeverSeen(b) == \A s \in DOMAIN past : \A x \in past[s] : x[2] # b

MachineCreates(t) == Bounded /\ CreateTable(t) /\ Recorded /\ dropped' = dropped

MachineDrops(t) ==
    Bounded /\ DropTable(t) /\ Recorded /\ dropped' = dropped \cup {t}

MachineCommits(b, t, shard) ==
    /\ Bounded
    /\ t \in DOMAIN tables
    /\ NeverSeen(b)
    /\ CommitFiles(b, t, shard, 1, {}, 0)
    /\ Recorded /\ dropped' = dropped

MachineMerges(O, n) ==
    /\ Bounded
    /\ O # {} /\ n \notin O
    /\ \A b \in O : files[b].deleted_at = 0
    /\ \A a, b \in O : ShardOf(files[a]) = ShardOf(files[b])
    /\ NeverSeen(n)
    /\ \E b \in O : CommitCompaction(O, n, files[b].table, files[b].shard,
                                     Cardinality(O), 0, "compaction")
    /\ Recorded /\ dropped' = dropped

MachineDeletes(d, b) ==
    /\ Bounded
    /\ b \in DOMAIN files
    /\ ApplyDeletions(d, files[b].table, Entry(b, 1))
    /\ Recorded /\ dropped' = dropped

MachineRegisters(n, a) ==
    Bounded /\ RegisterDatanode(n, a) /\ Recorded /\ dropped' = dropped

-----------------------------------------------------------------------------

Init ==
    /\ CatalogInit
    /\ follower = Served
    /\ cache = EmptyCache
    /\ work = [r \in Refreshers |-> Idle]
    /\ faults = 0
    /\ past = Entry(1, {})
    /\ dropped = {}
    /\ holes = {}

MachineNext ==
    \/ \E t \in Tables : MachineCreates(t) \/ MachineDrops(t)
    \/ \E b \in Batches, t \in Tables, shard \in Shards : MachineCommits(b, t, shard)
    \/ \E O \in SUBSET DOMAIN files, n \in Batches : MachineMerges(O, n)
    \/ \E d \in DvIds, b \in Batches : MachineDeletes(d, b)
    \/ \E n \in Nodes, a \in Addresses : MachineRegisters(n, a)

Answered(r) == \E st \in {Served, follower} : Probe(r, st) \/ Delta(r, st) \/ Fetch(r, st)

Next ==
    \/ MachineNext
    \/ Follow
    \/ \E r \in Refreshers : Begin(r)
    \/ \E r \in Refreshers : Answered(r)
    \/ \E r \in Refreshers : Apply(r)
    \/ \E r \in Refreshers : Fail(r)
    \/ Restart

\* Reads keep coming, each starts a refresh, and answers arrive: only a
\* bounded number of requests is lost.  Replication goes on.
Fairness ==
    /\ WF_vars(Follow)
    /\ \A r \in Refreshers : WF_vars(Begin(r)) /\ WF_vars(Answered(r)) /\ WF_vars(Apply(r))

Spec == Init /\ [][Next]_vars /\ Fairness

-----------------------------------------------------------------------------

\* The cache and the refreshes under way have the shape of the structs
\* Cache and PrefetchRequest; the catalog is well typed.
TypeOK ==
    /\ CatalogType
    /\ cache.schema \in Nat /\ cache.manifest \in Nat /\ cache.snapshot \in Nat
    /\ cache.floor \in Nat /\ cache.primed \in BOOLEAN
    /\ IsMap(cache.tables, Tables, Nat)
    /\ IsMap(cache.files, Batches, FileEntry)
    /\ IsMap(cache.deletions, DvIds \X Batches, DeletionEntry)
    /\ IsMap(cache.tasks, Tables \X Shards, {"files", "deletions"})
    /\ IsMap(cache.datanodes, Nodes, Addresses)
    /\ \A r \in Refreshers :
           work[r].at \in {"idle", "probe", "delta", "full", "payload", "apply"}
    /\ faults \in 0..MaxFaults
    /\ holes \subseteq {"raced", "recreated", "overtaken", "rewritten"}

\* What a read of the cache at snapshot s returns.
Shown(s) == View(cache.files, cache.deletions, s)

\* What the machine showed then, of the tables never dropped since.
Standing(s) == {x \in past[s] : x[1] \notin dropped}

\* At every snapshot the cache answers for, the present one and the older
\* ones down to its floor, it shows exactly the files and deleted rows the
\* machine showed then, however requests, replicas and the machine's own
\* steps interleave, but for the holes named in `holes'.
CacheFaithful ==
    (cache.primed /\ holes = {}) =>
        \A s \in DOMAIN past :
            (cache.floor <= s /\ s <= cache.snapshot) =>
                Standing(s) \subseteq Shown(s) /\ Shown(s) \subseteq past[s]

\* However often requests fail and replicas lag, once the machine rests the
\* cache reaches its versions and stays there.
CatchesUp ==
    <>[](/\ cache.primed
         /\ cache.schema = schema_ver
         /\ cache.manifest = manifest_ver
         /\ cache.snapshot = snapshot_version)
=============================================================================
