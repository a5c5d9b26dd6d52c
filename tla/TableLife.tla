----------------------------- MODULE TableLife -----------------------------
(***************************************************************************)
(* The life of one table on one node: CREATE, ALTER and DROP (sql/src/     *)
(* lib.rs), which change the catalog first and are logged next; writes,    *)
(* judged by the schema cache (ingest/src/schema_cache.rs) and logged; the *)
(* accumulator, which keeps the table's epochs from the log and drops what *)
(* is stale (ingest/src/pipeline.rs, chunk/src/store.rs); and a restart,   *)
(* which replays the DDL (ingest/src/ddl.rs) and then the batches of the   *)
(* log against a catalog that is empty or has survived.                    *)
(*                                                                         *)
(* A row is the position of its record in the log.                         *)
(***************************************************************************)
EXTENDS Schemas, SequencesExt

CONSTANTS
    Sessions,            \* that run DDL statements
    Writers,             \* each writes one batch
    Shapes,              \* schemas of tables created and of batches
    MaxDdl, MaxCrashes   \* bounds

\* A schema gives some of the columns a type.
ASSUME ShapesAssumption == Shapes \subseteq UNION {[C -> Types] : C \in SUBSET Columns}

VARIABLES
    durable,      \* the catalog survives a restart
    table,        \* schema and version in the catalog
    files,        \* batches in the catalog: id -> rows
    log,          \* every record synced but those of batches
    batches,      \* what the log says of batches, by id
    session,      \* what each session is about to log
    writer,       \* how far each write is
    cache,        \* SchemaCache
    live,         \* the store's idea of the table: exists, epoch
    read, upto,   \* records absorbed; where the present scan ends
    chunks,       \* first row -> chunk
    claims,       \* replay_skip: rows recovery has committed itself
    flush,        \* the chunk and batch under way
    server,       \* phase of the process, and the record it replays
    ddls, crashes,
    lives,        \* history: how often the table was created
    before,       \* history: the schema when the process went down
    trouble       \* history: the accidents the properties name

catalogVars == <<table, files, lives>>
logVars == <<log, batches>>
storeVars == <<live, read, upto, chunks, claims, flush>>
bounds == <<ddls, crashes>>
vars == <<durable, catalogVars, logVars, session, writer, cache, storeVars, server,
          bounds, before, trouble>>

NoTable == [schema |-> NoColumns, version |-> 0, life |-> 0]
Exists == table.version > 0
Up == server.phase = "up"
Idle == [pc |-> "idle"]
NoFlush == [chunk |-> 0, batch |-> 0]
Blame(what, when) == trouble' = trouble \cup (IF when THEN {what} ELSE {})

-----------------------------------------------------------------------------
(* The catalog. *)

CreateTable(schema) ==
    /\ table' = [schema |-> schema, version |-> 1, life |-> lives + 1]
    /\ lives' = lives + 1 /\ files' = files

DropTable ==
    /\ table' = NoTable /\ files' = NoColumns
    /\ lives' = lives

\* The one optimistic lock: the version must be the one the change was made for.
Evolves(change, expected) ==
    Exists /\ table.version = expected /\ Applicable(table.schema, change)

Evolved(change) ==
    [table EXCEPT !.schema = ApplyChange(@, change), !.version = @ + 1]

EvolveSchema(change) == table' = Evolved(change) /\ UNCHANGED <<files, lives>>

-----------------------------------------------------------------------------
(* The log. *)

CreateRecord(schema) == [op |-> "create", schema |-> schema]
DropRecord == [op |-> "drop"]
AlterRecord(schema) == [op |-> "alter", schema |-> schema]
DataRecord(columns, version) == [op |-> "data", columns |-> columns, version |-> version]

Rows == {p \in DOMAIN log : log[p].op = "data"}
Ops(op, lo, hi) == {p \in lo..hi : log[p].op = op}

\* Slip: the epoch counts every statement that creates or drops.
CountDdl(n) == [exists |-> \A d \in Ops("drop", 1, n) : Ops("create", d, n) # {},
                epoch |-> Cardinality(Ops("create", 1, n) \cup Ops("drop", 1, n))]

\* liveness_at: the last CREATE or DROP decides, and CREATEs are counted.  Without
\* any the table counts as alive.
LivenessAt(n) == [exists |-> \A d \in Ops("drop", 1, n) : Ops("create", d, n) # {},
                  epoch |-> Cardinality(Ops("create", 1, n))]

-----------------------------------------------------------------------------
(* DDL statements. *)

InSession == UNCHANGED <<durable, logVars, writer, cache, storeVars, server, crashes, before>>

\* The statement has changed the catalog and will be logged.
ToLog(s, record) ==
    /\ session' = [session EXCEPT ![s] = [pc |-> "log", record |-> record, turn |-> ddls]]
    /\ ddls' = ddls + 1

Ready(s) == Up /\ session[s].pc = "idle" /\ ddls < MaxDdl

Create(s, schema) ==
    /\ Ready(s) /\ ~Exists
    /\ CreateTable(schema)
    /\ ToLog(s, CreateRecord(schema))
    /\ UNCHANGED trouble /\ InSession

\* IF NOT EXISTS, and it does: nothing happens, and it is logged all the same.
CreateExisting(s, schema) ==
    /\ Ready(s) /\ Exists
    /\ ToLog(s, CreateRecord(schema))
    /\ UNCHANGED <<catalogVars, trouble>> /\ InSession

Drop(s) ==
    /\ Ready(s) /\ Exists
    /\ DropTable
    /\ ToLog(s, DropRecord)
    /\ UNCHANGED trouble /\ InSession

\* ALTER reads the schema, and refuses what is so already and the last column.
Alter(s, change) ==
    /\ Ready(s) /\ Exists
    /\ (change.kind = "add") = (change.column \notin DOMAIN table.schema)
    /\ change.kind = "drop" => Cardinality(DOMAIN table.schema) > 1
    /\ session' = [session EXCEPT ![s] =
           [pc |-> "evolve", change |-> change, expected |-> table.version]]
    /\ UNCHANGED <<catalogVars, ddls, trouble>> /\ InSession

AlterApply(s) ==
    /\ Up /\ session[s].pc = "evolve"
    /\ LET change == session[s].change IN
       /\ Evolves(change, session[s].expected)
       /\ EvolveSchema(change)
       /\ ToLog(s, AlterRecord(Evolved(change).schema))
       /\ Blame("narrowed", change.kind = "drop")
    /\ InSession

AlterRefused(s) ==
    /\ Up /\ session[s].pc = "evolve"
    /\ ~Evolves(session[s].change, session[s].expected)
    /\ session' = [session EXCEPT ![s] = Idle]
    /\ UNCHANGED <<catalogVars, ddls, trouble>> /\ InSession

\* append_ddl.  Nothing keeps two statements in the order the catalog had them.
LogDdl(s) ==
    /\ Up /\ session[s].pc = "log"
    /\ log' = Append(log, session[s].record)
    /\ session' = [session EXCEPT ![s] = Idle]
    /\ Blame("disordered", \E z \in Sessions :
           session[z].pc = "log" /\ session[z].turn < session[s].turn)
    /\ UNCHANGED <<durable, catalogVars, batches, writer, cache, storeVars, server,
                   bounds, before>>

-----------------------------------------------------------------------------
(* Writes. *)

WriterAt(w, pc) == Up /\ writer[w].pc = pc
Now(w, state) == writer' = [writer EXCEPT ![w] = state]
InWrite == UNCHANGED <<durable, batches, session, storeVars, server, bounds, before>>

BeginWrite(w, columns) ==
    /\ WriterAt(w, "idle") /\ Exists
    /\ Now(w, [pc |-> "judge", columns |-> columns])
    /\ UNCHANGED <<catalogVars, log, cache, trouble>> /\ InWrite

Refuse(w) == Now(w, [pc |-> "refused"])

\* SchemaCache::get, which asks the catalog once and never again.
Entry == IF cache = NoTable THEN table ELSE cache

\* A write judged by this entry is ready for the log.
ToWrite(w, entry) ==
    [pc |-> "log", columns |-> writer[w].columns, entry |-> entry]

Judge(w) ==
    /\ WriterAt(w, "judge")
    /\ cache' = Entry
    /\ IF Entry = NoTable THEN Refuse(w)
       ELSE IF Covers(Entry.schema, writer[w].columns) THEN Now(w, ToWrite(w, Entry))
       ELSE \E c \in Uncovered(Entry.schema, writer[w].columns) :
                IF Incompatible(Entry.schema, writer[w].columns, c) THEN Refuse(w)
                ELSE Now(w, [pc |-> "evolve", columns |-> writer[w].columns,
                             change |-> ChangeFor(Entry.schema, writer[w].columns, c),
                             expected |-> Entry.version])
    /\ UNCHANGED <<catalogVars, log, trouble>> /\ InWrite

\* What comes back goes into the cache in a step of its own: after a change the
\* batch is taken as judged, after a conflict it is judged again.
Back(w, entry, next) ==
    Now(w, [pc |-> "update", columns |-> writer[w].columns, entry |-> entry, next |-> next])

Evolve(w) ==
    /\ WriterAt(w, "evolve")
    /\ Evolves(writer[w].change, writer[w].expected)
    /\ EvolveSchema(writer[w].change)
    /\ Back(w, Evolved(writer[w].change), "log")
    /\ Blame("evolved", TRUE)
    /\ UNCHANGED <<log, cache>> /\ InWrite

EvolveConflict(w) ==
    /\ WriterAt(w, "evolve")
    /\ ~Evolves(writer[w].change, writer[w].expected)
    /\ IF Exists /\ table.version # writer[w].expected THEN Back(w, table, "judge") ELSE Refuse(w)
    /\ UNCHANGED <<catalogVars, log, cache, trouble>> /\ InWrite

Update(w) ==
    /\ WriterAt(w, "update")
    /\ cache' = writer[w].entry
    /\ Now(w, IF writer[w].next = "log" THEN ToWrite(w, writer[w].entry)
              ELSE [pc |-> "judge", columns |-> writer[w].columns])
    /\ UNCHANGED <<catalogVars, log, trouble>> /\ InWrite

LogWrite(w) ==
    /\ WriterAt(w, "log")
    /\ LET entry == writer[w].entry
           columns == writer[w].columns
       IN /\ log' = Append(log, DataRecord(columns, entry.version))
          /\ trouble' = trouble
                 \cup (IF Covers(entry.schema, columns) THEN {} ELSE {"halfway"})
                 \cup (IF entry.life = table.life THEN {} ELSE {"stale"})
    /\ Now(w, [pc |-> "done"])
    /\ UNCHANGED <<catalogVars, cache>> /\ InWrite

-----------------------------------------------------------------------------
(* The accumulator. *)

Accumulates == UNCHANGED <<durable, table, lives, log, session, writer, cache, server,
                           bounds, before>>

\* A round absorbs what is synced when it starts, and flushes only then.
Scan ==
    /\ Up /\ read = upto /\ flush = NoFlush
    /\ upto < Len(log)
    /\ upto' = Len(log)
    /\ UNCHANGED <<files, batches, live, read, chunks, claims, flush, trouble>> /\ Accumulates

Stale(epoch) == ~live.exists \/ live.epoch # epoch

\* ChunkStore::append: the open chunk of the epoch, unless the version differs.
OpenChunk == {k \in DOMAIN chunks : chunks[k].open /\ chunks[k].epoch = live.epoch}
NextChunk(p) ==
    [epoch |-> live.epoch, version |-> log[p].version, columns |-> log[p].columns,
     rows |-> {p}, open |-> TRUE]
Sealed(ks) == [k \in DOMAIN chunks |-> IF k \in ks THEN [chunks[k] EXCEPT !.open = FALSE]
                                       ELSE chunks[k]]

AppendRow(p) ==
    LET same == {k \in OpenChunk : chunks[k].version = log[p].version}
        takes == {k \in same : chunks[k].columns = log[p].columns}
    IN IF same = {} THEN chunks' = Put(p, NextChunk(p), Sealed(OpenChunk))
       ELSE chunks' = [k \in DOMAIN chunks |->
                          IF k \in takes THEN [chunks[k] EXCEPT !.rows = @ \cup {p}]
                          ELSE chunks[k]]

\* The chunk takes only batches of exactly its own columns.
TurnsAway(p) ==
    \E k \in OpenChunk : chunks[k].version = log[p].version /\ chunks[k].columns # log[p].columns

Skipped(p) == ~live.exists \/ p \in claims

AbsorbData(p) ==
    /\ IF Skipped(p) THEN chunks' = chunks ELSE AppendRow(p)
    /\ trouble' = IF ~Skipped(p) /\ TurnsAway(p) THEN trouble \cup {"turned away"} ELSE trouble
    /\ live' = live

\* observe_ddl
Observe(op) ==
    /\ live' = [exists |-> IF op \in {"create", "drop"} THEN op = "create" ELSE live.exists,
                epoch |-> IF op = "create" THEN live.epoch + 1 ELSE live.epoch]
    /\ UNCHANGED <<chunks, trouble>>

Absorb ==
    /\ Up /\ read < upto
    /\ read' = read + 1
    /\ IF log[read + 1].op = "data" THEN AbsorbData(read + 1) ELSE Observe(log[read + 1].op)
    /\ UNCHANGED <<files, batches, upto, claims, flush>> /\ Accumulates

WithoutChunk(k) == [j \in DOMAIN chunks \ {k} |-> chunks[j]]

\* reclaim: a chunk of another epoch goes; flush_chunk_by_id drops it too.
Discard(k) ==
    /\ Up
    /\ k \in DOMAIN chunks /\ Stale(chunks[k].epoch)
    /\ chunks' = WithoutChunk(k)
    /\ UNCHANGED <<files, batches, live, read, upto, claims, flush, trouble>> /\ Accumulates

Batch(status, k, rows) == [status |-> status, lo |-> k, rows |-> rows, hi |-> Max(rows)]

BeginFlush(k) ==
    /\ Up /\ read = upto /\ flush = NoFlush
    /\ k \in DOMAIN chunks /\ ~Stale(chunks[k].epoch)
    /\ chunks' = Sealed({k})
    /\ batches' = Append(batches, Batch("pending", k, chunks[k].rows))
    /\ flush' = [chunk |-> k, batch |-> Len(batches) + 1]
    /\ UNCHANGED <<files, live, read, upto, claims, trouble>> /\ Accumulates

\* A DROP has reached the catalog that the check at the beginning did not see.
DropOvertakes(lo) ==
    \/ ~Exists
    \/ Ops("drop", lo, Len(log)) # {}
    \/ \E s \in Sessions : session[s].pc = "log" /\ session[s].record = DropRecord

\* commit_files asks neither for the table nor for the epoch.
EndFlush ==
    /\ Up /\ flush # NoFlush
    /\ files' = Put(flush.batch, batches[flush.batch].rows, files)
    /\ batches' = [batches EXCEPT ![flush.batch].status = "committed"]
    /\ chunks' = WithoutChunk(flush.chunk)
    /\ flush' = NoFlush
    /\ Blame("late", DropOvertakes(batches[flush.batch].lo))
    /\ UNCHANGED <<live, read, upto, claims>> /\ Accumulates

-----------------------------------------------------------------------------
(* Restart. *)

FreshStore ==
    /\ live' = [exists |-> TRUE, epoch |-> 0]
    /\ read' = 0 /\ upto' = 0
    /\ chunks' = NoColumns /\ claims' = {} /\ flush' = NoFlush

\* Requests under way are lost; a statement applied and not logged stays so.
Crash ==
    /\ server.phase # "refused"
    /\ crashes < MaxCrashes /\ crashes' = crashes + 1
    /\ server' = [phase |-> "ddl", at |-> 0]
    /\ before' = IF Up THEN table.schema ELSE before
    /\ IF durable THEN UNCHANGED <<table, files>> ELSE table' = NoTable /\ files' = NoColumns
    /\ session' = [s \in Sessions |-> Idle]
    /\ writer' = [w \in Writers |->
           IF writer[w].pc \in {"idle", "done"} THEN writer[w] ELSE [pc |-> "refused"]]
    /\ cache' = NoTable /\ FreshStore
    /\ trouble' = trouble
           \cup (IF \E s \in Sessions : session[s].pc = "log" THEN {"unlogged"} ELSE {})
           \cup (IF ~durable /\ "evolved" \in trouble THEN {"forgotten"} ELSE {})
    /\ UNCHANGED <<durable, lives, logVars, ddls>>

Replays == UNCHANGED <<durable, logVars, session, writer, cache, storeVars, bounds, before>>
Replaying == server.phase = "ddl" /\ server.at < Len(log)
NextRecord == log[server.at + 1]
Onward == server' = [server EXCEPT !.at = @ + 1]

\* Creating what exists and dropping what does not counts as done.  A drop of long
\* ago takes a table that has survived, and the columns its writes have added.
ReplayCreateOrDrop ==
    /\ Replaying /\ NextRecord.op # "alter"
    /\ IF NextRecord.op = "create" /\ ~Exists THEN CreateTable(NextRecord.schema)
       ELSE IF NextRecord.op = "drop" /\ Exists THEN DropTable
       ELSE UNCHANGED catalogVars
    /\ Blame("forgotten", Exists /\ NextRecord.op = "drop" /\ "evolved" \in trouble)
    /\ Onward
    /\ Replays

\* Slip: columns the target lacks are left alone.
OnlyCovers(target) == {}

\* converge_schema: one change at a time, until the schema is that of the record.
Extra(target) == DOMAIN table.schema \ DOMAIN target

ConvergeStep ==
    /\ Replaying /\ NextRecord.op = "alter"
    /\ LET target == NextRecord.schema
           missing == Uncovered(table.schema, target)
       IN IF ~Exists \/ missing \cup Extra(target) = {}
          THEN Onward /\ UNCHANGED <<catalogVars, trouble>>
          ELSE \E c \in IF missing # {} THEN missing ELSE Extra(target) :
                   /\ c \in missing => ~Incompatible(table.schema, target, c)
                   /\ EvolveSchema(IF c \in missing THEN ChangeFor(table.schema, target, c)
                                   ELSE DropColumn(c))
                   /\ Blame("narrowed", c \notin missing)
                   /\ server' = server
    /\ Replays

\* A schema that cannot be reached is an error of the whole replay.
ReplayFails ==
    /\ Replaying /\ NextRecord.op = "alter" /\ Exists
    /\ \E c \in Uncovered(table.schema, NextRecord.schema) :
           Incompatible(table.schema, NextRecord.schema, c)
    /\ server' = [server EXCEPT !.phase = "refused"]
    /\ UNCHANGED <<catalogVars, trouble>> /\ Replays

ReplayEnds ==
    /\ server.phase = "ddl" /\ server.at = Len(log)
    /\ server' = [server EXCEPT !.phase = "batches"]
    /\ UNCHANGED <<catalogVars, trouble>> /\ Replays

\* Slip: that the table lives is enough.
StillAlive(lo) == LivenessAt(lo).exists /\ LivenessAt(Len(log)).exists

\* The gate of resume_recovered: the epoch of the batch is the present one.
SameEra(lo) == LivenessAt(lo).exists /\ LivenessAt(Len(log)) = LivenessAt(lo)

\* Slip: the end of the range is taken for the last record.
RowsBeforeLast(b) ==
    IF batches[b].status = "pending" THEN Rows \cap (batches[b].lo..(batches[b].hi - 1))
    ELSE batches[b].rows

\* A pending batch is written again from the log, a later one as it is.
RowsOf(b) ==
    IF batches[b].status = "pending" THEN Rows \cap (batches[b].lo..batches[b].hi)
    ELSE batches[b].rows

\* resume_recovered, batch by batch; nothing else runs.
Resume ==
    /\ server.phase = "batches"
    /\ LET kept == {b \in DOMAIN batches : batches[b].status # "aborted" /\ SameEra(batches[b].lo)}
       IN /\ files' = Over(files, [b \in kept |-> RowsOf(b)])
          /\ batches' = [b \in DOMAIN batches |->
                 IF b \in kept THEN [batches[b] EXCEPT !.status = "committed", !.rows = RowsOf(b)]
                 ELSE [batches[b] EXCEPT !.status = "aborted"]]
          /\ claims' = UNION {batches[b].lo..batches[b].hi : b \in kept}
    /\ server' = [phase |-> "up", at |-> 0]
    /\ UNCHANGED <<durable, table, lives, log, session, writer, cache, live, read, upto,
                   chunks, flush, bounds, before, trouble>>

-----------------------------------------------------------------------------
Init ==
    /\ durable \in BOOLEAN
    /\ table = NoTable /\ files = NoColumns /\ lives = 0
    /\ log = << >> /\ batches = << >>
    /\ session = [s \in Sessions |-> Idle]
    /\ writer = [w \in Writers |-> Idle]
    /\ cache = NoTable
    /\ live = [exists |-> TRUE, epoch |-> 0]
    /\ read = 0 /\ upto = 0 /\ chunks = NoColumns /\ claims = {} /\ flush = NoFlush
    /\ server = [phase |-> "up", at |-> 0]
    /\ ddls = 0 /\ crashes = 0
    /\ before = NoColumns /\ trouble = {}

Alterations == {AddColumn(c, t) : c \in Columns, t \in Types} \cup {DropColumn(c) : c \in Columns}

SessionStep(s) ==
    \/ \E schema \in Shapes : Create(s, schema) \/ CreateExisting(s, schema)
    \/ \E change \in Alterations : Alter(s, change)
    \/ Drop(s) \/ AlterApply(s) \/ AlterRefused(s) \/ LogDdl(s)

WriterStep(w) ==
    \/ \E columns \in Shapes : BeginWrite(w, columns)
    \/ Judge(w) \/ Evolve(w) \/ EvolveConflict(w) \/ Update(w) \/ LogWrite(w)

StoreStep ==
    \/ Scan \/ Absorb \/ EndFlush
    \/ \E k \in DOMAIN chunks : Discard(k) \/ BeginFlush(k)

RestartStep == ReplayCreateOrDrop \/ ConvergeStep \/ ReplayFails \/ ReplayEnds \/ Resume

Next ==
    \/ \E s \in Sessions : SessionStep(s)
    \/ \E w \in Writers : WriterStep(w)
    \/ StoreStep \/ Crash \/ RestartStep

Spec == Init /\ [][Next]_vars

-----------------------------------------------------------------------------
(* Properties. *)

Phases == {"up", "ddl", "batches", "refused"}

TypeOK ==
    /\ durable \in BOOLEAN
    /\ DOMAIN table.schema \subseteq Columns /\ table.version \in Nat /\ table.life \in 0..lives
    /\ \A b \in DOMAIN files : b \in DOMAIN batches /\ files[b] \subseteq Rows
    /\ \A b \in DOMAIN batches : batches[b].status \in {"pending", "committed", "aborted"}
    /\ live \in [exists : BOOLEAN, epoch : Nat]
    /\ read \in 0..upto /\ upto \in 0..Len(log)
    /\ \A k \in DOMAIN chunks : k \in chunks[k].rows /\ chunks[k].rows \subseteq Rows
    /\ claims \subseteq DOMAIN log
    /\ server.phase \in Phases /\ server.at \in 0..Len(log)

\* The store's epochs are those recovery computes from the log, of which the gate
\* of resume_recovered (pipeline.rs:841) and the chunks' own (store.rs:466) each
\* keep a count: a chunk and a batch of one row agree about its epoch, also after
\* a restart.
LivenessFollowsLog == live = LivenessAt(read)

Unharmed == trouble \subseteq {"evolved", "turned away"}

\* No row written before a DROP is in a file of the table again, whatever is
\* replayed and in whatever order statements are logged (pipeline.rs:712,
\* chunk.rs:64), unless a flush was overtaken by the DROP.
DroppedStaysDropped ==
    "late" \notin trouble =>
        \A b \in DOMAIN files : \A p \in files[b] : Ops("drop", p, Len(log)) = {}

InFile(p) == \E b \in DOMAIN files : p \in files[b]
InChunk(p) == \E k \in DOMAIN chunks : p \in chunks[k].rows /\ ~Stale(chunks[k].epoch)

\* The row's table lives, and is the one it was logged in.
InEra(p) ==
    /\ LivenessAt(p).exists
    /\ Ops("drop", p, Len(log)) \cup Ops("create", p, Len(log)) = {}
    /\ \A s \in Sessions : session[s].pc = "log" => session[s].record # DropRecord

\* A row answered in the present life of its table is in a file, in a chunk or
\* still to be absorbed (store.rs:339), unless the chunk did not take it.
AnsweredKept ==
    Up /\ "turned away" \notin trouble =>
        \A p \in Rows : InEra(p) => InFile(p) \/ InChunk(p) \/ p > read

\* What a query finds of a row of the present table, it finds whole: every column
\* with a value the table's type can hold (schema.rs:5), unless one of the
\* accidents has happened.
FoundWhole ==
    Up /\ Exists /\ Unharmed =>
        \A p \in Rows : InEra(p) /\ (InFile(p) \/ InChunk(p)) =>
            ReadWhole(table.schema, log[p].columns)

\* Replay brings back the schema of the table (ddl.rs:9): the accidents apart, and
\* if no write has changed it.  The schema only: the columns a table is
\* partitioned by are not in the log, and a replayed CREATE has none (ddl.rs:42).
ReplayRebuilds ==
    [][server.phase = "ddl" /\ server'.phase = "batches" /\ trouble \subseteq {"narrowed", "turned away"}
           => table.schema = before]_vars
=============================================================================
