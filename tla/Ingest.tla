------------------------------- MODULE Ingest -------------------------------
(***************************************************************************)
(* One node's write path: ingest/src/pipeline.rs and flush.rs, the WAL     *)
(* under them (wal/src), the chunks in memory (chunk/src) and the catalog  *)
(* they commit to.                                                         *)
(*                                                                         *)
(* A write is logged, answered, absorbed into the open chunk of its group, *)
(* sealed, and flushed: announced, uploaded, committed, each step with its *)
(* record in the log.  A crash loses the chunks; recovery finishes or      *)
(* repeats what the log says was under way and absorbs the rest again.     *)
(*                                                                         *)
(* Rows are log positions: a file and a chunk hold the positions of the    *)
(* writes they contain.                                                    *)
(***************************************************************************)
EXTENDS Catalog, SequencesExt

CONSTANTS
    Items,               \* write requests
    KeyOf, NoKey,        \* item -> its idempotency key, if it has one
    GroupOf,             \* item -> the shard and window its rows belong to
    SegmentSize,         \* records in a WAL segment
    MaxCrashes, MaxFaults       \* bounds

T == "t"
S0 == "s0"

ASSUME TableAssumption == T \in Tables /\ S0 \in Shards
ASSUME KeyAssumption == NoKey \notin Keys /\ KeyOf \in [Items -> Keys \cup {NoKey}]
ASSUME SegmentAssumption == SegmentSize \in Nat \ {0}

VARIABLES
    durable,      \* the catalog survives a restart (embedded) or not (memory)
    content,      \* batch -> log positions its object holds
    wal,          \* every record ever synced; the index is the seq
    gone,         \* positions of deleted segments
    forgot,       \* those deleted before the process started
    req,          \* how far each request is
    mode,         \* of the process: up, reindex, resume
    todo,         \* batches recovery has still to look at
    claims,       \* replay_skip: what recovery has committed itself
    read,         \* last_read: the next position to absorb
    chunks,       \* first position -> chunk
    flush,        \* the flush under way
    released,     \* released_watermark
    booted,       \* log and snapshot when the process came up
    crashes, faults,
    trouble       \* history: the accidents ReadOnce does not survive

logVars == <<wal, gone>>
procVars == <<mode, todo, claims, read, chunks, flush, released, booted, forgot>>
historyVars == <<crashes, faults, trouble>>
vars == <<catalogVars, durable, content, logVars, req, procVars, historyVars>>

-----------------------------------------------------------------------------
(* The log.  Synced records only: a record torn by a crash was never there,
   and one that is synced but unanswered is in the log before its reply. *)

DataRecord(i) == [kind |-> "data", item |-> i]
PendingRecord(b, g, lo, hi) == [kind |-> "pending", batch |-> b, group |-> g, lo |-> lo, hi |-> hi]
BatchRecord(kind, b) == [kind |-> kind, batch |-> b]

OnDisk == DOMAIN wal \ gone
IsData(p) == wal[p].kind = "data"
ItemAt(p) == wal[p].item
GroupAt(p) == GroupOf[ItemAt(p)]
DataIn(lo, hi) == {p \in OnDisk : lo <= p /\ p < hi /\ IsData(p)}

\* Slip: only the first record of the range is asked for its key.
FirstKeyIn(lo, hi) == {KeyOf[ItemAt(p)] : p \in DataIn(lo, hi) \cap {lo}} \ {NoKey}

\* Of every record in the range, whichever group it belongs to.
KeysIn(lo, hi) == {KeyOf[ItemAt(p)] : p \in DataIn(lo, hi)} \ {NoKey}

\* apply_record, seen from the end: a batch is known by its last Pending record
\* unless an Abort follows, and has the status of its last record.
RecordsOf(R, b) == {p \in R : ~IsData(p) /\ wal[p].batch = b}
PendingsOf(R, b) == {p \in RecordsOf(R, b) : wal[p].kind = "pending"}
LastPending(R, b) == Max(PendingsOf(R, b))
KnownIn(R, b) ==
    /\ PendingsOf(R, b) # {}
    /\ \A p \in RecordsOf(R, b) : wal[p].kind = "abort" => p < LastPending(R, b)
BatchesIn(R) == {b \in Batches : KnownIn(R, b)}
StatusIn(R, b) == wal[Max(RecordsOf(R, b))].kind

\* The tracker has seen the records since deleted.
Tracked == DOMAIN wal \ forgot
NonTerminal == {b \in BatchesIn(Tracked) : StatusIn(Tracked, b) # "committed"}

Used == {wal[p].batch : p \in {q \in DOMAIN wal : ~IsData(q)}}
NextBatch == CHOOSE b \in Batches \ Used : TRUE

-----------------------------------------------------------------------------
(* ingest. *)

Keyed(i) == KeyOf[i] # NoKey
Advance(i, pc) == req' = [req EXCEPT ![i] = pc]
Fault == faults < MaxFaults /\ faults' = faults + 1
ReqStep == UNCHANGED <<durable, content, gone, procVars, crashes, trouble>>

\* The filter: a key registered already is answered as a duplicate.
Check(i) ==
    /\ mode = "up" /\ req[i] = "idle"
    /\ Advance(i, IF KeyOf[i] \in DOMAIN idempotency THEN "done" ELSE "checked")
    /\ UNCHANGED <<catalogVars, wal, faults>> /\ ReqStep

\* Memory is short: refused before the log.
Reject(i) ==
    /\ mode = "up" /\ req[i] = "checked"
    /\ Advance(i, "idle")
    /\ UNCHANGED <<catalogVars, wal, faults>> /\ ReqStep

Log(i) ==
    /\ mode = "up" /\ req[i] = "checked"
    /\ wal' = Append(wal, DataRecord(i))
    /\ Advance(i, "logged")
    /\ UNCHANGED <<catalogVars, faults>> /\ ReqStep

\* The key is registered, no batch yet, and the client has its receipt.
Receipt(i) ==
    /\ mode = "up" /\ req[i] = "logged"
    /\ IF Keyed(i) /\ KeyOf[i] \notin DOMAIN idempotency
       THEN RecordIdempotency(KeyOf[i], NoBatch, 0) ELSE UNCHANGED catalogVars
    /\ Advance(i, "done")
    /\ UNCHANGED <<wal, faults>> /\ ReqStep

\* The call to the catalog fails; the write is logged, the client tries again.
ReceiptFails(i) ==
    /\ mode = "up" /\ req[i] = "logged" /\ Keyed(i)
    /\ Advance(i, "idle") /\ Fault
    /\ UNCHANGED <<catalogVars, wal>> /\ ReqStep

-----------------------------------------------------------------------------
(* The accumulator: one task that absorbs, seals and flushes in turn. *)

NoFlush == [pc |-> "none"]
Idle == mode = "up" /\ flush.pc = "none"
AccumulatorOnly == UNCHANGED <<catalogVars, durable, content, gone, req, mode, todo, claims,
                               released, booted, forgot, crashes>>

\* Slip: one record too far.
ReadBeyond(p) == p + 2

ReadPast(p) == p + 1

Unread == {p \in OnDisk : p >= read /\ IsData(p)}

\* Slip: the group is not compared.
ClaimedByRange(p) == \E c \in claims : c.lo <= p /\ p < c.hi

Claimed(p) == \E c \in claims : c.group = GroupAt(p) /\ c.lo <= p /\ p < c.hi

OpenChunks(g) == {c \in DOMAIN chunks : chunks[c].state = "open" /\ chunks[c].group = g}
NewChunk(p) ==
    [group |-> GroupAt(p), seqs |-> {p}, state |-> "open", batch |-> NoBatch, at |-> 0]

Absorb ==
    /\ Idle /\ Unread # {}
    /\ LET p == Min(Unread) IN
       /\ read' = ReadPast(p)
       /\ chunks' =
              IF Claimed(p) THEN chunks
              ELSE IF OpenChunks(GroupAt(p)) = {} THEN Over(Entry(p, NewChunk(p)), chunks)
              ELSE [c \in DOMAIN chunks |->
                       IF c \in OpenChunks(GroupAt(p))
                       THEN [chunks[c] EXCEPT !.seqs = @ \cup {p}] ELSE chunks[c]]
    /\ UNCHANGED <<wal, flush, faults, trouble>> /\ AccumulatorOnly

\* Memory is short after the receipt: the write is passed over.
Refuse ==
    /\ Idle /\ Unread # {} /\ ~Claimed(Min(Unread))
    /\ read' = ReadPast(Min(Unread))
    /\ Fault /\ trouble' = trouble \cup {"refused"}
    /\ UNCHANGED <<wal, chunks, flush>> /\ AccumulatorOnly

\* Full, old, its window closed, or forced: the thresholds are left out.
Seal(c) ==
    /\ Idle /\ chunks[c].state = "open"
    /\ chunks' = [chunks EXCEPT ![c].state = "sealed"]
    /\ UNCHANGED <<wal, read, flush, faults, trouble>> /\ AccumulatorOnly

-----------------------------------------------------------------------------
(* flush_chunk_with_id, of a chunk or, by recovery, of a logged batch. *)

Flushing(b, c, lo, hi, rows) ==
    [pc |-> "announce", batch |-> b, chunk |-> c, lo |-> lo, hi |-> hi, rows |-> rows, at |-> 0]

\* note_batch_id, then the Pending record.
StartFlush(c) ==
    LET seqs == chunks[c].seqs
        b == NextBatch
    IN
    /\ Idle /\ chunks[c].state = "sealed" /\ Batches \ Used # {}
    /\ chunks' = [chunks EXCEPT ![c].batch = b]
    /\ wal' = Append(wal, PendingRecord(b, chunks[c].group, Min(seqs), Max(seqs) + 1))
    /\ flush' = Flushing(b, {c}, Min(seqs), Max(seqs) + 1, seqs)
    /\ UNCHANGED <<read, faults, trouble>> /\ AccumulatorOnly

FlushOnly == UNCHANGED <<durable, gone, req, mode, read, released, booted, forgot, crashes>>

Announce ==
    /\ flush.pc = "announce"
    /\ IF flush.batch \in DOMAIN in_flight
       THEN UNCHANGED catalogVars ELSE RecordInFlight(flush.batch, 0)
    /\ flush' = [flush EXCEPT !.pc = "upload"]
    /\ UNCHANGED <<content, wal, todo, claims, chunks, faults, trouble>> /\ FlushOnly

Upload ==
    /\ flush.pc = "upload"
    /\ content' = Over(Entry(flush.batch, flush.rows), content)
    /\ wal' = Append(wal, BatchRecord("s3written", flush.batch))
    /\ flush' = [flush EXCEPT !.pc = "commit"]
    /\ UNCHANGED <<catalogVars, todo, claims, chunks, faults, trouble>> /\ FlushOnly

\* commit_files: the batch goes in, is a duplicate by its keys, or is there.
CommitBatch(b, rows, K) ==
    \/ CommitFiles(b, T, S0, rows, K, 0)
    \/ CommitDuplicate(b, K)
    \/ b \in DOMAIN files /\ UNCHANGED catalogVars

Commit ==
    /\ flush.pc = "commit"
    /\ CommitBatch(flush.batch, Cardinality(flush.rows), KeysIn(flush.lo, flush.hi))
    /\ flush' = [flush EXCEPT !.pc = "finish", !.at = snapshot_version']
    /\ UNCHANGED <<content, wal, todo, claims, chunks, faults, trouble>> /\ FlushOnly

Claim(b, g, lo, hi) == claims' = claims \cup {[group |-> g, lo |-> lo, hi |-> hi]}

\* The Committed record; the chunk stays, flushed, until readers caught up.
\* A duplicate is finished like any other.
Finish ==
    LET b == flush.batch IN
    /\ flush.pc = "finish"
    /\ wal' = Append(wal, BatchRecord("committed", b))
    /\ chunks' = [c \in DOMAIN chunks |->
                     IF c \in flush.chunk
                     THEN [chunks[c] EXCEPT !.state = "flushed", !.at = flush.at] ELSE chunks[c]]
    /\ IF flush.chunk = {}
       THEN /\ Claim(b, wal[LastPending(OnDisk, b)].group, flush.lo, flush.hi)
            /\ todo' = todo \ {b}
       ELSE UNCHANGED <<claims, todo>>
    /\ flush' = NoFlush
    /\ UNCHANGED <<catalogVars, content, faults, trouble>> /\ FlushOnly

\* The chunk stays sealed and is flushed again as another batch.  (Recovery
\* that fails ends the process: see Crash.)
FlushFails ==
    /\ flush.pc \in {"announce", "upload", "commit"} /\ flush.chunk # {}
    /\ flush' = NoFlush /\ Fault
    /\ UNCHANGED <<catalogVars, content, wal, todo, claims, chunks, trouble>> /\ FlushOnly

\* The commit is applied and its answer lost.
ReplyLost ==
    /\ flush.pc = "commit" /\ flush.chunk # {}
    /\ CommitFiles(flush.batch, T, S0, Cardinality(flush.rows), KeysIn(flush.lo, flush.hi), 0)
    /\ flush' = NoFlush /\ Fault
    /\ trouble' = trouble \cup {"reply"}
    /\ UNCHANGED <<content, wal, todo, claims, chunks>> /\ FlushOnly

-----------------------------------------------------------------------------
(* Reading. *)

VisibleChunk(c, s) ==
    /\ chunks[c].batch \notin VisibleFiles(T, s)
    /\ chunks[c].at = 0 \/ s < chunks[c].at

\* How often a query at snapshot s finds the write at p.
Copies(p, s) ==
      Cardinality({b \in VisibleFiles(T, s) : p \in content[b]})
    + Cardinality({c \in DOMAIN chunks : p \in chunks[c].seqs /\ VisibleChunk(c, s)})

\* The query cache has published snapshot s.
Reclaim(s) ==
    LET out == {c \in DOMAIN chunks : chunks[c].state = "flushed" /\ chunks[c].at <= s} IN
    /\ mode = "up" /\ out # {}
    /\ chunks' = Without(chunks, out)
    /\ released' = Max({released} \cup {chunks[c].at : c \in out})
    /\ UNCHANGED <<catalogVars, durable, content, logVars, req, mode, todo, claims, read, flush,
                   booted, forgot, historyVars>>

-----------------------------------------------------------------------------
(* The monitor: wal/src/cleanup.rs. *)

MonitorOnly == UNCHANGED <<catalogVars, durable, content, req, procVars, crashes>>

\* Too old, or the disk too full.
Abort(b) ==
    /\ mode = "up" /\ b \in NonTerminal
    /\ wal' = Append(wal, BatchRecord("abort", b))
    /\ Fault
    /\ trouble' = IF b \in DOMAIN files \/ (flush.pc # "none" /\ flush.batch = b)
                  THEN trouble \cup {"abort"} ELSE trouble
    /\ UNCHANGED gone /\ MonitorOnly

SegmentOf(p) == (p - 1) \div SegmentSize
Segment(n) == {p \in DOMAIN wal : SegmentOf(p) = n}

\* The monitor knows the segments there were when the process came up, and of
\* each the records it had then.  The range of a batch counts with its end.
Listed(n) == n <= SegmentOf(Max({booted.seq, 1}))
SegmentRange(n) == Segment(n) \cap 1..booted.seq
Overlaps(b, S) ==
    LET batch == wal[LastPending(Tracked, b)] IN batch.lo <= Max(S) /\ Min(S) <= batch.hi

\* Not the current one, and needed by no batch under way; one that was empty
\* is not asked about.
RemoveSegment(n) ==
    /\ mode = "up"
    /\ n < SegmentOf(Len(wal)) /\ Listed(n)
    /\ SegmentRange(n) # {} => \A b \in NonTerminal : ~Overlaps(b, SegmentRange(n))
    /\ Segment(n) \cap OnDisk # {}
    /\ gone' = gone \cup Segment(n)
    /\ Fault
    /\ trouble' = trouble \cup {"segment"}
    /\ UNCHANGED wal /\ MonitorOnly

-----------------------------------------------------------------------------
(* Crash and recovery: resume_recovered. *)

\* A catalog in memory comes back with the table and nothing else.
CatalogLost ==
    /\ files' = Nothing /\ deletions' = Nothing /\ tasks' = Nothing
    /\ idempotency' = Nothing /\ in_flight' = Nothing /\ purged' = Nothing
    /\ snapshot_version' = 1 /\ last_applied' = 1 /\ schema_ver' = 1
    /\ manifest_ver' = 0 /\ table_manifest_ver' = Nothing
    /\ UNCHANGED <<structure, leases>>

Overlapping(b1, b2) ==
    LET r1 == wal[LastPending(OnDisk, b1)]
        r2 == wal[LastPending(OnDisk, b2)]
    IN  r1.group = r2.group /\ r1.lo < r2.hi /\ r2.lo < r1.hi

\* A batch that failed and the one that repeated it are both in the log.
Retried == \E b1, b2 \in BatchesIn(OnDisk) : b1 # b2 /\ Overlapping(b1, b2)

\* A client without a receipt tries again if it has a key.
Crash ==
    /\ crashes < MaxCrashes
    /\ crashes' = crashes + 1
    /\ IF durable THEN UNCHANGED catalogVars ELSE CatalogLost
    /\ req' = [i \in Items |->
                  IF req[i] = "done" THEN "done"
                  ELSE IF Keyed(i) \/ req[i] = "idle" THEN "idle" ELSE "gone"]
    /\ mode' = "reindex"
    /\ todo' = {} /\ claims' = {} /\ read' = 1 /\ chunks' = Nothing /\ flush' = NoFlush
    /\ released' = 0 /\ forgot' = gone
    /\ trouble' = IF Retried THEN trouble \cup {"retried"} ELSE trouble
    /\ UNCHANGED <<durable, content, logVars, booted, faults>>

RecoveryOnly == UNCHANGED <<durable, content, gone, req, read, chunks, released, forgot,
                            crashes, faults>>

KeysLogged == KeysIn(1, Len(wal) + 1)

Reindex(k) ==
    /\ mode = "reindex" /\ k \in KeysLogged
    /\ RecordIdempotency(k, NoBatch, 0)
    /\ UNCHANGED <<wal, mode, todo, claims, flush, booted, trouble>> /\ RecoveryOnly

Resume ==
    /\ mode = "reindex" /\ KeysLogged \subseteq DOMAIN idempotency
    /\ mode' = "resume" /\ todo' = BatchesIn(OnDisk)
    /\ UNCHANGED <<catalogVars, wal, claims, flush, booted, trouble>> /\ RecoveryOnly

\* In the order the batches were created.
FirstOf(B) == CHOOSE b \in B : \A x \in B : LastPending(OnDisk, b) <= LastPending(OnDisk, x)
Turn(b) == mode = "resume" /\ flush.pc = "none" /\ todo # {} /\ b = FirstOf(todo)
BatchRange(b) == wal[LastPending(OnDisk, b)]

Recommit(b) ==
    LET r == BatchRange(b) IN
    /\ Turn(b) /\ StatusIn(OnDisk, b) \in {"s3written", "committed"}
    /\ CommitBatch(b, Cardinality(content[b]), KeysIn(r.lo, r.hi))
    /\ Claim(b, r.group, r.lo, r.hi)
    /\ todo' = todo \ {b}
    /\ UNCHANGED <<wal, mode, flush, booted, trouble>> /\ RecoveryOnly

\* Slip: the last record of the range is left out.
ShortRows(b) == DataIn(BatchRange(b).lo, BatchRange(b).hi - 1)

RedoRows(b) == DataIn(BatchRange(b).lo, BatchRange(b).hi)

\* Not uploaded: flushed again under its id, with every row the range holds.
Redo(b) ==
    LET r == BatchRange(b) IN
    /\ Turn(b) /\ StatusIn(OnDisk, b) = "pending" /\ RedoRows(b) # {}
    /\ wal' = Append(wal, PendingRecord(b, r.group, r.lo, r.hi))
    /\ flush' = Flushing(b, {}, r.lo, r.hi, RedoRows(b))
    /\ trouble' = IF \E p \in RedoRows(b) : GroupAt(p) # r.group
                  THEN trouble \cup {"foreign"} ELSE trouble
    /\ UNCHANGED <<catalogVars, mode, todo, claims, booted>> /\ RecoveryOnly

GiveUp(b) ==
    /\ Turn(b) /\ StatusIn(OnDisk, b) = "pending" /\ RedoRows(b) = {}
    /\ wal' = Append(wal, BatchRecord("abort", b))
    /\ todo' = todo \ {b}
    /\ UNCHANGED <<catalogVars, mode, claims, flush, booted, trouble>> /\ RecoveryOnly

Serve ==
    /\ mode = "resume" /\ todo = {} /\ flush.pc = "none"
    /\ mode' = "up"
    /\ booted' = [seq |-> Len(wal), snapshot |-> snapshot_version]
    /\ UNCHANGED <<catalogVars, wal, todo, claims, flush, trouble>> /\ RecoveryOnly

-----------------------------------------------------------------------------

\* The table exists; the process serves.
Init ==
    /\ LeasesInit
    /\ namespaces = {DefaultSchema}
    /\ tables = Entry(T, 1) /\ schemas = {<<T, 1>>}
    /\ snapshot_version = 1 /\ last_applied = 1 /\ schema_ver = 1
    /\ datanodes = Nothing /\ files = Nothing /\ deletions = Nothing
    /\ idempotency = Nothing /\ in_flight = Nothing /\ purged = Nothing
    /\ tasks = Nothing /\ manifest_ver = 0 /\ table_manifest_ver = Nothing
    /\ durable \in BOOLEAN
    /\ content = Nothing /\ wal = << >> /\ gone = {} /\ forgot = {}
    /\ req = [i \in Items |-> "idle"]
    /\ mode = "up" /\ todo = {} /\ claims = {} /\ read = 1
    /\ chunks = Nothing /\ flush = NoFlush /\ released = 0
    /\ booted = [seq |-> 0, snapshot |-> 1]
    /\ crashes = 0 /\ faults = 0 /\ trouble = {}

ClientStep ==
    \E i \in Items : Check(i) \/ Reject(i) \/ Log(i) \/ Receipt(i) \/ ReceiptFails(i)

AccumulatorStep ==
    \/ Absorb \/ Refuse
    \/ \E c \in DOMAIN chunks : Seal(c) \/ StartFlush(c)

FlushStep == Announce \/ Upload \/ Commit \/ Finish \/ FlushFails \/ ReplyLost

ReclaimStep == \E s \in 1..snapshot_version : Reclaim(s)

MonitorStep ==
    \/ \E b \in Batches : Abort(b)
    \/ \E n \in 0..Len(wal) : RemoveSegment(n)

RecoveryStep ==
    \/ \E k \in Keys : Reindex(k)
    \/ Resume \/ Serve
    \/ \E b \in todo : Recommit(b) \/ Redo(b) \/ GiveUp(b)

Next ==
    \/ ClientStep \/ AccumulatorStep \/ FlushStep
    \/ ReclaimStep \/ MonitorStep
    \/ Crash \/ RecoveryStep

Spec == Init /\ [][Next]_vars

-----------------------------------------------------------------------------
(* Properties. *)

Positions == DOMAIN wal

TypeOK ==
    /\ CatalogType
    /\ IsMap(content, Batches, SUBSET Positions)
    /\ gone \subseteq Positions /\ forgot \subseteq gone
    /\ req \in [Items -> {"idle", "checked", "logged", "done", "gone"}]
    /\ mode \in {"up", "reindex", "resume"}
    /\ todo \subseteq Batches
    /\ read \in 1..Len(wal) + 1
    /\ DOMAIN chunks \subseteq Positions
    /\ \A c \in DOMAIN chunks :
           /\ chunks[c].seqs \subseteq Positions /\ Min(chunks[c].seqs) = c
           /\ chunks[c].state \in {"open", "sealed", "flushed"}
    /\ flush.pc \in {"none", "announce", "upload", "commit", "finish"}
    /\ released <= snapshot_version

\* The files that hold rows written under a key.
FilesOf(k) == {b \in DOMAIN files : \E p \in content[b] : KeyOf[ItemAt(p)] = k}

\* A key is committed by one file at most, whatever fails, is lost, crashes or
\* is tried again.
KeyedOnce ==
    "segment" \notin trouble => \A k \in Keys : Cardinality(FilesOf(k)) <= 1

Logged == {p \in Positions : IsData(p)}
SameWrite(i, j) == i = j \/ (Keyed(i) /\ KeyOf[i] = KeyOf[j])
KeyLoggedTwice ==
    \E p, q \in Logged : p # q /\ Keyed(ItemAt(p)) /\ KeyOf[ItemAt(p)] = KeyOf[ItemAt(q)]

Covers(b, p) ==
    LET r == BatchRange(b) IN r.group = GroupAt(p) /\ r.lo <= p /\ p < r.hi

\* To commit the batch would find it a duplicate.
Taken(b) == \E k \in KeysIn(BatchRange(b).lo, BatchRange(b).hi) : KeyTaken(k, b)

\* Recovery absorbs the write, or repeats or commits a batch that holds it.
Recoverable(p) ==
    LET B == {b \in BatchesIn(OnDisk) : Covers(b, p)} IN
    /\ p \in OnDisk
    /\ \/ B = {}
       \/ \E b \in B : ~Taken(b) /\ (StatusIn(OnDisk, b) = "pending" \/ p \in content[b])

Kept(p) == Recoverable(p) \/ \E b \in DOMAIN files : p \in content[b]

\* A write with a receipt is in a file, or in the log where recovery will find
\* it, at every moment: an answered ingest has persisted its data.
AckedKept ==
    \A i \in Items : req[i] = "done" =>
        \E p \in Logged : SameWrite(i, ItemAt(p)) /\ Kept(p)

Announces(q, p) == wal[q].kind = "pending" /\ wal[q].lo <= p /\ p < wal[q].hi

\* A keyed write lies in the range of a batch of another group, or in those of
\* two batches that are not the same chunk flushed twice: the key is taken for
\* a batch that need not hold the write (flush.rs:460).
StrayKey ==
    \E p \in Logged, q \in Positions :
        /\ Keyed(ItemAt(p)) /\ Announces(q, p)
        /\ \/ wal[q].group # GroupAt(p)
           \/ \E r \in Positions : Announces(r, p) /\ <<wal[r].lo, wal[r].hi>> # <<wal[q].lo, wal[q].hi>>

\* AckedKept holds through failed flushes, lost replies, retries by recovery
\* and crashes, for as long as the monitor removes no segment and gives up no
\* batch that was committed, no logged write is refused for want of memory, no
\* key is logged twice and no batch takes the key of another group's write.
AckedKeptUnlessDropped ==
    /\ trouble \cap {"segment", "refused", "abort"} = {}
    /\ ~KeyLoggedTwice /\ ~StrayKey
    => AckedKept

\* A query finds every write absorbed once, at every snapshot that is not
\* stale: through flush, commit, reclaim, crash and recovery.
ReadOnce ==
    mode = "up" /\ trouble = {} /\ ~KeyLoggedTwice /\ ~StrayKey =>
        \A s \in Max({released, booted.snapshot})..snapshot_version :
            \A p \in Logged : p < read => Copies(p, s) = 1
=============================================================================
