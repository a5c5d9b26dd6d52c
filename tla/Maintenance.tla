---------------------------- MODULE Maintenance ----------------------------
(***************************************************************************)
(* Writers, DELETE and UPDATE statements and compaction at work on one     *)
(* shard of one table: compaction/src/lib.rs, sql/src/dml.rs and           *)
(* catalog/src/lease.rs over the catalog state machine, and the replay of  *)
(* the statements from the WAL after a restart (ingest/src/dml.rs).        *)
(*                                                                         *)
(* A row is a pair of its key and a version; UPDATE writes the next        *)
(* version.  Every call to the catalog is one action, and what a caller    *)
(* read earlier it keeps in its own record.                                *)
(***************************************************************************)
EXTENDS Catalog, Sequences

CONSTANTS
    RowKeys,
    Compactors,          \* nodes that run the compaction loop
    Updates,             \* the statements that are UPDATEs; the rest are DELETEs
    MinFiles,            \* files that make a shard worth merging to the compactor
    DmlTTL, TaskTTL,     \* lease terms
    MaxRounds,           \* bound on the epoch of the task lease
    MaxBusy,             \* bound on the epochs lost to a busy shard
    MaxClock, MaxRestarts, MaxCompactorCrashes      \* other bounds

T == "t"
S0 == "s0"
ShardLease == "dml"      \* dml:<table>:<shard>
TaskLease == "task"      \* task:<table>:<shard>
FencePurpose == "compaction"     \* compaction:<table>:<shard>

ASSUME UpdatesAssumption == Updates \subseteq DvIds
ASSUME OneShard ==
    /\ T \in Tables /\ S0 \in Shards
    /\ {ShardLease, TaskLease, FencePurpose} \subseteq Purposes
    /\ Compactors \cup DvIds \subseteq Holders
    /\ Compactors \cap DvIds = {}

VARIABLES
    clock,
    content,      \* batch -> rows of its object
    marks,        \* (statement, batch) -> rows its bitmap marks
    stmt,         \* what each statement is doing
    wal,          \* the statements logged, in order
    server,       \* of the SQL process: up, replaying, or refused to start
    replayed,     \* records replayed so far
    worker,       \* what each compactor is doing
    restarts, crashes

dmlVars == <<marks, stmt, wal>>
serverVars == <<server, replayed, restarts>>
workerVars == <<worker, crashes>>
vars == <<catalogVars, clock, content, dmlVars, serverVars, workerVars>>
dataPlane == <<structure, dataVars, memory, counters>>

Rows == RowKeys \X Nat

-----------------------------------------------------------------------------
(* Reading. *)

Hidden(b, s) == UNION {marks[k] : k \in {j \in ListDeletions(T, s) : j[2] = b}}
LiveRows(b, s) == content[b] \ Hidden(b, s)
Reading(s) == VisibleFiles(T, s)

\* In how many files a reader finds the row.
Copies(row, s) == Cardinality({b \in Reading(s) : row \in LiveRows(b, s)})

-----------------------------------------------------------------------------
(* Flush. *)

\* Batch ids are unique and never reused; which one comes next makes no
\* difference, so it is the first that is free.
Fresh == Batches \ DOMAIN content
NextBatch == CHOOSE b \in Fresh : TRUE

NeverWritten == {r \in RowKeys : \A b \in DOMAIN content : <<r, 0>> \notin content[b]}

Flush(R) ==
    /\ server = "up" /\ Fresh # {}
    /\ R # {} /\ R \subseteq NeverWritten
    /\ content' = Over(Entry(NextBatch, R \X {0}), content)
    /\ CommitFiles(NextBatch, T, S0, Cardinality(R), {}, clock)
    /\ UNCHANGED <<clock, dmlVars, serverVars, workerVars>>

-----------------------------------------------------------------------------
(* Statements.  A statement names a row by its key. *)

Idle == [pc |-> "idle"]
StmtAt(d, pc) == server = "up" /\ stmt[d].pc = pc
Goto(d, pc) == stmt' = [stmt EXCEPT ![d].pc = pc]
StmtOnly == UNCHANGED <<clock, content, marks, wal, serverVars, workerVars>>

\* visible_shards: with no file there is nothing to lock.
Begin(d, r) ==
    /\ StmtAt(d, "idle")
    /\ stmt' = [stmt EXCEPT ![d] =
           [pc |-> IF Reading(snapshot_version) = {} THEN "locate" ELSE "lock",
            row |-> r, epoch |-> 0, D |-> Nothing, N |-> Nothing]]
    /\ UNCHANGED catalogVars /\ StmtOnly

LockShard(d) ==
    /\ StmtAt(d, "lock")
    /\ AcquireLease(ShardLease, d, clock, DmlTTL)
    /\ stmt' = [stmt EXCEPT ![d].pc = "locate", ![d].epoch = GrantEpoch(ShardLease, d)]
    /\ UNCHANGED dataPlane /\ StmtOnly

ShardBusy(d) ==
    /\ StmtAt(d, "lock")
    /\ HeldByOther(ShardLease, d, clock)
    /\ Goto(d, "done")
    /\ UNCHANGED catalogVars /\ StmtOnly

MatchesStored(b, r) ==                   \* slip: rows deleted already match again
    {row \in content[b] : row[1] = r}

Matches(b, r) == {row \in LiveRows(b, snapshot_version) : row[1] = r}
Hits(r) == {b \in Reading(snapshot_version) : Matches(b, r) # {}}

\* The new files of a statement, each with the file its rows come from.
NewFilesFor(hits) == UNION {Bijection(B, hits) : B \in kSubset(Cardinality(hits), Fresh)}

NewFiles(d, hits) ==
    IF d \in Updates THEN CHOOSE source \in NewFilesFor(hits) : TRUE ELSE Nothing

\* A shard that came up after the leases were taken is refused.
ShardMissed(d) == stmt[d].epoch = 0 /\ Reading(snapshot_version) # {}

NothingToDo(d) ==
    /\ StmtAt(d, "locate")
    /\ ShardMissed(d) \/ Hits(stmt[d].row) = {}
    /\ Goto(d, "release")
    /\ UNCHANGED catalogVars /\ StmtOnly

\* One bitmap per file hit, and for an UPDATE one new file per file hit,
\* written before the log.
NextVersion(row) == <<row[1], row[2] + 1>>

Locate(d) ==
    LET hits == Hits(stmt[d].row)
        hit(b) == Matches(b, stmt[d].row)
        source == NewFiles(d, hits)
    IN
    /\ StmtAt(d, "locate")
    /\ ~ShardMissed(d)
    /\ hits # {}
    /\ d \in Updates => NewFilesFor(hits) # {}
    /\ marks' = Over([k \in {d} \X hits |-> hit(k[2])], marks)
    /\ content' = Over([n \in DOMAIN source |->
                          {NextVersion(row) : row \in hit(source[n])}], content)
    /\ stmt' = [stmt EXCEPT ![d].pc = "log",
           ![d].D = [b \in hits |-> Cardinality(hit(b))],
           ![d].N = [n \in DOMAIN source |->
                       [shard |-> S0, rows |-> Cardinality(hit(source[n]))]]]
    /\ UNCHANGED <<catalogVars, clock, wal, serverVars, workerVars>>

Log(d) ==
    /\ StmtAt(d, "log")
    /\ wal' = Append(wal, d)
    /\ Goto(d, "apply")
    /\ UNCHANGED <<catalogVars, clock, content, marks, serverVars, workerVars>>

\* The catalog's answer to the record of a statement, first time or replayed.
Takes(d) ==
    IF d \in Updates THEN ApplyUpdate(d, T, stmt[d].D, stmt[d].N, clock)
    ELSE ApplyDeletions(d, T, stmt[d].D)

Refuses(d) ==
    IF d \in Updates THEN ~UpdateAccepted(d, stmt[d].D) ELSE ~DeletionsAccepted(stmt[d].D)

Registered(d) ==
    FreshDeletions(d, stmt[d].D) = {} /\ DOMAIN stmt[d].N \subseteq DOMAIN files

Apply(d) ==
    /\ StmtAt(d, "apply")
    /\ Takes(d)
    /\ Goto(d, "release")
    /\ StmtOnly

ApplyRefused(d) ==
    /\ StmtAt(d, "apply")
    /\ Refuses(d)
    /\ Goto(d, "release")
    /\ UNCHANGED catalogVars /\ StmtOnly

\* Best effort: an error only leaves the lease to its term.
UnlockShard(d) ==
    /\ StmtAt(d, "release")
    /\ IF Releasable(ShardLease, d, stmt[d].epoch)
       THEN ReleaseLease(ShardLease, d, stmt[d].epoch) ELSE UNCHANGED leases
    /\ Goto(d, "done")
    /\ UNCHANGED dataPlane /\ StmtOnly

-----------------------------------------------------------------------------
(* A restart of the SQL process: its statements are gone, and before it     *)
(* serves it replays every record of the log in order, without any lease.   *)

Restart ==
    /\ restarts < MaxRestarts
    /\ restarts' = restarts + 1
    /\ server' = "replaying"
    /\ replayed' = 0
    /\ stmt' = [d \in DvIds |-> IF stmt[d].pc = "idle" THEN Idle ELSE [stmt[d] EXCEPT !.pc = "done"]]
    /\ UNCHANGED <<catalogVars, clock, content, marks, wal, workerVars>>

ReplayStep == UNCHANGED <<clock, content, dmlVars, restarts, workerVars>>

Replay ==
    /\ server = "replaying" /\ replayed < Len(wal)
    /\ LET d == wal[replayed + 1] IN
       \/ /\ Takes(d)
          /\ replayed' = replayed + 1 /\ server' = server
       \/ /\ ~Refuses(d) /\ Registered(d)
          /\ replayed' = replayed + 1 /\ server' = server
          /\ UNCHANGED catalogVars
       \/ /\ Refuses(d)
          /\ server' = "refused" /\ replayed' = replayed
          /\ UNCHANGED catalogVars
    /\ ReplayStep

Serve ==
    /\ server = "replaying" /\ replayed = Len(wal)
    /\ server' = "up"
    /\ UNCHANGED <<catalogVars, replayed>> /\ ReplayStep

-----------------------------------------------------------------------------
(* Compaction. *)

WorkerAt(c, pc) == worker[c].pc = pc
WorkerOnly == UNCHANGED <<clock, content, dmlVars, serverVars, crashes>>
Become(c, pc) == worker' = [worker EXCEPT ![c].pc = pc]

\* A round reads the task directory and the snapshot once, before any lease.
StartRound(c) ==
    /\ WorkerAt(c, "idle")
    /\ leases[TaskLease].epoch < MaxRounds
    /\ <<T, S0>> \in DOMAIN tasks
    /\ worker' = [worker EXCEPT ![c] =
           [pc |-> "claim", snapshot |-> snapshot_version, task_epoch |-> 0, epoch |-> 0,
            inputs |-> {}, consumed |-> {}, merged |-> {}, out |-> NoBatch, at |-> 0]]
    /\ UNCHANGED catalogVars /\ WorkerOnly

Claim(c) ==
    /\ WorkerAt(c, "claim")
    /\ IF HeldByOther(TaskLease, c, clock)
       THEN worker' = [worker EXCEPT ![c] = Idle] /\ UNCHANGED leases
       ELSE /\ AcquireLease(TaskLease, c, clock, TaskTTL)
            /\ worker' = [worker EXCEPT ![c].pc = "lock",
                                        ![c].task_epoch = GrantEpoch(TaskLease, c)]
    /\ UNCHANGED dataPlane /\ WorkerOnly

\* Rounds that end on a busy shard are unbounded in the code; here a worker
\* waits instead once they would use up the epochs the others need.
LockForMerge(c) ==
    /\ WorkerAt(c, "lock")
    /\ IF HeldByOther(ShardLease, c, clock)
       THEN /\ leases[TaskLease].epoch <= MaxBusy
            /\ Become(c, "yield") /\ UNCHANGED leases
       ELSE /\ AcquireLease(ShardLease, c, clock, TaskTTL)
            /\ worker' = [worker EXCEPT ![c].pc = "read",
                                        ![c].epoch = GrantEpoch(ShardLease, c)]
    /\ UNCHANGED dataPlane /\ WorkerOnly

\* dv_worth_compacting: the compactor's own thresholds, over bitmaps merged.
WorthMergingMany(F, s) ==                \* slip: strictly more files
    \/ Cardinality(F) > MinFiles
    \/ \E b \in F : DvWorth(Cardinality(Hidden(b, s)), files[b].rows)

WorthMerging(F, s) ==
    \/ Cardinality(F) >= MinFiles
    \/ \E b \in F : DvWorth(Cardinality(Hidden(b, s)), files[b].rows)

ReadShard(c) ==
    LET s == worker[c].snapshot
        F == Reading(s)
        rows == UNION {LiveRows(b, s) : b \in F}
    IN
    /\ WorkerAt(c, "read")
    /\ IF F # {} /\ WorthMerging(F, s) /\ rows # {}
       THEN worker' = [worker EXCEPT ![c].pc = "announce", ![c].inputs = F, ![c].merged = rows,
                           ![c].consumed = {b \in F : Hidden(b, s) # {}}]
       ELSE Become(c, "unlock")
    /\ UNCHANGED catalogVars /\ WorkerOnly

\* record_in_flight, then the upload.
Announce(c) ==
    /\ WorkerAt(c, "announce")
    /\ Fresh # {}
    /\ RecordInFlight(NextBatch, clock)
    /\ content' = Over(Entry(NextBatch, worker[c].merged), content)
    /\ worker' = [worker EXCEPT ![c].pc = "commit", ![c].out = NextBatch]
    /\ UNCHANGED <<leases, clock, dmlVars, serverVars, crashes>>

\* The commit carries the epoch of the task lease; the fence looks at another
\* lease.
Commit(c) ==
    LET w == worker[c] IN
    /\ WorkerAt(c, "commit")
    /\ CommitCompaction(w.inputs, w.out, T, S0, Cardinality(w.merged), w.task_epoch, FencePurpose)
    /\ worker' = [worker EXCEPT ![c].pc = "revoke", ![c].at = snapshot_version + 1]
    /\ WorkerOnly

CommitRefused(c) ==
    /\ WorkerAt(c, "commit")
    /\ ~CompactionAccepted(worker[c].inputs, worker[c].task_epoch, FencePurpose)
    /\ Become(c, "unlock")
    /\ UNCHANGED catalogVars /\ WorkerOnly

Dangling(b) == \E k \in DOMAIN deletions : k[2] = b /\ deletions[k].revoked_at = 0

Revoke(c) ==
    /\ WorkerAt(c, "revoke")
    /\ \E b \in worker[c].consumed :
          /\ IF Dangling(b) THEN RevokeDeletions(b, worker[c].at) ELSE UNCHANGED catalogVars
          /\ worker' = [worker EXCEPT ![c].consumed = @ \ {b}]
    /\ WorkerOnly

AllRevoked(c) ==
    /\ WorkerAt(c, "revoke")
    /\ worker[c].consumed = {}
    /\ Become(c, "unlock")
    /\ UNCHANGED catalogVars /\ WorkerOnly

UnlockMerge(c) ==
    /\ WorkerAt(c, "unlock")
    /\ IF Releasable(ShardLease, c, worker[c].epoch)
       THEN ReleaseLease(ShardLease, c, worker[c].epoch) ELSE UNCHANGED leases
    /\ Become(c, "yield")
    /\ UNCHANGED dataPlane /\ WorkerOnly

YieldTask(c) ==
    /\ WorkerAt(c, "yield")
    /\ IF Releasable(TaskLease, c, worker[c].task_epoch)
       THEN ReleaseLease(TaskLease, c, worker[c].task_epoch) ELSE UNCHANGED leases
    /\ worker' = [worker EXCEPT ![c] = Idle]
    /\ UNCHANGED dataPlane /\ WorkerOnly

CompactorCrash(c) ==
    /\ ~WorkerAt(c, "idle")
    /\ crashes < MaxCompactorCrashes
    /\ crashes' = crashes + 1
    /\ worker' = [worker EXCEPT ![c] = Idle]
    /\ UNCHANGED <<catalogVars, clock, content, dmlVars, serverVars>>

-----------------------------------------------------------------------------

Tick ==
    /\ clock < MaxClock
    /\ clock' = clock + 1
    /\ UNCHANGED <<catalogVars, content, dmlVars, serverVars, workerVars>>

\* The table exists and is empty; DDL is the catalog machine's business.
Init ==
    /\ LeasesInit
    /\ namespaces = {DefaultSchema}
    /\ tables = Entry(T, 1) /\ schemas = {<<T, 1>>}
    /\ snapshot_version = 1 /\ last_applied = 1 /\ schema_ver = 1
    /\ datanodes = Nothing /\ files = Nothing /\ deletions = Nothing
    /\ idempotency = Nothing /\ in_flight = Nothing /\ purged = Nothing
    /\ tasks = Nothing /\ manifest_ver = 0 /\ table_manifest_ver = Nothing
    /\ clock = 0 /\ content = Nothing /\ marks = Nothing
    /\ stmt = [d \in DvIds |-> Idle]
    /\ wal = << >> /\ server = "up" /\ replayed = 0
    /\ worker = [c \in Compactors |-> Idle]
    /\ restarts = 0 /\ crashes = 0

StatementStep(d) ==
    \/ \E r \in RowKeys : Begin(d, r)
    \/ LockShard(d) \/ ShardBusy(d) \/ NothingToDo(d)
    \/ Locate(d) \/ Log(d) \/ Apply(d) \/ ApplyRefused(d) \/ UnlockShard(d)

CompactorStep(c) ==
    \/ StartRound(c) \/ Claim(c) \/ LockForMerge(c) \/ ReadShard(c) \/ Announce(c)
    \/ Commit(c) \/ CommitRefused(c)
    \/ Revoke(c) \/ AllRevoked(c)
    \/ UnlockMerge(c) \/ YieldTask(c)

Next ==
    \/ \E R \in SUBSET RowKeys : Flush(R)
    \/ \E d \in DvIds : StatementStep(d)
    \/ Restart \/ Replay \/ Serve
    \/ \E c \in Compactors : CompactorStep(c) \/ CompactorCrash(c)
    \/ Tick

Spec == Init /\ [][Next]_vars

\* A compactor that is not crashed goes on with its round and starts another;
\* a statement runs to its end; a restarted server replays and serves.
Fairness ==
    /\ \A c \in Compactors : WF_vars(CompactorStep(c))
    /\ \A d \in DvIds : WF_vars(stmt[d].pc # "idle" /\ StatementStep(d))
    /\ WF_vars(Replay \/ Serve)

FairSpec == Spec /\ Fairness

-----------------------------------------------------------------------------
(* Properties. *)

StatementType ==
    \A d \in DvIds : stmt[d].pc # "idle" =>
        /\ stmt[d].pc \in {"lock", "locate", "log", "apply", "release", "done"}
        /\ stmt[d].row \in RowKeys
        /\ DOMAIN stmt[d].D \subseteq Batches /\ DOMAIN stmt[d].N \subseteq Batches

TypeOK ==
    /\ CatalogType
    /\ clock \in 0..MaxClock
    /\ DOMAIN content \subseteq Batches /\ \A b \in DOMAIN content : content[b] \subseteq Rows
    /\ DOMAIN marks \subseteq DvIds \X Batches /\ \A k \in DOMAIN marks : marks[k] \subseteq Rows
    /\ StatementType
    /\ wal \in Seq(DvIds) /\ replayed \in 0..Len(wal)
    /\ server \in {"up", "replaying", "refused"}
    /\ \A c \in Compactors : worker[c].pc \in
           {"idle", "claim", "lock", "read", "announce", "commit", "revoke", "unlock", "yield"}

Touched == {stmt[d].row : d \in {e \in DvIds : stmt[e].pc # "idle"}}

\* A row no statement has named is read exactly once, whatever compactions,
\* statements, expired leases, crashes and restarts do around it.
UntouchedRowsOnce ==
    \A r \in RowKeys \ (NeverWritten \cup Touched) : Copies(<<r, 0>>, snapshot_version) = 1

\* A statement the catalog accepts hides every row it marked: none of its
\* bitmaps is left on a file nobody reads.
AcceptedHides ==
    [][\A d \in DvIds :
          stmt[d].pc = "apply" /\ Takes(d) =>
              \A k \in DOMAIN marks : k[1] = d =>
                  \A row \in marks[k] : Copies(row, snapshot_version)' = 0]_vars

Written == UNION {content[b] : b \in DOMAIN files}

\* What a reader finds, and the table it should be.
VisibleRows == {row \in Written : Copies(row, snapshot_version) > 0}

\* A statement is under way until the catalog has its record; logged, it is so
\* across a restart.
Logged(d) == \E i \in 1..Len(wal) : wal[i] = d
Pending(d) ==
    \/ stmt[d].pc \in {"lock", "locate", "log"}
    \/ stmt[d].pc \in {"apply", "done"} /\ Logged(d) /\ ~Registered(d)

RequestOf(d) ==
    IF stmt[d].pc = "idle" THEN [stage |-> "no"]
    ELSE IF Pending(d) THEN [stage |-> "asked", key |-> stmt[d].row]
    ELSE [stage |-> "settled"]

Table == INSTANCE RowTable WITH
             rows <- VisibleRows,
             asked <- [d \in DvIds |-> RequestOf(d)],
             Statements <- DvIds

\* No row is in the table twice.  Two UPDATEs of a row of which one outlives its
\* lease are both accepted (sql/src/dml.rs:744), and it is: how far this holds,
\* RowOnceUntilOvertaken says.
NoRowTwice == \A row \in Written : Copies(row, snapshot_version) <= 1

\* The shard is merged whenever it is worth it: the task does not stay.
TasksGetDone == []<>(DOMAIN tasks = {})
=============================================================================
