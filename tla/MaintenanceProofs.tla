------------------------- MODULE MaintenanceProofs -------------------------
(***************************************************************************)
(* A row no statement has named is read exactly once, for any number of    *)
(* rows, statements and compactors and whatever their leases are worth:    *)
(* a lease that expired while its holder worked, a second worker, a        *)
(* crashed compactor and a replayed statement change nothing, because the  *)
(* catalog refuses a merge one of whose inputs is gone.                    *)
(***************************************************************************)
EXTENDS Maintenance, SequenceTheorems, FiniteSetTheorems, TLAPS

(* What the records of the statements and the workers are. *)

StmtShape(x) ==
    \/ x = Idle
    \/ /\ x.pc # "idle"
       /\ x = [pc |-> x.pc, row |-> x.row, epoch |-> x.epoch, D |-> x.D, N |-> x.N]

WorkerShape(x) ==
    \/ x = Idle
    \/ x = [pc |-> x.pc, snapshot |-> x.snapshot, task_epoch |-> x.task_epoch,
            epoch |-> x.epoch, inputs |-> x.inputs, consumed |-> x.consumed,
            merged |-> x.merged, out |-> x.out, at |-> x.at]

FileShape(f) ==
    f = [table |-> T, shard |-> f.shard, rows |-> f.rows,
         valid_from |-> f.valid_from, deleted_at |-> f.deleted_at]

Started == {d \in DvIds : stmt[d].pc # "idle"}

Shapes ==
    /\ DOMAIN stmt = DvIds /\ \A d \in DvIds : StmtShape(stmt[d])
    /\ DOMAIN worker = Compactors /\ \A c \in Compactors : WorkerShape(worker[c])
    /\ wal \in Seq(DvIds) /\ replayed \in Nat
    /\ \A i \in 1..Len(wal) : wal[i] \in Started

\* A file in the manifest has its object, and a window that has opened.
FilesOK ==
    /\ snapshot_version \in Nat
    /\ DOMAIN files \subseteq DOMAIN content
    /\ \A b \in DOMAIN content : content[b] \subseteq Rows
    /\ \A b \in DOMAIN files :
          /\ FileShape(files[b])
          /\ files[b].valid_from \in 0..snapshot_version
          /\ files[b].deleted_at \in 0..snapshot_version

\* A bitmap marks rows with the key its statement names, and no others.
MarksOK ==
    /\ DOMAIN deletions \subseteq DOMAIN marks
    /\ \A k \in DOMAIN marks :
          k[1] \in Started /\ \A row \in marks[k] : row[1] = stmt[k[1]].row

\* And its new files, registered or not, hold such rows only.
StmtsOK ==
    \A d \in Started :
        /\ \A b \in DOMAIN stmt[d].D : <<d, b>> \in DOMAIN marks
        /\ \A n \in DOMAIN stmt[d].N :
              n \in DOMAIN content /\ \A row \in content[n] : row[1] = stmt[d].row

\* What a worker has merged is what its inputs hold, as far as the rows no
\* statement names go.
Merging(c) == worker[c].pc \in {"announce", "commit"}
MergesOK ==
    \A c \in Compactors : Merging(c) =>
        /\ worker[c].inputs \subseteq DOMAIN files
        /\ \A row \in worker[c].merged : \E b \in worker[c].inputs : row \in content[b]
        /\ \A r \in RowKeys \ Touched : \A b \in worker[c].inputs :
              <<r, 0>> \in content[b] => <<r, 0>> \in worker[c].merged

\* Its output is its own until it is committed.
OutputsOK ==
    \A c \in Compactors : WorkerAt(c, "commit") =>
        /\ worker[c].out \in DOMAIN content \ DOMAIN files
        /\ content[worker[c].out] = worker[c].merged
        /\ \A d \in Started : worker[c].out \notin DOMAIN stmt[d].N
        /\ \A e \in Compactors \ {c} : WorkerAt(e, "commit") => worker[e].out # worker[c].out

\* A row no statement names, once written, is in one live file.
Home(r, b) == files[b].deleted_at = 0 /\ <<r, 0>> \in content[b]
OneHome ==
    \A r \in RowKeys \ Touched :
        /\ (\E b \in DOMAIN content : <<r, 0>> \in content[b]) => \E b \in DOMAIN files : Home(r, b)
        /\ \A b, e \in DOMAIN files : Home(r, b) /\ Home(r, e) => b = e

MInv == Shapes /\ FilesOK /\ MarksOK /\ StmtsOK /\ MergesOK /\ OutputsOK /\ OneHome

-----------------------------------------------------------------------------
(* Steps that move records on without touching a file, an object or a bitmap. *)

StmtsKept ==
    /\ DOMAIN stmt' = DvIds
    /\ \A d \in DvIds :
          /\ StmtShape(stmt'[d])
          /\ stmt'[d].pc = "idle" <=> stmt[d].pc = "idle"
          /\ stmt[d].pc # "idle" =>
                 /\ stmt'[d].row = stmt[d].row
                 /\ stmt'[d].D = stmt[d].D /\ stmt'[d].N = stmt[d].N

WorkersKept ==
    /\ DOMAIN worker' = Compactors
    /\ \A c \in Compactors :
          /\ WorkerShape(worker'[c])
          /\ worker'[c].pc \in {"announce", "commit"} =>
                 /\ worker'[c].pc = worker[c].pc
                 /\ worker'[c].inputs = worker[c].inputs
                 /\ worker'[c].merged = worker[c].merged
                 /\ worker'[c].out = worker[c].out

LogKept ==
    /\ wal' \in Seq(DvIds) /\ replayed' \in Nat
    /\ \A i \in 1..Len(wal') : wal'[i] \in Started

LEMMA SameStmts ==
    ASSUME Shapes, stmt' = stmt
    PROVE  StmtsKept
BY DEF Shapes, StmtsKept

LEMMA SameWorkers ==
    ASSUME Shapes, worker' = worker
    PROVE  WorkersKept
BY DEF Shapes, WorkersKept

LEMMA SameLog ==
    ASSUME Shapes, wal' = wal, replayed' = replayed
    PROVE  LogKept
BY DEF Shapes, LogKept

LEMMA StmtMoved ==
    ASSUME Shapes, NEW d \in Started, NEW pc, pc # "idle", NEW e,
           \/ stmt' = [stmt EXCEPT ![d].pc = pc]
           \/ stmt' = [stmt EXCEPT ![d].pc = pc, ![d].epoch = e]
    PROVE  StmtsKept
<1>1. d \in DvIds /\ stmt[d].pc # "idle" /\ StmtShape(stmt[d])
  BY DEF Shapes, Started
<1>2. stmt[d] # Idle
  BY <1>1 DEF Idle
<1>3. stmt[d] = [pc |-> stmt[d].pc, row |-> stmt[d].row, epoch |-> stmt[d].epoch,
                 D |-> stmt[d].D, N |-> stmt[d].N]
  BY <1>1, <1>2 DEF StmtShape
<1>4. DOMAIN stmt = DvIds /\ \A x \in DvIds : StmtShape(stmt[x])
  BY DEF Shapes
<1> DEFINE z == stmt[d]
<1>5. /\ DOMAIN stmt' = DvIds
      /\ \A x \in DvIds \ {d} : stmt'[x] = stmt[x]
      /\ \/ stmt'[d] = [z EXCEPT !.pc = pc]
         \/ stmt'[d] = [[z EXCEPT !.pc = pc] EXCEPT !.epoch = e]
  BY <1>1, <1>4
<1>6. /\ stmt'[d].pc = pc /\ stmt'[d].row = stmt[d].row
      /\ stmt'[d].D = stmt[d].D /\ stmt'[d].N = stmt[d].N
      /\ StmtShape(stmt'[d])
  <2> HIDE DEF z
  <2>1. z = [pc |-> z.pc, row |-> z.row, epoch |-> z.epoch, D |-> z.D, N |-> z.N]
    BY <1>3 DEF z
  <2>2. \/ stmt'[d] = [pc |-> pc, row |-> z.row, epoch |-> z.epoch, D |-> z.D, N |-> z.N]
        \/ stmt'[d] = [pc |-> pc, row |-> z.row, epoch |-> e, D |-> z.D, N |-> z.N]
    BY <1>5, <2>1
  <2>3. QED
    BY <2>2 DEF z, StmtShape
<1>7. QED
  BY <1>1, <1>4, <1>5, <1>6 DEF StmtsKept

LEMMA WorkerMoved ==
    ASSUME Shapes, NEW c \in Compactors, NEW w, WorkerShape(w),
           w.pc \notin {"announce", "commit"}, worker' = [worker EXCEPT ![c] = w]
    PROVE  WorkersKept
BY DEF Shapes, WorkersKept

LEMMA WorkerEnds ==
    ASSUME Shapes, NEW c \in Compactors, worker' = [worker EXCEPT ![c] = Idle]
    PROVE  WorkersKept
BY WorkerMoved DEF WorkerShape, Idle

LEMMA WorkerGoesOn ==
    ASSUME Shapes, NEW c \in Compactors, worker[c].pc # "idle",
           NEW pc, pc \notin {"announce", "commit"}, Become(c, pc)
    PROVE  WorkersKept
<1> DEFINE z == worker[c]
           w == [z EXCEPT !.pc = pc]
<1>1. worker' = [worker EXCEPT ![c] = w]
  BY DEF Become
<1>2. z = [pc |-> z.pc, snapshot |-> z.snapshot, task_epoch |-> z.task_epoch,
           epoch |-> z.epoch, inputs |-> z.inputs, consumed |-> z.consumed,
           merged |-> z.merged, out |-> z.out, at |-> z.at]
  BY DEF Shapes, WorkerShape, Idle
<1>3. WorkerShape(w) /\ w.pc = pc
  <2> HIDE DEF z
  <2>1. w = [pc |-> pc, snapshot |-> z.snapshot, task_epoch |-> z.task_epoch,
             epoch |-> z.epoch, inputs |-> z.inputs, consumed |-> z.consumed,
             merged |-> z.merged, out |-> z.out, at |-> z.at]
    BY <1>2
  <2>2. QED
    BY <2>1 DEF WorkerShape
<1> HIDE DEF w
<1>4. QED
  BY <1>1, <1>3, WorkerMoved

LEMMA WorkerPlaced ==
    ASSUME Shapes, NEW c \in Compactors, worker[c].pc # "idle",
           NEW pc, pc \notin {"announce", "commit"}, NEW v,
           \/ worker' = [worker EXCEPT ![c].pc = pc, ![c].task_epoch = v]
           \/ worker' = [worker EXCEPT ![c].pc = pc, ![c].epoch = v]
           \/ worker' = [worker EXCEPT ![c].pc = pc, ![c].at = v]
           \/ worker[c].pc = pc /\ worker' = [worker EXCEPT ![c].consumed = v]
    PROVE  WorkersKept
<1> DEFINE z == worker[c]
<1>1. z = [pc |-> z.pc, snapshot |-> z.snapshot, task_epoch |-> z.task_epoch,
           epoch |-> z.epoch, inputs |-> z.inputs, consumed |-> z.consumed,
           merged |-> z.merged, out |-> z.out, at |-> z.at]
  BY DEF Shapes, WorkerShape, Idle
<1>2. DOMAIN worker = Compactors
  BY DEF Shapes
<1>3. /\ worker' = [worker EXCEPT ![c] = worker'[c]]
      /\ \/ worker'[c] = [[z EXCEPT !.pc = pc] EXCEPT !.task_epoch = v]
         \/ worker'[c] = [[z EXCEPT !.pc = pc] EXCEPT !.epoch = v]
         \/ worker'[c] = [[z EXCEPT !.pc = pc] EXCEPT !.at = v]
         \/ z.pc = pc /\ worker'[c] = [z EXCEPT !.consumed = v]
  BY <1>2
<1> HIDE DEF z
<1>4. \E task_epoch, epoch, consumed, at :
          worker'[c] = [pc |-> pc, snapshot |-> z.snapshot, task_epoch |-> task_epoch,
                        epoch |-> epoch, inputs |-> z.inputs, consumed |-> consumed,
                        merged |-> z.merged, out |-> z.out, at |-> at]
  <2>1. CASE worker'[c] = [[z EXCEPT !.pc = pc] EXCEPT !.task_epoch = v]
    BY <1>1, <2>1
  <2>2. CASE worker'[c] = [[z EXCEPT !.pc = pc] EXCEPT !.epoch = v]
    BY <1>1, <2>2
  <2>3. CASE worker'[c] = [[z EXCEPT !.pc = pc] EXCEPT !.at = v]
    BY <1>1, <2>3
  <2>4. CASE z.pc = pc /\ worker'[c] = [z EXCEPT !.consumed = v]
    BY <1>1, <2>4
  <2>5. QED
    BY <1>3, <2>1, <2>2, <2>3, <2>4
<1>5. WorkerShape(worker'[c]) /\ worker'[c].pc = pc
  BY <1>4 DEF WorkerShape
<1>6. QED
  BY <1>3, <1>5, WorkerMoved

\* Such a step keeps every part of the invariant.
LEMMA QuietStep ==
    ASSUME MInv, StmtsKept, WorkersKept, LogKept,
           UNCHANGED <<files, content, marks, snapshot_version>>,
           DOMAIN deletions' = DOMAIN deletions
    PROVE  MInv'
<1>1. Started' = Started
  BY DEF StmtsKept, Started
<1>2. Touched' = Touched
  <2>1. \A d \in Started : stmt'[d].row = stmt[d].row
    BY DEF StmtsKept, Started
  <2>2. Touched = {stmt[d].row : d \in Started}
    BY DEF Touched, Started
  <2>3. Touched' = {stmt'[d].row : d \in Started'}
    BY DEF Touched, Started
  <2>4. QED
    BY <1>1, <2>1, <2>2, <2>3
<1>3. Shapes'
  BY <1>1 DEF Shapes, StmtsKept, WorkersKept, LogKept
<1>4. FilesOK'
  BY DEF MInv, FilesOK
<1>5. MarksOK'
  BY <1>1 DEF MInv, MarksOK, StmtsKept, Started
<1>6. StmtsOK'
  BY <1>1 DEF MInv, StmtsOK, StmtsKept, Started
<1>7. MergesOK'
  BY <1>2 DEF MInv, MergesOK, Merging, WorkersKept
<1>8. OutputsOK'
  BY <1>1 DEF MInv, OutputsOK, WorkerAt, WorkersKept, StmtsKept, Started
<1>9. OneHome'
  BY <1>2 DEF MInv, OneHome, Home
<1>10. QED
  BY <1>3, <1>4, <1>5, <1>6, <1>7, <1>8, <1>9 DEF MInv

ManifestSame == UNCHANGED <<files, deletions, snapshot_version>>

LEMMA CatalogSame ==
    ASSUME UNCHANGED catalogVars \/ UNCHANGED dataPlane
    PROVE  ManifestSame
BY DEF ManifestSame, catalogVars, dataPlane, dataVars, counters

LEMMA QuietStatement ==
    ASSUME MInv, NEW d \in DvIds,
           \/ LockShard(d) \/ ShardBusy(d) \/ NothingToDo(d)
           \/ Log(d) \/ ApplyRefused(d) \/ UnlockShard(d)
    PROVE  MInv'
<1>1. Shapes
  BY DEF MInv
<1>2. ManifestSame
  BY CatalogSame
  DEF LockShard, ShardBusy, NothingToDo, Log, ApplyRefused, UnlockShard
<1>3. UNCHANGED <<content, marks, server, replayed, worker>>
  BY DEF LockShard, ShardBusy, NothingToDo, Log, ApplyRefused, UnlockShard,
         StmtOnly, serverVars, workerVars
<1>4. d \in Started
  BY DEF LockShard, ShardBusy, NothingToDo, Log, ApplyRefused, UnlockShard, StmtAt, Started
<1>5. StmtsKept
  <2>1. \/ \E pc \in {"done", "release", "apply"} : stmt' = [stmt EXCEPT ![d].pc = pc]
        \/ stmt' = [stmt EXCEPT ![d].pc = "locate", ![d].epoch = GrantEpoch(ShardLease, d)]
    BY DEF LockShard, ShardBusy, NothingToDo, Log, ApplyRefused, UnlockShard, Goto
  <2>2. QED
    BY <1>1, <1>4, <2>1, StmtMoved
<1>6. LogKept
  <2>1. CASE Log(d)
    <3>1. wal' = Append(wal, d) /\ wal \in Seq(DvIds) /\ replayed' \in Nat
      BY <1>1, <1>3, <2>1 DEF Log, Shapes
    <3>2. /\ wal' \in Seq(DvIds) /\ Len(wal') = Len(wal) + 1 /\ Len(wal) \in Nat
          /\ \A i \in 1..Len(wal) : wal'[i] = wal[i]
          /\ wal'[Len(wal) + 1] = d
      BY <3>1, AppendProperties, LenProperties
    <3>3. QED
      BY <1>1, <1>4, <3>1, <3>2 DEF LogKept, Shapes
  <2>2. CASE ~Log(d)
    <3>1. wal' = wal
      BY <2>2 DEF LockShard, ShardBusy, NothingToDo, ApplyRefused, UnlockShard, StmtOnly
    <3>2. QED
      BY <1>1, <1>3, <3>1, SameLog
  <2>3. QED
    BY <2>1, <2>2
<1>7. WorkersKept
  BY <1>1, <1>3, SameWorkers
<1>8. QED
  BY <1>2, <1>3, <1>5, <1>6, <1>7, QuietStep DEF ManifestSame

LEMMA QuietServer ==
    ASSUME MInv,
           \/ Restart \/ Serve \/ Tick
           \/ Replay /\ UNCHANGED catalogVars
    PROVE  MInv'
<1>1. Shapes
  BY DEF MInv
<1>2. ManifestSame /\ UNCHANGED <<content, marks, wal, worker>>
  BY CatalogSame DEF Restart, Serve, Tick, Replay, ReplayStep, dmlVars, workerVars
<1>3. WorkersKept
  BY <1>1, <1>2, SameWorkers
<1>4. LogKept
  <2>1. replayed' \in Nat
    BY <1>1 DEF Shapes, Restart, Serve, Tick, Replay, serverVars
  <2>2. QED
    BY <1>1, <1>2, <2>1 DEF LogKept, Shapes
<1>5. StmtsKept
  <2>1. CASE Restart
    <3>1. stmt' = [d \in DvIds |->
                      IF stmt[d].pc = "idle" THEN Idle ELSE [stmt[d] EXCEPT !.pc = "done"]]
      BY <2>1 DEF Restart
    <3>2. ASSUME NEW d \in DvIds
          PROVE  /\ StmtShape(stmt'[d])
                 /\ stmt'[d].pc = "idle" <=> stmt[d].pc = "idle"
                 /\ stmt[d].pc # "idle" =>
                        /\ stmt'[d].row = stmt[d].row
                        /\ stmt'[d].D = stmt[d].D /\ stmt'[d].N = stmt[d].N
      <4>1. CASE stmt[d].pc = "idle"
        BY <3>1, <4>1 DEF StmtShape, Idle
      <4>2. CASE stmt[d].pc # "idle"
        <5>1. stmt[d] = [pc |-> stmt[d].pc, row |-> stmt[d].row, epoch |-> stmt[d].epoch,
                         D |-> stmt[d].D, N |-> stmt[d].N]
          BY <1>1, <4>2 DEF Shapes, StmtShape, Idle
        <5>2. stmt'[d] = [stmt[d] EXCEPT !.pc = "done"]
          BY <3>1, <4>2
        <5>3. stmt'[d] = [pc |-> "done", row |-> stmt[d].row, epoch |-> stmt[d].epoch,
                          D |-> stmt[d].D, N |-> stmt[d].N]
          BY <5>1, <5>2
        <5>4. QED
          BY <4>2, <5>3 DEF StmtShape
      <4>3. QED
        BY <4>1, <4>2
    <3>3. QED
      BY <3>1, <3>2 DEF StmtsKept
  <2>2. CASE ~Restart
    <3>1. stmt' = stmt
      BY <2>2 DEF Serve, Tick, Replay, ReplayStep, dmlVars
    <3>2. QED
      BY <1>1, <3>1, SameStmts
  <2>3. QED
    BY <2>1, <2>2
<1>6. QED
  BY <1>2, <1>3, <1>4, <1>5, QuietStep DEF ManifestSame

LEMMA QuietCompactor ==
    ASSUME MInv, NEW c \in Compactors,
           \/ StartRound(c) \/ Claim(c) \/ LockForMerge(c) \/ CommitRefused(c)
           \/ Revoke(c) \/ AllRevoked(c) \/ UnlockMerge(c) \/ YieldTask(c)
           \/ CompactorCrash(c)
    PROVE  MInv'
<1>1. Shapes
  BY DEF MInv
<1>2. UNCHANGED <<content, marks, wal, stmt, replayed>>
  BY DEF StartRound, Claim, LockForMerge, CommitRefused, Revoke, AllRevoked,
         UnlockMerge, YieldTask, CompactorCrash, WorkerOnly, dmlVars, serverVars
<1>3. StmtsKept /\ LogKept
  BY <1>1, <1>2, SameStmts, SameLog
<1>4. UNCHANGED <<files, snapshot_version>> /\ DOMAIN deletions' = DOMAIN deletions
  <2>1. ASSUME NEW b, NEW at, RevokeDeletions(b, at)
        PROVE  UNCHANGED <<files, snapshot_version>> /\ DOMAIN deletions' = DOMAIN deletions
    BY <2>1 DEF RevokeDeletions, Over
  <2>2. CASE Revoke(c)
    <3>1. PICK b : IF Dangling(b) THEN RevokeDeletions(b, worker[c].at)
                   ELSE UNCHANGED catalogVars
      BY <2>2 DEF Revoke
    <3>2. QED
      BY <2>1, <3>1, CatalogSame DEF ManifestSame
  <2>3. CASE ~Revoke(c)
    <3>1. ManifestSame
      BY <2>3, CatalogSame
      DEF StartRound, Claim, LockForMerge, CommitRefused, AllRevoked,
          UnlockMerge, YieldTask, CompactorCrash
    <3>2. QED
      BY <3>1 DEF ManifestSame
  <2>4. QED
    BY <2>2, <2>3
<1>5. WorkersKept
  <2>1. CASE StartRound(c)
    <3> DEFINE w == [pc |-> "claim", snapshot |-> snapshot_version, task_epoch |-> 0,
                     epoch |-> 0, inputs |-> {}, consumed |-> {}, merged |-> {},
                     out |-> NoBatch, at |-> 0]
    <3>1. worker' = [worker EXCEPT ![c] = w]
      BY <2>1 DEF StartRound
    <3>2. WorkerShape(w) /\ w.pc = "claim"
      BY DEF WorkerShape
    <3> HIDE DEF w
    <3>3. QED
      BY <1>1, <3>1, <3>2, WorkerMoved
  <2>2. CASE Claim(c)
    <3>1. CASE worker' = [worker EXCEPT ![c] = Idle]
      BY <1>1, <3>1, WorkerEnds
    <3>2. CASE worker' # [worker EXCEPT ![c] = Idle]
      <4>1. /\ worker[c].pc # "idle"
            /\ worker' = [worker EXCEPT ![c].pc = "lock",
                                        ![c].task_epoch = GrantEpoch(TaskLease, c)]
        BY <2>2, <3>2 DEF Claim, WorkerAt
      <4>2. QED
        BY <1>1, <4>1, WorkerPlaced
    <3>3. QED
      BY <3>1, <3>2
  <2>3. CASE LockForMerge(c)
    <3>1. worker[c].pc # "idle"
      BY <2>3 DEF LockForMerge, WorkerAt
    <3>2. CASE Become(c, "yield")
      BY <1>1, <3>1, <3>2, WorkerGoesOn
    <3>3. CASE ~Become(c, "yield")
      <4>1. worker' = [worker EXCEPT ![c].pc = "read",
                                     ![c].epoch = GrantEpoch(ShardLease, c)]
        BY <2>3, <3>3 DEF LockForMerge
      <4>2. QED
        BY <1>1, <3>1, <4>1, WorkerPlaced
    <3>4. QED
      BY <3>2, <3>3
  <2>4. CASE CommitRefused(c) \/ AllRevoked(c) \/ UnlockMerge(c)
    <3>1. worker[c].pc # "idle" /\ (Become(c, "unlock") \/ Become(c, "yield"))
      BY <2>4 DEF CommitRefused, AllRevoked, UnlockMerge, WorkerAt
    <3>2. QED
      BY <1>1, <3>1, WorkerGoesOn
  <2>5. CASE Revoke(c)
    <3>1. worker[c].pc = "revoke"
      BY <2>5 DEF Revoke, WorkerAt
    <3>2. PICK b : worker' = [worker EXCEPT ![c].consumed = worker[c].consumed \ {b}]
      BY <1>1, <2>5 DEF Revoke, Shapes
    <3>3. QED
      BY <1>1, <3>1, <3>2, WorkerPlaced
  <2>6. CASE YieldTask(c) \/ CompactorCrash(c)
    BY <1>1, <2>6, WorkerEnds DEF YieldTask, CompactorCrash
  <2>7. QED
    BY <2>1, <2>2, <2>3, <2>4, <2>5, <2>6
<1>6. QED
  BY <1>2, <1>3, <1>4, <1>5, QuietStep

-----------------------------------------------------------------------------
(* Steps that write objects, enter files or retire them. *)

ContentGrows ==
    /\ DOMAIN content \subseteq DOMAIN content'
    /\ \A b \in DOMAIN content : content'[b] = content[b]

MergesCarried ==
    \A c \in Compactors : worker'[c].pc \in {"announce", "commit"} =>
        /\ Merging(c)
        /\ worker'[c].inputs = worker[c].inputs /\ worker'[c].merged = worker[c].merged

\* A merge outlives any step under which no file leaves the manifest.
LEMMA MergesKept ==
    ASSUME MInv, ContentGrows, MergesCarried,
           DOMAIN files \subseteq DOMAIN files', Touched \subseteq Touched'
    PROVE  MergesOK'
<1> SUFFICES ASSUME NEW c \in Compactors, worker'[c].pc \in {"announce", "commit"}
             PROVE  /\ worker'[c].inputs \subseteq DOMAIN files'
                    /\ \A row \in worker'[c].merged :
                          \E b \in worker'[c].inputs : row \in content'[b]
                    /\ \A r \in RowKeys \ Touched' : \A b \in worker'[c].inputs :
                          <<r, 0>> \in content'[b] => <<r, 0>> \in worker'[c].merged
  BY DEF MergesOK, Merging
<1>1. /\ worker'[c].inputs = worker[c].inputs /\ worker'[c].merged = worker[c].merged
      /\ worker[c].inputs \subseteq DOMAIN files
      /\ \A row \in worker[c].merged : \E b \in worker[c].inputs : row \in content[b]
      /\ \A r \in RowKeys \ Touched : \A b \in worker[c].inputs :
            <<r, 0>> \in content[b] => <<r, 0>> \in worker[c].merged
  BY DEF MergesCarried, MInv, MergesOK, Merging
<1>2. \A b \in worker[c].inputs : content'[b] = content[b]
  BY <1>1 DEF MInv, FilesOK, ContentGrows
<1>3. QED
  BY <1>1, <1>2

\* Statements and workers that stand still stay well shaped, and the new files
\* of the former as they were.
LEMMA StatementsStand ==
    ASSUME MInv, ContentGrows, UNCHANGED <<stmt, marks>>
    PROVE  Started' = Started /\ Touched' = Touched /\ StmtsOK'
<1>1. Started' = Started /\ Touched' = Touched
  BY DEF Started, Touched
<1>2. StmtsOK'
  BY <1>1 DEF MInv, StmtsOK, ContentGrows
<1>3. QED
  BY <1>1, <1>2

LEMMA InitMInv == Init => MInv
<1> SUFFICES ASSUME Init PROVE MInv
  OBVIOUS
<1>1. /\ files = Nothing /\ deletions = Nothing /\ content = Nothing /\ marks = Nothing
      /\ stmt = [d \in DvIds |-> Idle] /\ worker = [c \in Compactors |-> Idle]
      /\ wal = << >> /\ replayed = 0 /\ snapshot_version = 1
  BY DEF Init
<1>2. DOMAIN Nothing = {}
  BY DEF Nothing
<1>3. Idle.pc = "idle"
  BY DEF Idle
<1>4. Started = {}
  BY <1>1, <1>3 DEF Started
<1>5. Shapes
  BY <1>1, <1>3, EmptySeq DEF Shapes, StmtShape, WorkerShape
<1>6. FilesOK /\ MarksOK
  BY <1>1, <1>2 DEF FilesOK, MarksOK
<1>7. StmtsOK
  BY <1>4 DEF StmtsOK
<1>8. MergesOK /\ OutputsOK
  BY <1>1, <1>3 DEF MergesOK, OutputsOK, Merging, WorkerAt
<1>9. OneHome
  BY <1>1, <1>2 DEF OneHome
<1>10. QED
  BY <1>5, <1>6, <1>7, <1>8, <1>9 DEF MInv

\* The first step of a statement names its row.
LEMMA BeginStep ==
    ASSUME MInv, NEW d \in DvIds, NEW r \in RowKeys, Begin(d, r)
    PROVE  MInv'
<1> DEFINE pc == IF Reading(snapshot_version) = {} THEN "locate" ELSE "lock"
           new == [pc |-> pc, row |-> r, epoch |-> 0, D |-> Nothing, N |-> Nothing]
<1>1. stmt' = [stmt EXCEPT ![d] = new] /\ stmt[d].pc = "idle"
  BY DEF Begin, StmtAt
<1>2. ManifestSame /\ UNCHANGED <<content, marks, wal, replayed, worker>>
  BY CatalogSame DEF Begin, StmtOnly, serverVars, workerVars
<1>3. /\ new.pc # "idle" /\ new.row = r /\ DOMAIN new.D = {} /\ DOMAIN new.N = {}
      /\ StmtShape(new)
  <2> HIDE DEF pc
  <2>1. pc # "idle"
    BY DEF pc
  <2>2. QED
    BY <2>1 DEF Nothing, StmtShape
<1> HIDE DEF new
<1>4. /\ DOMAIN stmt' = DvIds /\ stmt'[d] = new
      /\ \A e \in DvIds \ {d} : stmt'[e] = stmt[e]
  BY <1>1 DEF MInv, Shapes
<1>5. Started' = Started \cup {d} /\ d \notin Started
  BY <1>1, <1>3, <1>4 DEF Started
<1>6. Touched \subseteq Touched'
  <2>1. Touched = {stmt[e].row : e \in Started} /\ Touched' = {stmt'[e].row : e \in Started'}
    BY DEF Touched, Started
  <2>2. \A e \in Started : stmt'[e] = stmt[e]
    BY <1>4, <1>5 DEF Started
  <2>3. QED
    BY <1>5, <2>1, <2>2
<1>7. Shapes'
  BY <1>2, <1>3, <1>4, <1>5 DEF MInv, Shapes
<1>8. FilesOK'
  BY <1>2 DEF MInv, FilesOK, ManifestSame
<1>9. MarksOK'
  BY <1>2, <1>4, <1>5 DEF MInv, MarksOK, ManifestSame, Started
<1>10. StmtsOK'
  BY <1>2, <1>3, <1>4, <1>5 DEF MInv, StmtsOK, Started
<1>11. MergesOK'
  BY <1>2, <1>6, MergesKept DEF ContentGrows, MergesCarried, Merging, ManifestSame
<1>12. OutputsOK'
  BY <1>2, <1>3, <1>4, <1>5 DEF MInv, OutputsOK, WorkerAt, Started, ManifestSame
<1>13. OneHome'
  BY <1>2, <1>6 DEF MInv, OneHome, Home, ManifestSame
<1>14. QED
  BY <1>7, <1>8, <1>9, <1>10, <1>11, <1>12, <1>13 DEF MInv

LEMMA FlushStep ==
    ASSUME MInv, NEW R \in SUBSET RowKeys, Flush(R)
    PROVE  MInv'
<1>n. PICK n : n = NextBatch
  OBVIOUS
<1> DEFINE f == NewFile(T, S0, Cardinality(R))
           rows == R \X {0}
<1>1. n \notin DOMAIN content
  BY <1>n DEF Flush, NextBatch, Fresh
<1>2. CommitFiles(n, T, S0, Cardinality(R), {}, clock)
  BY <1>n DEF Flush
<1>3. /\ content' = Over(Entry(n, rows), content)
      /\ R # {} /\ R \subseteq NeverWritten
      /\ UNCHANGED <<marks, stmt, wal, replayed, worker>>
  BY <1>n DEF Flush, dmlVars, serverVars, workerVars
<1>4. /\ files' = Over(Entry(n, f), files) /\ deletions' = deletions
      /\ snapshot_version' = snapshot_version + 1
  BY <1>2 DEF CommitFiles, NextSnapshot
<1>5. /\ f.table = T /\ f.deleted_at = 0 /\ f.valid_from = snapshot_version + 1
      /\ FileShape(f)
  BY DEF NewFile, FileShape
<1> HIDE DEF f
<1>6. /\ DOMAIN content' = DOMAIN content \cup {n} /\ content'[n] = rows
      /\ DOMAIN files' = DOMAIN files \cup {n} /\ files'[n] = f
      /\ \A b \in DOMAIN content : content'[b] = content[b]
      /\ \A b \in DOMAIN files : files'[b] = files[b]
  <2>1. DOMAIN files \subseteq DOMAIN content
    BY DEF MInv, FilesOK
  <2>2. QED
    BY <1>1, <1>3, <1>4, <2>1 DEF Over, Entry
<1>7. ContentGrows
  BY <1>6 DEF ContentGrows
<1>8. Started' = Started /\ Touched' = Touched /\ StmtsOK'
  BY <1>3, <1>7, StatementsStand
<1>9. Shapes'
  BY <1>3, <1>8 DEF MInv, Shapes
<1>10. FilesOK'
  <2>1. snapshot_version \in Nat
    BY DEF MInv, FilesOK
  <2>2. rows \subseteq Rows
    BY DEF Rows
  <2>3. QED
    BY <1>4, <1>5, <1>6, <2>1, <2>2 DEF MInv, FilesOK
<1>11. MarksOK'
  BY <1>3, <1>4, <1>8 DEF MInv, MarksOK
<1>12. MergesOK'
  BY <1>3, <1>6, <1>7, <1>8, MergesKept DEF MergesCarried, Merging
<1>13. OutputsOK'
  BY <1>1, <1>3, <1>6, <1>8 DEF MInv, OutputsOK, WorkerAt
<1>14. OneHome'
  <2> SUFFICES ASSUME NEW r \in RowKeys \ Touched
               PROVE  /\ (\E b \in DOMAIN content' : <<r, 0>> \in content'[b]) =>
                             \E b \in DOMAIN files' : Home(r, b)'
                      /\ \A b, e \in DOMAIN files' : Home(r, b)' /\ Home(r, e)' => b = e
    BY <1>8 DEF OneHome
  <2>1. \A b \in DOMAIN files : Home(r, b)' <=> Home(r, b)
    BY <1>6 DEF Home, MInv, FilesOK
  <2>2. Home(r, n)' <=> r \in R
    BY <1>5, <1>6 DEF Home
  <2>3. r \in R => \A b \in DOMAIN content : <<r, 0>> \notin content[b]
    BY <1>3 DEF NeverWritten
  <2>4. r \in R => \A b \in DOMAIN files : ~Home(r, b)
    BY <2>3 DEF Home, MInv, FilesOK
  <2>5. /\ (\E b \in DOMAIN content : <<r, 0>> \in content[b]) => \E b \in DOMAIN files : Home(r, b)
        /\ \A b, e \in DOMAIN files : Home(r, b) /\ Home(r, e) => b = e
    BY DEF MInv, OneHome
  <2>6. <<r, 0>> \in content'[n] <=> r \in R
    BY <1>6
  <2>7. QED
    BY <1>6, <2>1, <2>2, <2>4, <2>5, <2>6
<1>15. QED
  BY <1>8, <1>9, <1>10, <1>11, <1>12, <1>13, <1>14 DEF MInv

\* The new files of a statement are fresh, and each comes from a file it hits.
LEMMA SourcesAreHits ==
    ASSUME NEW d, NEW hits, d \in Updates => NewFilesFor(hits) # {}
    PROVE  /\ DOMAIN NewFiles(d, hits) \subseteq Fresh
           /\ \A n \in DOMAIN NewFiles(d, hits) : NewFiles(d, hits)[n] \in hits
<1>1. CASE d \in Updates
  <2>1. NewFiles(d, hits) \in NewFilesFor(hits)
    BY <1>1 DEF NewFiles
  <2>2. PICK B \in kSubset(Cardinality(hits), Fresh) : NewFiles(d, hits) \in Bijection(B, hits)
    BY <2>1 DEF NewFilesFor
  <2>3. B \subseteq Fresh
    BY DEF kSubset
  <2>4. NewFiles(d, hits) \in [B -> hits]
    BY <2>2 DEF Bijection, Injection
  <2>5. QED
    BY <2>3, <2>4
<1>2. CASE d \notin Updates
  BY <1>2 DEF NewFiles, Nothing
<1>3. QED
  BY <1>1, <1>2

\* A statement writes its bitmaps and its new files; none of the rows it
\* writes is of version 0.
LEMMA LocateStep ==
    ASSUME MInv, NEW d \in DvIds, Locate(d)
    PROVE  MInv'
<1>r. PICK r : r = stmt[d].row
  OBVIOUS
<1>h. PICK hits : hits = Hits(r)
  OBVIOUS
<1>s. PICK source : source = NewFiles(d, hits)
  OBVIOUS
<1>m. PICK hit : hit = [b \in hits |-> Matches(b, r)]
  OBVIOUS
<1>1. d \in Started /\ stmt[d].pc = "locate"
  BY Zenon DEF Locate, StmtAt, Started
<1>2. /\ hits \subseteq DOMAIN files
      /\ DOMAIN source \subseteq Fresh
      /\ \A n \in DOMAIN source : source[n] \in hits
  <2>1. hits \subseteq DOMAIN files
    BY <1>h DEF Hits, Reading, VisibleFiles
  <2>2. d \in Updates => NewFilesFor(hits) # {}
    BY Zenon, <1>r, <1>h DEF Locate
  <2>3. QED
    BY <1>s, <2>1, <2>2, SourcesAreHits
<1>3. \A b \in hits : hit[b] \subseteq Rows /\ \A row \in hit[b] : row[1] = r
  BY <1>m, <1>2 DEF Matches, LiveRows, MInv, FilesOK
<1> DEFINE written == [n \in DOMAIN source |-> {NextVersion(row) : row \in hit[source[n]]}]
           marked == [k \in {d} \X hits |-> hit[k[2]]]
           D == [b \in hits |-> Cardinality(hit[b])]
           N == [n \in DOMAIN source |->
                    [shard |-> S0, rows |-> Cardinality(hit[source[n]])]]
<1>4. /\ marks' = Over(marked, marks)
      /\ content' = Over(written, content)
      /\ stmt' = [stmt EXCEPT ![d].pc = "log", ![d].D = D, ![d].N = N]
  <2>1. /\ marked = [k \in {d} \X hits |-> Matches(k[2], r)]
        /\ written = [n \in DOMAIN source |-> {NextVersion(row) : row \in Matches(source[n], r)}]
        /\ D = [b \in hits |-> Cardinality(Matches(b, r))]
        /\ N = [n \in DOMAIN source |->
                   [shard |-> S0, rows |-> Cardinality(Matches(source[n], r))]]
    BY <1>m, <1>2
  <2>2. /\ marks' = Over([k \in {d} \X hits |-> Matches(k[2], r)], marks)
        /\ content' = Over([n \in DOMAIN source |->
                {NextVersion(row) : row \in Matches(source[n], r)}], content)
        /\ stmt' = [stmt EXCEPT ![d].pc = "log",
                ![d].D = [b \in hits |-> Cardinality(Matches(b, r))],
                ![d].N = [n \in DOMAIN source |->
                   [shard |-> S0, rows |-> Cardinality(Matches(source[n], r))]]]
    BY Zenon, <1>r, <1>h, <1>s DEF Locate
  <2>3. QED
    BY Zenon, <2>1, <2>2
<1>5. ManifestSame /\ UNCHANGED <<wal, replayed, worker>>
  BY Zenon, CatalogSame DEF Locate, serverVars, workerVars
<1>6. \A n \in DOMAIN written :
          /\ n \in DOMAIN source /\ n \notin DOMAIN content
          /\ written[n] \subseteq Rows
          /\ \A row \in written[n] : row[1] = r /\ row[2] # 0
  <2> SUFFICES ASSUME NEW n \in DOMAIN source
               PROVE  /\ n \notin DOMAIN content
                      /\ {NextVersion(row) : row \in hit[source[n]]} \subseteq Rows
                      /\ \A row \in {NextVersion(x) : x \in hit[source[n]]} :
                            row[1] = r /\ row[2] # 0
    OBVIOUS
  <2>1. n \notin DOMAIN content
    BY <1>2 DEF Fresh
  <2>2. ASSUME NEW x \in hit[source[n]]
        PROVE  NextVersion(x) \in Rows /\ NextVersion(x)[1] = r /\ NextVersion(x)[2] # 0
    <3>1. x \in RowKeys \X Nat /\ x[1] = r
      BY <1>2, <1>3 DEF Rows
    <3>2. QED
      BY <3>1 DEF NextVersion, Rows
  <2>3. QED
    BY <2>1, <2>2
<1>7. DOMAIN written = DOMAIN source /\ DOMAIN D = hits /\ DOMAIN N = DOMAIN source
  OBVIOUS
<1>8. /\ DOMAIN marked = {d} \X hits
      /\ \A k \in DOMAIN marked : \A row \in marked[k] : row[1] = r
  BY <1>3
<1> HIDE DEF written, marked, D, N
<1>9. /\ DOMAIN content' = DOMAIN content \cup DOMAIN source
      /\ \A b \in DOMAIN content : content'[b] = content[b]
      /\ \A n \in DOMAIN source : content'[n] = written[n]
  BY <1>4, <1>6, <1>7 DEF Over
<1>10. /\ DOMAIN marks' = DOMAIN marks \cup ({d} \X hits)
       /\ \A k \in DOMAIN marks' :
             marks'[k] = IF k \in {d} \X hits THEN marked[k] ELSE marks[k]
  BY <1>4, <1>8 DEF Over
<1>11. /\ stmt'[d] = [pc |-> "log", row |-> r, epoch |-> stmt[d].epoch, D |-> D, N |-> N]
       /\ DOMAIN stmt' = DvIds
       /\ \A e \in DvIds \ {d} : stmt'[e] = stmt[e]
  <2> DEFINE z == stmt[d]
  <2>1. z = [pc |-> z.pc, row |-> z.row, epoch |-> z.epoch, D |-> z.D, N |-> z.N]
    BY <1>1 DEF MInv, Shapes, StmtShape, Idle
  <2>2. /\ stmt'[d] = [[[z EXCEPT !.pc = "log"] EXCEPT !.D = D] EXCEPT !.N = N]
        /\ DOMAIN stmt' = DvIds
        /\ \A e \in DvIds \ {d} : stmt'[e] = stmt[e]
    BY <1>4 DEF MInv, Shapes
  <2>3. z.row = r /\ z.epoch = stmt[d].epoch
    BY <1>r
  <2> HIDE DEF z
  <2>4. QED
    BY <2>1, <2>2, <2>3
<1>12. Started' = Started
  BY <1>1, <1>11 DEF Started
<1>13. \A e \in Started : stmt'[e].row = stmt[e].row
  BY <1>11, <1>r DEF Started
<1>14. Touched' = Touched
  <2>1. Touched = {stmt[e].row : e \in Started} /\ Touched' = {stmt'[e].row : e \in Started'}
    BY DEF Touched, Started
  <2>2. QED
    BY <1>12, <1>13, <2>1
<1>15. ContentGrows
  BY <1>9 DEF ContentGrows
<1>16. Shapes'
  BY <1>5, <1>11, <1>12 DEF MInv, Shapes, StmtShape
<1>17. FilesOK'
  BY <1>5, <1>6, <1>7, <1>9 DEF MInv, FilesOK, ManifestSame
<1>18. MarksOK'
  <2>1. DOMAIN deletions' \subseteq DOMAIN marks'
    BY <1>5, <1>10 DEF MInv, MarksOK, ManifestSame
  <2>2. ASSUME NEW k \in DOMAIN marks'
        PROVE  k[1] \in Started' /\ \A row \in marks'[k] : row[1] = stmt'[k[1]].row
    <3>1. CASE k \in {d} \X hits
      BY <1>1, <1>8, <1>10, <1>11, <1>12, <3>1
    <3>2. CASE k \notin {d} \X hits
      BY <1>10, <1>12, <1>13, <3>2 DEF MInv, MarksOK
    <3>3. QED
      BY <3>1, <3>2
  <2>3. QED
    BY <2>1, <2>2 DEF MarksOK
<1>19. StmtsOK'
  <2> SUFFICES ASSUME NEW e \in Started
               PROVE  /\ \A b \in DOMAIN stmt'[e].D : <<e, b>> \in DOMAIN marks'
                      /\ \A n \in DOMAIN stmt'[e].N :
                            n \in DOMAIN content' /\ \A row \in content'[n] : row[1] = stmt'[e].row
    BY <1>12 DEF StmtsOK
  <2>1. CASE e = d
    BY <1>6, <1>7, <1>9, <1>10, <1>11, <2>1
  <2>2. CASE e # d
    <3>1. stmt'[e] = stmt[e]
      BY <1>11, <2>2 DEF Started
    <3>2. QED
      BY <1>9, <1>10, <3>1 DEF MInv, StmtsOK
  <2>3. QED
    BY <2>1, <2>2
<1>20. MergesOK'
  BY <1>5, <1>14, <1>15, MergesKept DEF MergesCarried, Merging, ManifestSame
<1>21. OutputsOK'
  <2> SUFFICES ASSUME NEW c \in Compactors, WorkerAt(c, "commit")
               PROVE  /\ worker[c].out \in DOMAIN content' \ DOMAIN files
                      /\ content'[worker[c].out] = worker[c].merged
                      /\ \A e \in Started : worker[c].out \notin DOMAIN stmt'[e].N
                      /\ \A e \in Compactors \ {c} :
                            WorkerAt(e, "commit") => worker[e].out # worker[c].out
    BY <1>5, <1>12 DEF OutputsOK, WorkerAt, ManifestSame
  <2>1. /\ worker[c].out \in DOMAIN content \ DOMAIN files
        /\ content[worker[c].out] = worker[c].merged
        /\ \A e \in Started : worker[c].out \notin DOMAIN stmt[e].N
        /\ \A e \in Compactors \ {c} :
              WorkerAt(e, "commit") => worker[e].out # worker[c].out
    BY DEF MInv, OutputsOK
  <2>2. worker[c].out \notin DOMAIN source
    BY <1>2, <2>1 DEF Fresh
  <2>3. \A e \in Started : worker[c].out \notin DOMAIN stmt'[e].N
    BY <1>7, <1>11, <2>1, <2>2 DEF Started
  <2>4. QED
    BY <1>9, <2>1, <2>3
<1>22. OneHome'
  <2> SUFFICES ASSUME NEW x \in RowKeys \ Touched
               PROVE  /\ (\E b \in DOMAIN content' : <<x, 0>> \in content'[b]) =>
                             \E b \in DOMAIN files : Home(x, b)'
                      /\ \A b, e \in DOMAIN files : Home(x, b)' /\ Home(x, e)' => b = e
    BY <1>5, <1>14 DEF OneHome, ManifestSame
  <2>1. \A b \in DOMAIN files : Home(x, b)' <=> Home(x, b)
    BY <1>5, <1>9 DEF Home, MInv, FilesOK, ManifestSame
  <2>2. \A n \in DOMAIN source : <<x, 0>> \notin content'[n]
    BY <1>6, <1>7, <1>9
  <2>3. /\ (\E b \in DOMAIN content : <<x, 0>> \in content[b]) => \E b \in DOMAIN files : Home(x, b)
        /\ \A b, e \in DOMAIN files : Home(x, b) /\ Home(x, e) => b = e
    BY DEF MInv, OneHome
  <2>4. QED
    BY <1>9, <2>1, <2>2, <2>3
<1>23. QED
  BY <1>16, <1>17, <1>18, <1>19, <1>20, <1>21, <1>22 DEF MInv

-----------------------------------------------------------------------------
(* The record of a statement, first time or replayed. *)

LEMMA SameTouched ==
    ASSUME StmtsKept
    PROVE  Started' = Started /\ Touched' = Touched
<1>1. Started' = Started
  BY DEF StmtsKept, Started
<1>2. \A d \in Started : stmt'[d].row = stmt[d].row
  BY DEF StmtsKept, Started
<1>3. Touched = {stmt[d].row : d \in Started} /\ Touched' = {stmt'[d].row : d \in Started'}
  BY DEF Touched, Started
<1>4. QED
  BY <1>1, <1>2, <1>3

\* Files a step adds to the manifest, and nothing else it does to it.
Entered(new) ==
    /\ DOMAIN files' = DOMAIN files \cup new
    /\ \A b \in DOMAIN files \ new : files'[b] = files[b]
    /\ \A b \in new :
          /\ FileShape(files'[b])
          /\ files'[b].valid_from = snapshot_version + 1 /\ files'[b].deleted_at = 0
    /\ snapshot_version' = snapshot_version + 1

\* What the record changes: bitmaps of the statement, and new files of its own.
LEMMA TakesEffect ==
    ASSUME NEW d \in DvIds, Takes(d)
    PROVE  /\ \E new \in SUBSET (DOMAIN stmt[d].N \ DOMAIN files) : Entered(new)
           /\ DOMAIN deletions' \subseteq DOMAIN deletions \cup ({d} \X DOMAIN stmt[d].D)
<1> DEFINE D == stmt[d].D
           N == stmt[d].N
           fresh == FreshDeletions(d, D)
<1>1. fresh \subseteq {d} \X DOMAIN D
  BY DEF FreshDeletions
<1>2. DOMAIN NewDeletions(T, fresh, D) = fresh
  BY DEF NewDeletions
<1>3. deletions' = Over(NewDeletions(T, fresh, D), deletions)
      /\ snapshot_version' = snapshot_version + 1
  BY DEF Takes, ApplyUpdate, ApplyDeletions, NextSnapshot
<1>4. \/ files' = files
      \/ files' = Over([b \in DOMAIN N \ DOMAIN files |->
                           NewFile(T, N[b].shard, N[b].rows)], files)
  BY DEF Takes, ApplyUpdate, ApplyDeletions
<1> HIDE DEF D, N, fresh
<1>5. DOMAIN deletions' \subseteq DOMAIN deletions \cup ({d} \X DOMAIN D)
  BY <1>1, <1>2, <1>3 DEF Over
<1>6. \E new \in SUBSET (DOMAIN N \ DOMAIN files) : Entered(new)
  <2>1. CASE files' = files
    <3>1. Entered({})
      BY <1>3, <2>1 DEF Entered
    <3>2. QED
      BY <3>1
  <2>2. CASE files' # files
    <3> DEFINE new == DOMAIN N \ DOMAIN files
    <3>1. files' = Over([b \in new |-> NewFile(T, N[b].shard, N[b].rows)], files)
      BY <1>4, <2>2
    <3>2. DOMAIN files' = DOMAIN files \cup new
      BY <3>1 DEF Over
    <3>3. \A b \in DOMAIN files \ new : files'[b] = files[b]
      BY <3>1 DEF Over
    <3>4. \A b \in new : files'[b] = NewFile(T, N[b].shard, N[b].rows)
      BY <3>1 DEF Over
    <3> HIDE DEF new
    <3>5. Entered(new)
      BY <1>3, <3>2, <3>3, <3>4 DEF Entered, NewFile, FileShape
    <3>6. QED
      BY <3>5 DEF new
  <2>3. QED
    BY <2>1, <2>2
<1>7. QED
  BY <1>5, <1>6 DEF D, N

LEMMA TakesStep ==
    ASSUME MInv, NEW d \in Started, Takes(d), StmtsKept, LogKept,
           UNCHANGED <<content, marks, worker>>
    PROVE  MInv'
<1>1. d \in DvIds
  BY DEF Started
<1>2. PICK new \in SUBSET (DOMAIN stmt[d].N \ DOMAIN files) : Entered(new)
  BY <1>1, TakesEffect
<1>3. DOMAIN deletions' \subseteq DOMAIN deletions \cup ({d} \X DOMAIN stmt[d].D)
  BY <1>1, TakesEffect
<1>4. Started' = Started /\ Touched' = Touched
  BY SameTouched
<1>5. \A n \in new : n \in DOMAIN content /\ \A row \in content[n] : row[1] = stmt[d].row
  BY DEF MInv, StmtsOK
<1>6. \A b \in DOMAIN files : b \notin new /\ files'[b] = files[b]
  BY <1>2 DEF Entered
<1>7. Shapes'
  BY <1>4, SameWorkers DEF MInv, Shapes, StmtsKept, LogKept, WorkersKept
<1>8. FilesOK'
  BY <1>2, <1>5, <1>6 DEF MInv, FilesOK, Entered
<1>9. MarksOK'
  <2>1. {d} \X DOMAIN stmt[d].D \subseteq DOMAIN marks
    BY DEF MInv, StmtsOK
  <2>2. \A e \in Started : stmt'[e].row = stmt[e].row
    BY DEF StmtsKept, Started
  <2>3. QED
    BY <1>3, <1>4, <2>1, <2>2 DEF MInv, MarksOK
<1>10. StmtsOK'
  BY <1>4 DEF MInv, StmtsOK, StmtsKept, Started
<1>11. MergesOK'
  BY <1>2, <1>4, MergesKept DEF ContentGrows, MergesCarried, Merging, Entered
<1>12. OutputsOK'
  <2> SUFFICES ASSUME NEW c \in Compactors, WorkerAt(c, "commit")
               PROVE  /\ worker[c].out \in DOMAIN content \ DOMAIN files'
                      /\ content[worker[c].out] = worker[c].merged
                      /\ \A e \in Started : worker[c].out \notin DOMAIN stmt'[e].N
                      /\ \A e \in Compactors \ {c} :
                            WorkerAt(e, "commit") => worker[e].out # worker[c].out
    BY <1>4 DEF OutputsOK, WorkerAt
  <2>1. /\ worker[c].out \in DOMAIN content \ DOMAIN files
        /\ content[worker[c].out] = worker[c].merged
        /\ \A e \in Started : worker[c].out \notin DOMAIN stmt[e].N
        /\ \A e \in Compactors \ {c} :
              WorkerAt(e, "commit") => worker[e].out # worker[c].out
    BY DEF MInv, OutputsOK
  <2>2. \A e \in Started : stmt'[e].N = stmt[e].N
    BY DEF StmtsKept, Started
  <2>3. worker[c].out \notin new
    BY <2>1
  <2>4. QED
    BY <1>2, <2>1, <2>2, <2>3 DEF Entered
<1>13. OneHome'
  <2> SUFFICES ASSUME NEW x \in RowKeys \ Touched
               PROVE  /\ (\E b \in DOMAIN content : <<x, 0>> \in content[b]) =>
                             \E b \in DOMAIN files' : Home(x, b)'
                      /\ \A b, e \in DOMAIN files' : Home(x, b)' /\ Home(x, e)' => b = e
    BY <1>4 DEF OneHome
  <2>1. \A b \in DOMAIN files : Home(x, b)' <=> Home(x, b)
    BY <1>6 DEF Home
  <2>2. stmt[d].row \in Touched
    BY DEF Touched, Started
  <2>3. \A b \in new : ~Home(x, b)'
    BY <1>5, <2>2 DEF Home
  <2>4. /\ (\E b \in DOMAIN content : <<x, 0>> \in content[b]) => \E b \in DOMAIN files : Home(x, b)
        /\ \A b, e \in DOMAIN files : Home(x, b) /\ Home(x, e) => b = e
    BY DEF MInv, OneHome
  <2>5. QED
    BY <1>2, <2>1, <2>3, <2>4 DEF Entered
<1>14. QED
  BY <1>7, <1>8, <1>9, <1>10, <1>11, <1>12, <1>13 DEF MInv

LEMMA ApplyStep ==
    ASSUME MInv, NEW d \in DvIds, Apply(d)
    PROVE  MInv'
<1>1. d \in Started /\ Takes(d) /\ stmt' = [stmt EXCEPT ![d].pc = "release"]
  BY DEF Apply, StmtAt, Goto, Started
<1>2. UNCHANGED <<content, marks, wal, replayed, worker>>
  BY DEF Apply, StmtOnly, serverVars, workerVars
<1>3. StmtsKept /\ LogKept
  BY <1>1, <1>2, StmtMoved, SameLog DEF MInv
<1>4. QED
  BY <1>1, <1>2, <1>3, TakesStep

LEMMA ReplayTakes ==
    ASSUME MInv, Replay, ~UNCHANGED catalogVars
    PROVE  MInv'
<1>1. /\ replayed < Len(wal) /\ Takes(wal[replayed + 1]) /\ replayed' = replayed + 1
      /\ UNCHANGED <<content, marks, stmt, wal, worker>>
  BY DEF Replay, ReplayStep, dmlVars, workerVars
<1>2. wal[replayed + 1] \in Started
  BY <1>1 DEF MInv, Shapes
<1>3. StmtsKept
  BY <1>1, SameStmts DEF MInv
<1>4. LogKept
  BY <1>1 DEF LogKept, MInv, Shapes
<1>5. QED
  BY <1>1, <1>2, <1>3, <1>4, TakesStep

-----------------------------------------------------------------------------
(* Compaction. *)

\* A bitmap hides no row but those its statement names.
LEMMA HiddenIsTouched ==
    ASSUME MInv, NEW b, NEW s
    PROVE  \A row \in Hidden(b, s) : row[1] \in Touched
<1> SUFFICES ASSUME NEW row \in Hidden(b, s)
             PROVE  row[1] \in Touched
  OBVIOUS
<1>1. PICK k \in ListDeletions(T, s) : row \in marks[k]
  BY DEF Hidden
<1>2. k \in DOMAIN marks
  BY <1>1 DEF ListDeletions, MInv, MarksOK
<1>3. k[1] \in Started /\ row[1] = stmt[k[1]].row
  BY <1>1, <1>2 DEF MInv, MarksOK
<1>4. QED
  BY <1>3 DEF Touched, Started

LEMMA WorkerRecord ==
    ASSUME MInv, NEW c \in Compactors, worker[c].pc # "idle"
    PROVE  worker[c] = [pc |-> worker[c].pc, snapshot |-> worker[c].snapshot,
                        task_epoch |-> worker[c].task_epoch, epoch |-> worker[c].epoch,
                        inputs |-> worker[c].inputs, consumed |-> worker[c].consumed,
                        merged |-> worker[c].merged, out |-> worker[c].out,
                        at |-> worker[c].at]
BY DEF MInv, Shapes, WorkerShape, Idle

\* What a worker reads, from however old a snapshot, holds every row of its
\* inputs no statement names.
LEMMA ReadStep ==
    ASSUME MInv, NEW c \in Compactors, ReadShard(c)
    PROVE  MInv'
<1>s. PICK s : s = worker[c].snapshot
  OBVIOUS
<1>F. PICK F : F = Reading(s)
  OBVIOUS
<1>w. PICK rows : rows = UNION {LiveRows(b, s) : b \in F}
  OBVIOUS
<1>u. PICK used : used = {b \in F : Hidden(b, s) # {}}
  OBVIOUS
<1>1. worker[c].pc = "read"
  BY Zenon DEF ReadShard, WorkerAt
<1>2. ManifestSame /\ UNCHANGED <<content, marks, stmt, wal, replayed>>
  <2>1. UNCHANGED catalogVars /\ WorkerOnly
    BY Zenon DEF ReadShard
  <2>2. QED
    BY <2>1, CatalogSame DEF WorkerOnly, dmlVars, serverVars
<1>3. StmtsKept /\ LogKept
  BY <1>2, SameStmts, SameLog DEF MInv
<1>4. \/ Become(c, "unlock")
      \/ worker' = [worker EXCEPT ![c].pc = "announce", ![c].inputs = F,
                                  ![c].merged = rows, ![c].consumed = used]
  <2>1. \/ Become(c, "unlock")
        \/ worker' = [worker EXCEPT
                          ![c].pc = "announce",
                          ![c].inputs = Reading(worker[c].snapshot),
                          ![c].merged = UNION {LiveRows(b, worker[c].snapshot) :
                                                   b \in Reading(worker[c].snapshot)},
                          ![c].consumed = {b \in Reading(worker[c].snapshot) :
                                              Hidden(b, worker[c].snapshot) # {}}]
    BY Zenon DEF ReadShard
  <2>2. /\ F = Reading(worker[c].snapshot)
        /\ rows = UNION {LiveRows(b, worker[c].snapshot) : b \in Reading(worker[c].snapshot)}
        /\ used = {b \in Reading(worker[c].snapshot) : Hidden(b, worker[c].snapshot) # {}}
    BY <1>s, <1>F, <1>w, <1>u
  <2>3. QED
    BY <2>1, <2>2, Zenon
<1>5. CASE Become(c, "unlock")
  <2>1. WorkersKept
    BY <1>1, <1>5, WorkerGoesOn DEF MInv
  <2>2. QED
    BY <1>2, <1>3, <2>1, QuietStep DEF ManifestSame
<1>6. CASE ~Become(c, "unlock")
  <2>1. worker' = [worker EXCEPT ![c].pc = "announce", ![c].inputs = F,
                                 ![c].merged = rows, ![c].consumed = used]
    BY <1>4, <1>6
  <2>2. /\ worker'[c].pc = "announce" /\ worker'[c].inputs = F /\ worker'[c].merged = rows
        /\ WorkerShape(worker'[c])
        /\ DOMAIN worker' = Compactors /\ \A e \in Compactors \ {c} : worker'[e] = worker[e]
    <3> DEFINE z == worker[c]
    <3>1. z = [pc |-> z.pc, snapshot |-> z.snapshot, task_epoch |-> z.task_epoch,
               epoch |-> z.epoch, inputs |-> z.inputs, consumed |-> z.consumed,
               merged |-> z.merged, out |-> z.out, at |-> z.at]
      BY <1>1, WorkerRecord
    <3>2. /\ worker'[c] = [[[[z EXCEPT !.pc = "announce"] EXCEPT !.inputs = F]
                               EXCEPT !.merged = rows] EXCEPT !.consumed = used]
          /\ DOMAIN worker' = Compactors /\ \A e \in Compactors \ {c} : worker'[e] = worker[e]
      BY <2>1 DEF MInv, Shapes
    <3> HIDE DEF z
    <3>3. worker'[c] = [pc |-> "announce", snapshot |-> z.snapshot,
                        task_epoch |-> z.task_epoch, epoch |-> z.epoch, inputs |-> F,
                        consumed |-> used, merged |-> rows, out |-> z.out, at |-> z.at]
      BY <3>1, <3>2
    <3>4. QED
      BY <3>2, <3>3 DEF WorkerShape
  <2>3. Started' = Started /\ Touched' = Touched
    BY <1>3, SameTouched
  <2>4. Shapes'
    BY <1>2, <2>2, <2>3 DEF MInv, Shapes
  <2>5. FilesOK' /\ MarksOK' /\ StmtsOK' /\ OneHome'
    BY <1>2, <2>3 DEF MInv, FilesOK, MarksOK, StmtsOK, OneHome, Home, ManifestSame
  <2>6. MergesOK'
    <3>1. F \subseteq DOMAIN files
      BY <1>F DEF Reading, VisibleFiles
    <3>2. \A row \in rows : \E b \in F : row \in content[b]
      BY <1>w DEF LiveRows
    <3>3. ASSUME NEW r \in RowKeys \ Touched, NEW b \in F, <<r, 0>> \in content[b]
          PROVE  <<r, 0>> \in rows
      <4>1. <<r, 0>> \notin Hidden(b, s)
        BY HiddenIsTouched
      <4>2. <<r, 0>> \in LiveRows(b, s)
        BY <3>3, <4>1 DEF LiveRows
      <4>3. QED
        BY <1>w, <4>2
    <3> SUFFICES ASSUME NEW e \in Compactors, Merging(e)'
                 PROVE  /\ worker'[e].inputs \subseteq DOMAIN files
                        /\ \A row \in worker'[e].merged :
                              \E b \in worker'[e].inputs : row \in content[b]
                        /\ \A r \in RowKeys \ Touched : \A b \in worker'[e].inputs :
                              <<r, 0>> \in content[b] => <<r, 0>> \in worker'[e].merged
      BY <1>2, <2>3 DEF MergesOK, ManifestSame
    <3>4. CASE e = c
      BY <2>2, <3>1, <3>2, <3>3, <3>4
    <3>5. CASE e # c
      BY <2>2, <3>5 DEF MInv, MergesOK, Merging
    <3>6. QED
      BY <3>4, <3>5
  <2>7. OutputsOK'
    BY <1>2, <2>2, <2>3 DEF MInv, OutputsOK, WorkerAt, ManifestSame
  <2>8. QED
    BY <2>4, <2>5, <2>6, <2>7 DEF MInv
<1>7. QED
  BY <1>5, <1>6

LEMMA AnnounceStep ==
    ASSUME MInv, NEW c \in Compactors, Announce(c)
    PROVE  MInv'
<1>n. PICK n : n = NextBatch
  OBVIOUS
<1>1. worker[c].pc = "announce" /\ n \notin DOMAIN content
  BY <1>n DEF Announce, WorkerAt, NextBatch, Fresh
<1>2. ManifestSame /\ UNCHANGED <<marks, stmt, wal, replayed>>
  BY DEF Announce, RecordInFlight, dataVars, counters, dmlVars, serverVars, ManifestSame
<1>3. /\ content' = Over(Entry(n, worker[c].merged), content)
      /\ worker' = [worker EXCEPT ![c].pc = "commit", ![c].out = n]
  BY <1>n DEF Announce
<1>4. /\ DOMAIN content' = DOMAIN content \cup {n} /\ content'[n] = worker[c].merged
      /\ \A b \in DOMAIN content : content'[b] = content[b]
  BY <1>1, <1>3 DEF Over, Entry
<1>5. /\ worker'[c].pc = "commit" /\ worker'[c].out = n
      /\ worker'[c].inputs = worker[c].inputs /\ worker'[c].merged = worker[c].merged
      /\ WorkerShape(worker'[c])
      /\ DOMAIN worker' = Compactors /\ \A e \in Compactors \ {c} : worker'[e] = worker[e]
  <2> DEFINE z == worker[c]
  <2>1. z = [pc |-> z.pc, snapshot |-> z.snapshot, task_epoch |-> z.task_epoch,
             epoch |-> z.epoch, inputs |-> z.inputs, consumed |-> z.consumed,
             merged |-> z.merged, out |-> z.out, at |-> z.at]
    BY <1>1, WorkerRecord
  <2>2. /\ worker'[c] = [[z EXCEPT !.pc = "commit"] EXCEPT !.out = n]
        /\ DOMAIN worker' = Compactors /\ \A e \in Compactors \ {c} : worker'[e] = worker[e]
    BY <1>3 DEF MInv, Shapes
  <2>3. z.inputs = worker[c].inputs /\ z.merged = worker[c].merged
    OBVIOUS
  <2> HIDE DEF z
  <2>4. worker'[c] = [pc |-> "commit", snapshot |-> z.snapshot, task_epoch |-> z.task_epoch,
                      epoch |-> z.epoch, inputs |-> z.inputs, consumed |-> z.consumed,
                      merged |-> z.merged, out |-> n, at |-> z.at]
    BY <2>1, <2>2
  <2>5. QED
    BY <2>2, <2>3, <2>4 DEF WorkerShape
<1>6. ContentGrows
  BY <1>4 DEF ContentGrows
<1>7. Started' = Started /\ Touched' = Touched /\ StmtsOK'
  BY <1>2, <1>6, StatementsStand
<1>8. Shapes'
  BY <1>2, <1>5, <1>7 DEF MInv, Shapes
<1>9. /\ worker[c].inputs \subseteq DOMAIN files
      /\ \A row \in worker[c].merged : \E b \in worker[c].inputs : row \in content[b]
  BY <1>1 DEF MInv, MergesOK, Merging
<1>10. FilesOK'
  <2>1. worker[c].merged \subseteq Rows
    BY <1>9 DEF MInv, FilesOK
  <2>2. QED
    BY <1>2, <1>4, <2>1 DEF MInv, FilesOK, ManifestSame
<1>11. MarksOK'
  BY <1>2, <1>7 DEF MInv, MarksOK, ManifestSame
<1>12. MergesOK'
  <2>1. MergesCarried
    BY <1>1, <1>5 DEF MergesCarried, Merging
  <2>2. QED
    BY <1>2, <1>6, <1>7, <2>1, MergesKept DEF ManifestSame
<1>13. OutputsOK'
  <2> SUFFICES ASSUME NEW e \in Compactors, worker'[e].pc = "commit"
               PROVE  /\ worker'[e].out \in DOMAIN content' \ DOMAIN files
                      /\ content'[worker'[e].out] = worker'[e].merged
                      /\ \A d \in Started : worker'[e].out \notin DOMAIN stmt[d].N
                      /\ \A x \in Compactors \ {e} :
                            worker'[x].pc = "commit" => worker'[x].out # worker'[e].out
    BY <1>2, <1>7 DEF OutputsOK, WorkerAt, ManifestSame
  <2>1. \A x \in Compactors \ {c} : worker'[x].pc = "commit" =>
            /\ worker'[x] = worker[x]
            /\ worker[x].out \in DOMAIN content \ DOMAIN files
            /\ worker[x].out # n
    BY <1>1, <1>5 DEF MInv, OutputsOK, WorkerAt
  <2>2. CASE e = c
    <3>1. n \notin DOMAIN files
      BY <1>1 DEF MInv, FilesOK
    <3>2. \A d \in Started : n \notin DOMAIN stmt[d].N
      BY <1>1 DEF MInv, StmtsOK
    <3>3. QED
      BY <1>4, <1>5, <2>1, <2>2, <3>1, <3>2
  <2>3. CASE e # c
    BY <1>4, <1>5, <2>1, <2>3 DEF MInv, OutputsOK, WorkerAt
  <2>4. QED
    BY <2>2, <2>3
<1>14. OneHome'
  <2> SUFFICES ASSUME NEW r \in RowKeys \ Touched
               PROVE  /\ (\E b \in DOMAIN content' : <<r, 0>> \in content'[b]) =>
                             \E b \in DOMAIN files : Home(r, b)'
                      /\ \A b, e \in DOMAIN files : Home(r, b)' /\ Home(r, e)' => b = e
    BY <1>2, <1>7 DEF OneHome, ManifestSame
  <2>1. \A b \in DOMAIN files : Home(r, b)' <=> Home(r, b)
    BY <1>2, <1>4 DEF Home, MInv, FilesOK, ManifestSame
  <2>2. <<r, 0>> \in content'[n] => \E b \in DOMAIN content : <<r, 0>> \in content[b]
    BY <1>4, <1>9 DEF MInv, FilesOK
  <2>3. /\ (\E b \in DOMAIN content : <<r, 0>> \in content[b]) => \E b \in DOMAIN files : Home(r, b)
        /\ \A b, e \in DOMAIN files : Home(r, b) /\ Home(r, e) => b = e
    BY DEF MInv, OneHome
  <2>4. QED
    BY <1>4, <2>1, <2>2, <2>3
<1>15. QED
  BY <1>7, <1>8, <1>10, <1>11, <1>12, <1>13, <1>14 DEF MInv

\* A merge takes the place of its inputs, all of them still live.
LEMMA CommitStep ==
    ASSUME MInv, NEW c \in Compactors, Commit(c)
    PROVE  MInv'
<1>n. PICK n : n = worker[c].out
  OBVIOUS
<1>O. PICK O : O = worker[c].inputs
  OBVIOUS
<1>f. PICK f : f = NewFile(T, S0, Cardinality(worker[c].merged))
  OBVIOUS
<1>1. worker[c].pc = "commit" /\ worker[c].pc # "idle"
  BY Zenon DEF Commit, WorkerAt
<1>2. /\ O \subseteq DOMAIN files
      /\ \A row \in worker[c].merged : \E b \in O : row \in content[b]
      /\ \A r \in RowKeys \ Touched : \A b \in O :
            <<r, 0>> \in content[b] => <<r, 0>> \in worker[c].merged
  BY <1>O, <1>1 DEF MInv, MergesOK, Merging
<1>3. n \in DOMAIN content \ DOMAIN files /\ content[n] = worker[c].merged
  BY <1>n, <1>1 DEF MInv, OutputsOK, WorkerAt
<1>4. /\ CommitCompaction(O, n, T, S0, Cardinality(worker[c].merged),
                          worker[c].task_epoch, FencePurpose)
      /\ worker' = [worker EXCEPT ![c].pc = "revoke", ![c].at = snapshot_version + 1]
      /\ UNCHANGED <<content, marks, stmt, wal, replayed>>
  BY <1>n, <1>O DEF Commit, WorkerOnly, dmlVars, serverVars
<1>5. /\ \A b \in O : files[b].deleted_at = 0
      /\ files' = Over(Entry(n, f), Over(Retired(O), files))
      /\ deletions' = deletions
      /\ snapshot_version' = snapshot_version + 1
  <2>1. InputsLeft(O) = O
    BY <1>2 DEF InputsLeft
  <2>2. QED
    BY <1>2, <1>4, <1>f, <2>1 DEF CommitCompaction, CompactionAccepted, AnchorAlive, NextSnapshot
<1>6. f.deleted_at = 0 /\ f.valid_from = snapshot_version + 1 /\ FileShape(f)
  BY <1>f DEF NewFile, FileShape
<1>7. /\ DOMAIN files' = DOMAIN files \cup {n} /\ files'[n] = f
      /\ \A b \in DOMAIN files \ O : files'[b] = files[b]
      /\ \A b \in O : files'[b] = [files[b] EXCEPT !.deleted_at = snapshot_version + 1]
  <2>1. /\ DOMAIN Retired(O) = O
        /\ \A b \in O : Retired(O)[b] = [files[b] EXCEPT !.deleted_at = snapshot_version + 1]
    BY DEF Retired
  <2> DEFINE g == Over(Retired(O), files)
  <2>2. /\ DOMAIN g = DOMAIN files
        /\ \A b \in DOMAIN files \ O : g[b] = files[b]
        /\ \A b \in O : g[b] = [files[b] EXCEPT !.deleted_at = snapshot_version + 1]
    BY <1>2, <2>1 DEF Over
  <2>3. files' = Over(Entry(n, f), g)
    BY <1>5
  <2> HIDE DEF g
  <2>4. DOMAIN files' = DOMAIN files \cup {n} /\ files'[n] = f
    BY <2>2, <2>3 DEF Over, Entry
  <2>5. \A b \in DOMAIN files : files'[b] = g[b]
    BY <1>3, <2>2, <2>3 DEF Over, Entry
  <2>6. QED
    BY <1>2, <2>2, <2>4, <2>5
<1>8. \A b \in O : /\ FileShape(files'[b])
                   /\ files'[b].valid_from = files[b].valid_from
                   /\ files'[b].deleted_at = snapshot_version + 1
  <2> SUFFICES ASSUME NEW b \in O
               PROVE  /\ FileShape(files'[b])
                      /\ files'[b].valid_from = files[b].valid_from
                      /\ files'[b].deleted_at = snapshot_version + 1
    OBVIOUS
  <2> DEFINE x == files[b]
  <2>1. x = [table |-> T, shard |-> x.shard, rows |-> x.rows,
             valid_from |-> x.valid_from, deleted_at |-> x.deleted_at]
    BY <1>2 DEF MInv, FilesOK, FileShape
  <2>2. files'[b] = [x EXCEPT !.deleted_at = snapshot_version + 1]
    BY <1>7
  <2> HIDE DEF x
  <2>3. files'[b] = [table |-> T, shard |-> x.shard, rows |-> x.rows,
                     valid_from |-> x.valid_from, deleted_at |-> snapshot_version + 1]
    BY <2>1, <2>2
  <2>4. QED
    BY <2>3 DEF x, FileShape
<1>9. WorkersKept
  BY <1>1, <1>4, WorkerPlaced DEF MInv
<1>10. worker'[c].pc = "revoke"
  <2> DEFINE z == worker[c]
  <2>1. z = [pc |-> z.pc, snapshot |-> z.snapshot, task_epoch |-> z.task_epoch,
             epoch |-> z.epoch, inputs |-> z.inputs, consumed |-> z.consumed,
             merged |-> z.merged, out |-> z.out, at |-> z.at]
    BY <1>1, WorkerRecord
  <2>2. worker'[c] = [[z EXCEPT !.pc = "revoke"] EXCEPT !.at = snapshot_version + 1]
    BY <1>4 DEF MInv, Shapes
  <2> HIDE DEF z
  <2>3. QED
    BY <2>1, <2>2
<1>11. ContentGrows
  BY <1>4 DEF ContentGrows
<1>12. Started' = Started /\ Touched' = Touched /\ StmtsOK'
  BY <1>4, <1>11, StatementsStand
<1>13. Shapes'
  BY <1>4, <1>9, <1>12 DEF MInv, Shapes, WorkersKept
<1>14. FilesOK'
  <2>1. /\ snapshot_version \in Nat
        /\ DOMAIN files \subseteq DOMAIN content
        /\ \A b \in DOMAIN content : content[b] \subseteq Rows
        /\ \A b \in DOMAIN files :
              /\ FileShape(files[b])
              /\ files[b].valid_from \in 0..snapshot_version
              /\ files[b].deleted_at \in 0..snapshot_version
    BY DEF MInv, FilesOK
  <2>2. ASSUME NEW b \in DOMAIN files'
        PROVE  /\ FileShape(files'[b])
               /\ files'[b].valid_from \in 0..snapshot_version + 1
               /\ files'[b].deleted_at \in 0..snapshot_version + 1
    <3>1. CASE b = n
      BY <1>6, <1>7, <2>1, <3>1
    <3>2. CASE b \in O
      BY <1>2, <1>8, <2>1, <3>2
    <3>3. CASE b # n /\ b \notin O
      BY <1>7, <2>1, <3>3
    <3>4. QED
      BY <3>1, <3>2, <3>3
  <2>3. QED
    BY <1>3, <1>4, <1>5, <1>7, <2>1, <2>2 DEF FilesOK
<1>15. MarksOK'
  BY <1>4, <1>5, <1>12 DEF MInv, MarksOK
<1>16. MergesOK'
  <2>1. MergesCarried
    BY <1>9 DEF WorkersKept, MergesCarried, Merging
  <2>2. QED
    BY <1>7, <1>11, <1>12, <2>1, MergesKept
<1>17. OutputsOK'
  <2> SUFFICES ASSUME NEW e \in Compactors, worker'[e].pc = "commit"
               PROVE  /\ worker'[e].out \in DOMAIN content \ DOMAIN files'
                      /\ content[worker'[e].out] = worker'[e].merged
                      /\ \A d \in Started : worker'[e].out \notin DOMAIN stmt[d].N
                      /\ \A x \in Compactors \ {e} :
                            worker'[x].pc = "commit" => worker'[x].out # worker'[e].out
    BY <1>4, <1>12 DEF OutputsOK, WorkerAt
  <2>1. \A x \in Compactors : worker'[x].pc = "commit" =>
            /\ x # c /\ worker[x].pc = "commit"
            /\ worker'[x].merged = worker[x].merged /\ worker'[x].out = worker[x].out
    BY <1>9, <1>10 DEF WorkersKept
  <2>2. worker[e].out # n
    BY <1>n, <1>1, <2>1 DEF MInv, OutputsOK, WorkerAt
  <2>3. QED
    BY <1>7, <2>1, <2>2 DEF MInv, OutputsOK, WorkerAt
<1>18. OneHome'
  <2> SUFFICES ASSUME NEW r \in RowKeys \ Touched
               PROVE  /\ (\E b \in DOMAIN content : <<r, 0>> \in content[b]) =>
                             \E b \in DOMAIN files' : Home(r, b)'
                      /\ \A b, e \in DOMAIN files' : Home(r, b)' /\ Home(r, e)' => b = e
    BY <1>4, <1>12 DEF OneHome
  <2>1. \A b \in DOMAIN files \ O : Home(r, b)' <=> Home(r, b)
    BY <1>4, <1>7 DEF Home
  <2>2. \A b \in O : ~Home(r, b)'
    <3>1. snapshot_version + 1 # 0
      BY DEF MInv, FilesOK
    <3>2. QED
      BY <1>8, <3>1 DEF Home
  <2>3. Home(r, n)' <=> <<r, 0>> \in worker[c].merged
    BY <1>3, <1>4, <1>6, <1>7 DEF Home
  <2>4. \A b \in O : Home(r, b) <=> <<r, 0>> \in content[b]
    BY <1>5 DEF Home
  <2>5. <<r, 0>> \in worker[c].merged <=> \E b \in O : Home(r, b)
    BY <1>2, <2>4
  <2>6. /\ (\E b \in DOMAIN content : <<r, 0>> \in content[b]) => \E b \in DOMAIN files : Home(r, b)
        /\ \A b, e \in DOMAIN files : Home(r, b) /\ Home(r, e) => b = e
    BY DEF MInv, OneHome
  <2>7. QED
    BY <1>2, <1>7, <2>1, <2>2, <2>3, <2>5, <2>6
<1>19. QED
  BY <1>12, <1>13, <1>14, <1>15, <1>16, <1>17, <1>18 DEF MInv

-----------------------------------------------------------------------------

LEMMA StepMInv == MInv /\ [Next]_vars => MInv'
<1>1. ASSUME MInv, Next PROVE MInv'
  <2>1. CASE \E R \in SUBSET RowKeys : Flush(R)
    BY <1>1, <2>1, FlushStep
  <2>2. ASSUME NEW d \in DvIds, StatementStep(d) PROVE MInv'
    <3>1. CASE \E r \in RowKeys : Begin(d, r)
      BY <1>1, <3>1, BeginStep
    <3>2. CASE Locate(d)
      BY <1>1, <3>2, LocateStep
    <3>3. CASE Apply(d)
      BY <1>1, <3>3, ApplyStep
    <3>4. QED
      BY <1>1, <2>2, <3>1, <3>2, <3>3, QuietStatement DEF StatementStep
  <2>3. CASE Restart \/ Serve \/ Tick \/ Replay
    BY <1>1, <2>3, QuietServer, ReplayTakes
  <2>4. ASSUME NEW c \in Compactors, CompactorStep(c) \/ CompactorCrash(c) PROVE MInv'
    <3>1. CASE ReadShard(c)
      BY <1>1, <3>1, ReadStep
    <3>2. CASE Announce(c)
      BY <1>1, <3>2, AnnounceStep
    <3>3. CASE Commit(c)
      BY <1>1, <3>3, CommitStep
    <3>4. QED
      BY <1>1, <2>4, <3>1, <3>2, <3>3, QuietCompactor DEF CompactorStep
  <2>5. QED
    BY <1>1, <2>1, <2>2, <2>3, <2>4 DEF Next
<1>2. ASSUME MInv, UNCHANGED vars PROVE MInv'
  <2>1. /\ UNCHANGED <<content, marks, stmt, wal, replayed, worker>>
        /\ UNCHANGED catalogVars
    BY <1>2 DEF vars, dmlVars, serverVars, workerVars
  <2>2. ManifestSame
    BY <2>1, CatalogSame
  <2>3. StmtsKept /\ WorkersKept /\ LogKept
    BY <1>2, <2>1, SameStmts, SameWorkers, SameLog DEF MInv
  <2>4. QED
    BY <1>2, <2>1, <2>2, <2>3, QuietStep DEF ManifestSame
<1>3. QED
  BY <1>1, <1>2

\* A reader finds an untouched row in its home and nowhere else: every live
\* file is visible, every visible file is live, and no bitmap hides the row.
LEMMA HomeIsRead == MInv => UntouchedRowsOnce
<1> SUFFICES ASSUME MInv, NEW r \in RowKeys \ (NeverWritten \cup Touched)
             PROVE  Copies(<<r, 0>>, snapshot_version) = 1
  BY Zenon DEF UntouchedRowsOnce
<1>1. PICK b \in DOMAIN files : Home(r, b)
  BY DEF NeverWritten, MInv, OneHome
<1>2. \A e \in DOMAIN files : Home(r, e) => e = b
  BY <1>1 DEF MInv, OneHome
<1>3. \A e \in Reading(snapshot_version) : e \in DOMAIN files /\ files[e].deleted_at = 0
  BY DEF Reading, VisibleFiles, VisibleAt, ProtectsAt, MInv, FilesOK
<1>4. \A e \in Reading(snapshot_version) : <<r, 0>> \in LiveRows(e, snapshot_version) => e = b
  BY <1>2, <1>3 DEF LiveRows, Home
<1>5. b \in Reading(snapshot_version)
  <2>1. /\ files[b].table = T /\ files[b].deleted_at = 0
        /\ files[b].valid_from \in 0..snapshot_version
    BY <1>1 DEF Home, MInv, FilesOK, FileShape
  <2>2. QED
    BY <2>1 DEF Reading, VisibleFiles, VisibleAt, ProtectsAt, MInv, FilesOK
<1>6. <<r, 0>> \in LiveRows(b, snapshot_version)
  BY <1>1, HiddenIsTouched DEF LiveRows, Home
<1>7. {e \in Reading(snapshot_version) : <<r, 0>> \in LiveRows(e, snapshot_version)} = {b}
  BY <1>4, <1>5, <1>6
<1>8. QED
  BY <1>7, FS_Singleton DEF Copies

\* A row no DELETE or UPDATE has named is read exactly once, whatever merges,
\* statements, expired leases, crashes and replays happen around it: the merge
\* of compaction/src/lib.rs is refused by catalog/src/state.rs unless every
\* one of its inputs is still live, and what it writes is what they held.
THEOREM UntouchedRowsHold == Spec => []UntouchedRowsOnce
<1>1. MInv => UntouchedRowsOnce
  BY HomeIsRead
<1>2. QED
  BY <1>1, InitMInv, StepMInv, PTL DEF Spec

=============================================================================
