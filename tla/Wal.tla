-------------------------------- MODULE Wal --------------------------------
(***************************************************************************)
(* The write-ahead log of one data node and its archive: the segment files *)
(* with their group commit, rotation, repair and recovery (crates/wal),    *)
(* and the copies the archiver keeps on shared storage, from which a start *)
(* on an empty disk takes them back (ingest/src/wal_archive.rs).           *)
(*                                                                         *)
(* A file is a sequence of pieces, a piece being a record or the torn      *)
(* beginning of one.  A record carries no number of its own: its position  *)
(* in the file and the number in the file's header give it.  Everything    *)
(* the properties are about comes from there.                              *)
(***************************************************************************)
EXTENDS Naturals, FiniteSets, Sequences, SequencesExt

CONSTANTS
  NumRecs,       \* records submitted, in this order: a bound
  Size,          \* bytes of each record, header and payload
  Durable,       \* records of tables whose durability asks for the archive
  SegmentSize,   \* segment_max_size
  MaxBatch,      \* group_commit_max_batch
  MaxSegments,   \* bound on rotations
  MaxCrashes,    \* bound on crashes, losses of the disk included
  MaxFaults      \* bound on input and output errors

Rec == 1..NumRecs
Seg == 1..MaxSegments

ASSUME WalAssumption ==
  /\ NumRecs \in Nat /\ MaxBatch \in Nat \ {0} /\ MaxSegments \in Nat \ {0}
  /\ SegmentSize \in Nat /\ MaxCrashes \in Nat /\ MaxFaults \in Nat
  /\ Size \in [Rec -> Nat \ {0}] /\ Durable \subseteq Rec

VARIABLES
  files,      \* segment -> [head, first, body, safe]: the local directory
  current,    \* the segment CURRENT names, 0 when there is none
  archive,    \* segment -> [first, body] on shared storage
  uploaded,   \* the archiver's memory: segment -> bytes, 0 for none
  mode,       \* "up", "down", or "refused" when the log cannot be opened
  pc,         \* where the commit thread is
  batch,      \* the records it is committing
  cur,        \* seg_seq of the segment it appends to
  next_seq,   \* its next number
  synced,     \* synced_seq, the watermark: 0 with and without record 0
  opened,     \* next_seq when the log was opened
  submitted,  \* records taken from the queue so far
  acked,      \* history: [rec, seq] the callers were given
  harmed,     \* history: what went wrong that this log does not recover from
  crashes, faults

disk == <<files, current>>
archived == <<archive, uploaded>>
thread == <<pc, batch, cur, next_seq, synced>>
vars == <<disk, archived, mode, thread, opened, submitted, acked, harmed,
          crashes, faults>>

-----------------------------------------------------------------------------
(* Segment files *)

Complete(p) == p.len = Size[p.rec]
Whole(recs) == [i \in DOMAIN recs |-> [rec |-> recs[i], len |-> Size[recs[i]]]]

\* Bytes of a file after its header: each is the b-th of some piece.
Bytes(body) == Cardinality(UNION {{i} \X (1..body[i].len) : i \in DOMAIN body})

\* decode_with_stop: how many records can be read, up to the first torn one.
Readable(f) ==
  Max({k \in 0..Len(f.body) : \A i \in 1..k : Complete(f.body[i])})

Decode(f) ==
  [i \in 1..Readable(f) |-> [rec |-> f.body[i].rec, seq |-> f.first + i - 1]]

\* list_segments, load_segment: the records in the order they are read.
Places == UNION {{n} \X DOMAIN Decode(files[n]) : n \in DOMAIN files}
At(p) == Decode(files[p[1]])[p[2]]
Before(p, q) == p[1] < q[1] \/ (p[1] = q[1] /\ p[2] < q[2])

\* scan_range: the records from a number on, read until one at or above the end.
Scan(from, to) ==
  {At(p) : p \in {x \in Places : At(x).seq >= from
                    /\ \A y \in Places : At(y).seq >= to => Before(x, y)}}

\* Slip: the torn tail stays where it is.
LeftTorn(f) == f

\* Slip: the tail is cut, what is synced stays as it was recorded.
CutOnly(f) == [f EXCEPT !.body = SubSeq(f.body, 1, Readable(f))]

\* repair_torn_tail: cut behind the last whole record, and synced.
Repaired(f) ==
  IF Readable(f) = Len(f.body) THEN f
  ELSE [f EXCEPT !.body = SubSeq(f.body, 1, Readable(f)), !.safe = Readable(f)]

NewSegment(first) == [head |-> TRUE, first |-> first, body |-> <<>>, safe |-> 0]
Headless == [head |-> FALSE, first |-> 0, body |-> <<>>, safe |-> 0]

With(f, n, x) == [m \in DOMAIN f \cup {n} |-> IF m = n THEN x ELSE f[m]]

\* recover(fast): the highest number that can be read, and the one after it;
\* of a log without records, 0 and the number its first segment begins with.
Recovered(fs) ==
  LET seqs == UNION {{e.seq : e \in Range(Decode(fs[n]))} : n \in DOMAIN fs}
  IN IF seqs # {} THEN [synced |-> Max(seqs), next |-> Max(seqs) + 1]
     ELSE [synced |-> 0, next |-> fs[Min(DOMAIN fs)].first]
-----------------------------------------------------------------------------
(* The commit thread *)

Init ==
  /\ files = [n \in {1} |-> NewSegment(0)] /\ current = 1
  /\ archive = << >> /\ uploaded = [n \in Seg |-> 0]
  /\ mode = "up" /\ pc = "idle" /\ batch = <<>>
  /\ cur = 1 /\ next_seq = 0 /\ synced = 0 /\ opened = 0
  /\ submitted = 0 /\ acked = {} /\ harmed = {}
  /\ crashes = 0 /\ faults = 0

\* should_rotate, by size; bytes_written counts the records written whole.
Full(recs) ==
  Bytes(SelectSeq(files[cur].body, Complete)) + Bytes(Whole(recs)) > SegmentSize

\* The thread takes what the window and max_batch allow.  A segment that is
\* full, or old enough at any moment, is rotated before the batch is written.
Collect(k) ==
  LET recs == [i \in 1..k |-> submitted + i] IN
  /\ mode = "up" /\ pc = "idle" /\ submitted + k <= NumRecs
  /\ submitted' = submitted + k
  /\ batch' = recs
  /\ \/ ~Full(recs) /\ pc' = "write"
     \/ cur < MaxSegments /\ pc' = "create"
  /\ UNCHANGED <<disk, archived, mode, cur, next_seq, synced, opened, acked,
                 harmed, crashes, faults>>

\* fail_batch: every caller gets the error.
Refuse == pc' = "idle" /\ batch' = <<>>

Fault == faults < MaxFaults /\ faults' = faults + 1

\* rotate: the old segment is synced, the new file is created.  A file left
\* from an earlier attempt makes create_new fail.
RotateCreate ==
  /\ mode = "up" /\ pc = "create"
  /\ IF cur + 1 \in DOMAIN files
       THEN Refuse /\ files' = [files EXCEPT ![cur].safe = Len(files[cur].body)]
       ELSE /\ pc' = "header" /\ batch' = batch
            /\ files' = With([files EXCEPT ![cur].safe = Len(files[cur].body)],
                             cur + 1, Headless)
  /\ UNCHANGED <<current, archived, mode, cur, next_seq, synced, opened,
                 submitted, acked, harmed, crashes, faults>>

\* ... its header is written and synced, or that fails and the file stays.
RotateHeader ==
  /\ mode = "up" /\ pc = "header"
  /\ \/ /\ pc' = "switch"
        /\ files' = [files EXCEPT ![cur + 1] = NewSegment(next_seq)]
        /\ UNCHANGED <<batch, faults>>
     \/ Fault /\ Refuse /\ UNCHANGED files
  /\ UNCHANGED <<current, archived, mode, cur, next_seq, synced, opened,
                 submitted, acked, harmed, crashes>>

\* ... atomic_write_current names it, or fails before or after the rename.
RotateSwitch ==
  /\ mode = "up" /\ pc = "switch"
  /\ \/ /\ pc' = "write" /\ cur' = cur + 1 /\ current' = cur + 1
        /\ UNCHANGED <<batch, faults>>
     \/ Fault /\ Refuse /\ current' \in {current, cur + 1} /\ UNCHANGED cur
  /\ UNCHANGED <<files, archived, mode, next_seq, synced, opened, submitted,
                 acked, harmed, crashes>>

\* The beginning of recs that is written before an error: some whole records
\* and a piece of the next.
Partial(recs) ==
  {<<>>} \cup
  {Append(Whole(SubSeq(recs, 1, k - 1)), [rec |-> recs[k], len |-> n]) :
     k \in 1..Len(recs), n \in 1..Max({Size[recs[i]] : i \in DOMAIN recs})}

Torn(recs) ==
  {w \in Partial(recs) : \A i \in DOMAIN w : w[i].len <= Size[w[i].rec]}

Appended(w) == [files EXCEPT ![cur].body = @ \o w]

\* Slip: the watermark moves when the records are written, not when synced.
WriteAndAdvance ==
  /\ mode = "up" /\ pc = "write" /\ pc' = "sync"
  /\ files' = Appended(Whole(batch)) /\ synced' = next_seq + Len(batch) - 1
  /\ UNCHANGED <<current, archived, mode, batch, cur, next_seq, opened,
                 submitted, acked, harmed, crashes, faults>>

\* append_batch.  An error leaves the bytes written so far in the file; the
\* numbers are not used up and the thread goes on with the next batch.
Write ==
  /\ mode = "up" /\ pc = "write"
  /\ \/ /\ pc' = "sync" /\ files' = Appended(Whole(batch))
        /\ harmed' = harmed \cup (IF cur + 1 \in DOMAIN files THEN {"stray"} ELSE {})
        /\ UNCHANGED <<batch, faults>>
     \/ /\ Fault /\ Refuse
        /\ \E w \in Torn(batch) :
             /\ files' = Appended(w)
             /\ harmed' = harmed \cup (IF w # <<>> THEN {"write"} ELSE {})
  /\ UNCHANGED <<current, archived, mode, cur, next_seq, synced, opened,
                 submitted, acked, crashes>>

\* sync_all, and the watermark before any answer.  An error leaves the whole
\* batch in the file.
Sync ==
  /\ mode = "up" /\ pc = "sync"
  /\ \/ /\ pc' = "ack"
        /\ files' = [files EXCEPT ![cur].safe = Len(files[cur].body)]
        /\ next_seq' = next_seq + Len(batch)
        /\ synced' = next_seq + Len(batch) - 1
        /\ UNCHANGED <<batch, harmed, faults>>
     \/ /\ Fault /\ Refuse
        /\ harmed' = harmed \cup {"write"}
        /\ UNCHANGED <<files, next_seq, synced>>
  /\ UNCHANGED <<current, archived, mode, cur, opened, submitted, acked, crashes>>

\* Every caller learns its own number, counted from the first of the batch.
Answer ==
  /\ mode = "up" /\ pc = "ack" /\ pc' = "idle" /\ batch' = <<>>
  /\ acked' = acked \cup {[rec |-> batch[i],
                           seq |-> next_seq - Len(batch) + i - 1] : i \in DOMAIN batch}
  /\ UNCHANGED <<disk, archived, mode, cur, next_seq, synced, opened, submitted,
                 harmed, crashes, faults>>
-----------------------------------------------------------------------------
(* The archiver *)

\* Slip: a segment is archived once, without a look at its length.
ArchiveOnce(n) ==
  LET f == files[n] IN
  /\ mode = "up" /\ n \in DOMAIN files /\ f.head /\ uploaded[n] = 0
  /\ Durable = Rec \/ \E i \in 1..Readable(f) : f.body[i].rec \in Durable
  /\ archive' = With(archive, n, [first |-> f.first, body |-> f.body])
  /\ uploaded' = [uploaded EXCEPT ![n] = Bytes(f.body) + 1]
  /\ UNCHANGED <<disk, mode, thread, opened, submitted, acked, harmed, crashes,
                 faults>>

\* archive_once, one segment: its bytes as they are, when their number
\* changed.  Unless all tables are archived, a segment with records of none of
\* the durable tables is passed over.
ArchiveSegment(n) ==
  LET f == files[n] IN
  /\ mode = "up" /\ n \in DOMAIN files /\ f.head
  /\ uploaded[n] # Bytes(f.body) + 1
  /\ Durable = Rec \/ \E i \in 1..Readable(f) : f.body[i].rec \in Durable
  /\ archive' = With(archive, n, [first |-> f.first, body |-> f.body])
  /\ uploaded' = [uploaded EXCEPT ![n] = Bytes(f.body) + 1]
  /\ UNCHANGED <<disk, mode, thread, opened, submitted, acked, harmed, crashes,
                 faults>>
-----------------------------------------------------------------------------
(* Crashes and starts *)

Stop ==
  /\ mode = "up" /\ crashes < MaxCrashes /\ crashes' = crashes + 1
  /\ mode' = "down"
  /\ pc' = "idle" /\ batch' = <<>> /\ uploaded' = [n \in Seg |-> 0]
  /\ UNCHANGED <<archive, cur, next_seq, synced, opened, submitted, harmed,
                 faults>>

\* The process ends; what it wrote is in the files, synced or not.
Kill == Stop /\ UNCHANGED <<disk, acked>>

\* What the machine may keep of a file: what was synced, and of the rest a
\* beginning that may end within a record.
Kept(f) ==
  {[f EXCEPT !.body = SubSeq(f.body, 1, k)] : k \in f.safe..Len(f.body)} \cup
  {[f EXCEPT !.body = Append(SubSeq(f.body, 1, k - 1),
                             [f.body[k] EXCEPT !.len = @ - 1])] :
     k \in {j \in (f.safe + 1)..Len(f.body) : f.body[j].len > 1}}

\* The machine stops; a file whose directory entry was not synced may be lost.
PowerLoss ==
  /\ Stop
  /\ \E lost \in SUBSET (cur + 1..MaxSegments \cap {n \in DOMAIN files : n > current}) :
       files' \in {g \in [DOMAIN files \ lost -> UNION {Kept(files[n]) : n \in DOMAIN files}] :
                     \A n \in DOMAIN g : g[n] \in Kept(files[n])}
  /\ UNCHANGED <<current, acked>>

\* The disk is gone.  What was acknowledged and not archived goes with it.
DiskLoss ==
  /\ Stop
  /\ files' = << >> /\ current' = 0
  /\ acked' = {a \in acked : \E n \in DOMAIN archive :
                 a \in Range(Decode(archive[n]))}

\* restore: an archived segment longer than the local file replaces it.
Replaced ==
  {n \in DOMAIN archive : n \in DOMAIN files /\ files[n].head =>
     Bytes(archive[n].body) > Bytes(files[n].body)}

Restored ==
  [n \in DOMAIN files \cup Replaced |->
     IF n \in Replaced
       THEN [head |-> TRUE, first |-> archive[n].first, body |-> archive[n].body,
             safe |-> 0]
       ELSE files[n]]

\* open_active_segment: CURRENT when its file is there, or the last one.
Active(fs) == IF current \in DOMAIN fs THEN current ELSE Max(DOMAIN fs)

\* open: torn tails repaired, numbers recovered, the active segment opened.
\* A file without a header makes the repair fail.
RepairAll(fs) == [n \in DOMAIN fs |-> Repaired(fs[n])]

OpenAt(fs, a, rec) ==
  /\ mode' = "up" /\ files' = fs /\ current' = current
  /\ cur' = a /\ synced' = rec.synced
  /\ next_seq' = Max({rec.next, fs[a].first + Len(fs[a].body)})
  /\ opened' = next_seq'

Open(found) ==
  /\ mode = "down"
  /\ IF \E n \in DOMAIN found : ~found[n].head
       THEN mode' = "refused" /\ files' = found
            /\ UNCHANGED <<current, cur, next_seq, synced, opened>>
     ELSE IF DOMAIN found = {}
       THEN /\ mode' = "up"
            /\ files' = [n \in {1} |-> NewSegment(0)] /\ current' = 1
            /\ cur' = 1 /\ next_seq' = 0 /\ synced' = 0 /\ opened' = 0
     ELSE \E fs \in {RepairAll(found)} : OpenAt(fs, Active(fs), Recovered(fs))
  /\ UNCHANGED <<archived, pc, batch, submitted, acked, crashes>>

Start ==
  /\ mode = "down"
  /\ \E fs \in {Restored} : Open(fs)
  /\ UNCHANGED <<harmed, faults>>

\* A restore that fails is reported, and the log is opened without it.
StartWithoutArchive ==
  /\ Fault /\ Open(files)
  /\ harmed' = harmed \cup (IF Replaced # {} THEN {"restore"} ELSE {})

CommitStep == RotateCreate \/ RotateHeader \/ RotateSwitch \/ Write \/ Sync \/ Answer

Next ==
  \/ \E k \in 1..MaxBatch : Collect(k)
  \/ RotateCreate
  \/ RotateHeader
  \/ RotateSwitch
  \/ Write
  \/ Sync
  \/ Answer
  \/ \E n \in Seg : ArchiveSegment(n)
  \/ Kill
  \/ PowerLoss
  \/ DiskLoss
  \/ Start
  \/ StartWithoutArchive

\* The threads run, the node is started again; nothing has to be submitted
\* or to fail.
Fairness ==
  /\ WF_vars(CommitStep)
  /\ WF_vars(Start)
  /\ WF_vars(\E n \in Seg : ArchiveSegment(n))

Spec == Init /\ [][Next]_vars /\ Fairness

-----------------------------------------------------------------------------
(* Properties *)

Piece == [rec : Rec, len : Nat \ {0}]
Number == 0..(2 * NumRecs)

TypeOK ==
  /\ DOMAIN files \subseteq Seg /\ DOMAIN archive \subseteq Seg
  /\ \A n \in DOMAIN files :
       /\ files[n].head \in BOOLEAN /\ files[n].first \in Number
       /\ files[n].body \in Seq(Piece)
       /\ files[n].safe \in 0..Len(files[n].body)
  /\ \A n \in DOMAIN archive :
       archive[n].first \in Number /\ archive[n].body \in Seq(Piece)
  /\ uploaded \in [Seg -> Nat] /\ current \in Seg \cup {0}
  /\ mode \in {"up", "down", "refused"}
  /\ pc \in {"idle", "create", "header", "switch", "write", "sync", "ack"}
  /\ batch \in Seq(Rec) /\ cur \in Seg /\ (mode = "up" => cur \in DOMAIN files)
  /\ next_seq \in Number /\ synced \in Number /\ opened \in Number
  /\ submitted \in 0..NumRecs /\ acked \subseteq [rec : Rec, seq : Number]
  /\ harmed \subseteq {"write", "stray", "restore"}
  /\ crashes \in 0..MaxCrashes /\ faults \in 0..MaxFaults

\* What the accumulator reads: from the beginning to the watermark
\* (ingest/src/pipeline.rs:535).
Visible == Scan(0, synced + 1)

\* A caller that was told a number finds its record there, and no other,
\* through group commits, rotations, crashes of the process and the machine,
\* and after the loss of the disk when the archive had it (writer.rs:9, wal_archive.rs:15).
AckedReadable ==
  mode = "up" => \A a \in acked : {e \in Visible : e.seq = a.seq} = {a}

\* The same, as long as no refused write left bytes behind, nothing was
\* written beside a segment left over from a rotation, and the log was never
\* opened without what a failed restore should have brought.
AckedReadableUnlessHarmed == harmed = {} => AckedReadable

\* What the accumulator reads below the watermark is synced: a crash of the
\* machine cannot take it back.  What an earlier process had left unsynced is
\* the exception, and so are record 0 (AccumulatorReadsSynced) and a log that
\* was harmed.
WatermarkHonest ==
  mode = "up" /\ harmed = {} => \A n \in DOMAIN files : \A i \in DOMAIN Decode(files[n]) :
    LET e == Decode(files[n])[i] IN
    e \in Visible /\ e.seq >= opened /\ e.seq > 0 => i <= files[n].safe

\* What the contract of scan_range promises (reader.rs:25, "only data that is
\* synced"), for every number of this process.
AccumulatorReadsSynced ==
  mode = "up" => \A n \in DOMAIN files : \A i \in DOMAIN Decode(files[n]) :
    LET e == Decode(files[n])[i] IN
    e \in Visible /\ e.seq >= opened => i <= files[n].safe

\* What was acknowledged and belongs to a durable table is on shared storage
\* in the end, unless the disk is lost before (the bound of wal_archive.rs:39).
Unarchived ==
  \E a \in acked : a.rec \in Durable
    /\ \A n \in DOMAIN archive : a \notin Range(Decode(archive[n]))

ArchiveCatchesUp == Unarchived ~> ~Unarchived \/ harmed # {} \/ mode = "refused"
=============================================================================
