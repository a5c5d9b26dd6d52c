---------------------------- MODULE IngestProofs ----------------------------
(***************************************************************************)
(* One node's write path, for any writes, batches, crashes and faults.     *)
(* First, a key is committed by one file at most, as long as the monitor   *)
(* removes no segment of the log (KeysCommitOnce).  Second, an answered    *)
(* write is in a file, or in the log where the next recovery finds it,     *)
(* under the same condition (AnsweredWritesAreKept).  Third, what is       *)
(* absorbed is read once (AbsorbedIsReadOnce).                             *)
(***************************************************************************)
EXTENDS Ingest, SequenceTheorems, FiniteSetTheorems, WellFoundedInduction, TLAPS

(* What is known of the log, the chunks and the flush under way. *)

Groups == {GroupOf[i] : i \in Items}

LogRecord ==
    [kind : {"data"}, item : Items]
    \cup [kind : {"pending"}, batch : Batches, group : Groups, lo : Nat, hi : Nat]
    \cup [kind : {"s3written", "committed", "abort"}, batch : Batches]

ChunkRecord ==
    [group : Groups, seqs : SUBSET Nat, state : {"open", "sealed", "flushed"},
     batch : Batches \cup {NoBatch}, at : Nat]

FlushRecord ==
    [pc : {"announce", "upload", "commit", "finish"}, batch : Batches, chunk : SUBSET Nat,
     lo : Nat, hi : Nat, rows : SUBSET Nat, at : Nat]

Shapes ==
    /\ wal \in Seq(LogRecord)
    /\ DOMAIN chunks \subseteq Nat
    /\ \A c \in DOMAIN chunks : chunks[c] \in ChunkRecord
    /\ flush = NoFlush \/ flush \in FlushRecord
    /\ snapshot_version \in Nat
    /\ DOMAIN files \subseteq Batches
    /\ todo \subseteq Batches

PendingAt(q, b) == q \in DOMAIN wal /\ wal[q].kind = "pending" /\ wal[q].batch = b

\* Past its upload.
Landed(b) ==
    \E q \in DOMAIN wal : wal[q].kind \in {"s3written", "committed"} /\ wal[q].batch = b

RowsBetween(lo, hi) == {p \in DOMAIN wal : wal[p].kind = "data" /\ lo <= p /\ p < hi}

\* Every Pending record of a batch names the same range of the same group ...
OneRange ==
    \A p, q \in DOMAIN wal :
        wal[p].kind = "pending" /\ wal[q].kind = "pending" /\ wal[p].batch = wal[q].batch =>
            wal[p].lo = wal[q].lo /\ wal[p].hi = wal[q].hi /\ wal[p].group = wal[q].group

\* ... and comes before whatever else the log says of the batch.
PendingFirst ==
    \A p, q \in DOMAIN wal :
        /\ wal[p].kind = "pending" /\ wal[q].kind \in {"s3written", "committed", "abort"}
        /\ wal[p].batch = wal[q].batch
        => p < q

ChunksHoldWrites ==
    \A c \in DOMAIN chunks :
        chunks[c].seqs # {} /\ \A p \in chunks[c].seqs : p \in DOMAIN wal /\ wal[p].kind = "data"

\* An object holds writes of the range of its batch.
ObjectsInRange ==
    \A b \in DOMAIN content :
        /\ \E q \in DOMAIN wal : PendingAt(q, b)
        /\ \A q \in DOMAIN wal : PendingAt(q, b) =>
               content[b] \subseteq RowsBetween(wal[q].lo, wal[q].hi)

LandedHasObject == \A b \in Batches : Landed(b) => b \in DOMAIN content
FilesLanded == \A b \in DOMAIN files : Landed(b)

FlushLogged ==
    flush # NoFlush =>
        /\ \E q \in DOMAIN wal :
               PendingAt(q, flush.batch) /\ wal[q].lo = flush.lo /\ wal[q].hi = flush.hi
        /\ flush.rows \subseteq RowsBetween(flush.lo, flush.hi)
        /\ flush.pc \in {"announce", "upload"} <=> ~Landed(flush.batch)

TodoLogged == \A b \in todo : \E q \in DOMAIN wal : PendingAt(q, b)

\* The key of a row in a file names the file.
KeysNameFiles ==
    \A b \in DOMAIN files : \A p \in content[b] :
        KeyOf[ItemAt(p)] # NoKey =>
            /\ KeyOf[ItemAt(p)] \in DOMAIN idempotency
            /\ idempotency[KeyOf[ItemAt(p)]].batch = b

Body ==
    /\ OneRange /\ PendingFirst
    /\ ChunksHoldWrites /\ ObjectsInRange
    /\ LandedHasObject /\ FilesLanded
    /\ FlushLogged /\ TodoLogged
    /\ KeysNameFiles

\* All of it as long as no segment has been removed.
KInv ==
    /\ gone # {} => "segment" \in trouble
    /\ gone = {} => Shapes /\ Body

(* Least and greatest numbers. *)

\* A set of numbers that is not empty has a least one.
LEMMA LeastNumber ==
    ASSUME NEW X, X \subseteq Nat, X # {}
    PROVE  \E m \in X : \A x \in X : m <= x
<1> DEFINE R == {ss \in Nat \X Nat : ss[1] < ss[2]}
<1>1. IsWellFoundedOn(R, Nat)
  BY NatLessThanWellFounded DEF OpToRel
<1>2. PICK m \in X : \A y \in X : ~ (<<y, m>> \in R)
  <2> HIDE DEF R
  <2> QED BY <1>1, WFMin
<1>3. ASSUME NEW x \in X, x < m PROVE FALSE
  <2>1. <<x, m>> \in Nat \X Nat
    BY DEF R
  <2>2. <<x, m>>[1] < <<x, m>>[2]
    BY <1>3
  <2>3. <<x, m>> \in R
    BY <2>1, <2>2
  <2> QED BY <1>2, <2>3
<1>4. \A x \in X : m <= x
  <2> HIDE DEF R
  <2> QED BY <1>3
<1> QED BY <1>4

\* One that is bounded has a greatest.
LEMMA GreatestNumber ==
    ASSUME NEW N \in Nat, NEW X, X \subseteq 0..N, X # {}
    PROVE  \E m \in X : \A x \in X : x <= m
<1> DEFINE B == {n \in Nat : \A x \in X : x <= n}
<1>1. N \in B
  OBVIOUS
<1>2. PICK m \in B : \A n \in B : m <= n
  <2> HIDE DEF B
  <2>1. B # {}  BY <1>1
  <2>2. B \subseteq Nat  BY DEF B
  <2> QED BY <2>1, <2>2, LeastNumber
<1>3. m \in X
  <2> SUFFICES ASSUME m \notin X PROVE FALSE
    OBVIOUS
  <2>1. \A x \in X : x < m
    BY <1>2
  <2>2. m > 0
    <3>1. PICK x \in X : TRUE
      OBVIOUS
    <3>2. x \in Nat /\ x < m
      BY <2>1
    <3> QED BY <3>2
  <2>3. m - 1 \in B
    BY <2>1, <2>2
  <2> QED BY <2>3, <1>2
<1> QED BY <1>2, <1>3

\* What Min and Max choose.
LEMMA MinIsLeast ==
    ASSUME NEW X, X \subseteq Nat, X # {}
    PROVE  Min(X) \in X /\ \A x \in X : Min(X) <= x
<1>1. \E m \in X : \A x \in X : m <= x
  BY LeastNumber
<1> QED BY <1>1 DEF Min

LEMMA MaxIsGreatest ==
    ASSUME NEW N \in Nat, NEW X, X \subseteq 0..N, X # {}
    PROVE  Max(X) \in X /\ \A x \in X : x <= Max(X)
<1>1. PICK m \in X : \A x \in X : x <= m
  BY GreatestNumber
<1>2. \E m2 \in X : \A x \in X : m2 >= x
  BY <1>1
<1> QED BY <1>2 DEF Max

-----------------------------------------------------------------------------
(* The log only grows. *)

\* The fields of a record go with its kind.
LEMMA RecordFields ==
    ASSUME NEW r \in LogRecord
    PROVE  /\ r.kind \in {"data", "pending", "s3written", "committed", "abort"}
           /\ r.kind = "data" => r.item \in Items
           /\ r.kind # "data" => r.batch \in Batches
           /\ r.kind = "pending" => r.group \in Groups /\ r.lo \in Nat /\ r.hi \in Nat
  BY DEF LogRecord

\* What was in the log stays, and the new record is the last.
LEMMA LogGrows ==
    ASSUME wal \in Seq(LogRecord), NEW r \in LogRecord, wal' = Append(wal, r)
    PROVE  /\ wal' \in Seq(LogRecord)
           /\ Len(wal) \in Nat /\ DOMAIN wal = 1..Len(wal)
           /\ DOMAIN wal' = 1..Len(wal) + 1
           /\ wal'[Len(wal) + 1] = r
           /\ \A p \in DOMAIN wal : p \in DOMAIN wal' /\ wal'[p] = wal[p]
  OBVIOUS

\* The same of what the log says of a batch.
LEMMA BatchesGrow ==
    ASSUME wal \in Seq(LogRecord), NEW r \in LogRecord, wal' = Append(wal, r)
    PROVE  /\ \A q, b : PendingAt(q, b) => PendingAt(q, b)'
           /\ \A q, b : PendingAt(q, b)' =>
                  PendingAt(q, b) \/ (q = Len(wal) + 1 /\ r.kind = "pending" /\ r.batch = b)
           /\ \A b : Landed(b) => Landed(b)'
           /\ \A b : Landed(b)' =>
                  Landed(b) \/ (r.kind \in {"s3written", "committed"} /\ r.batch = b)
           /\ \A lo, hi : RowsBetween(lo, hi) \subseteq RowsBetween(lo, hi)'
<1>1. /\ DOMAIN wal' = 1..Len(wal) + 1 /\ wal'[Len(wal) + 1] = r
      /\ Len(wal) \in Nat /\ DOMAIN wal = 1..Len(wal)
      /\ \A p \in DOMAIN wal : p \in DOMAIN wal' /\ wal'[p] = wal[p]
  BY LogGrows
<1>2. \A p \in DOMAIN wal' : p \in DOMAIN wal \/ p = Len(wal) + 1
  BY <1>1
<1>3. \A q, b : PendingAt(q, b) => PendingAt(q, b)'
  BY <1>1 DEF PendingAt
<1>4. \A q, b : PendingAt(q, b)' =>
          PendingAt(q, b) \/ (q = Len(wal) + 1 /\ r.kind = "pending" /\ r.batch = b)
  BY <1>1, <1>2 DEF PendingAt
<1>5. \A b : Landed(b) => Landed(b)'
  BY <1>1 DEF Landed
<1>6. \A b : Landed(b)' => Landed(b) \/ (r.kind \in {"s3written", "committed"} /\ r.batch = b)
  BY <1>1, <1>2 DEF Landed
<1>7. \A lo, hi : RowsBetween(lo, hi) \subseteq RowsBetween(lo, hi)'
  BY <1>1 DEF RowsBetween
<1> QED BY <1>3, <1>4, <1>5, <1>6, <1>7

\* Nothing is said of a batch that is not used.
LEMMA UnusedIsNew ==
    ASSUME NEW b, b \notin Used, wal \in Seq(LogRecord)
    PROVE  (\A q : ~PendingAt(q, b)) /\ ~Landed(b)
<1>1. \A q \in DOMAIN wal : wal[q].kind # "data" => wal[q].batch # b
  BY DEF Used, IsData
<1> QED BY <1>1 DEF PendingAt, Landed

\* The last Pending record of a batch, as long as the log is whole.
LEMMA LastPendingIsLast ==
    ASSUME wal \in Seq(LogRecord), gone = {}, NEW b, \E q \in DOMAIN wal : PendingAt(q, b)
    PROVE  PendingAt(LastPending(OnDisk, b), b)
<1>1. OnDisk = DOMAIN wal /\ DOMAIN wal = 1..Len(wal) /\ Len(wal) \in Nat
  BY DEF OnDisk
<1>2. PendingsOf(OnDisk, b) \subseteq 0..Len(wal) /\ PendingsOf(OnDisk, b) # {}
  BY <1>1 DEF PendingsOf, RecordsOf, PendingAt, IsData
<1>3. LastPending(OnDisk, b) \in PendingsOf(OnDisk, b)
  BY <1>1, <1>2, MaxIsGreatest DEF LastPending
<1> QED BY <1>1, <1>3 DEF PendingsOf, RecordsOf, PendingAt

\* A batch of which the log ends with a Pending record has not landed.
LEMMA PendingNotLanded ==
    ASSUME wal \in Seq(LogRecord), gone = {}, PendingFirst, NEW b,
           \E q \in DOMAIN wal : PendingAt(q, b), StatusIn(OnDisk, b) = "pending"
    PROVE  /\ ~Landed(b)
           /\ \A q \in DOMAIN wal : wal[q].kind # "data" /\ wal[q].batch = b => wal[q].kind = "pending"
<1>1. OnDisk = DOMAIN wal /\ DOMAIN wal = 1..Len(wal) /\ Len(wal) \in Nat
  BY DEF OnDisk
<1>2. RecordsOf(OnDisk, b) \subseteq 0..Len(wal) /\ RecordsOf(OnDisk, b) # {}
  BY <1>1 DEF RecordsOf, PendingAt, IsData
<1> DEFINE m == Max(RecordsOf(OnDisk, b))
<1>3. m \in RecordsOf(OnDisk, b) /\ \A q \in RecordsOf(OnDisk, b) : q <= m
  BY <1>1, <1>2, MaxIsGreatest
<1>4. m \in DOMAIN wal /\ wal[m].kind = "pending" /\ wal[m].batch = b
  BY <1>1, <1>3 DEF RecordsOf, StatusIn
<1>5. \A q \in DOMAIN wal : wal[q].kind # "data" /\ wal[q].batch = b => q <= m
  BY <1>1, <1>3 DEF RecordsOf, IsData
<1>6. \A q \in DOMAIN wal : wal[q].kind # "data" /\ wal[q].batch = b => wal[q].kind = "pending"
  <2> HIDE DEF m
  <2> SUFFICES ASSUME NEW q \in DOMAIN wal, wal[q].kind # "data", wal[q].batch = b,
                      wal[q].kind # "pending"
               PROVE  FALSE
    OBVIOUS
  <2>1. wal[q] \in LogRecord
    OBVIOUS
  <2>2. wal[q].kind \in {"s3written", "committed", "abort"}
    BY <2>1, RecordFields
  <2>3. m < q
    BY <1>4, <2>2 DEF PendingFirst
  <2> QED BY <2>3, <1>5, <1>4, <1>1
<1> QED BY <1>6 DEF Landed

\* A batch whose last record says so has landed.
LEMMA StatusLanded ==
    ASSUME wal \in Seq(LogRecord), gone = {}, NEW b,
           \E q \in DOMAIN wal : PendingAt(q, b), StatusIn(OnDisk, b) \in {"s3written", "committed"}
    PROVE  Landed(b)
<1>1. OnDisk = DOMAIN wal /\ DOMAIN wal = 1..Len(wal) /\ Len(wal) \in Nat
  BY DEF OnDisk
<1>2. RecordsOf(OnDisk, b) \subseteq 0..Len(wal) /\ RecordsOf(OnDisk, b) # {}
  BY <1>1 DEF RecordsOf, PendingAt, IsData
<1>3. Max(RecordsOf(OnDisk, b)) \in RecordsOf(OnDisk, b)
  BY <1>1, <1>2, MaxIsGreatest
<1> QED BY <1>1, <1>3 DEF RecordsOf, StatusIn, Landed

-----------------------------------------------------------------------------
(* What a commit does to the keys and the manifest. *)

\* A batch is committed under all its keys, and takes no key another has.
LEMMA CommitTakesKeys ==
    ASSUME NEW b \in Batches, NEW rows, NEW K, NEW t, NEW s, CommitFiles(b, t, s, rows, K, 0),
           snapshot_version \in Nat
    PROVE  /\ snapshot_version' \in Nat
           /\ DOMAIN files' = DOMAIN files \cup {b} /\ b \notin DOMAIN files
           /\ DOMAIN idempotency \subseteq DOMAIN idempotency'
           /\ \A k \in DOMAIN idempotency :
                  idempotency[k].batch # NoBatch => idempotency'[k].batch = idempotency[k].batch
           /\ \A k \in K : k \in DOMAIN idempotency' /\ idempotency'[k].batch = b
<1>1. snapshot_version' \in Nat
  BY DEF CommitFiles, NextSnapshot
<1>2. DOMAIN files' = DOMAIN files \cup {b} /\ b \notin DOMAIN files
  BY DEF CommitFiles, CommitAccepted, Over, Entry
<1>3. idempotency' = Over([k \in K |-> [batch |-> b, at |-> 0]], idempotency)
  BY DEF CommitFiles
<1>4. /\ DOMAIN idempotency' = K \cup DOMAIN idempotency
      /\ \A k \in K : idempotency'[k].batch = b
      /\ \A k \in DOMAIN idempotency \ K : idempotency'[k] = idempotency[k]
  BY <1>3 DEF Over
<1>5. \A k \in K : k \in DOMAIN idempotency => idempotency[k].batch \in {NoBatch, b}
  BY DEF CommitFiles, CommitAccepted, KeyTaken
<1>6. \A k \in DOMAIN idempotency :
          idempotency[k].batch # NoBatch => idempotency'[k].batch = idempotency[k].batch
  BY <1>4, <1>5
<1> QED BY <1>1, <1>2, <1>4, <1>6

\* The same of a commit that may find a duplicate, or the batch there already.
LEMMA CommitBatchTakesKeys ==
    ASSUME NEW b \in Batches, NEW rows, NEW K, CommitBatch(b, rows, K), snapshot_version \in Nat
    PROVE  /\ snapshot_version' \in Nat
           /\ DOMAIN files \subseteq DOMAIN files'
           /\ DOMAIN files' \subseteq DOMAIN files \cup {b}
           /\ DOMAIN idempotency \subseteq DOMAIN idempotency'
           /\ \A k \in DOMAIN idempotency :
                  idempotency[k].batch # NoBatch => idempotency'[k].batch = idempotency[k].batch
           /\ b \in DOMAIN files' \ DOMAIN files =>
                  \A k \in K : k \in DOMAIN idempotency' /\ idempotency'[k].batch = b
<1>1. CASE CommitFiles(b, T, S0, rows, K, 0)
  BY <1>1, CommitTakesKeys
<1>2. CASE CommitDuplicate(b, K)
  BY <1>2 DEF CommitDuplicate, dataVars, counters
<1>3. CASE b \in DOMAIN files /\ UNCHANGED catalogVars
  BY <1>3 DEF catalogVars, dataVars, counters, memory
<1> QED BY <1>1, <1>2, <1>3 DEF CommitBatch

-----------------------------------------------------------------------------
(* The variables have their shapes. *)

\* The steps that leave the log, the chunks and the flush as they are.
LEMMA ShapesFrame ==
    ASSUME Shapes, UNCHANGED <<wal, gone, chunks, flush>>, snapshot_version' \in Nat,
           DOMAIN files' \subseteq Batches, todo' \subseteq Batches
    PROVE  Shapes'
  BY DEF Shapes

LEMMA ClientShapes ==
    ASSUME Shapes, NEW i \in Items,
           Check(i) \/ Reject(i) \/ Log(i) \/ Receipt(i) \/ ReceiptFails(i)
    PROVE  Shapes'
<1>1. CASE Check(i) \/ Reject(i) \/ ReceiptFails(i)
  <2>1. UNCHANGED <<wal, gone, chunks, flush, files, snapshot_version, todo>>
    BY <1>1 DEF Check, Reject, ReceiptFails, ReqStep, procVars, catalogVars, dataVars, counters
  <2> QED BY <2>1, ShapesFrame DEF Shapes
<1>2. CASE Log(i)
  <2>1. UNCHANGED <<gone, chunks, flush, files, snapshot_version, todo>>
    BY <1>2 DEF Log, ReqStep, procVars, catalogVars, dataVars, counters
  <2>2. DataRecord(i) \in LogRecord /\ wal' = Append(wal, DataRecord(i))
    BY <1>2 DEF Log, DataRecord, LogRecord
  <2>3. wal' \in Seq(LogRecord) /\ DOMAIN wal \subseteq DOMAIN wal'
    BY <2>2, LogGrows DEF Shapes
  <2> QED BY <2>1, <2>3 DEF Shapes
<1>3. CASE Receipt(i)
  <2>1. UNCHANGED <<wal, gone, chunks, flush, todo>>
    BY <1>3 DEF Receipt, ReqStep, procVars
  <2>2. UNCHANGED <<files, snapshot_version>>
    BY <1>3 DEF Receipt, RecordIdempotency, catalogVars, dataVars, counters
  <2> QED BY <2>1, <2>2, ShapesFrame DEF Shapes
<1> QED BY <1>1, <1>2, <1>3

\* What is still to be read is in the log; its first write too.
LEMMA FirstUnread ==
    ASSUME Shapes, Unread # {}
    PROVE  /\ Min(Unread) \in DOMAIN wal /\ wal[Min(Unread)].kind = "data"
           /\ Min(Unread) \in Nat /\ GroupAt(Min(Unread)) \in Groups
<1>1. Unread \subseteq DOMAIN wal /\ DOMAIN wal \subseteq Nat
  BY DEF Unread, OnDisk, Shapes
<1>2. Min(Unread) \in Unread
  BY <1>1, MinIsLeast
<1>3. Min(Unread) \in DOMAIN wal /\ wal[Min(Unread)].kind = "data"
  BY <1>1, <1>2 DEF Unread, IsData
<1>4. wal[Min(Unread)].item \in Items
  BY <1>3, RecordFields DEF Shapes
<1> QED BY <1>1, <1>3, <1>4 DEF GroupAt, ItemAt, Groups

\* The chunks after a write is absorbed.
LEMMA AbsorbShapes ==
    ASSUME Shapes, Absorb
    PROVE  /\ Shapes'
           /\ gone = {} => \A c \in DOMAIN chunks' :
                  \/ c \in DOMAIN chunks /\ chunks'[c].seqs = chunks[c].seqs
                  \/ c = Min(Unread) /\ chunks'[c].seqs = {Min(Unread)}
                  \/ c \in DOMAIN chunks /\ chunks'[c].seqs = chunks[c].seqs \cup {Min(Unread)}
<1>1. PICK p : p = Min(Unread)
  OBVIOUS
<1>2. /\ p \in DOMAIN wal /\ wal[p].kind = "data" /\ p \in Nat /\ GroupAt(p) \in Groups
  BY <1>1, FirstUnread DEF Absorb
<1>3. UNCHANGED <<wal, gone, flush, files, snapshot_version, todo>>
  BY DEF Absorb, AccumulatorOnly, catalogVars, dataVars, counters
<1>4. /\ DOMAIN chunks' \subseteq Nat
      /\ \A c \in DOMAIN chunks' :
             /\ chunks'[c] \in ChunkRecord
             /\ \/ c \in DOMAIN chunks /\ chunks'[c].seqs = chunks[c].seqs
                \/ c = p /\ chunks'[c].seqs = {p}
                \/ c \in DOMAIN chunks /\ chunks'[c].seqs = chunks[c].seqs \cup {p}
  <2>1. CASE Claimed(p)
    <3>1. chunks' = chunks
      BY <1>1, <2>1 DEF Absorb
    <3> QED BY <3>1 DEF Shapes
  <2>2. CASE ~Claimed(p) /\ OpenChunks(GroupAt(p)) = {}
    <3>1. chunks' = Over(Entry(p, NewChunk(p)), chunks)
      BY <1>1, <2>2 DEF Absorb
    <3>2. /\ DOMAIN chunks' = {p} \cup DOMAIN chunks
          /\ chunks'[p] = NewChunk(p)
          /\ \A c \in DOMAIN chunks \ {p} : chunks'[c] = chunks[c]
      BY <3>1 DEF Over, Entry
    <3>3. NewChunk(p) \in ChunkRecord /\ NewChunk(p).seqs = {p}
      BY <1>2 DEF NewChunk, ChunkRecord
    <3> QED BY <3>2, <3>3, <1>2 DEF Shapes
  <2>3. CASE ~Claimed(p) /\ OpenChunks(GroupAt(p)) # {}
    <3>1. chunks' = [c \in DOMAIN chunks |->
                       IF c \in OpenChunks(GroupAt(p))
                       THEN [chunks[c] EXCEPT !.seqs = @ \cup {p}] ELSE chunks[c]]
      BY <1>1, <2>3 DEF Absorb
    <3>2. ASSUME NEW c \in DOMAIN chunks
          PROVE  /\ [chunks[c] EXCEPT !.seqs = @ \cup {p}] \in ChunkRecord
                 /\ [chunks[c] EXCEPT !.seqs = @ \cup {p}].seqs = chunks[c].seqs \cup {p}
      <4>1. chunks[c] \in ChunkRecord
        BY DEF Shapes
      <4>2. chunks[c].seqs \cup {p} \in SUBSET Nat
        BY <4>1, <1>2 DEF ChunkRecord
      <4> QED BY <4>1, <4>2 DEF ChunkRecord
    <3>3. DOMAIN chunks' = DOMAIN chunks
      BY <3>1
    <3>4. \A c \in DOMAIN chunks : chunks[c] \in ChunkRecord
      BY DEF Shapes
    <3> QED BY <3>1, <3>2, <3>3, <3>4 DEF Shapes
  <2> QED BY <2>1, <2>2, <2>3
<1>5. Shapes'
  BY <1>3, <1>4 DEF Shapes
<1> QED BY <1>1, <1>4, <1>5

LEMMA SealShapes ==
    ASSUME Shapes, NEW c \in DOMAIN chunks, Seal(c)
    PROVE  /\ Shapes'
           /\ DOMAIN chunks' = DOMAIN chunks
           /\ \A x \in DOMAIN chunks :
                  /\ chunks'[x].seqs = chunks[x].seqs /\ chunks'[x].group = chunks[x].group
                  /\ chunks'[x].state = "open" => chunks[x].state = "open"
<1>1. UNCHANGED <<wal, gone, flush, files, snapshot_version, todo>>
  BY DEF Seal, AccumulatorOnly, catalogVars, dataVars, counters
<1>2. chunks' = [chunks EXCEPT ![c].state = "sealed"] /\ chunks[c] \in ChunkRecord
  BY DEF Seal, Shapes
<1>3. [chunks[c] EXCEPT !.state = "sealed"] \in ChunkRecord
      /\ [chunks[c] EXCEPT !.state = "sealed"].seqs = chunks[c].seqs
      /\ [chunks[c] EXCEPT !.state = "sealed"].group = chunks[c].group
      /\ [chunks[c] EXCEPT !.state = "sealed"].state = "sealed"
  BY <1>2 DEF ChunkRecord
<1>4. /\ DOMAIN chunks' = DOMAIN chunks
      /\ chunks'[c] = [chunks[c] EXCEPT !.state = "sealed"]
      /\ \A x \in DOMAIN chunks \ {c} : chunks'[x] = chunks[x]
  BY <1>2
<1>5. Shapes'
  BY <1>1, <1>3, <1>4 DEF Shapes
<1> QED BY <1>3, <1>4, <1>5

\* A flush begins: a batch nothing is known of, and its first record.
LEMMA StartFlushShapes ==
    ASSUME Shapes, NEW c \in DOMAIN chunks, StartFlush(c), chunks[c].seqs # {},
           \A p \in chunks[c].seqs : p \in DOMAIN wal
    PROVE  /\ Shapes'
           /\ NextBatch \in Batches /\ NextBatch \notin Used
           /\ DOMAIN chunks' = DOMAIN chunks
           /\ \A x \in DOMAIN chunks :
                  /\ chunks'[x].seqs = chunks[x].seqs /\ chunks'[x].group = chunks[x].group
                  /\ chunks'[x].state = chunks[x].state
           /\ flush'.lo \in chunks[c].seqs /\ flush'.hi - 1 \in chunks[c].seqs
           /\ chunks[c].seqs \subseteq flush'.lo..flush'.hi - 1
           /\ flush'.lo \in Nat /\ flush'.hi \in Nat
           /\ flush' = Flushing(NextBatch, {c}, flush'.lo, flush'.hi, chunks[c].seqs)
           /\ PendingRecord(NextBatch, chunks[c].group, flush'.lo, flush'.hi) \in LogRecord
           /\ wal' = Append(wal, PendingRecord(NextBatch, chunks[c].group, flush'.lo, flush'.hi))
<1> DEFINE S == chunks[c].seqs
           lo == Min(S)
           hi == Max(S) + 1
<1>1. UNCHANGED <<gone, files, snapshot_version, todo>>
  BY DEF StartFlush, AccumulatorOnly, catalogVars, dataVars, counters
<1>2. chunks[c] \in ChunkRecord /\ c \in Nat
  BY DEF Shapes
<1>3. NextBatch \in Batches /\ NextBatch \notin Used
  BY DEF StartFlush, NextBatch
<1>4. Len(wal) \in Nat /\ DOMAIN wal = 1..Len(wal)
  BY DEF Shapes
<1>5. S \subseteq 0..Len(wal) /\ S # {} /\ S \subseteq Nat
  BY <1>4
<1>6. /\ lo \in Nat /\ hi \in Nat /\ Max(S) \in S /\ lo \in S /\ hi - 1 = Max(S)
      /\ \A p \in S : lo <= p /\ p <= hi - 1
  BY <1>4, <1>5, MinIsLeast, MaxIsGreatest
<1>7. S \subseteq lo..hi - 1
  <2> HIDE DEF lo, hi, S
  <2> QED BY <1>5, <1>6
<1>8. /\ chunks' = [chunks EXCEPT ![c].batch = NextBatch]
      /\ wal' = Append(wal, PendingRecord(NextBatch, chunks[c].group, lo, hi))
      /\ flush' = Flushing(NextBatch, {c}, lo, hi, S)
  BY DEF StartFlush
<1> HIDE DEF S, lo, hi
<1>9. flush'.lo = lo /\ flush'.hi = hi
  BY <1>8 DEF Flushing
<1>10. PendingRecord(NextBatch, chunks[c].group, lo, hi) \in LogRecord
  BY <1>2, <1>3, <1>6 DEF PendingRecord, LogRecord, ChunkRecord
<1>11. flush' \in FlushRecord
  BY <1>2, <1>3, <1>5, <1>6, <1>8 DEF Flushing, FlushRecord
<1>12. /\ [chunks[c] EXCEPT !.batch = NextBatch] \in ChunkRecord
       /\ [chunks[c] EXCEPT !.batch = NextBatch].seqs = chunks[c].seqs
       /\ [chunks[c] EXCEPT !.batch = NextBatch].group = chunks[c].group
       /\ [chunks[c] EXCEPT !.batch = NextBatch].state = chunks[c].state
  BY <1>2, <1>3 DEF ChunkRecord
<1>13. /\ DOMAIN chunks' = DOMAIN chunks
       /\ chunks'[c] = [chunks[c] EXCEPT !.batch = NextBatch]
       /\ \A x \in DOMAIN chunks \ {c} : chunks'[x] = chunks[x]
  BY <1>8
<1>14. wal' \in Seq(LogRecord) /\ DOMAIN wal \subseteq DOMAIN wal'
  BY <1>8, <1>10, LogGrows DEF Shapes
<1>15. Shapes'
  BY <1>1, <1>11, <1>12, <1>13, <1>14 DEF Shapes
<1>16. S = chunks[c].seqs
  BY DEF S
<1> QED BY <1>3, <1>6, <1>7, <1>8, <1>9, <1>10, <1>12, <1>13, <1>15, <1>16

\* The fields of a flush under way.
LEMMA FlushFields ==
    ASSUME Shapes, flush.pc \in {"announce", "upload", "commit", "finish"}
    PROVE  /\ flush \in FlushRecord /\ flush # NoFlush
           /\ flush.batch \in Batches /\ flush.lo \in Nat /\ flush.hi \in Nat
           /\ flush.rows \subseteq Nat /\ flush.at \in Nat /\ flush.chunk \subseteq Nat
<1>1. NoFlush.pc = "none"
  BY DEF NoFlush
<1>2. flush # NoFlush
  BY <1>1
<1>3. flush \in FlushRecord
  BY <1>2 DEF Shapes
<1> QED BY <1>2, <1>3 DEF FlushRecord

\* The steps of a flush.
LEMMA FlushShapes ==
    ASSUME Shapes, FlushStep
    PROVE  /\ Shapes'
           /\ DOMAIN chunks' = DOMAIN chunks
           /\ \A c \in DOMAIN chunks :
                  /\ chunks'[c].seqs = chunks[c].seqs /\ chunks'[c].group = chunks[c].group
                  /\ chunks'[c].state = "open" => chunks[c].state = "open"
<1>1. CASE Announce
  <2>1. UNCHANGED <<wal, gone, chunks, files, snapshot_version, todo>>
    BY <1>1 DEF Announce, FlushOnly, RecordInFlight, catalogVars, dataVars, counters
  <2>2. flush' \in FlushRecord
    BY <1>1 DEF Announce, Shapes, FlushRecord, NoFlush
  <2> QED BY <2>1, <2>2 DEF Shapes
<1>2. CASE Upload
  <2>1. UNCHANGED <<gone, chunks, files, snapshot_version, todo>>
    BY <1>2 DEF Upload, FlushOnly, catalogVars, dataVars, counters
  <2>2. flush \in FlushRecord /\ flush' \in FlushRecord
    <3>1. flush.pc = "upload" /\ flush' = [flush EXCEPT !.pc = "commit"]
      BY <1>2 DEF Upload
    <3>2. flush \in FlushRecord
      BY <3>1, FlushFields
    <3> QED BY <3>1, <3>2 DEF FlushRecord
  <2>3. BatchRecord("s3written", flush.batch) \in LogRecord
    BY <2>2 DEF BatchRecord, LogRecord, FlushRecord
  <2>4. wal' \in Seq(LogRecord) /\ DOMAIN wal \subseteq DOMAIN wal'
    BY <1>2, <2>3, LogGrows DEF Upload, Shapes
  <2> QED BY <2>1, <2>2, <2>4 DEF Shapes
<1>3. CASE Commit
  <2>1. UNCHANGED <<wal, gone, chunks, todo>>
    BY <1>3 DEF Commit, FlushOnly
  <2>2. flush \in FlushRecord
    BY <1>3 DEF Commit, Shapes, NoFlush
  <2>3. flush.batch \in Batches
    BY <2>2 DEF FlushRecord
  <2>4. snapshot_version' \in Nat /\ DOMAIN files' \subseteq Batches
    BY <1>3, <2>3, CommitBatchTakesKeys DEF Commit, Shapes
  <2>5. flush' \in FlushRecord
    BY <1>3, <2>2, <2>4 DEF Commit, FlushRecord
  <2> QED BY <2>1, <2>4, <2>5 DEF Shapes
<1>4. CASE Finish
  <2> DEFINE finished(c) == [chunks[c] EXCEPT !.state = "flushed", !.at = flush.at]
  <2>1. /\ UNCHANGED catalogVars /\ flush.pc = "finish" /\ flush' = NoFlush /\ gone' = gone
        /\ wal' = Append(wal, BatchRecord("committed", flush.batch))
        /\ todo' = todo \ {flush.batch} \/ todo' = todo
        /\ chunks' = [c \in DOMAIN chunks |-> IF c \in flush.chunk THEN finished(c) ELSE chunks[c]]
    BY <1>4, Zenon DEF Finish, FlushOnly
  <2> HIDE DEF finished
  <2>2. flush.batch \in Batches /\ flush.at \in Nat
    BY <2>1, FlushFields
  <2>3. BatchRecord("committed", flush.batch) \in LogRecord
    BY <2>2 DEF BatchRecord, LogRecord
  <2>4. wal' \in Seq(LogRecord)
    BY <2>1, <2>3, LogGrows DEF Shapes
  <2>5. ASSUME NEW c \in DOMAIN chunks
        PROVE  /\ finished(c) \in ChunkRecord /\ finished(c).seqs = chunks[c].seqs
               /\ finished(c).group = chunks[c].group /\ finished(c).state = "flushed"
    <3>1. chunks[c] \in ChunkRecord
      BY DEF Shapes
    <3> QED BY <2>2, <3>1 DEF ChunkRecord, finished
  <2>6. /\ DOMAIN chunks' = DOMAIN chunks
        /\ \A c \in DOMAIN chunks : chunks'[c] = finished(c) \/ chunks'[c] = chunks[c]
    BY <2>1
  <2>7. files' = files /\ snapshot_version' = snapshot_version
    BY <2>1 DEF catalogVars, dataVars, counters
  <2> QED BY <2>1, <2>4, <2>5, <2>6, <2>7 DEF Shapes
<1>5. CASE FlushFails
  <2>1. UNCHANGED <<wal, gone, chunks, files, snapshot_version, todo>> /\ flush' = NoFlush
    BY <1>5 DEF FlushFails, FlushOnly, catalogVars, dataVars, counters
  <2> QED BY <2>1 DEF Shapes
<1>6. CASE ReplyLost
  <2>1. UNCHANGED <<wal, gone, chunks, todo>> /\ flush' = NoFlush
    BY <1>6 DEF ReplyLost, FlushOnly
  <2>2. flush.batch \in Batches
    BY <1>6, FlushFields DEF ReplyLost
  <2>3. CommitFiles(flush.batch, T, S0, Cardinality(flush.rows), KeysIn(flush.lo, flush.hi), 0)
    BY <1>6 DEF ReplyLost
  <2>4. snapshot_version' \in Nat /\ DOMAIN files' = DOMAIN files \cup {flush.batch}
    BY <2>2, <2>3, CommitTakesKeys DEF Shapes
  <2> QED BY <2>1, <2>2, <2>4 DEF Shapes
<1> QED BY <1>1, <1>2, <1>3, <1>4, <1>5, <1>6 DEF FlushStep

\* Reclaiming only takes chunks away.
LEMMA ReclaimShapes ==
    ASSUME Shapes, NEW s, Reclaim(s)
    PROVE  /\ Shapes'
           /\ DOMAIN chunks' \subseteq DOMAIN chunks
           /\ \A c \in DOMAIN chunks' : chunks'[c] = chunks[c]
<1>1. UNCHANGED <<wal, gone, flush, files, snapshot_version, todo>>
  BY DEF Reclaim, catalogVars, dataVars, counters, logVars
<1>2. /\ DOMAIN chunks' \subseteq DOMAIN chunks
      /\ \A c \in DOMAIN chunks' : chunks'[c] = chunks[c]
  BY DEF Reclaim, Without, Restrict
<1> QED BY <1>1, <1>2 DEF Shapes

LEMMA MonitorShapes == ASSUME Shapes, MonitorStep PROVE Shapes'
<1>1. ASSUME NEW b \in Batches, Abort(b) PROVE Shapes'
  <2>1. UNCHANGED <<gone, chunks, flush, files, snapshot_version, todo>>
    BY <1>1 DEF Abort, MonitorOnly, procVars, catalogVars, dataVars, counters
  <2>2. BatchRecord("abort", b) \in LogRecord
    BY DEF BatchRecord, LogRecord
  <2>3. wal' \in Seq(LogRecord) /\ DOMAIN wal \subseteq DOMAIN wal'
    BY <1>1, <2>2, LogGrows DEF Abort, Shapes
  <2> QED BY <2>1, <2>3 DEF Shapes
<1>2. ASSUME NEW n, RemoveSegment(n) PROVE Shapes'
  <2>1. UNCHANGED <<wal, chunks, flush, files, snapshot_version, todo>>
    BY <1>2 DEF RemoveSegment, MonitorOnly, procVars, catalogVars, dataVars, counters
  <2>2. gone' \subseteq gone \cup DOMAIN wal
    BY <1>2 DEF RemoveSegment, Segment
  <2> QED BY <2>1, <2>2 DEF Shapes
<1> QED BY <1>1, <1>2 DEF MonitorStep

LEMMA CrashShapes == ASSUME Shapes, Crash PROVE Shapes'
<1>1. /\ UNCHANGED <<wal, gone>> /\ chunks' = Nothing /\ flush' = NoFlush /\ todo' = {}
  BY DEF Crash, logVars
<1>2. snapshot_version' \in Nat /\ DOMAIN files' \subseteq Batches
  BY DEF Crash, CatalogLost, Shapes, Nothing, catalogVars, dataVars, counters
<1> QED BY <1>1, <1>2 DEF Shapes, Nothing

\* A batch that is taken up again; its rows are in its range.
LEMMA RedoShapes ==
    ASSUME Shapes, NEW b \in todo, Redo(b), PendingAt(LastPending(OnDisk, b), b)
    PROVE  /\ Shapes'
           /\ PendingRecord(b, BatchRange(b).group, BatchRange(b).lo, BatchRange(b).hi) \in LogRecord
<1>1. UNCHANGED <<gone, chunks, files, snapshot_version, todo>>
  BY DEF Redo, RecoveryOnly, catalogVars, dataVars, counters
<1>2. b \in Batches
  BY DEF Shapes
<1>3. BatchRange(b) \in LogRecord /\ BatchRange(b).kind = "pending"
  BY DEF BatchRange, PendingAt, Shapes
<1>4. BatchRange(b).group \in Groups /\ BatchRange(b).lo \in Nat /\ BatchRange(b).hi \in Nat
  BY <1>3, RecordFields
<1>5. PendingRecord(b, BatchRange(b).group, BatchRange(b).lo, BatchRange(b).hi) \in LogRecord
  BY <1>2, <1>4 DEF PendingRecord, LogRecord
<1>6. wal' = Append(wal, PendingRecord(b, BatchRange(b).group, BatchRange(b).lo, BatchRange(b).hi))
  BY DEF Redo
<1>7. wal' \in Seq(LogRecord) /\ DOMAIN wal \subseteq DOMAIN wal'
  BY <1>5, <1>6, LogGrows DEF Shapes
<1>8. RedoRows(b) \in SUBSET Nat
  BY DEF RedoRows, DataIn, OnDisk, Shapes
<1>9. flush' \in FlushRecord
  BY <1>2, <1>4, <1>8 DEF Redo, Flushing, FlushRecord
<1> QED BY <1>1, <1>5, <1>7, <1>9 DEF Shapes

LEMMA RecoveryShapes ==
    ASSUME Shapes, RecoveryStep, gone = {} => TodoLogged
    PROVE  gone = {} => Shapes'
<1> SUFFICES ASSUME gone = {} PROVE Shapes'
  OBVIOUS
<1>1. ASSUME NEW k, Reindex(k) PROVE Shapes'
  <2>1. UNCHANGED <<wal, gone, chunks, flush, todo>>
    BY <1>1 DEF Reindex, RecoveryOnly
  <2>2. UNCHANGED <<files, snapshot_version>>
    BY <1>1 DEF Reindex, RecordIdempotency, dataVars, counters
  <2> QED BY <2>1, <2>2 DEF Shapes
<1>2. CASE Resume
  <2>1. UNCHANGED <<wal, gone, chunks, flush, files, snapshot_version>> /\ todo' \subseteq Batches
    BY <1>2 DEF Resume, RecoveryOnly, BatchesIn, catalogVars, dataVars, counters
  <2> QED BY <2>1 DEF Shapes
<1>3. CASE Serve
  <2>1. UNCHANGED <<wal, gone, chunks, flush, files, snapshot_version, todo>>
    BY <1>3 DEF Serve, RecoveryOnly, catalogVars, dataVars, counters
  <2> QED BY <2>1 DEF Shapes
<1>4. ASSUME NEW b \in todo, Recommit(b) PROVE Shapes'
  <2>1. UNCHANGED <<wal, gone, chunks, flush>> /\ todo' \subseteq todo
    BY <1>4 DEF Recommit, RecoveryOnly
  <2>2. snapshot_version' \in Nat /\ DOMAIN files' \subseteq Batches
    BY <1>4, CommitBatchTakesKeys DEF Recommit, Shapes
  <2> QED BY <2>1, <2>2 DEF Shapes
<1>5. ASSUME NEW b \in todo, Redo(b) PROVE Shapes'
  BY <1>5, LastPendingIsLast, RedoShapes DEF TodoLogged, Shapes
<1>6. ASSUME NEW b \in todo, GiveUp(b) PROVE Shapes'
  <2>1. UNCHANGED <<gone, chunks, flush, files, snapshot_version>> /\ todo' \subseteq todo
    BY <1>6 DEF GiveUp, RecoveryOnly, catalogVars, dataVars, counters
  <2>2. BatchRecord("abort", b) \in LogRecord
    BY DEF BatchRecord, LogRecord, Shapes
  <2>3. wal' \in Seq(LogRecord) /\ DOMAIN wal \subseteq DOMAIN wal'
    BY <1>6, <2>2, LogGrows DEF GiveUp, Shapes
  <2> QED BY <2>1, <2>3 DEF Shapes
<1> QED BY <1>1, <1>2, <1>3, <1>4, <1>5, <1>6 DEF RecoveryStep

-----------------------------------------------------------------------------
(* Frames: what a step need not touch. *)

\* The rows of an object are writes of the log.
LEMMA RowsAreLogged ==
    ASSUME ObjectsInRange, NEW b \in DOMAIN content, NEW p \in content[b]
    PROVE  p \in DOMAIN wal /\ wal[p].kind = "data"
  BY DEF ObjectsInRange, RowsBetween

\* A commit, or no more, leaves the keys with their files; the keys of what is
\* committed are among those it takes.
LEMMA KeysStay ==
    ASSUME Shapes, Body, \A p \in DOMAIN wal : wal'[p] = wal[p], content' = content,
           NEW b, NEW K,
           DOMAIN files' \subseteq DOMAIN files \cup {b},
           DOMAIN idempotency \subseteq DOMAIN idempotency',
           \A k \in DOMAIN idempotency :
               idempotency[k].batch # NoBatch => idempotency'[k].batch = idempotency[k].batch,
           b \in DOMAIN files' \ DOMAIN files =>
               /\ b \in DOMAIN content
               /\ \A p \in content[b] : KeyOf[ItemAt(p)] # NoKey => KeyOf[ItemAt(p)] \in K
               /\ \A k \in K : k \in DOMAIN idempotency' /\ idempotency'[k].batch = b
    PROVE  KeysNameFiles'
<1> SUFFICES ASSUME NEW f \in DOMAIN files', NEW p \in content[f], KeyOf[wal'[p].item] # NoKey
             PROVE  /\ KeyOf[wal'[p].item] \in DOMAIN idempotency'
                    /\ idempotency'[KeyOf[wal'[p].item]].batch = f
  BY DEF KeysNameFiles, ItemAt
<1>1. f \in DOMAIN content
  <2>1. CASE f \in DOMAIN files
    BY <2>1 DEF Body, Shapes, FilesLanded, LandedHasObject
  <2>2. CASE f \notin DOMAIN files
    BY <2>2
  <2> QED BY <2>1, <2>2
<1>2. p \in DOMAIN wal
  BY <1>1, RowsAreLogged DEF Body
<1>3. wal'[p].item = ItemAt(p)
  BY <1>2 DEF ItemAt
<1>4. CASE f \in DOMAIN files
  <2>1. KeyOf[ItemAt(p)] \in DOMAIN idempotency /\ idempotency[KeyOf[ItemAt(p)]].batch = f
    BY <1>3, <1>4 DEF Body, KeysNameFiles
  <2>2. f # NoBatch
    BY <1>4, NoBatchIsNone DEF Shapes
  <2> QED BY <1>3, <2>1, <2>2
<1>5. CASE f \notin DOMAIN files
  BY <1>3, <1>5
<1> QED BY <1>4, <1>5

\* The log and the objects stay.
LEMMA BodyFrame ==
    ASSUME Body, wal' = wal, content' = content,
           \A c \in DOMAIN chunks' :
               c \in DOMAIN chunks /\ chunks'[c].seqs = chunks[c].seqs,
           DOMAIN files' \subseteq DOMAIN files,
           flush' = flush \/ flush' = NoFlush, todo' \subseteq todo, KeysNameFiles'
    PROVE  Body'
<1>1. OneRange' /\ PendingFirst'
  BY DEF Body, OneRange, PendingFirst
<1>2. ChunksHoldWrites'
  BY DEF Body, ChunksHoldWrites
<1>3. ObjectsInRange'
  BY DEF Body, ObjectsInRange, PendingAt, RowsBetween
<1>4. LandedHasObject' /\ FilesLanded'
  BY DEF Body, LandedHasObject, FilesLanded, Landed
<1>5. FlushLogged'
  BY DEF Body, FlushLogged, PendingAt, RowsBetween, Landed
<1>6. TodoLogged'
  BY DEF Body, TodoLogged, PendingAt
<1> QED BY <1>1, <1>2, <1>3, <1>4, <1>5, <1>6 DEF Body

\* A write, an abort, or the end of a batch that has landed is logged.
LEMMA BodyAppends ==
    ASSUME Shapes, Body, NEW r \in LogRecord, wal' = Append(wal, r),
           r.kind \in {"data", "committed", "abort"},
           r.kind = "committed" => Landed(r.batch),
           UNCHANGED <<content, files, idempotency>>,
           \A c \in DOMAIN chunks' :
               c \in DOMAIN chunks /\ chunks'[c].seqs = chunks[c].seqs,
           flush' = flush \/ flush' = NoFlush, todo' \subseteq todo
    PROVE  Body'
<1> DEFINE n == Len(wal) + 1
<1>1. /\ Len(wal) \in Nat /\ DOMAIN wal = 1..Len(wal) /\ DOMAIN wal' = 1..n /\ wal'[n] = r
      /\ \A p \in DOMAIN wal : p \in DOMAIN wal' /\ wal'[p] = wal[p]
  BY LogGrows DEF Shapes
<1>2. /\ \A q, b : PendingAt(q, b)' <=> PendingAt(q, b)
      /\ \A b : Landed(b)' <=> Landed(b)
      /\ \A lo, hi : RowsBetween(lo, hi) \subseteq RowsBetween(lo, hi)'
  BY BatchesGrow DEF Shapes
<1> HIDE DEF n
<1>3. \A p \in DOMAIN wal' : p \in DOMAIN wal \/ (p = n /\ wal'[p] = r)
  BY <1>1 DEF n
<1>4. OneRange'
  BY <1>1, <1>3 DEF Body, OneRange
<1>5. PendingFirst'
  BY <1>1, <1>3 DEF Body, PendingFirst, n
<1>6. ChunksHoldWrites'
  BY <1>1 DEF Body, ChunksHoldWrites
<1>7. ObjectsInRange'
  <2>1. ASSUME NEW b \in DOMAIN content
        PROVE  \E q \in DOMAIN wal' : PendingAt(q, b)'
    BY <1>1, <1>2 DEF Body, ObjectsInRange
  <2>2. ASSUME NEW b \in DOMAIN content, NEW q \in DOMAIN wal', PendingAt(q, b)', NEW p \in content[b]
        PROVE  p \in DOMAIN wal' /\ wal'[p].kind = "data" /\ wal'[q].lo <= p /\ p < wal'[q].hi
    <3>1. PendingAt(q, b) /\ q \in DOMAIN wal
      BY <1>2, <2>2 DEF PendingAt
    <3>2. p \in DOMAIN wal /\ wal[p].kind = "data" /\ wal[q].lo <= p /\ p < wal[q].hi
      BY <2>2, <3>1 DEF Body, ObjectsInRange, RowsBetween
    <3> QED BY <1>1, <3>1, <3>2
  <2> QED BY <2>1, <2>2 DEF ObjectsInRange, RowsBetween
<1>8. LandedHasObject' /\ FilesLanded'
  BY <1>2 DEF Body, LandedHasObject, FilesLanded
<1>9. FlushLogged'
  BY <1>1, <1>2 DEF Body, FlushLogged
<1>10. TodoLogged'
  BY <1>1, <1>2 DEF Body, TodoLogged
<1>11. KeysNameFiles'
  BY <1>1, KeysStay
<1> QED BY <1>4, <1>5, <1>6, <1>7, <1>8, <1>9, <1>10, <1>11 DEF Body

\* A batch that has not landed is announced in the log, for the first time or
\* again with the same range, and its flush begins.
LEMMA BodyAnnounces ==
    ASSUME Shapes, Body, NEW b \in Batches, NEW g, NEW lo \in Nat, NEW hi \in Nat,
           PendingRecord(b, g, lo, hi) \in LogRecord,
           wal' = Append(wal, PendingRecord(b, g, lo, hi)),
           \A q \in DOMAIN wal : PendingAt(q, b) =>
               wal[q].lo = lo /\ wal[q].hi = hi /\ wal[q].group = g,
           \A q \in DOMAIN wal :
               wal[q].kind # "data" /\ wal[q].batch = b => wal[q].kind = "pending",
           UNCHANGED <<content, files, idempotency, todo>>,
           \A c \in DOMAIN chunks' :
               c \in DOMAIN chunks /\ chunks'[c].seqs = chunks[c].seqs,
           flush'.batch = b, flush'.lo = lo, flush'.hi = hi, flush'.pc = "announce",
           flush'.rows \subseteq RowsBetween(lo, hi)
    PROVE  Body'
<1>0. PICK r \in LogRecord : r = PendingRecord(b, g, lo, hi)
  OBVIOUS
<1>r. r.kind = "pending" /\ r.batch = b /\ r.lo = lo /\ r.hi = hi /\ r.group = g
  BY <1>0 DEF PendingRecord
<1>n. PICK n : n = Len(wal) + 1
  OBVIOUS
<1>1. /\ Len(wal) \in Nat /\ DOMAIN wal = 1..Len(wal) /\ DOMAIN wal' = 1..n /\ wal'[n] = r
      /\ \A p \in DOMAIN wal : p \in DOMAIN wal' /\ wal'[p] = wal[p]
  BY <1>0, <1>n, LogGrows DEF Shapes
<1>2. /\ \A q, x : PendingAt(q, x)' <=> PendingAt(q, x) \/ (q = n /\ x = b)
      /\ \A x : Landed(x)' <=> Landed(x)
      /\ \A l, h : RowsBetween(l, h) \subseteq RowsBetween(l, h)'
  <2>1. /\ \A q, x : PendingAt(q, x) => PendingAt(q, x)'
        /\ \A q, x : PendingAt(q, x)' => PendingAt(q, x) \/ (q = n /\ x = b)
        /\ \A x : Landed(x)' <=> Landed(x)
        /\ \A l, h : RowsBetween(l, h) \subseteq RowsBetween(l, h)'
    BY <1>0, <1>r, <1>n, BatchesGrow DEF Shapes
  <2>2. PendingAt(n, b)'
    BY <1>1, <1>r, <1>n DEF PendingAt
  <2> QED BY <2>1, <2>2
<1>3. n \in DOMAIN wal' /\ \A p \in DOMAIN wal' : p \in DOMAIN wal \/ (p = n /\ wal'[p] = r)
  BY <1>1, <1>n
<1>4. OneRange'
  <2>1. \A p \in DOMAIN wal : wal[p].kind = "pending" /\ wal[p].batch = b =>
            wal[p].lo = lo /\ wal[p].hi = hi /\ wal[p].group = g
    BY DEF PendingAt
  <2> QED BY <1>1, <1>r, <1>3, <2>1 DEF Body, OneRange
<1>5. PendingFirst'
  <2> SUFFICES ASSUME NEW p \in DOMAIN wal', NEW q \in DOMAIN wal',
                      wal'[p].kind = "pending", wal'[q].kind \in {"s3written", "committed", "abort"},
                      wal'[p].batch = wal'[q].batch
               PROVE  p < q
    BY DEF PendingFirst
  <2>1. q \in DOMAIN wal /\ wal'[q] = wal[q]
    BY <1>1, <1>r, <1>3
  <2>2. p \in DOMAIN wal /\ wal'[p] = wal[p]
    BY <1>1, <1>r, <1>3, <2>1
  <2> QED BY <2>1, <2>2 DEF Body, PendingFirst
<1>6. ChunksHoldWrites'
  BY <1>1 DEF Body, ChunksHoldWrites
<1>7. ObjectsInRange'
  <2>1. ASSUME NEW x \in DOMAIN content
        PROVE  \E q \in DOMAIN wal' : PendingAt(q, x)'
    BY <1>1, <1>2 DEF Body, ObjectsInRange
  <2>2. ASSUME NEW x \in DOMAIN content, NEW q \in DOMAIN wal', PendingAt(q, x)', NEW p \in content[x]
        PROVE  p \in DOMAIN wal' /\ wal'[p].kind = "data" /\ wal'[q].lo <= p /\ p < wal'[q].hi
    <3>1. PICK a \in DOMAIN wal : PendingAt(a, x)
      BY DEF Body, ObjectsInRange
    <3>2. p \in DOMAIN wal /\ wal[p].kind = "data" /\ wal[a].lo <= p /\ p < wal[a].hi
      BY <2>2, <3>1 DEF Body, ObjectsInRange, RowsBetween
    <3>3. CASE PendingAt(q, x)
      <4>1. q \in DOMAIN wal /\ wal[q].lo <= p /\ p < wal[q].hi
        BY <2>2, <3>3 DEF Body, ObjectsInRange, RowsBetween, PendingAt
      <4> QED BY <1>1, <3>2, <4>1
    <3>4. CASE q = n /\ x = b
      <4>1. wal[a].lo = lo /\ wal[a].hi = hi /\ wal'[q] = r
        BY <1>1, <3>1, <3>4
      <4> QED BY <1>1, <1>r, <3>2, <4>1
    <3> QED BY <1>2, <2>2, <3>3, <3>4
  <2> QED BY <2>1, <2>2 DEF ObjectsInRange, RowsBetween
<1>8. LandedHasObject' /\ FilesLanded'
  BY <1>2 DEF Body, LandedHasObject, FilesLanded
<1>9. FlushLogged'
  <2>1. ~Landed(b)
    <3>1. \A q \in DOMAIN wal : wal[q].kind \in {"s3written", "committed"} => wal[q].kind # "data"
      OBVIOUS
    <3> QED BY <3>1 DEF Landed
  <2>2. n \in DOMAIN wal' /\ PendingAt(n, b)' /\ wal'[n].lo = lo /\ wal'[n].hi = hi
    BY <1>1, <1>2, <1>3, <1>r
  <2>3. flush'.rows \subseteq RowsBetween(lo, hi)'
    BY <1>2
  <2> QED BY <1>2, <2>1, <2>2, <2>3 DEF FlushLogged
<1>10. TodoLogged'
  BY <1>1, <1>2 DEF Body, TodoLogged
<1>11. KeysNameFiles'
  BY <1>1, KeysStay
<1> QED BY <1>4, <1>5, <1>6, <1>7, <1>8, <1>9, <1>10, <1>11 DEF Body

-----------------------------------------------------------------------------
(* The steps keep what is known, as long as no segment goes. *)

LEMMA ClientBody ==
    ASSUME Shapes, Body, NEW i \in Items,
           Check(i) \/ Reject(i) \/ Log(i) \/ Receipt(i) \/ ReceiptFails(i)
    PROVE  Body'
<1>1. CASE Check(i) \/ Reject(i) \/ ReceiptFails(i)
  <2>1. UNCHANGED <<wal, content, chunks, flush, todo, files, idempotency>>
    BY <1>1 DEF Check, Reject, ReceiptFails, ReqStep, procVars, catalogVars, dataVars, memory
  <2>2. KeysNameFiles'
    BY <2>1 DEF Body, KeysNameFiles, ItemAt
  <2> QED BY <2>1, <2>2, BodyFrame
<1>2. CASE Log(i)
  <2>1. UNCHANGED <<content, chunks, flush, todo, files, idempotency>>
    BY <1>2 DEF Log, ReqStep, procVars, catalogVars, dataVars, memory
  <2>2. /\ wal' = Append(wal, DataRecord(i)) /\ DataRecord(i) \in LogRecord
        /\ DataRecord(i).kind = "data"
    BY <1>2 DEF Log, DataRecord, LogRecord
  <2> QED BY <2>1, <2>2, BodyAppends
<1>3. CASE Receipt(i)
  <2>1. UNCHANGED <<wal, content, chunks, flush, todo>>
    BY <1>3 DEF Receipt, ReqStep, procVars
  <2>2. /\ files' = files /\ DOMAIN idempotency \subseteq DOMAIN idempotency'
        /\ \A k \in DOMAIN idempotency : idempotency'[k] = idempotency[k]
    BY <1>3 DEF Receipt, RecordIdempotency, catalogVars, dataVars, memory, Over, Entry
  <2>3. KeysNameFiles'
    BY <2>1, <2>2 DEF Body, KeysNameFiles, ItemAt
  <2> QED BY <2>1, <2>2, <2>3, BodyFrame
<1> QED BY <1>1, <1>2, <1>3

LEMMA AccumulatorBody ==
    ASSUME Shapes, Body, gone = {}, AccumulatorStep
    PROVE  Shapes' /\ Body'
<1> USE DEF AccumulatorOnly
<1>1. CASE Absorb
  <2>1. UNCHANGED <<wal, content, flush, todo, files, idempotency>>
    BY <1>1 DEF Absorb, catalogVars, dataVars, memory
  <2>2. Shapes' /\ \A c \in DOMAIN chunks' :
            \/ c \in DOMAIN chunks /\ chunks'[c].seqs = chunks[c].seqs
            \/ c = Min(Unread) /\ chunks'[c].seqs = {Min(Unread)}
            \/ c \in DOMAIN chunks /\ chunks'[c].seqs = chunks[c].seqs \cup {Min(Unread)}
    BY <1>1, AbsorbShapes
  <2>3. Min(Unread) \in DOMAIN wal /\ wal[Min(Unread)].kind = "data"
    BY <1>1, FirstUnread DEF Absorb
  <2>4. ChunksHoldWrites'
    BY <2>1, <2>2, <2>3 DEF Body, ChunksHoldWrites
  <2>5. /\ OneRange' /\ PendingFirst' /\ ObjectsInRange' /\ LandedHasObject' /\ FilesLanded'
        /\ FlushLogged' /\ TodoLogged' /\ KeysNameFiles'
    BY <2>1 DEF Body, OneRange, PendingFirst, ObjectsInRange, LandedHasObject, FilesLanded,
                FlushLogged, TodoLogged, KeysNameFiles, PendingAt, Landed, RowsBetween, ItemAt
  <2> QED BY <2>2, <2>4, <2>5 DEF Body
<1>2. CASE Refuse
  <2>1. UNCHANGED <<wal, content, chunks, flush, todo, files, idempotency, snapshot_version, gone>>
    BY <1>2 DEF Refuse, catalogVars, dataVars, memory, counters
  <2>2. KeysNameFiles'
    BY <2>1 DEF Body, KeysNameFiles, ItemAt
  <2>3. Shapes'
    BY <2>1, ShapesFrame DEF Shapes
  <2> QED BY <2>1, <2>2, <2>3, BodyFrame
<1>3. ASSUME NEW c \in DOMAIN chunks, Seal(c) PROVE Shapes' /\ Body'
  <2>1. UNCHANGED <<wal, content, flush, todo, files, idempotency>>
    BY <1>3 DEF Seal, catalogVars, dataVars, memory
  <2>2. KeysNameFiles'
    BY <2>1 DEF Body, KeysNameFiles, ItemAt
  <2>3. /\ Shapes' /\ DOMAIN chunks' = DOMAIN chunks
        /\ \A x \in DOMAIN chunks : chunks'[x].seqs = chunks[x].seqs
    BY <1>3, SealShapes
  <2> QED BY <2>1, <2>2, <2>3, BodyFrame
<1>4. ASSUME NEW c \in DOMAIN chunks, StartFlush(c) PROVE Shapes' /\ Body'
  <2>1. UNCHANGED <<content, todo, files, idempotency>>
    BY <1>4 DEF StartFlush, catalogVars, dataVars, memory
  <2>2. chunks[c].seqs # {} /\ \A p \in chunks[c].seqs : p \in DOMAIN wal /\ wal[p].kind = "data"
    BY DEF Body, ChunksHoldWrites
  <2>3. PICK b, lo, hi : b = NextBatch /\ lo = flush'.lo /\ hi = flush'.hi
    OBVIOUS
  <2>4. /\ Shapes'
        /\ b \in Batches /\ b \notin Used
        /\ DOMAIN chunks' = DOMAIN chunks
        /\ \A x \in DOMAIN chunks : chunks'[x].seqs = chunks[x].seqs
        /\ chunks[c].seqs \subseteq lo..hi - 1
        /\ lo \in Nat /\ hi \in Nat
        /\ flush' = Flushing(b, {c}, lo, hi, chunks[c].seqs)
        /\ PendingRecord(b, chunks[c].group, lo, hi) \in LogRecord
        /\ wal' = Append(wal, PendingRecord(b, chunks[c].group, lo, hi))
    BY <1>4, <2>2, <2>3, StartFlushShapes
  <2>5. /\ flush'.batch = b /\ flush'.lo = lo /\ flush'.hi = hi /\ flush'.pc = "announce"
        /\ flush'.rows = chunks[c].seqs
    BY <2>4 DEF Flushing
  <2>6. chunks[c].seqs \subseteq RowsBetween(lo, hi)
    BY <2>2, <2>4 DEF RowsBetween
  <2>7. \A q \in DOMAIN wal : wal[q].kind # "data" => wal[q].batch # b
    BY <2>4 DEF Used, IsData
  <2>8. \A q \in DOMAIN wal : ~PendingAt(q, b)
    BY <2>7 DEF PendingAt
  <2>9. \A q \in DOMAIN wal : wal[q].kind # "data" /\ wal[q].batch = b => wal[q].kind = "pending"
    BY <2>7
  <2>10. Body'
    BY <2>1, <2>4, <2>5, <2>6, <2>8, <2>9, BodyAnnounces
  <2> QED BY <2>4, <2>10
<1> QED BY <1>1, <1>2, <1>3, <1>4 DEF AccumulatorStep

\* What the flush under way will commit has its keys among those of its range.
LEMMA RangeHasKeys ==
    ASSUME gone = {}, NEW b \in DOMAIN content, NEW lo, NEW hi,
           content[b] \subseteq RowsBetween(lo, hi)
    PROVE  \A p \in content[b] : KeyOf[ItemAt(p)] # NoKey => KeyOf[ItemAt(p)] \in KeysIn(lo, hi)
  BY DEF RowsBetween, KeysIn, DataIn, OnDisk, IsData

\* A landed flush has its object, and the object is in its range.
LEMMA FlushedObject ==
    ASSUME Shapes, Body, flush.pc \in {"commit", "finish"}
    PROVE  /\ flush.batch \in Batches /\ Landed(flush.batch) /\ flush.batch \in DOMAIN content
           /\ content[flush.batch] \subseteq RowsBetween(flush.lo, flush.hi)
<1>1. flush.batch \in Batches /\ flush # NoFlush
  BY FlushFields
<1>2. Landed(flush.batch)
  BY <1>1 DEF Body, FlushLogged
<1>3. flush.batch \in DOMAIN content
  BY <1>1, <1>2 DEF Body, LandedHasObject
<1>4. PICK q \in DOMAIN wal :
          PendingAt(q, flush.batch) /\ wal[q].lo = flush.lo /\ wal[q].hi = flush.hi
  BY <1>1 DEF Body, FlushLogged
<1>5. content[flush.batch] \subseteq RowsBetween(flush.lo, flush.hi)
  BY <1>3, <1>4 DEF Body, ObjectsInRange
<1> QED BY <1>1, <1>2, <1>3, <1>5

\* The upload: the object is written, then its record.
LEMMA UploadBody ==
    ASSUME Shapes, Body, Upload
    PROVE  Body'
<1>b. PICK b : b = flush.batch
  OBVIOUS
<1>f. /\ flush # NoFlush /\ b \in Batches
      /\ flush.pc = "upload"
  BY <1>b, FlushFields DEF Upload
<1>u. UNCHANGED <<chunks, files, idempotency, todo>>
  BY DEF Upload, FlushOnly, catalogVars, dataVars, memory
<1>0. PICK r \in LogRecord : r = BatchRecord("s3written", b)
  BY <1>f DEF BatchRecord, LogRecord
<1>r. r.kind = "s3written" /\ r.batch = b /\ wal' = Append(wal, r)
  BY <1>0, <1>b DEF BatchRecord, Upload
<1>n. PICK n : n = Len(wal) + 1
  OBVIOUS
<1>1. /\ Len(wal) \in Nat /\ DOMAIN wal = 1..Len(wal) /\ DOMAIN wal' = 1..n /\ wal'[n] = r
      /\ \A p \in DOMAIN wal : p \in DOMAIN wal' /\ wal'[p] = wal[p]
  BY <1>r, <1>n, LogGrows DEF Shapes
<1>2. /\ \A q, x : PendingAt(q, x) => PendingAt(q, x)'
      /\ \A q, x : PendingAt(q, x)' => PendingAt(q, x)
      /\ \A x : Landed(x) => Landed(x)'
      /\ \A x : Landed(x)' => Landed(x) \/ x = b
      /\ \A l, h : RowsBetween(l, h) \subseteq RowsBetween(l, h)'
  BY <1>r, BatchesGrow DEF Shapes
<1>3. n \in DOMAIN wal' /\ \A p \in DOMAIN wal' : p \in DOMAIN wal \/ (p = n /\ wal'[p] = r)
  BY <1>1, <1>n
<1>4. ~Landed(b) /\ Landed(b)'
  <2>1. ~Landed(b)
    BY <1>b, <1>f DEF Body, FlushLogged
  <2>2. Landed(b)'
    BY <1>1, <1>r, <1>3 DEF Landed
  <2> QED BY <2>1, <2>2
<1>5. PICK q0 \in DOMAIN wal : PendingAt(q0, b) /\ wal[q0].lo = flush.lo /\ wal[q0].hi = flush.hi
  BY <1>b, <1>f DEF Body, FlushLogged
<1>6. flush.rows \subseteq RowsBetween(flush.lo, flush.hi)
  BY <1>f DEF Body, FlushLogged
<1>7. content' = Over(Entry(b, flush.rows), content)
  BY <1>b DEF Upload
<1>8. /\ DOMAIN content' = DOMAIN content \cup {b}
      /\ content'[b] = flush.rows
      /\ \A x \in DOMAIN content : x # b => content'[x] = content[x]
  BY <1>7 DEF Over, Entry
<1>9. OneRange'
  BY <1>1, <1>r, <1>3 DEF Body, OneRange
<1>10. PendingFirst'
  <2> SUFFICES ASSUME NEW p \in DOMAIN wal', NEW q \in DOMAIN wal',
                      wal'[p].kind = "pending", wal'[q].kind \in {"s3written", "committed", "abort"},
                      wal'[p].batch = wal'[q].batch
               PROVE  p < q
    BY DEF PendingFirst
  <2>1. p \in DOMAIN wal /\ wal'[p] = wal[p]
    BY <1>1, <1>r, <1>3
  <2>2. CASE q \in DOMAIN wal
    BY <1>1, <2>1, <2>2 DEF Body, PendingFirst
  <2>3. CASE q = n
    BY <1>1, <1>n, <2>1, <2>3
  <2> QED BY <1>3, <2>2, <2>3
<1>11. ChunksHoldWrites'
  BY <1>1, <1>u DEF Body, ChunksHoldWrites
<1>12. ObjectsInRange'
  <2>1. ASSUME NEW x \in DOMAIN content'
        PROVE  \E q \in DOMAIN wal' : PendingAt(q, x)'
    BY <1>1, <1>2, <1>5, <1>8 DEF Body, ObjectsInRange
  <2>2. ASSUME NEW x \in DOMAIN content', NEW q \in DOMAIN wal', PendingAt(q, x)',
               NEW p \in content'[x]
        PROVE  p \in DOMAIN wal' /\ wal'[p].kind = "data" /\ wal'[q].lo <= p /\ p < wal'[q].hi
    <3>1. PendingAt(q, x) /\ q \in DOMAIN wal /\ wal'[q] = wal[q]
      BY <1>1, <1>2, <2>2 DEF PendingAt
    <3>2. CASE x = b
      <4>1. wal[q].lo = flush.lo /\ wal[q].hi = flush.hi
        BY <1>5, <3>1, <3>2 DEF Body, OneRange, PendingAt
      <4>2. p \in RowsBetween(flush.lo, flush.hi)
        BY <1>6, <1>8, <2>2, <3>2
      <4>3. p \in DOMAIN wal /\ wal[p].kind = "data" /\ wal[q].lo <= p /\ p < wal[q].hi
        BY <4>1, <4>2 DEF RowsBetween
      <4> QED BY <1>1, <3>1, <4>3
    <3>3. CASE x # b
      <4>1. p \in RowsBetween(wal[q].lo, wal[q].hi)
        BY <1>8, <2>2, <3>1, <3>3 DEF Body, ObjectsInRange
      <4>2. p \in DOMAIN wal /\ wal[p].kind = "data" /\ wal[q].lo <= p /\ p < wal[q].hi
        BY <4>1 DEF RowsBetween
      <4> QED BY <1>1, <3>1, <4>2
    <3> QED BY <3>2, <3>3
  <2> QED BY <2>1, <2>2 DEF ObjectsInRange, RowsBetween
<1>13. LandedHasObject'
  BY <1>2, <1>8 DEF Body, LandedHasObject
<1>14. FilesLanded'
  BY <1>2, <1>u DEF Body, FilesLanded
<1>15. FlushLogged'
  <2>1. /\ flush'.batch = b /\ flush'.lo = flush.lo /\ flush'.hi = flush.hi
        /\ flush'.rows = flush.rows /\ flush'.pc = "commit"
    BY <1>b, <1>f, FlushFields DEF Upload, FlushRecord
  <2>2. q0 \in DOMAIN wal' /\ PendingAt(q0, b)' /\ wal'[q0].lo = flush.lo /\ wal'[q0].hi = flush.hi
    BY <1>1, <1>2, <1>5
  <2>3. flush'.rows \subseteq RowsBetween(flush.lo, flush.hi)'
    BY <1>2, <1>6, <2>1
  <2> QED BY <1>4, <2>1, <2>2, <2>3 DEF FlushLogged
<1>16. TodoLogged'
  BY <1>1, <1>2, <1>u DEF Body, TodoLogged
<1>17. KeysNameFiles'
  <2>1. b \notin DOMAIN files
    BY <1>4 DEF Body, FilesLanded
  <2> SUFFICES ASSUME NEW f \in DOMAIN files, NEW p \in content'[f], KeyOf[wal'[p].item] # NoKey
               PROVE  /\ KeyOf[wal'[p].item] \in DOMAIN idempotency
                      /\ idempotency[KeyOf[wal'[p].item]].batch = f
    BY <1>u DEF KeysNameFiles, ItemAt
  <2>2. f \in DOMAIN content /\ p \in content[f]
    BY <1>8, <2>1 DEF Body, Shapes, FilesLanded, LandedHasObject
  <2>3. wal'[p] = wal[p]
    BY <1>1, <2>2, RowsAreLogged DEF Body
  <2> QED BY <2>2, <2>3 DEF Body, KeysNameFiles, ItemAt
<1> QED BY <1>9, <1>10, <1>11, <1>12, <1>13, <1>14, <1>15, <1>16, <1>17 DEF Body

\* What is committed was uploaded; the rest of the step touches nothing.
LEMMA CommitBody ==
    ASSUME Shapes, Body, gone = {}, NEW b \in Batches, NEW rows, NEW lo, NEW hi,
           CommitBatch(b, rows, KeysIn(lo, hi)),
           Landed(b), content[b] \subseteq RowsBetween(lo, hi),
           wal' = wal, content' = content, chunks' = chunks, todo' \subseteq todo,
           \/ flush' = flush \/ flush' = NoFlush
           \/ /\ flush # NoFlush /\ flush'.batch = flush.batch /\ flush'.lo = flush.lo
              /\ flush'.hi = flush.hi /\ flush'.rows = flush.rows
              /\ flush.pc = "commit" /\ flush'.pc = "finish"
    PROVE  Body'
<1>1. b \in DOMAIN content
  BY DEF Body, LandedHasObject
<1>2. \A p \in content[b] : KeyOf[ItemAt(p)] # NoKey => KeyOf[ItemAt(p)] \in KeysIn(lo, hi)
  BY <1>1, RangeHasKeys
<1>3. PICK K : K = KeysIn(lo, hi)
  OBVIOUS
<1>4. /\ DOMAIN files' \subseteq DOMAIN files \cup {b}
      /\ DOMAIN idempotency \subseteq DOMAIN idempotency'
      /\ \A k \in DOMAIN idempotency :
             idempotency[k].batch # NoBatch => idempotency'[k].batch = idempotency[k].batch
      /\ b \in DOMAIN files' \ DOMAIN files =>
             \A k \in K : k \in DOMAIN idempotency' /\ idempotency'[k].batch = b
  BY <1>3, CommitBatchTakesKeys DEF Shapes
<1>5. KeysNameFiles'
  BY <1>1, <1>2, <1>3, <1>4, KeysStay
<1>6. OneRange' /\ PendingFirst'
  BY DEF Body, OneRange, PendingFirst
<1>7. ChunksHoldWrites'
  BY DEF Body, ChunksHoldWrites
<1>8. ObjectsInRange'
  BY DEF Body, ObjectsInRange, PendingAt, RowsBetween
<1>9. LandedHasObject' /\ FilesLanded'
  BY <1>4 DEF Body, LandedHasObject, FilesLanded, Landed
<1>10. FlushLogged'
  BY DEF Body, FlushLogged, PendingAt, RowsBetween, Landed
<1>11. TodoLogged'
  BY DEF Body, TodoLogged, PendingAt
<1> QED BY <1>5, <1>6, <1>7, <1>8, <1>9, <1>10, <1>11 DEF Body

LEMMA FlushBody ==
    ASSUME Shapes, Body, gone = {}, FlushStep
    PROVE  Body'
<1> USE DEF FlushOnly
<1>c. DOMAIN chunks' = DOMAIN chunks /\ \A c \in DOMAIN chunks : chunks'[c].seqs = chunks[c].seqs
  BY FlushShapes
<1>1. CASE Announce
  <2>1. UNCHANGED <<wal, content, chunks, files, idempotency, todo>>
    BY <1>1 DEF Announce, RecordInFlight, catalogVars, dataVars, memory
  <2>2. /\ flush # NoFlush /\ flush.pc = "announce"
        /\ flush'.batch = flush.batch /\ flush'.lo = flush.lo /\ flush'.hi = flush.hi
        /\ flush'.rows = flush.rows /\ flush'.pc = "upload"
    BY <1>1, FlushFields DEF Announce, FlushRecord
  <2>3. FlushLogged'
    BY <2>1, <2>2 DEF Body, FlushLogged, PendingAt, RowsBetween, Landed
  <2>4. /\ OneRange' /\ PendingFirst' /\ ChunksHoldWrites' /\ ObjectsInRange'
        /\ LandedHasObject' /\ FilesLanded' /\ TodoLogged' /\ KeysNameFiles'
    BY <2>1 DEF Body, OneRange, PendingFirst, ChunksHoldWrites, ObjectsInRange, LandedHasObject,
                FilesLanded, TodoLogged, KeysNameFiles, PendingAt, Landed, RowsBetween, ItemAt
  <2> QED BY <2>3, <2>4 DEF Body
<1>2. CASE Upload
  BY <1>2, UploadBody
<1>3. CASE Commit
  <2>1. /\ wal' = wal /\ content' = content /\ chunks' = chunks /\ todo' = todo
        /\ flush.pc = "commit"
        /\ CommitBatch(flush.batch, Cardinality(flush.rows), KeysIn(flush.lo, flush.hi))
    BY <1>3 DEF Commit
  <2>2. /\ flush # NoFlush
        /\ flush'.batch = flush.batch /\ flush'.lo = flush.lo /\ flush'.hi = flush.hi
        /\ flush'.rows = flush.rows /\ flush'.pc = "finish"
    BY <1>3, <2>1, FlushFields DEF Commit, FlushRecord
  <2>3. /\ flush.batch \in Batches /\ Landed(flush.batch)
        /\ content[flush.batch] \subseteq RowsBetween(flush.lo, flush.hi)
    BY <2>1, FlushedObject
  <2>4. PICK b, lo, hi, rows : b = flush.batch /\ lo = flush.lo /\ hi = flush.hi
                               /\ rows = Cardinality(flush.rows)
    OBVIOUS
  <2> QED BY <2>1, <2>2, <2>3, <2>4, CommitBody
<1>4. CASE Finish
  <2>1. /\ wal' = Append(wal, BatchRecord("committed", flush.batch))
        /\ flush.pc = "finish" /\ flush' = NoFlush
        /\ UNCHANGED catalogVars /\ content' = content
        /\ todo' = todo \ {flush.batch} \/ todo' = todo
    BY <1>4, Zenon DEF Finish
  <2>t. /\ UNCHANGED <<content, files, idempotency>>
        /\ todo' \subseteq todo
    BY <2>1 DEF catalogVars, dataVars, memory
  <2>2. flush.batch \in Batches /\ Landed(flush.batch)
    BY <2>1, FlushedObject
  <2>3. PICK r \in LogRecord : r = BatchRecord("committed", flush.batch)
    BY <2>2 DEF BatchRecord, LogRecord
  <2>4. r.kind = "committed" /\ r.batch = flush.batch
    BY <2>3 DEF BatchRecord
  <2> QED BY <1>c, <2>1, <2>t, <2>2, <2>3, <2>4, BodyAppends
<1>5. CASE FlushFails
  <2>1. UNCHANGED <<wal, content, chunks, files, idempotency, todo>> /\ flush' = NoFlush
    BY <1>5 DEF FlushFails, catalogVars, dataVars, memory
  <2>2. KeysNameFiles'
    BY <2>1 DEF Body, KeysNameFiles, ItemAt
  <2> QED BY <2>1, <2>2, BodyFrame
<1>6. CASE ReplyLost
  <2>1. /\ wal' = wal /\ content' = content /\ chunks' = chunks /\ todo' = todo
        /\ flush.pc = "commit" /\ flush' = NoFlush
        /\ CommitBatch(flush.batch, Cardinality(flush.rows), KeysIn(flush.lo, flush.hi))
    BY <1>6 DEF ReplyLost, CommitBatch
  <2>2. /\ flush.batch \in Batches /\ Landed(flush.batch)
        /\ content[flush.batch] \subseteq RowsBetween(flush.lo, flush.hi)
    BY <2>1, FlushedObject
  <2>3. PICK b, lo, hi, rows : b = flush.batch /\ lo = flush.lo /\ hi = flush.hi
                               /\ rows = Cardinality(flush.rows)
    OBVIOUS
  <2> QED BY <2>1, <2>2, <2>3, CommitBody
<1> QED BY <1>1, <1>2, <1>3, <1>4, <1>5, <1>6 DEF FlushStep

LEMMA ReclaimBody ==
    ASSUME Shapes, Body, NEW s, Reclaim(s)
    PROVE  Body'
<1>1. UNCHANGED <<wal, content, files, idempotency, flush, todo>>
  BY DEF Reclaim, logVars, catalogVars, dataVars, memory
<1>2. \A c \in DOMAIN chunks' : c \in DOMAIN chunks /\ chunks'[c].seqs = chunks[c].seqs
  BY ReclaimShapes
<1>3. KeysNameFiles'
  BY <1>1 DEF Body, KeysNameFiles, ItemAt
<1> QED BY <1>1, <1>2, <1>3, BodyFrame

LEMMA AbortBody ==
    ASSUME Shapes, Body, NEW b \in Batches, Abort(b)
    PROVE  Body'
<1>1. wal' = Append(wal, BatchRecord("abort", b)) /\ UNCHANGED <<catalogVars, content, procVars>>
  BY DEF Abort, MonitorOnly
<1>2. UNCHANGED <<content, files, idempotency, chunks, flush, todo>>
  BY <1>1 DEF catalogVars, dataVars, memory, procVars
<1>3. PICK r \in LogRecord : r = BatchRecord("abort", b)
  BY DEF BatchRecord, LogRecord
<1>4. r.kind = "abort"
  BY <1>3 DEF BatchRecord
<1> QED BY <1>1, <1>2, <1>3, <1>4, BodyAppends

LEMMA CrashBody ==
    ASSUME Shapes, Body, Crash
    PROVE  Body'
<1>1. /\ wal' = wal /\ content' = content /\ flush' = NoFlush /\ todo' = {} /\ DOMAIN chunks' = {}
  BY DEF Crash, logVars, Nothing
<1>2. (files' = files /\ idempotency' = idempotency) \/ DOMAIN files' = {}
  BY DEF Crash, CatalogLost, catalogVars, dataVars, memory, Nothing
<1>3. KeysNameFiles'
  BY <1>1, <1>2 DEF Body, KeysNameFiles, ItemAt
<1> QED BY <1>1, <1>2, <1>3, BodyFrame

\* A batch recovery has still to look at: its range in the log.
LEMMA TodoRange ==
    ASSUME Shapes, Body, gone = {}, NEW b \in todo
    PROVE  /\ b \in Batches /\ \E q \in DOMAIN wal : PendingAt(q, b)
           /\ PendingAt(LastPending(OnDisk, b), b)
           /\ BatchRange(b).lo \in Nat /\ BatchRange(b).hi \in Nat
           /\ \A q \in DOMAIN wal : PendingAt(q, b) =>
                  /\ wal[q].lo = BatchRange(b).lo /\ wal[q].hi = BatchRange(b).hi
                  /\ wal[q].group = BatchRange(b).group
           /\ b \in DOMAIN content => content[b] \subseteq RowsBetween(BatchRange(b).lo, BatchRange(b).hi)
<1>1. b \in Batches
  BY DEF Shapes
<1>2. \E q \in DOMAIN wal : PendingAt(q, b)
  BY DEF Body, TodoLogged
<1>3. PendingAt(LastPending(OnDisk, b), b)
  BY <1>2, LastPendingIsLast DEF Shapes
<1>4. PICK p : p = LastPending(OnDisk, b)
  OBVIOUS
<1>5. p \in DOMAIN wal /\ wal[p].kind = "pending" /\ wal[p].batch = b /\ wal[p] = BatchRange(b)
  BY <1>3, <1>4 DEF PendingAt, BatchRange
<1>6. wal[p] \in LogRecord
  BY <1>5 DEF Shapes
<1>7. wal[p].lo \in Nat /\ wal[p].hi \in Nat
  BY <1>5, <1>6, RecordFields
<1>8. \A q \in DOMAIN wal : PendingAt(q, b) =>
          wal[q].lo = wal[p].lo /\ wal[q].hi = wal[p].hi /\ wal[q].group = wal[p].group
  BY <1>5 DEF Body, OneRange, PendingAt
<1>9. b \in DOMAIN content => content[b] \subseteq RowsBetween(wal[p].lo, wal[p].hi)
  BY <1>3, <1>4, <1>5 DEF Body, ObjectsInRange
<1> QED BY <1>1, <1>2, <1>3, <1>5, <1>7, <1>8, <1>9

LEMMA RecoveryBody ==
    ASSUME Shapes, Body, gone = {}, RecoveryStep
    PROVE  Body'
<1> USE DEF RecoveryOnly
<1>1. ASSUME NEW k \in Keys, Reindex(k) PROVE Body'
  <2>1. UNCHANGED <<wal, content, chunks, flush, todo>>
    BY <1>1 DEF Reindex
  <2>2. /\ files' = files /\ DOMAIN idempotency \subseteq DOMAIN idempotency'
        /\ \A x \in DOMAIN idempotency : idempotency'[x] = idempotency[x]
    BY <1>1 DEF Reindex, RecordIdempotency, dataVars, Over, Entry
  <2>3. KeysNameFiles'
    BY <2>1, <2>2 DEF Body, KeysNameFiles, ItemAt
  <2> QED BY <2>1, <2>2, <2>3, BodyFrame
<1>2. CASE Resume
  <2>1. UNCHANGED <<wal, content, chunks, flush, files, idempotency>> /\ todo' = BatchesIn(OnDisk)
    BY <1>2 DEF Resume, catalogVars, dataVars, memory
  <2>2. \A b \in BatchesIn(OnDisk) : \E q \in DOMAIN wal : PendingAt(q, b)
    BY DEF BatchesIn, KnownIn, PendingsOf, RecordsOf, IsData, OnDisk, PendingAt
  <2>3. TodoLogged'
    BY <2>1, <2>2 DEF TodoLogged, PendingAt
  <2>4. /\ OneRange' /\ PendingFirst' /\ ChunksHoldWrites' /\ ObjectsInRange'
        /\ LandedHasObject' /\ FilesLanded' /\ FlushLogged' /\ KeysNameFiles'
    BY <2>1 DEF Body, OneRange, PendingFirst, ChunksHoldWrites, ObjectsInRange, LandedHasObject,
                FilesLanded, FlushLogged, KeysNameFiles, PendingAt, Landed, RowsBetween, ItemAt
  <2> QED BY <2>3, <2>4 DEF Body
<1>3. CASE Serve
  <2>1. UNCHANGED <<wal, content, chunks, flush, todo, files, idempotency>>
    BY <1>3 DEF Serve, catalogVars, dataVars, memory
  <2>2. KeysNameFiles'
    BY <2>1 DEF Body, KeysNameFiles, ItemAt
  <2> QED BY <2>1, <2>2, BodyFrame
<1>4. ASSUME NEW b \in todo, Recommit(b) PROVE Body'
  <2>1. PICK lo, hi, rows :
            lo = BatchRange(b).lo /\ hi = BatchRange(b).hi /\ rows = Cardinality(content[b])
    OBVIOUS
  <2>2. /\ CommitBatch(b, rows, KeysIn(lo, hi)) /\ StatusIn(OnDisk, b) \in {"s3written", "committed"}
        /\ wal' = wal /\ content' = content /\ chunks' = chunks /\ todo' \subseteq todo
        /\ flush' = flush
    BY <1>4, <2>1 DEF Recommit
  <2>3. /\ b \in Batches /\ \E q \in DOMAIN wal : PendingAt(q, b)
        /\ b \in DOMAIN content => content[b] \subseteq RowsBetween(lo, hi)
    BY <2>1, TodoRange
  <2>4. Landed(b)
    BY <2>2, <2>3, StatusLanded DEF Shapes
  <2>5. content[b] \subseteq RowsBetween(lo, hi)
    BY <2>3, <2>4 DEF Body, LandedHasObject
  <2> QED BY <2>2, <2>3, <2>4, <2>5, CommitBody
<1>5. ASSUME NEW b \in todo, Redo(b) PROVE Body'
  <2>1. PICK g, lo, hi :
            g = BatchRange(b).group /\ lo = BatchRange(b).lo /\ hi = BatchRange(b).hi
    OBVIOUS
  <2>2. /\ wal' = Append(wal, PendingRecord(b, g, lo, hi))
        /\ flush' = Flushing(b, {}, lo, hi, RedoRows(b)) /\ StatusIn(OnDisk, b) = "pending"
        /\ UNCHANGED <<content, todo, chunks, files, idempotency>>
    BY <1>5, <2>1 DEF Redo, catalogVars, dataVars, memory
  <2>3. /\ b \in Batches /\ \E q \in DOMAIN wal : PendingAt(q, b)
        /\ PendingAt(LastPending(OnDisk, b), b)
        /\ lo \in Nat /\ hi \in Nat
        /\ \A q \in DOMAIN wal : PendingAt(q, b) =>
               wal[q].lo = lo /\ wal[q].hi = hi /\ wal[q].group = g
    BY <2>1, TodoRange
  <2>4. \A q \in DOMAIN wal : wal[q].kind # "data" /\ wal[q].batch = b => wal[q].kind = "pending"
    BY <2>2, <2>3, PendingNotLanded DEF Shapes, Body
  <2>5. PendingRecord(b, g, lo, hi) \in LogRecord
    BY <1>5, <2>1, <2>3, RedoShapes
  <2>6. RedoRows(b) \subseteq RowsBetween(lo, hi)
    BY <2>1 DEF RedoRows, DataIn, RowsBetween, OnDisk, IsData
  <2>7. /\ flush'.batch = b /\ flush'.lo = lo /\ flush'.hi = hi /\ flush'.pc = "announce"
        /\ flush'.rows = RedoRows(b)
    BY <2>2 DEF Flushing
  <2>8. flush'.rows \subseteq RowsBetween(lo, hi)
    BY <2>6, <2>7
  <2> QED BY <2>2, <2>3, <2>4, <2>5, <2>7, <2>8, BodyAnnounces
<1>6. ASSUME NEW b \in todo, GiveUp(b) PROVE Body'
  <2>1. /\ wal' = Append(wal, BatchRecord("abort", b)) /\ todo' \subseteq todo
        /\ UNCHANGED <<content, flush, chunks, files, idempotency>>
    BY <1>6 DEF GiveUp, catalogVars, dataVars, memory
  <2>2. PICK r \in LogRecord : r = BatchRecord("abort", b)
    BY DEF BatchRecord, LogRecord, Shapes
  <2>3. r.kind = "abort"
    BY <2>2 DEF BatchRecord
  <2> QED BY <2>1, <2>2, <2>3, BodyAppends
<1> QED BY <1>1, <1>2, <1>3, <1>4, <1>5, <1>6 DEF RecoveryStep

-----------------------------------------------------------------------------
(* The invariant, and the property. *)

\* Segments only go, and their going is remembered.
LEMMA GoneIsTrouble ==
    ASSUME [Next]_vars
    PROVE  /\ gone \subseteq gone' /\ trouble \subseteq trouble'
           /\ gone' # gone => "segment" \in trouble'
<1> USE DEF logVars, historyVars, procVars
<1>1. CASE ClientStep
  BY <1>1 DEF ClientStep, Check, Reject, Log, Receipt, ReceiptFails, ReqStep
<1>2. CASE AccumulatorStep
  <2>1. UNCHANGED gone /\ (UNCHANGED trouble \/ trouble' = trouble \cup {"refused"})
    BY <1>2, Zenon DEF AccumulatorStep, Absorb, Refuse, Seal, StartFlush, AccumulatorOnly
  <2> QED BY <2>1
<1>3. CASE FlushStep
  <2>1. UNCHANGED gone /\ (UNCHANGED trouble \/ trouble' = trouble \cup {"reply"})
    BY <1>3, Zenon DEF FlushStep, Announce, Upload, Commit, Finish, FlushFails, ReplyLost, FlushOnly
  <2> QED BY <2>1
<1>4. CASE ReclaimStep
  BY <1>4, Zenon DEF ReclaimStep, Reclaim
<1>5. CASE MonitorStep
  BY <1>5 DEF MonitorStep, Abort, RemoveSegment
<1>6. CASE Crash
  BY <1>6 DEF Crash
<1>7. CASE RecoveryStep
  <2>1. UNCHANGED gone
    BY <1>7, Zenon DEF RecoveryStep, Reindex, Resume, Serve, Recommit, Redo, GiveUp, RecoveryOnly
  <2>2. trouble \subseteq trouble'
    BY <1>7 DEF RecoveryStep, Reindex, Resume, Serve, Recommit, Redo, GiveUp
  <2> QED BY <2>1, <2>2
<1>8. CASE UNCHANGED vars
  BY <1>8 DEF vars
<1> QED BY <1>1, <1>2, <1>3, <1>4, <1>5, <1>6, <1>7, <1>8 DEF Next

LEMMA KInvHoldsAtFirst == ASSUME Init PROVE KInv
<1>1. wal \in Seq(LogRecord) /\ DOMAIN wal = {}
  BY DEF Init
<1>2. /\ gone = {} /\ flush = NoFlush /\ snapshot_version \in Nat /\ todo = {}
      /\ DOMAIN chunks = {} /\ DOMAIN files = {} /\ DOMAIN content = {}
  BY DEF Init, Nothing
<1>3. Shapes
  BY <1>1, <1>2 DEF Shapes
<1>4. Body
  BY <1>1, <1>2 DEF Body, OneRange, PendingFirst, ChunksHoldWrites, ObjectsInRange,
                    LandedHasObject, FilesLanded, FlushLogged, TodoLogged, KeysNameFiles, Landed
<1> QED BY <1>2, <1>3, <1>4 DEF KInv

LEMMA KInvIsKept == ASSUME KInv, [Next]_vars PROVE KInv'
<1>1. gone' # {} => "segment" \in trouble'
  BY GoneIsTrouble DEF KInv
<1>2. ASSUME gone' = {} PROVE Shapes' /\ Body'
  <2>1. gone = {} /\ Shapes /\ Body
    BY <1>2, GoneIsTrouble DEF KInv
  <2>2. CASE ClientStep
    BY <2>1, <2>2, ClientShapes, ClientBody DEF ClientStep
  <2>3. CASE AccumulatorStep
    BY <2>1, <2>3, AccumulatorBody
  <2>4. CASE FlushStep
    BY <2>1, <2>4, FlushShapes, FlushBody
  <2>5. CASE ReclaimStep
    BY <2>1, <2>5, ReclaimShapes, ReclaimBody DEF ReclaimStep
  <2>6. CASE MonitorStep
    <3>1. Shapes'
      BY <2>1, <2>6, MonitorShapes
    <3>2. ~ \E n \in 0..Len(wal) : RemoveSegment(n)
      BY <1>2, <2>1 DEF RemoveSegment
    <3> QED BY <2>1, <2>6, <3>1, <3>2, AbortBody DEF MonitorStep
  <2>7. CASE Crash
    BY <2>1, <2>7, CrashShapes, CrashBody
  <2>8. CASE RecoveryStep
    BY <2>1, <2>8, RecoveryShapes, RecoveryBody DEF Body
  <2>9. CASE UNCHANGED vars
    <3>1. /\ UNCHANGED <<wal, content, chunks, flush, todo, files, idempotency>>
          /\ snapshot_version' = snapshot_version
      BY <2>9 DEF vars, logVars, procVars, catalogVars, dataVars, memory, counters
    <3>2. KeysNameFiles'
      BY <2>1, <3>1 DEF Body, KeysNameFiles, ItemAt
    <3>3. Shapes'
      BY <2>1, <3>1 DEF Shapes
    <3> QED BY <2>1, <3>1, <3>2, <3>3, BodyFrame
  <2> QED BY <2>2, <2>3, <2>4, <2>5, <2>6, <2>7, <2>8, <2>9 DEF Next
<1> QED BY <1>1, <1>2 DEF KInv

LEMMA KInvGivesKeyedOnce == ASSUME KInv PROVE KeyedOnce
<1> SUFFICES ASSUME "segment" \notin trouble, NEW k \in Keys
             PROVE  Cardinality(FilesOf(k)) <= 1
  BY DEF KeyedOnce
<1>1. KeysNameFiles
  BY DEF KInv, Body
<1>2. k # NoKey
  BY KeyAssumption
<1>3. \A b \in FilesOf(k) : b = idempotency[k].batch
  BY <1>1, <1>2 DEF FilesOf, KeysNameFiles
<1>4. CASE FilesOf(k) = {}
  BY <1>4, FS_EmptySet
<1>5. CASE FilesOf(k) # {}
  <2>1. FilesOf(k) = {idempotency[k].batch}
    BY <1>3, <1>5
  <2>2. Cardinality(FilesOf(k)) = 1
    BY <2>1, FS_Singleton
  <2> QED BY <2>2
<1> QED BY <1>4, <1>5

\* A key is committed by one file at most, whatever fails, is lost, crashes or is
\* tried again, as long as the monitor has removed no segment of the log: for any
\* writes and keys, any number of batches, crashes and faults (flush.rs: the keys
\* of a batch are those of its whole range, and a restart finishes or repeats it
\* under its own id).
THEOREM KeysCommitOnce == Spec => []KeyedOnce
<1>1. Init => KInv
  BY KInvHoldsAtFirst
<1>2. KInv /\ [Next]_vars => KInv'
  BY KInvIsKept
<1>3. KInv => KeyedOnce
  BY KInvGivesKeyedOnce
<1> QED BY <1>1, <1>2, <1>3, PTL DEF Spec

-----------------------------------------------------------------------------
(* What is answered is kept.  A write is lost where a batch covers it without
   holding it, so the account is of holes: a write of the range and group of a
   batch that is not in its object is in a file of a narrower range.           *)

\* The accidents AckedKeptUnlessDropped excepts.  They last.
Clean ==
    /\ trouble \cap {"segment", "refused", "abort"} = {}
    /\ ~KeyLoggedTwice /\ ~StrayKey

Aborted(b) == \E q \in DOMAIN wal : wal[q].kind = "abort" /\ wal[q].batch = b

\* The write at p is of the group and range the batch b announces at q.
Spans(q, b, p) ==
    /\ PendingAt(q, b) /\ p \in Logged
    /\ GroupAt(p) = wal[q].group /\ wal[q].lo <= p /\ p < wal[q].hi

\* Of two batches only one can be committed with a key.
TakenAt(q, b) ==
    \E p \in Logged :
        /\ Keyed(ItemAt(p)) /\ wal[q].lo <= p /\ p < wal[q].hi
        /\ KeyTaken(KeyOf[ItemAt(p)], b)

\* b, announced at q, is or will be in the catalog with the write at p.
Houses(q, b, p) ==
    /\ b \in DOMAIN content /\ Spans(q, b, p) /\ p \in content[b]
    /\ ~Aborted(b)
    /\ b \in DOMAIN files \/ (mode # "up" /\ ~TakenAt(q, b))

\* With a range inside lo..hi - 1 that leaves out both ends.
HousedWithin(p, lo, hi) ==
    /\ lo \in Nat /\ hi \in Nat
    /\ \E q \in DOMAIN wal : \E b \in Batches :
           Houses(q, b, p) /\ lo < wal[q].lo /\ wal[q].hi < hi

ClaimOf(q) == [group |-> wal[q].group, lo |-> wal[q].lo, hi |-> wal[q].hi]

\* By a file that recovery claimed.
HousedAsClaimed(p) ==
    \E q \in DOMAIN wal : \E b \in Batches : Houses(q, b, p) /\ ClaimOf(q) \in claims

AnsweredLogged ==
    /\ DOMAIN req = Items
    /\ \A i \in Items :
           /\ req[i] = "logged" => \E p \in Logged : ItemAt(p) = i
           /\ req[i] = "done" => \E p \in Logged : SameWrite(i, ItemAt(p))

IndexLogged ==
    \A k \in DOMAIN idempotency :
        /\ k # NoKey
        /\ \E p \in Logged : KeyOf[ItemAt(p)] = k

\* A key names a file, and lies in the range of its batch.
KeysAnnounced ==
    \A k \in DOMAIN idempotency : idempotency[k].batch # NoBatch =>
        /\ idempotency[k].batch \in DOMAIN files
        /\ \E q \in DOMAIN wal : \E p \in Logged :
               /\ PendingAt(q, idempotency[k].batch)
               /\ KeyOf[ItemAt(p)] = k /\ wal[q].lo <= p /\ p < wal[q].hi

\* The range of a batch ends before its announcement and holds a write.
RangesBehind ==
    \A q \in DOMAIN wal : wal[q].kind = "pending" =>
        wal[q].hi <= q /\ RowsBetween(wal[q].lo, wal[q].hi) # {}

ObjectsLanded == \A b \in DOMAIN content : b \in Batches /\ Landed(b)

NoneAborted ==
    \A b \in Batches :
        b \in DOMAIN files \/ b \in todo \/ (flush # NoFlush /\ flush.batch = b) => ~Aborted(b)

Phases ==
    /\ mode \in {"up", "reindex", "resume"}
    /\ mode # "up" => DOMAIN chunks = {}
    /\ mode # "resume" => todo = {}
    /\ mode = "reindex" => flush = NoFlush /\ claims = {}
    /\ flush # NoFlush => IF mode = "up" THEN flush.chunk # {}
                          ELSE flush.chunk = {} /\ flush.batch \in todo

SeqsRead ==
    /\ read \in Nat /\ read <= Len(wal) + 1
    /\ \A c \in DOMAIN chunks : \A p \in chunks[c].seqs :
           p < read /\ GroupAt(p) = chunks[c].group /\ ~Claimed(p)

ClaimsLogged ==
    \A c \in claims : \E q \in DOMAIN wal : wal[q].kind = "pending" /\ c = ClaimOf(q)

ClaimsHoused == mode = "up" => \A p \in Logged : Claimed(p) => HousedAsClaimed(p)

ChunkHoles ==
    \A c \in DOMAIN chunks : \A x \in chunks[c].seqs : \A p \in Logged \ chunks[c].seqs :
        /\ GroupAt(p) = chunks[c].group /\ x < p
        /\ (chunks[c].state = "open" /\ p < read) \/ \E y \in chunks[c].seqs : p < y
        => HousedAsClaimed(p)

FlushHoles ==
    flush # NoFlush =>
        \A q \in DOMAIN wal : \A p \in Logged \ flush.rows :
            Spans(q, flush.batch, p) => HousedWithin(p, flush.lo, flush.hi)

ObjectHoles ==
    \A b \in DOMAIN content : \A q \in DOMAIN wal : \A p \in Logged \ content[b] :
        Spans(q, b, p) => HousedWithin(p, wal[q].lo, wal[q].hi)

FlushDone ==
    flush # NoFlush /\ flush.pc = "finish" =>
        \A q \in DOMAIN wal : PendingAt(q, flush.batch) =>
            flush.batch \in DOMAIN files \/ TakenAt(q, flush.batch)

\* What recovery has dealt with.
Resumed ==
    mode = "resume" =>
        /\ \A q \in DOMAIN wal : \A b \in Batches : PendingAt(q, b) /\ ~Aborted(b) /\ b \notin todo =>
               /\ b \in DOMAIN files \/ TakenAt(q, b)
               /\ Landed(b) /\ ClaimOf(q) \in claims
        /\ \A c \in claims : \E q \in DOMAIN wal : \E b \in Batches :
               PendingAt(q, b) /\ c = ClaimOf(q) /\ ~Aborted(b) /\ Landed(b)

Account ==
    /\ AnsweredLogged /\ IndexLogged /\ KeysAnnounced
    /\ RangesBehind /\ ObjectsLanded /\ NoneAborted /\ Phases
    /\ SeqsRead /\ ClaimsLogged /\ ClaimsHoused
    /\ ChunkHoles /\ FlushHoles /\ ObjectHoles
    /\ FlushDone /\ Resumed

AInv == KInv /\ (Clean => Account)

-----------------------------------------------------------------------------
(* A step: the log is as it was or one record longer. *)

Grows ==
    /\ \A p \in DOMAIN wal : p \in DOMAIN wal' /\ wal'[p] = wal[p]
    /\ \A p, q \in DOMAIN wal' : p < q => p \in DOMAIN wal
    /\ DOMAIN wal' \subseteq Nat
    /\ \A p \in DOMAIN wal' \ DOMAIN wal : \A q \in DOMAIN wal : q < p
    /\ \A p \in DOMAIN wal' \ DOMAIN wal : p = Len(wal) + 1
    /\ Len(wal) \in Nat /\ Len(wal') \in Nat /\ Len(wal) <= Len(wal')

Ready ==
    /\ gone = {} /\ Shapes /\ Body /\ Clean /\ Account
    /\ Grows /\ Shapes' /\ Body' /\ Clean'

LEMMA SameLogGrows == ASSUME wal \in Seq(LogRecord), wal' = wal PROVE Grows
<1>1. Len(wal) \in Nat /\ DOMAIN wal = 1..Len(wal)
  OBVIOUS
<1> QED BY <1>1 DEF Grows

LEMMA AppendGrows ==
    ASSUME wal \in Seq(LogRecord), NEW r, wal' = Append(wal, r)
    PROVE  Grows
<1> DEFINE S == LogRecord \cup {r}
<1>1. wal \in Seq(S) /\ r \in S
  OBVIOUS
<1> HIDE DEF S
<1>2. /\ Len(wal) \in Nat /\ DOMAIN wal = 1..Len(wal)
      /\ wal' \in Seq(S) /\ Len(wal') = Len(wal) + 1
      /\ DOMAIN wal' = 1..Len(wal) + 1
      /\ \A p \in DOMAIN wal : p \in DOMAIN wal' /\ wal'[p] = wal[p]
  BY <1>1
<1> QED BY <1>2 DEF Grows

\* Every step: what is written stays written.
LEMMA NextGrows == ASSUME wal \in Seq(LogRecord), [Next]_vars PROVE Grows
<1> USE DEF logVars
<1> SUFFICES wal' = wal \/ \E r : wal' = Append(wal, r)
  BY SameLogGrows, AppendGrows
<1>1. CASE ClientStep
  BY <1>1, Zenon DEF ClientStep, Check, Reject, Log, Receipt, ReceiptFails
<1>2. CASE AccumulatorStep
  <2>1. CASE Absorb \/ Refuse \/ \E c \in DOMAIN chunks : Seal(c)
    BY <2>1, Zenon DEF Absorb, Refuse, Seal
  <2>2. ASSUME NEW c \in DOMAIN chunks, StartFlush(c) PROVE \E r : wal' = Append(wal, r)
    BY <2>2, Zenon DEF StartFlush
  <2> QED BY <1>2, <2>1, <2>2, Zenon DEF AccumulatorStep
<1>3. CASE FlushStep
  <2>1. CASE Announce \/ Commit \/ FlushFails \/ ReplyLost
    BY <2>1, Zenon DEF Announce, Commit, FlushFails, ReplyLost
  <2>2. CASE Upload \/ Finish
    BY <2>2, Zenon DEF Upload, Finish
  <2> QED BY <1>3, <2>1, <2>2, Zenon DEF FlushStep
<1>4. CASE ReclaimStep
  BY <1>4, Zenon DEF ReclaimStep, Reclaim
<1>5. CASE MonitorStep
  BY <1>5, Zenon DEF MonitorStep, Abort, RemoveSegment
<1>6. CASE Crash
  BY <1>6, Zenon DEF Crash
<1>7. CASE RecoveryStep
  <2>1. CASE Resume \/ Serve \/ \E k \in Keys : Reindex(k)
    BY <2>1, Zenon DEF Resume, Serve, Reindex
  <2>2. ASSUME NEW b \in todo, Recommit(b) \/ Redo(b) \/ GiveUp(b)
        PROVE  wal' = wal \/ \E r : wal' = Append(wal, r)
    BY <2>2, Zenon DEF Recommit, Redo, GiveUp
  <2> QED BY <1>7, <2>1, <2>2, Zenon DEF RecoveryStep
<1>8. CASE UNCHANGED vars
  BY <1>8, Zenon DEF vars
<1> QED BY <1>1, <1>2, <1>3, <1>4, <1>5, <1>6, <1>7, <1>8, Zenon DEF Next

\* Writes and what is said of them stay.
LEMMA LoggedGrows ==
    ASSUME Grows
    PROVE  /\ \A p \in Logged : /\ p \in Logged' /\ ItemAt(p)' = ItemAt(p)
                                /\ GroupAt(p)' = GroupAt(p)
           /\ \A q, b : PendingAt(q, b) => PendingAt(q, b)'
           /\ \A q, b : PendingAt(q, b)' /\ q \in DOMAIN wal => PendingAt(q, b)
           /\ \A b : Landed(b) => Landed(b)'
           /\ \A b : Aborted(b) => Aborted(b)'
           /\ \A q, b, p : Spans(q, b, p) => Spans(q, b, p)'
           /\ \A lo, hi : RowsBetween(lo, hi) \subseteq RowsBetween(lo, hi)'
<1>1. \A p \in DOMAIN wal : p \in DOMAIN wal' /\ wal'[p] = wal[p]
  BY DEF Grows
<1>2. \A p \in Logged : p \in DOMAIN wal /\ p \in Logged' /\ ItemAt(p)' = ItemAt(p) /\ GroupAt(p)' = GroupAt(p)
  BY <1>1 DEF Logged, Positions, IsData, ItemAt, GroupAt
<1>3. \A q, b : PendingAt(q, b) => PendingAt(q, b)'
  BY <1>1 DEF PendingAt
<1>4. \A q, b : PendingAt(q, b)' /\ q \in DOMAIN wal => PendingAt(q, b)
  BY <1>1 DEF PendingAt
<1>5. \A b : Landed(b) => Landed(b)'
  BY <1>1 DEF Landed
<1>6. \A b : Aborted(b) => Aborted(b)'
  BY <1>1 DEF Aborted
<1>7. \A q, b, p : Spans(q, b, p) => Spans(q, b, p)'
  <2> TAKE q, b, p
  <2> SUFFICES ASSUME Spans(q, b, p) PROVE Spans(q, b, p)'
    OBVIOUS
  <2>1. q \in DOMAIN wal /\ wal'[q] = wal[q] /\ PendingAt(q, b)'
    BY <1>1, <1>3 DEF Spans, PendingAt
  <2> QED BY <1>2, <2>1 DEF Spans
<1>8. \A lo, hi : RowsBetween(lo, hi) \subseteq RowsBetween(lo, hi)'
  BY <1>1 DEF RowsBetween
<1> QED BY <1>2, <1>3, <1>4, <1>5, <1>6, <1>7, <1>8

\* The accidents last.
LEMMA CleanLasts ==
    ASSUME Grows, trouble \subseteq trouble', Clean'
    PROVE  Clean
<1>1. /\ \A p \in Logged : p \in Logged' /\ ItemAt(p)' = ItemAt(p) /\ GroupAt(p)' = GroupAt(p)
      /\ \A q \in DOMAIN wal : q \in DOMAIN wal' /\ wal'[q] = wal[q]
  BY LoggedGrows DEF Grows
<1>2. ~KeyLoggedTwice
  BY <1>1 DEF Clean, KeyLoggedTwice, Keyed
<1>3. ~StrayKey
  <2> SUFFICES ASSUME StrayKey PROVE StrayKey'
    BY DEF Clean
  <2>1. PICK p \in Logged, q \in Positions :
            /\ Keyed(ItemAt(p)) /\ Announces(q, p)
            /\ \/ wal[q].group # GroupAt(p)
               \/ \E r \in Positions : Announces(r, p) /\ <<wal[r].lo, wal[r].hi>> # <<wal[q].lo, wal[q].hi>>
    BY DEF StrayKey
  <2>2. \A r \in Positions : r \in Positions' /\ wal'[r] = wal[r] /\ (Announces(r, p) => Announces(r, p)')
    BY <1>1 DEF Positions, Announces
  <2>3. Keyed(ItemAt(p))' /\ p \in Logged' /\ GroupAt(p)' = GroupAt(p)
    BY <1>1, <2>1 DEF Keyed
  <2>4. CASE wal[q].group # GroupAt(p)
    BY <2>1, <2>2, <2>3, <2>4 DEF StrayKey
  <2>5. CASE \E r \in Positions : Announces(r, p) /\ <<wal[r].lo, wal[r].hi>> # <<wal[q].lo, wal[q].hi>>
    <3>1. PICK r \in Positions : Announces(r, p) /\ <<wal[r].lo, wal[r].hi>> # <<wal[q].lo, wal[q].hi>>
      BY <2>5
    <3>2. /\ r \in Positions' /\ Announces(r, p)'
          /\ <<wal'[r].lo, wal'[r].hi>> # <<wal'[q].lo, wal'[q].hi>>
      BY <2>2, <3>1
    <3> QED BY <2>1, <2>2, <2>3, <3>2 DEF StrayKey
  <2> QED BY <2>1, <2>4, <2>5
<1> QED BY <1>2, <1>3 DEF Clean

-----------------------------------------------------------------------------
(* What houses a write goes on housing it. *)

\* No key is taken by a batch.
KeysStill ==
    \A k \in DOMAIN idempotency' : idempotency'[k].batch # NoBatch =>
        k \in DOMAIN idempotency /\ idempotency[k].batch = idempotency'[k].batch

KeysKept ==
    \A k \in DOMAIN idempotency :
        /\ k \in DOMAIN idempotency'
        /\ idempotency[k].batch # NoBatch => idempotency'[k].batch = idempotency[k].batch

\* An abort is of a batch that houses nothing.
AbortsSpare ==
    \A b : Aborted(b)' => Aborted(b) \/ (mode = "up" /\ b \notin DOMAIN files)

\* An announcement is a record, with numbers for its range.
LEMMA PendingFields ==
    ASSUME Shapes, NEW q, NEW b, PendingAt(q, b)
    PROVE  /\ q \in DOMAIN wal /\ q \in Nat /\ wal[q].kind = "pending" /\ wal[q].batch = b /\ b \in Batches
           /\ wal[q].group \in Groups /\ wal[q].lo \in Nat /\ wal[q].hi \in Nat
<1>1. q \in DOMAIN wal /\ wal[q].kind = "pending" /\ wal[q].batch = b
  BY DEF PendingAt
<1>2. wal[q] \in LogRecord /\ q \in Nat
  BY <1>1 DEF Shapes
<1> QED BY <1>1, <1>2, RecordFields

\* The range of a batch lies in the log before its announcement.
LEMMA SpansBack ==
    ASSUME Shapes', Grows, RangesBehind', NEW q, NEW b, NEW p, Spans(q, b, p)'
    PROVE  /\ p \in Logged /\ p \in DOMAIN wal /\ GroupAt(p)' = GroupAt(p) /\ wal'[p] = wal[p]
           /\ q \in DOMAIN wal => Spans(q, b, p)
<1>1. PendingAt(q, b)' /\ p \in DOMAIN wal' /\ wal'[p].kind = "data" /\ p < wal'[q].hi
      /\ GroupAt(p)' = wal'[q].group /\ wal'[q].lo <= p
  <2>1. p \in Logged' /\ PendingAt(q, b)' /\ GroupAt(p)' = wal'[q].group /\ wal'[q].lo <= p /\ p < wal'[q].hi
    BY DEF Spans
  <2> QED BY <2>1 DEF Logged, Positions, IsData
<1>2. q \in DOMAIN wal' /\ q \in Nat /\ wal'[q].hi \in Nat /\ wal'[q].kind = "pending"
  <2>1. q \in DOMAIN wal' /\ wal'[q].kind = "pending"
    BY <1>1 DEF PendingAt
  <2>2. wal'[q] \in LogRecord /\ q \in Nat
    BY <2>1 DEF Shapes
  <2> QED BY <2>1, <2>2, RecordFields
<1>3. wal'[q].hi <= q
  BY <1>2 DEF RangesBehind
<1>4. p \in Nat
  BY <1>1 DEF Grows
<1>5. p < q
  BY <1>1, <1>2, <1>3, <1>4
<1>6. p \in DOMAIN wal
  BY <1>1, <1>2, <1>5 DEF Grows
<1>7. wal'[p] = wal[p]
  BY <1>6 DEF Grows
<1>8. p \in Logged
  BY <1>1, <1>6, <1>7 DEF Logged, Positions, IsData
<1>9. GroupAt(p)' = GroupAt(p)
  BY <1>7 DEF GroupAt, ItemAt
<1>10. ASSUME q \in DOMAIN wal PROVE Spans(q, b, p)
  <2>1. wal'[q] = wal[q] /\ PendingAt(q, b)
    BY <1>1, <1>10, LoggedGrows DEF Grows
  <2> QED BY <1>1, <1>8, <1>9, <2>1 DEF Spans
<1> QED BY <1>6, <1>7, <1>8, <1>9, <1>10

LEMMA TakenStays ==
    ASSUME Grows, KeysKept, NEW q, NEW b, PendingAt(q, b), TakenAt(q, b)
    PROVE  TakenAt(q, b)'
<1>1. PICK p \in Logged : /\ Keyed(ItemAt(p)) /\ wal[q].lo <= p /\ p < wal[q].hi
                          /\ KeyTaken(KeyOf[ItemAt(p)], b)
  BY DEF TakenAt
<1>2. p \in Logged' /\ ItemAt(p)' = ItemAt(p) /\ wal'[q] = wal[q]
  BY <1>1, LoggedGrows DEF PendingAt, Grows
<1>3. KeyTaken(KeyOf[ItemAt(p)], b)'
  BY <1>1, <1>2 DEF KeyTaken, KeysKept
<1> QED BY <1>1, <1>2, <1>3 DEF TakenAt, Keyed

\* The key by which a batch is taken afterwards.
LEMMA TakenBy ==
    ASSUME Shapes, Grows, RangesBehind, NEW q, NEW b, PendingAt(q, b), TakenAt(q, b)'
    PROVE  \E p \in Logged :
               /\ Keyed(ItemAt(p)) /\ wal[q].lo <= p /\ p < wal[q].hi
               /\ KeyTaken(KeyOf[ItemAt(p)], b)'
<1>1. PICK p \in Logged' : /\ Keyed(ItemAt(p))' /\ wal'[q].lo <= p /\ p < wal'[q].hi
                           /\ KeyTaken(KeyOf[ItemAt(p)], b)'
  BY DEF TakenAt
<1>2. /\ q \in DOMAIN wal /\ q \in Nat /\ wal[q].hi \in Nat /\ wal'[q] = wal[q]
      /\ wal[q].kind = "pending"
  BY PendingFields DEF Grows
<1>3. wal[q].hi <= q
  BY <1>2 DEF RangesBehind
<1>4. p \in DOMAIN wal' /\ p \in Nat /\ q \in DOMAIN wal'
  BY <1>2 DEF Logged, Positions, Grows
<1>5. p < q
  BY <1>1, <1>2, <1>3, <1>4
<1>6. p \in DOMAIN wal /\ wal'[p] = wal[p]
  BY <1>4, <1>5 DEF Grows
<1>7. p \in Logged /\ ItemAt(p)' = ItemAt(p)
  BY <1>6 DEF Logged, Positions, IsData, ItemAt
<1> QED BY <1>1, <1>2, <1>7 DEF Keyed

LEMMA TakenBack ==
    ASSUME Shapes, Grows, RangesBehind, KeysStill, NEW q, NEW b, PendingAt(q, b), TakenAt(q, b)'
    PROVE  TakenAt(q, b)
<1>1. PICK p \in Logged : /\ Keyed(ItemAt(p)) /\ wal[q].lo <= p /\ p < wal[q].hi
                          /\ KeyTaken(KeyOf[ItemAt(p)], b)'
  BY TakenBy
<1>2. KeyTaken(KeyOf[ItemAt(p)], b)
  BY <1>1, LoggedGrows DEF KeyTaken, KeysStill
<1> QED BY <1>1, <1>2 DEF TakenAt

LEMMA HousesStay ==
    ASSUME Shapes, Grows, RangesBehind, AbortsSpare,
           \A x \in DOMAIN content : x \in DOMAIN content' /\ content'[x] = content[x],
           \/ mode' = "up" /\ mode = "up" /\ DOMAIN files \subseteq DOMAIN files'
           \/ mode' # "up" /\ DOMAIN files \subseteq DOMAIN files' /\ KeysStill
           \/ mode' # "up" /\ DOMAIN idempotency' = {},
           NEW q, NEW b, NEW p, Houses(q, b, p)
    PROVE  Houses(q, b, p)' /\ q \in DOMAIN wal' /\ wal'[q] = wal[q]
<1>1. /\ b \in DOMAIN content /\ Spans(q, b, p) /\ p \in content[b]
      /\ ~Aborted(b)
      /\ b \in DOMAIN files \/ (mode # "up" /\ ~TakenAt(q, b))
  BY DEF Houses
<1>2. Spans(q, b, p)' /\ PendingAt(q, b)
  BY <1>1, LoggedGrows DEF Spans
<1>3. b \in DOMAIN content' /\ p \in content'[b]
  BY <1>1
<1>4. ~Aborted(b)'
  BY <1>1 DEF AbortsSpare
<1>5. b \in DOMAIN files' \/ (mode' # "up" /\ ~TakenAt(q, b)')
  <2>1. CASE mode' = "up" /\ mode = "up" /\ DOMAIN files \subseteq DOMAIN files'
    BY <1>1, <2>1
  <2>2. CASE mode' # "up" /\ DOMAIN files \subseteq DOMAIN files' /\ KeysStill
    <3>1. CASE b \in DOMAIN files
      BY <2>2, <3>1
    <3>2. CASE ~TakenAt(q, b)
      BY <1>2, <2>2, <3>2, TakenBack
    <3> QED BY <1>1, <3>1, <3>2
  <2>3. CASE mode' # "up" /\ DOMAIN idempotency' = {}
    <3>1. ~TakenAt(q, b)'
      BY <2>3 DEF TakenAt, KeyTaken
    <3> QED BY <2>3, <3>1
  <2> QED BY <2>1, <2>2, <2>3
<1>6. q \in DOMAIN wal' /\ wal'[q] = wal[q]
  BY <1>2 DEF PendingAt, Grows
<1> QED BY <1>2, <1>3, <1>4, <1>5, <1>6 DEF Houses

LEMMA HousedStays ==
    ASSUME \A q, b, p : Houses(q, b, p) => Houses(q, b, p)' /\ q \in DOMAIN wal' /\ wal'[q] = wal[q]
    PROVE  /\ \A p, lo, hi : HousedWithin(p, lo, hi) => HousedWithin(p, lo, hi)'
           /\ claims \subseteq claims' => \A p : HousedAsClaimed(p) => HousedAsClaimed(p)'
<1>1. ASSUME NEW p, NEW lo, NEW hi, HousedWithin(p, lo, hi) PROVE HousedWithin(p, lo, hi)'
  <2>1. PICK q \in DOMAIN wal, b \in Batches : Houses(q, b, p) /\ lo < wal[q].lo /\ wal[q].hi < hi
    BY <1>1 DEF HousedWithin
  <2>2. Houses(q, b, p)' /\ q \in DOMAIN wal' /\ wal'[q] = wal[q]
    BY <2>1
  <2>3. lo \in Nat /\ hi \in Nat
    BY <1>1 DEF HousedWithin
  <2>4. \E x \in DOMAIN wal' : \E y \in Batches : Houses(x, y, p)' /\ lo < wal'[x].lo /\ wal'[x].hi < hi
    BY <2>1, <2>2
  <2> QED BY <2>3, <2>4 DEF HousedWithin
<1>2. ASSUME claims \subseteq claims', NEW p, HousedAsClaimed(p) PROVE HousedAsClaimed(p)'
  <2>1. PICK q \in DOMAIN wal, b \in Batches : Houses(q, b, p) /\ ClaimOf(q) \in claims
    BY <1>2 DEF HousedAsClaimed
  <2>2. Houses(q, b, p)' /\ q \in DOMAIN wal' /\ wal'[q] = wal[q]
    BY <2>1
  <2>3. ClaimOf(q)' \in claims'
    BY <1>2, <2>1, <2>2 DEF ClaimOf
  <2> QED BY <2>2, <2>3 DEF HousedAsClaimed
<1> QED BY <1>1, <1>2

-----------------------------------------------------------------------------
(* Steps that commit nothing and upload nothing. *)

LEMMA ClaimedBack ==
    ASSUME Shapes, Grows, RangesBehind, ClaimsLogged, claims' \subseteq claims,
           NEW p \in Logged', Claimed(p)'
    PROVE  p \in Logged /\ Claimed(p)
<1>1. PICK c \in claims : c.group = GroupAt(p)' /\ c.lo <= p /\ p < c.hi
  BY DEF Claimed
<1>2. PICK q \in DOMAIN wal : wal[q].kind = "pending" /\ c = ClaimOf(q)
  BY <1>1 DEF ClaimsLogged
<1>3. PendingAt(q, wal[q].batch)
  BY <1>2 DEF PendingAt
<1>4. q \in Nat /\ wal[q].hi \in Nat /\ q \in DOMAIN wal'
  BY <1>3, PendingFields DEF Grows
<1>5. c.hi = wal[q].hi /\ wal[q].hi <= q
  BY <1>2 DEF ClaimOf, RangesBehind
<1>6. p \in DOMAIN wal' /\ p \in Nat
  BY DEF Logged, Positions, Grows
<1>7. p < q
  BY <1>1, <1>4, <1>5, <1>6
<1>8. p \in DOMAIN wal /\ wal'[p] = wal[p]
  BY <1>4, <1>6, <1>7 DEF Grows
<1>9. p \in Logged /\ GroupAt(p)' = GroupAt(p)
  BY <1>8 DEF Logged, Positions, IsData, GroupAt, ItemAt
<1> QED BY <1>1, <1>9 DEF Claimed

LEMMA ClaimedStays ==
    ASSUME Grows, claims \subseteq claims', NEW p \in Logged, Claimed(p)
    PROVE  Claimed(p)'
<1>1. GroupAt(p)' = GroupAt(p)
  BY LoggedGrows
<1> QED BY <1>1 DEF Claimed

\* The keys in the index go on naming files and ranges.
LEMMA KeysStayAnnounced ==
    ASSUME Grows, KeysAnnounced, DOMAIN files \subseteq DOMAIN files',
           NEW k \in DOMAIN idempotency, idempotency[k].batch # NoBatch,
           idempotency'[k].batch = idempotency[k].batch
    PROVE  /\ idempotency'[k].batch \in DOMAIN files'
           /\ \E q \in DOMAIN wal' : \E p \in Logged' :
                  /\ PendingAt(q, idempotency[k].batch)'
                  /\ KeyOf[ItemAt(p)'] = k /\ wal'[q].lo <= p /\ p < wal'[q].hi
<1>1. PICK b : b = idempotency[k].batch
  OBVIOUS
<1>2. b \in DOMAIN files /\ b = idempotency'[k].batch
  BY <1>1 DEF KeysAnnounced
<1>3. PICK q \in DOMAIN wal, p \in Logged :
          /\ PendingAt(q, b)
          /\ KeyOf[ItemAt(p)] = k /\ wal[q].lo <= p /\ p < wal[q].hi
  BY <1>1 DEF KeysAnnounced
<1>4. q \in DOMAIN wal' /\ wal'[q] = wal[q] /\ PendingAt(q, b)' /\ p \in Logged' /\ ItemAt(p)' = ItemAt(p)
  BY <1>3, LoggedGrows DEF Grows
<1>5. PendingAt(q, idempotency[k].batch)'
  BY <1>1, <1>2, <1>4 DEF PendingAt
<1> QED BY <1>2, <1>3, <1>4, <1>5

\* The holes of the objects there are, and of new announcements of other batches.
LEMMA HolesStay ==
    ASSUME Ready, RangesBehind',
           \A p, lo, hi : HousedWithin(p, lo, hi) => HousedWithin(p, lo, hi)',
           \A q \in DOMAIN wal' \ DOMAIN wal : wal'[q].kind = "pending" => wal'[q].batch \notin DOMAIN content
    PROVE  /\ \A b \in DOMAIN content : \A q \in DOMAIN wal' : \A p \in Logged' \ content[b] :
                  Spans(q, b, p)' => HousedWithin(p, wal[q].lo, wal[q].hi)'
           /\ content' = content => ObjectHoles'
<1>1. ASSUME NEW b \in DOMAIN content, NEW q \in DOMAIN wal', NEW p \in Logged' \ content[b],
             Spans(q, b, p)'
      PROVE  HousedWithin(p, wal[q].lo, wal[q].hi)'
  <2>1. p \in Logged /\ (q \in DOMAIN wal => Spans(q, b, p))
    BY <1>1, SpansBack DEF Ready
  <2>2. q \in DOMAIN wal /\ wal'[q] = wal[q]
    <3>1. wal'[q].kind = "pending" /\ wal'[q].batch = b
      BY <1>1 DEF Spans, PendingAt
    <3> QED BY <3>1 DEF Ready, Grows
  <2>3. PICK lo, hi : lo = wal[q].lo /\ hi = wal[q].hi
    OBVIOUS
  <2>4. HousedWithin(p, lo, hi)
    BY <2>1, <2>2, <2>3 DEF Ready, Account, ObjectHoles
  <2>5. HousedWithin(p, lo, hi)' /\ lo = wal'[q].lo /\ hi = wal'[q].hi
    BY <2>2, <2>3, <2>4
  <2> QED BY <2>5
<1>2. ASSUME content' = content PROVE ObjectHoles'
  <2> SUFFICES ASSUME NEW b \in DOMAIN content', NEW q \in DOMAIN wal', NEW p \in Logged' \ content'[b],
                      Spans(q, b, p)'
               PROVE  HousedWithin(p, wal[q].lo, wal[q].hi)'
    BY DEF ObjectHoles
  <2>1. b \in DOMAIN content /\ p \notin content[b]
    BY <1>2
  <2> QED BY <1>1, <2>1
<1> QED BY <1>1, <1>2

LEMMA ClaimsStay ==
    ASSUME Ready, mode' = mode, claims' = claims,
           mode = "up" => \A p : HousedAsClaimed(p) => HousedAsClaimed(p)'
    PROVE  ClaimsLogged' /\ ClaimsHoused'
<1> USE DEF Ready
<1>a. RangesBehind /\ ClaimsLogged /\ ClaimsHoused
  BY DEF Account
<1>1. ClaimsLogged'
  <2> SUFFICES ASSUME NEW c \in claims
               PROVE  \E q \in DOMAIN wal' : wal'[q].kind = "pending" /\ c = ClaimOf(q)'
    BY DEF ClaimsLogged
  <2>1. PICK q \in DOMAIN wal : wal[q].kind = "pending" /\ c = ClaimOf(q)
    BY <1>a DEF ClaimsLogged
  <2>2. q \in DOMAIN wal' /\ wal'[q] = wal[q]
    BY DEF Grows
  <2> QED BY <2>1, <2>2 DEF ClaimOf
<1>2. ClaimsHoused'
  <2> SUFFICES ASSUME mode = "up", NEW p \in Logged', Claimed(p)' PROVE HousedAsClaimed(p)'
    BY DEF ClaimsHoused
  <2>1. p \in Logged /\ Claimed(p)
    BY <1>a, ClaimedBack
  <2> QED BY <1>a, <2>1 DEF ClaimsHoused
<1> QED BY <1>1, <1>2

\* Recovery has dealt with what it had dealt with.
LEMMA ResumedStays ==
    ASSUME Ready, AbortsSpare, KeysKept,
           mode' = mode, claims' = claims, todo' = todo, DOMAIN files \subseteq DOMAIN files',
           \A q \in DOMAIN wal' \ DOMAIN wal : wal'[q].kind = "pending" =>
               (mode = "resume" => wal'[q].batch \in todo)
    PROVE  Resumed'
<1> USE DEF Ready
<1>a. Resumed
  BY DEF Account
<1> SUFFICES ASSUME mode = "resume" PROVE Resumed'
  BY DEF Resumed
<1>1. ASSUME NEW q \in DOMAIN wal', NEW b \in Batches, PendingAt(q, b)', ~Aborted(b)', b \notin todo
      PROVE  /\ b \in DOMAIN files' \/ TakenAt(q, b)'
             /\ Landed(b)' /\ ClaimOf(q)' \in claims
  <2>1. q \in DOMAIN wal /\ wal'[q] = wal[q]
    BY <1>1 DEF PendingAt, Grows
  <2>2. PendingAt(q, b) /\ ~Aborted(b)
    BY <1>1, <2>1, LoggedGrows
  <2>3. /\ b \in DOMAIN files \/ TakenAt(q, b)
        /\ Landed(b) /\ ClaimOf(q) \in claims
    BY <1>a, <1>1, <2>1, <2>2 DEF Resumed
  <2>4. ClaimOf(q)' = ClaimOf(q)
    BY <2>1 DEF ClaimOf
  <2>5. TakenAt(q, b) => TakenAt(q, b)'
    BY <2>2, TakenStays
  <2> QED BY <2>3, <2>4, <2>5, LoggedGrows
<1>2. ASSUME NEW c \in claims
      PROVE  \E q \in DOMAIN wal' : \E b \in Batches :
                 PendingAt(q, b)' /\ c = ClaimOf(q)' /\ ~Aborted(b)' /\ Landed(b)'
  <2>1. PICK q \in DOMAIN wal, b \in Batches :
            PendingAt(q, b) /\ c = ClaimOf(q) /\ ~Aborted(b) /\ Landed(b)
    BY <1>a DEF Resumed
  <2>2. q \in DOMAIN wal' /\ PendingAt(q, b)' /\ Landed(b)' /\ ClaimOf(q)' = ClaimOf(q)
    BY <2>1, LoggedGrows DEF Grows, ClaimOf
  <2>3. ~Aborted(b)'
    BY <2>1 DEF AbortsSpare
  <2> QED BY <2>1, <2>2, <2>3
<1> QED BY <1>1, <1>2 DEF Resumed

LEMMA KeysCalm ==
    ASSUME Grows, KeysAnnounced, KeysStill, files' = files
    PROVE  KeysAnnounced'
<1> SUFFICES ASSUME NEW k \in DOMAIN idempotency', idempotency'[k].batch # NoBatch
             PROVE  /\ idempotency'[k].batch \in DOMAIN files'
                    /\ \E q \in DOMAIN wal' : \E p \in Logged' :
                           /\ PendingAt(q, idempotency[k].batch)'
                           /\ KeyOf[ItemAt(p)'] = k /\ wal'[q].lo <= p /\ p < wal'[q].hi
  BY DEF KeysAnnounced
<1>1. k \in DOMAIN idempotency /\ idempotency[k].batch = idempotency'[k].batch
  BY DEF KeysStill
<1> QED BY <1>1, KeysStayAnnounced

\* No file, no key: the objects there are stay as they are.
LEMMA CalmAccount ==
    ASSUME Ready, RangesBehind', AbortsSpare, KeysStill, KeysKept,
           mode' = mode, claims' = claims, todo' = todo, files' = files,
           \A x \in DOMAIN content : x \in DOMAIN content' /\ content'[x] = content[x],
           \A q \in DOMAIN wal' \ DOMAIN wal : wal'[q].kind = "pending" =>
               wal'[q].batch \notin DOMAIN content /\ (mode = "resume" => wal'[q].batch \in todo)
    PROVE  /\ KeysAnnounced' /\ ClaimsLogged' /\ ClaimsHoused' /\ Resumed'
           /\ content' = content => ObjectsLanded' /\ ObjectHoles'
           /\ \A p, lo, hi : HousedWithin(p, lo, hi) => HousedWithin(p, lo, hi)'
           /\ \A p : HousedAsClaimed(p) => HousedAsClaimed(p)'
<1> USE DEF Ready
<1>a. RangesBehind /\ KeysAnnounced /\ ObjectsLanded
  BY DEF Account
<1>1. \A q, b, p : Houses(q, b, p) => Houses(q, b, p)' /\ q \in DOMAIN wal' /\ wal'[q] = wal[q]
  BY <1>a, HousesStay
<1>2. /\ \A p, lo, hi : HousedWithin(p, lo, hi) => HousedWithin(p, lo, hi)'
      /\ \A p : HousedAsClaimed(p) => HousedAsClaimed(p)'
  BY <1>1, HousedStays
<1>3. KeysAnnounced'
  BY <1>a, KeysCalm
<1>4. content' = content => ObjectsLanded' /\ ObjectHoles'
  <2>1. content' = content => ObjectsLanded'
    BY <1>a, LoggedGrows DEF ObjectsLanded
  <2>2. content' = content => ObjectHoles'
    BY <1>2, HolesStay
  <2> QED BY <2>1, <2>2
<1>5. ClaimsLogged' /\ ClaimsHoused'
  BY <1>2, ClaimsStay
<1>6. Resumed'
  BY ResumedStays
<1> QED BY <1>2, <1>3, <1>4, <1>5, <1>6

LEMMA RangesStay ==
    ASSUME Grows, RangesBehind,
           \A q \in DOMAIN wal' \ DOMAIN wal : wal'[q].kind = "pending" =>
               \A lo, hi : lo = wal'[q].lo /\ hi = wal'[q].hi => hi <= q /\ RowsBetween(lo, hi) # {}
    PROVE  RangesBehind'
<1> SUFFICES ASSUME NEW q \in DOMAIN wal', wal'[q].kind = "pending"
             PROVE  wal'[q].hi <= q /\ RowsBetween(wal[q].lo, wal[q].hi)' # {}
  BY DEF RangesBehind
<1>1. PICK lo, hi : lo = wal'[q].lo /\ hi = wal'[q].hi
  OBVIOUS
<1>2. hi <= q /\ RowsBetween(lo, hi) # {}
  <2>1. CASE q \in DOMAIN wal
    <3>1. wal'[q] = wal[q]
      BY <2>1 DEF Grows
    <3> QED BY <1>1, <2>1, <3>1 DEF RangesBehind
  <2>2. CASE q \notin DOMAIN wal
    BY <1>1, <2>2
  <2> QED BY <2>1, <2>2
<1>3. RowsBetween(lo, hi)' # {}
  BY <1>2, LoggedGrows
<1> QED BY <1>1, <1>2, <1>3

LEMMA RowsAreChunked ==
    ASSUME ChunksHoldWrites, NEW c \in DOMAIN chunks, NEW p \in chunks[c].seqs
    PROVE  p \in Logged
  BY DEF ChunksHoldWrites, Logged, Positions, IsData

\* The chunks stay, are sealed or freed.
LEMMA ChunksStay ==
    ASSUME Ready, read' = read, claims' = claims,
           \A c \in DOMAIN chunks' :
               /\ c \in DOMAIN chunks /\ chunks'[c].seqs = chunks[c].seqs
               /\ chunks'[c].group = chunks[c].group
               /\ chunks'[c].state = "open" => chunks[c].state = "open",
           DOMAIN chunks' # {} => \A p : HousedAsClaimed(p) => HousedAsClaimed(p)'
    PROVE  SeqsRead' /\ ChunkHoles'
<1> USE DEF Ready
<1>a. SeqsRead /\ ChunkHoles /\ RangesBehind /\ ClaimsLogged /\ ChunksHoldWrites
  BY DEF Account, Body
<1>1. SeqsRead'
  <2>1. read' \in Nat /\ read' <= Len(wal') + 1
    BY <1>a DEF SeqsRead, Grows
  <2>2. ASSUME NEW c \in DOMAIN chunks', NEW p \in chunks'[c].seqs
        PROVE  p < read' /\ GroupAt(p)' = chunks'[c].group /\ ~Claimed(p)'
    <3>1. c \in DOMAIN chunks /\ p \in chunks[c].seqs /\ p \in Logged
      BY <1>a, <2>2, RowsAreChunked
    <3>2. p < read /\ GroupAt(p) = chunks[c].group /\ ~Claimed(p)
      BY <1>a, <3>1 DEF SeqsRead
    <3>3. GroupAt(p)' = GroupAt(p) /\ p \in Logged'
      BY <3>1, LoggedGrows
    <3>4. ~Claimed(p)'
      BY <1>a, <3>2, <3>3, ClaimedBack
    <3> QED BY <2>2, <3>2, <3>3, <3>4
  <2> QED BY <2>1, <2>2 DEF SeqsRead
<1>2. ChunkHoles'
  <2> SUFFICES ASSUME NEW c \in DOMAIN chunks', NEW x \in chunks'[c].seqs,
                      NEW p \in Logged' \ chunks'[c].seqs,
                      GroupAt(p)' = chunks'[c].group, x < p,
                      (chunks'[c].state = "open" /\ p < read) \/ \E y \in chunks'[c].seqs : p < y
               PROVE  HousedAsClaimed(p)'
    BY DEF ChunkHoles
  <2>1. c \in DOMAIN chunks /\ x \in chunks[c].seqs /\ p \notin chunks[c].seqs
    OBVIOUS
  <2>2. p \in DOMAIN wal
    <3>1. p \in DOMAIN wal' /\ p \in Nat
      BY DEF Logged, Positions, Grows
    <3>2. CASE p < read
      BY <1>a, <3>1, <3>2 DEF SeqsRead, Grows
    <3>3. ASSUME NEW y \in chunks'[c].seqs, p < y PROVE p \in DOMAIN wal
      <4>1. y \in DOMAIN wal
        BY <1>a, <2>1 DEF ChunksHoldWrites
      <4> QED BY <3>1, <3>3, <4>1 DEF Grows
    <3> QED BY <3>2, <3>3
  <2>3. p \in Logged /\ GroupAt(p)' = GroupAt(p)
    <3>1. wal'[p] = wal[p]
      BY <2>2 DEF Grows
    <3> QED BY <2>2, <3>1 DEF Logged, Positions, IsData, GroupAt, ItemAt
  <2>4. HousedAsClaimed(p)
    BY <1>a, <2>1, <2>3 DEF ChunkHoles
  <2> QED BY <2>4
<1> QED BY <1>1, <1>2

\* The flush under way goes on, or is over.
LEMMA FlushStays ==
    ASSUME Ready, RangesBehind',
           flush' = NoFlush \/ (flush # NoFlush /\ flush'.batch = flush.batch /\ flush'.lo = flush.lo
                                /\ flush'.hi = flush.hi /\ flush'.rows = flush.rows),
           \A p, lo, hi : HousedWithin(p, lo, hi) => HousedWithin(p, lo, hi)',
           \A q \in DOMAIN wal' \ DOMAIN wal : wal'[q].kind # "pending"
    PROVE  FlushHoles'
<1> SUFFICES ASSUME flush' # NoFlush, NEW q \in DOMAIN wal', NEW p \in Logged' \ flush'.rows,
                    Spans(q, flush.batch, p)'
             PROVE  HousedWithin(p, flush.lo, flush.hi)'
  BY DEF FlushHoles
<1>1. PICK b, lo, hi : b = flush.batch /\ lo = flush.lo /\ hi = flush.hi
  OBVIOUS
<1>2. Spans(q, b, p)'
  BY <1>1
<1>3. q \in DOMAIN wal
  <2>1. wal'[q].kind = "pending"
    BY <1>2 DEF Spans, PendingAt
  <2> QED BY <2>1
<1>4. p \in Logged /\ Spans(q, b, p)
  BY <1>2, <1>3, SpansBack DEF Ready
<1>5. HousedWithin(p, lo, hi)
  BY <1>1, <1>3, <1>4 DEF Ready, Account, FlushHoles
<1>6. HousedWithin(p, lo, hi)'
  BY <1>5
<1> QED BY <1>1, <1>6

LEMMA NoneAbortedStays ==
    ASSUME Ready,
           \A b \in Batches : Aborted(b)' =>
               Aborted(b) \/ (b \notin DOMAIN files' /\ b \notin todo' /\ ~(flush' # NoFlush /\ flush'.batch = b)),
           \A b \in DOMAIN files' \ DOMAIN files : b \in todo \/ (flush # NoFlush /\ flush.batch = b),
           todo' \subseteq todo,
           \/ flush' = NoFlush
           \/ flush # NoFlush /\ flush'.batch = flush.batch
           \/ flush'.batch \in todo
           \/ ~Aborted(flush.batch)'
    PROVE  NoneAborted'
<1>1. NoneAborted
  BY DEF Ready, Account
<1> SUFFICES ASSUME NEW b \in Batches, Aborted(b)',
                    b \in DOMAIN files' \/ b \in todo' \/ (flush' # NoFlush /\ flush'.batch = b)
             PROVE  FALSE
  BY DEF NoneAborted
<1>2. Aborted(b)
  OBVIOUS
<1> QED BY <1>1, <1>2 DEF NoneAborted

\* What the index and the requests say is in the log.
LEMMA IndexStays ==
    ASSUME Ready,
           \A k \in DOMAIN idempotency' :
               \/ k \in DOMAIN idempotency
               \/ k # NoKey /\ \E p \in Logged : KeyOf[ItemAt(p)] = k
    PROVE  IndexLogged'
<1> SUFFICES ASSUME NEW k \in DOMAIN idempotency'
             PROVE  k # NoKey /\ \E p \in Logged' : KeyOf[ItemAt(p)'] = k
  BY DEF IndexLogged
<1>1. k # NoKey /\ \E p \in Logged : KeyOf[ItemAt(p)] = k
  BY DEF Ready, Account, IndexLogged
<1> QED BY <1>1, LoggedGrows DEF Ready

LEMMA RequestsStay ==
    ASSUME Ready, DOMAIN req' = Items, \A i \in Items : req'[i] \in {"logged", "done"} => req'[i] = req[i]
    PROVE  AnsweredLogged'
<1> SUFFICES ASSUME NEW i \in Items
             PROVE  /\ req'[i] = "logged" => \E p \in Logged' : ItemAt(p)' = i
                    /\ req'[i] = "done" => \E p \in Logged' : SameWrite(i, ItemAt(p))'
  BY DEF AnsweredLogged
<1>1. /\ req[i] = "logged" => \E p \in Logged : ItemAt(p) = i
      /\ req[i] = "done" => \E p \in Logged : SameWrite(i, ItemAt(p))
  BY DEF Ready, Account, AnsweredLogged
<1>2. \A p \in Logged : p \in Logged' /\ ItemAt(p)' = ItemAt(p)
  BY LoggedGrows DEF Ready
<1> QED BY <1>1, <1>2 DEF SameWrite, Keyed

LEMMA FlushDoneStays ==
    ASSUME Ready, KeysKept, DOMAIN files \subseteq DOMAIN files',
           \/ flush' = NoFlush
           \/ flush'.pc # "finish"
           \/ flush' = flush /\ \A q \in DOMAIN wal' \ DOMAIN wal : wal'[q].kind # "pending"
    PROVE  FlushDone'
<1> SUFFICES ASSUME flush' # NoFlush, flush'.pc = "finish",
                    NEW q \in DOMAIN wal', PendingAt(q, flush.batch)'
             PROVE  flush'.batch \in DOMAIN files' \/ TakenAt(q, flush.batch)'
  BY DEF FlushDone
<1>1. flush' = flush
  OBVIOUS
<1>2. PICK b : b = flush.batch
  OBVIOUS
<1>3. PendingAt(q, b)'
  BY <1>1, <1>2
<1>4. q \in DOMAIN wal
  BY <1>1, <1>3 DEF PendingAt
<1>5. PendingAt(q, b)
  BY <1>3, <1>4, LoggedGrows DEF Ready
<1>6. b \in DOMAIN files \/ TakenAt(q, b)
  BY <1>1, <1>2, <1>4, <1>5 DEF Ready, Account, FlushDone
<1>7. TakenAt(q, b) => TakenAt(q, b)'
  BY <1>5, TakenStays DEF Ready
<1> QED BY <1>1, <1>2, <1>6, <1>7

\* The record a step writes.
LEMMA NewRecord ==
    ASSUME wal \in Seq(LogRecord), NEW r \in LogRecord, wal' = Append(wal, r)
    PROVE  /\ \A q \in DOMAIN wal' \ DOMAIN wal : q = Len(wal) + 1 /\ wal'[q] = r
           /\ Len(wal) + 1 \in DOMAIN wal' /\ Len(wal) + 1 \notin DOMAIN wal
           /\ wal'[Len(wal) + 1] = r
  BY LogGrows

LEMMA NoAbort ==
    ASSUME Grows, \A q \in DOMAIN wal' \ DOMAIN wal : wal'[q].kind # "abort"
    PROVE  \A b : Aborted(b)' => Aborted(b)
  BY DEF Grows, Aborted

\* An index that keeps its records.
LEMMA RecordKeeps ==
    ASSUME NEW k, NEW r, k \notin DOMAIN idempotency, r.batch = NoBatch,
           idempotency' = Over(Entry(k, r), idempotency)
    PROVE  KeysStill /\ KeysKept /\ DOMAIN idempotency' = DOMAIN idempotency \cup {k}
<1>1. /\ DOMAIN idempotency' = DOMAIN idempotency \cup {k}
      /\ idempotency'[k] = r
      /\ \A x \in DOMAIN idempotency : idempotency'[x] = idempotency[x]
  BY DEF Over, Entry
<1> QED BY <1>1 DEF KeysStill, KeysKept

LEMMA ClientAccount ==
    ASSUME Ready, NEW i \in Items,
           Check(i) \/ Reject(i) \/ Log(i) \/ Receipt(i) \/ ReceiptFails(i)
    PROVE  Account'
<1> USE DEF Ready
<1>a. /\ AnsweredLogged /\ IndexLogged /\ KeysAnnounced /\ RangesBehind /\ ObjectsLanded
      /\ NoneAborted /\ Phases
  BY DEF Account
<1>1. /\ UNCHANGED <<content, chunks, flush, todo, files, mode, claims, read>>
  BY DEF Check, Reject, Log, Receipt, ReceiptFails, RecordIdempotency, ReqStep, procVars,
         catalogVars, dataVars
<1>2. \A q \in DOMAIN wal' \ DOMAIN wal : wal'[q].kind = "data" /\ ItemAt(q)' = i /\ Log(i)
  <2>1. CASE wal' = wal
    BY <2>1
  <2>2. CASE Log(i)
    <3>1. PICK r \in LogRecord : r = DataRecord(i)
      BY DEF DataRecord, LogRecord
    <3>2. wal' = Append(wal, r) /\ r.kind = "data" /\ r.item = i
      BY <2>2, <3>1 DEF Log, DataRecord
    <3> QED BY <2>2, <3>2, NewRecord DEF ItemAt, Shapes
  <2> QED BY <2>1, <2>2 DEF Check, Reject, Receipt, ReceiptFails
<1>3. KeysStill /\ KeysKept
      /\ \A k \in DOMAIN idempotency' : k \in DOMAIN idempotency
             \/ (k = KeyOf[i] /\ k # NoKey /\ Receipt(i))
  <2>1. CASE idempotency' = idempotency
    BY <2>1 DEF KeysStill, KeysKept
  <2>2. CASE Receipt(i) /\ Keyed(i) /\ KeyOf[i] \notin DOMAIN idempotency
    <3>1. RecordIdempotency(KeyOf[i], NoBatch, 0)
      BY <2>2 DEF Receipt
    <3>2. PICK r : r = [batch |-> NoBatch, at |-> 0]
      OBVIOUS
    <3>3. idempotency' = Over(Entry(KeyOf[i], r), idempotency) /\ r.batch = NoBatch
      BY <3>1, <3>2 DEF RecordIdempotency
    <3>4. KeysStill /\ KeysKept /\ DOMAIN idempotency' = DOMAIN idempotency \cup {KeyOf[i]}
      BY <2>2, <3>3, RecordKeeps
    <3> QED BY <2>2, <3>4 DEF Keyed
  <2> QED BY <2>1, <2>2 DEF Check, Reject, Log, Receipt, ReceiptFails, catalogVars, memory
<1>4. RangesBehind'
  BY <1>a, <1>2, RangesStay
<1>5. \A b : Aborted(b)' => Aborted(b)
  BY <1>2, NoAbort
<1>6. /\ KeysAnnounced' /\ ObjectsLanded' /\ ClaimsLogged' /\ ClaimsHoused'
      /\ ObjectHoles' /\ Resumed'
      /\ \A p, lo, hi : HousedWithin(p, lo, hi) => HousedWithin(p, lo, hi)'
      /\ \A p : HousedAsClaimed(p) => HousedAsClaimed(p)'
  BY <1>1, <1>2, <1>3, <1>4, <1>5, CalmAccount DEF AbortsSpare
<1>7. SeqsRead' /\ ChunkHoles'
  BY <1>1, <1>6, ChunksStay
<1>8. FlushHoles'
  BY <1>1, <1>2, <1>4, <1>6, FlushStays
<1>9. FlushDone'
  BY <1>1, <1>2, <1>3, FlushDoneStays
<1>10. NoneAborted'
  BY <1>1, <1>5, NoneAbortedStays
<1>11. Phases'
  BY <1>a, <1>1 DEF Phases
<1>12. IndexLogged'
  <2>1. Receipt(i) => req[i] = "logged"
    BY DEF Receipt
  <2>2. Receipt(i) => \E p \in Logged : ItemAt(p) = i
    BY <1>a, <2>1 DEF AnsweredLogged
  <2> QED BY <1>3, <2>2, IndexStays
<1>13. AnsweredLogged'
  <2>1. \A p \in Logged : p \in Logged' /\ ItemAt(p)' = ItemAt(p)
    BY LoggedGrows
  <2>0. PICK v : req' = [req EXCEPT ![i] = v]
    BY DEF Check, Reject, Log, Receipt, ReceiptFails, Advance
  <2>2. /\ DOMAIN req' = Items /\ req'[i] = v
        /\ \A j \in Items : j # i => req'[j] = req[j]
    BY <1>a, <2>0 DEF AnsweredLogged
  <2>3. ASSUME NEW j \in Items, j # i
        PROVE  /\ req'[j] = "logged" => \E p \in Logged' : ItemAt(p)' = j
               /\ req'[j] = "done" => \E p \in Logged' : SameWrite(j, ItemAt(p))'
    <3>1. req'[j] = req[j]
      BY <2>2, <2>3
    <3> QED BY <1>a, <2>1, <3>1 DEF AnsweredLogged, SameWrite, Keyed
  <2>4. req'[i] = "logged" => \E p \in Logged' : ItemAt(p)' = i
    <3>1. CASE Log(i)
      <4>1. PICK r \in LogRecord : r = DataRecord(i)
        BY DEF DataRecord, LogRecord
      <4>2. wal' = Append(wal, r) /\ r.kind = "data" /\ r.item = i
        BY <3>1, <4>1 DEF Log, DataRecord
      <4>3. PICK n : n = Len(wal) + 1
        OBVIOUS
      <4>4. n \in DOMAIN wal' /\ wal'[n] = r
        BY <4>2, <4>3, NewRecord DEF Shapes
      <4> QED BY <4>2, <4>4 DEF Logged, Positions, IsData, ItemAt
    <3>2. CASE ~Log(i)
      <4>1. req'[i] # "logged"
        BY <1>a, <3>2 DEF Check, Reject, Receipt, ReceiptFails, Advance, AnsweredLogged
      <4> QED BY <4>1
    <3> QED BY <3>1, <3>2
  <2>5. req'[i] = "done" => \E p \in Logged' : SameWrite(i, ItemAt(p))'
    <3> SUFFICES ASSUME req'[i] = "done" PROVE \E p \in Logged : SameWrite(i, ItemAt(p))
      BY <2>1 DEF SameWrite, Keyed
    <3>1. CASE Receipt(i)
      BY <1>a, <3>1 DEF Receipt, AnsweredLogged, SameWrite
    <3>2. CASE Check(i) /\ KeyOf[i] \in DOMAIN idempotency
      BY <1>a, <3>2 DEF IndexLogged, SameWrite, Keyed
    <3>4. Receipt(i) \/ (Check(i) /\ KeyOf[i] \in DOMAIN idempotency)
      BY <1>a DEF Check, Reject, Log, ReceiptFails, Advance, AnsweredLogged
    <3> QED BY <3>1, <3>2, <3>4
  <2> QED BY <2>2, <2>3, <2>4, <2>5 DEF AnsweredLogged
<1> QED BY <1>4, <1>6, <1>7, <1>8, <1>9, <1>10, <1>11, <1>12, <1>13 DEF Account

-----------------------------------------------------------------------------
(* The steps keep the account. *)

\* What absorbing does to each chunk.
LEMMA AbsorbChunks ==
    ASSUME Shapes, Absorb, NEW p, p = Min(Unread)
    PROVE  \A c \in DOMAIN chunks' :
               \/ /\ c \in DOMAIN chunks /\ chunks'[c] = chunks[c]
                  /\ Claimed(p) \/ chunks[c].state # "open" \/ chunks[c].group # GroupAt(p)
               \/ /\ chunks'[c].seqs = {p} /\ chunks'[c].group = GroupAt(p)
                  /\ ~Claimed(p)
               \/ /\ c \in DOMAIN chunks /\ chunks[c].state = "open" /\ chunks[c].group = GroupAt(p)
                  /\ chunks'[c].seqs = chunks[c].seqs \cup {p}
                  /\ chunks'[c].group = chunks[c].group /\ chunks'[c].state = chunks[c].state
                  /\ ~Claimed(p)
<1>1. CASE Claimed(p)
  <2>1. chunks' = chunks
    BY <1>1 DEF Absorb
  <2> QED BY <1>1, <2>1
<1>2. CASE ~Claimed(p) /\ OpenChunks(GroupAt(p)) = {}
  <2>1. chunks' = Over(Entry(p, NewChunk(p)), chunks)
    BY <1>2 DEF Absorb
  <2>2. /\ DOMAIN chunks' = {p} \cup DOMAIN chunks
        /\ chunks'[p] = NewChunk(p)
        /\ \A c \in DOMAIN chunks \ {p} : chunks'[c] = chunks[c]
    BY <2>1 DEF Over, Entry
  <2>3. NewChunk(p).seqs = {p} /\ NewChunk(p).group = GroupAt(p)
    BY DEF NewChunk
  <2>4. \A c \in DOMAIN chunks : chunks[c].state # "open" \/ chunks[c].group # GroupAt(p)
    BY <1>2 DEF OpenChunks
  <2> QED BY <1>2, <2>2, <2>3, <2>4
<1>3. CASE ~Claimed(p) /\ OpenChunks(GroupAt(p)) # {}
  <2>1. chunks' = [c \in DOMAIN chunks |->
                     IF c \in OpenChunks(GroupAt(p))
                     THEN [chunks[c] EXCEPT !.seqs = @ \cup {p}] ELSE chunks[c]]
    BY <1>3 DEF Absorb
  <2>2. ASSUME NEW c \in DOMAIN chunks
        PROVE  /\ [chunks[c] EXCEPT !.seqs = @ \cup {p}].seqs = chunks[c].seqs \cup {p}
               /\ [chunks[c] EXCEPT !.seqs = @ \cup {p}].group = chunks[c].group
               /\ [chunks[c] EXCEPT !.seqs = @ \cup {p}].state = chunks[c].state
    <3>1. chunks[c] \in ChunkRecord
      BY DEF Shapes
    <3> QED BY <3>1 DEF ChunkRecord
  <2>3. DOMAIN chunks' = DOMAIN chunks
    BY <2>1
  <2> SUFFICES ASSUME NEW c \in DOMAIN chunks
               PROVE  \/ /\ chunks'[c] = chunks[c]
                         /\ Claimed(p) \/ chunks[c].state # "open" \/ chunks[c].group # GroupAt(p)
                      \/ /\ chunks[c].state = "open" /\ chunks[c].group = GroupAt(p)
                         /\ chunks'[c].seqs = chunks[c].seqs \cup {p}
                         /\ chunks'[c].group = chunks[c].group /\ chunks'[c].state = chunks[c].state
                         /\ ~Claimed(p)
    BY <2>3
  <2>4. CASE c \in OpenChunks(GroupAt(p))
    <3>1. chunks'[c] = [chunks[c] EXCEPT !.seqs = @ \cup {p}]
      BY <2>1, <2>4
    <3> QED BY <1>3, <2>2, <2>4, <3>1 DEF OpenChunks
  <2>5. CASE c \notin OpenChunks(GroupAt(p))
    BY <2>1, <2>5 DEF OpenChunks
  <2> QED BY <2>4, <2>5
<1> QED BY <1>1, <1>2, <1>3

\* A step of the accumulator that does not begin a flush.
LEMMA QuietAccount ==
    ASSUME Ready, UNCHANGED <<wal, content, files, idempotency, mode, claims, todo, flush, req>>
    PROVE  /\ AnsweredLogged' /\ IndexLogged' /\ KeysAnnounced' /\ RangesBehind' /\ ObjectsLanded'
           /\ NoneAborted' /\ ClaimsLogged' /\ ClaimsHoused' /\ FlushHoles' /\ ObjectHoles'
           /\ FlushDone' /\ Resumed'
           /\ \A p, lo, hi : HousedWithin(p, lo, hi) => HousedWithin(p, lo, hi)'
           /\ \A p : HousedAsClaimed(p) => HousedAsClaimed(p)'
<1> USE DEF Ready
<1>1. KeysStill /\ KeysKept
  BY DEF KeysStill, KeysKept
<1>2. RangesBehind'
  BY RangesStay DEF Account
<1>3. \A b : Aborted(b)' => Aborted(b)
  BY NoAbort
<1>4. /\ KeysAnnounced' /\ ObjectsLanded' /\ ClaimsLogged' /\ ClaimsHoused'
      /\ ObjectHoles' /\ Resumed'
      /\ \A p, lo, hi : HousedWithin(p, lo, hi) => HousedWithin(p, lo, hi)'
      /\ \A p : HousedAsClaimed(p) => HousedAsClaimed(p)'
  BY <1>1, <1>2, <1>3, CalmAccount DEF AbortsSpare
<1>5. FlushHoles'
  <2>1. flush' = NoFlush \/ flush # NoFlush
    OBVIOUS
  <2> QED BY <1>2, <1>4, <2>1, FlushStays
<1>6. FlushDone'
  BY <1>1, FlushDoneStays
<1>7. NoneAborted'
  BY <1>3, NoneAbortedStays
<1>8. IndexLogged'
  BY IndexStays
<1>9. AnsweredLogged'
  BY RequestsStay DEF Account, AnsweredLogged
<1> QED BY <1>2, <1>4, <1>5, <1>6, <1>7, <1>8, <1>9

LEMMA AbsorbAccount == ASSUME Ready, Absorb PROVE Account'
<1> USE DEF Ready
<1>u. UNCHANGED <<wal, content, files, idempotency, mode, claims, todo, flush, req>>
  BY DEF Absorb, AccumulatorOnly, catalogVars, dataVars, memory
<1>q. /\ AnsweredLogged' /\ IndexLogged' /\ KeysAnnounced' /\ RangesBehind' /\ ObjectsLanded'
      /\ NoneAborted' /\ ClaimsLogged' /\ ClaimsHoused' /\ FlushHoles' /\ ObjectHoles'
      /\ FlushDone' /\ Resumed'
      /\ \A h : HousedAsClaimed(h) => HousedAsClaimed(h)'
  BY <1>u, QuietAccount
<1>a. SeqsRead /\ ChunkHoles /\ ClaimsHoused /\ Phases /\ ChunksHoldWrites /\ mode = "up"
  BY DEF Account, Body, Absorb, Idle
<1>p. PICK p : p = Min(Unread)
  OBVIOUS
<1>1. /\ p \in DOMAIN wal /\ p \in Nat /\ p \in Logged /\ read <= p /\ read' = p + 1
      /\ \A h \in Logged : h < p => h < read
  <2>1. Unread # {} /\ read' = p + 1
    BY <1>p DEF Absorb, ReadPast
  <2>2. Unread \subseteq Nat /\ DOMAIN wal \subseteq Nat /\ read \in Nat
    BY <1>a DEF Unread, OnDisk, Shapes, SeqsRead
  <2>3. p \in Unread /\ \A x \in Unread : p <= x
    BY <1>p, <2>1, <2>2, MinIsLeast
  <2>4. p \in DOMAIN wal /\ p \in Logged /\ read <= p
    BY <2>2, <2>3 DEF Unread, OnDisk, Logged, Positions
  <2>5. ASSUME NEW h \in Logged, h < p PROVE h < read
    <3>1. h \in DOMAIN wal /\ IsData(h) /\ h \in Nat
      BY <2>2 DEF Logged, Positions
    <3>2. h \notin Unread
      BY <2>2, <2>3, <2>4, <2>5, <3>1
    <3> QED BY <2>2, <3>1, <3>2 DEF Unread, OnDisk
  <2> QED BY <2>1, <2>2, <2>4, <2>5
<1>2. \A c \in DOMAIN chunks' :
          \/ /\ c \in DOMAIN chunks /\ chunks'[c] = chunks[c]
             /\ Claimed(p) \/ chunks[c].state # "open" \/ chunks[c].group # GroupAt(p)
          \/ /\ chunks'[c].seqs = {p} /\ chunks'[c].group = GroupAt(p)
             /\ ~Claimed(p)
          \/ /\ c \in DOMAIN chunks /\ chunks[c].state = "open" /\ chunks[c].group = GroupAt(p)
             /\ chunks'[c].seqs = chunks[c].seqs \cup {p}
             /\ chunks'[c].group = chunks[c].group /\ chunks'[c].state = chunks[c].state
             /\ ~Claimed(p)
  BY <1>p, AbsorbChunks
<1>3. Phases'
  BY <1>a, <1>u DEF Phases
<1>4. \A c \in DOMAIN chunks : \A y \in chunks[c].seqs :
          y \in Nat /\ y < read /\ GroupAt(y) = chunks[c].group /\ ~Claimed(y)
  BY <1>a DEF SeqsRead, ChunksHoldWrites, Shapes
<1>5. SeqsRead'
  <2>1. read' \in Nat /\ read' <= Len(wal') + 1
    BY <1>1, <1>u DEF Shapes
  <2>2. ASSUME NEW c \in DOMAIN chunks', NEW y \in chunks'[c].seqs
        PROVE  y < p + 1 /\ GroupAt(y) = chunks'[c].group /\ ~Claimed(y)
    <3>1. CASE c \in DOMAIN chunks /\ chunks'[c] = chunks[c]
      BY <1>1, <1>4, <1>a, <2>2, <3>1 DEF SeqsRead
    <3>2. CASE chunks'[c].seqs = {p} /\ chunks'[c].group = GroupAt(p) /\ ~Claimed(p)
      BY <1>1, <2>2, <3>2
    <3>3. CASE /\ c \in DOMAIN chunks /\ chunks[c].group = GroupAt(p)
               /\ chunks'[c].seqs = chunks[c].seqs \cup {p}
               /\ chunks'[c].group = chunks[c].group /\ ~Claimed(p)
      BY <1>1, <1>4, <1>a, <2>2, <3>3 DEF SeqsRead
    <3> QED BY <1>2, <3>1, <3>2, <3>3
  <2>3. \A y : GroupAt(y)' = GroupAt(y) /\ (Claimed(y)' <=> Claimed(y))
    BY <1>u DEF GroupAt, ItemAt, Claimed
  <2> QED BY <1>1, <2>1, <2>2, <2>3 DEF SeqsRead
<1>6. ChunkHoles'
  <2> SUFFICES ASSUME NEW c \in DOMAIN chunks', NEW x \in chunks'[c].seqs,
                      NEW h \in Logged, h \notin chunks'[c].seqs,
                      GroupAt(h) = chunks'[c].group, x < h,
                      (chunks'[c].state = "open" /\ h < p + 1) \/ \E y \in chunks'[c].seqs : h < y
               PROVE  HousedAsClaimed(h)
    <3>1. Logged' = Logged /\ \A y : GroupAt(y)' = GroupAt(y)
      BY <1>u DEF Logged, Positions, IsData, GroupAt, ItemAt
    <3> QED BY <1>1, <1>q, <3>1 DEF ChunkHoles
  <2>0. h \in Nat /\ read \in Nat
    BY <1>a DEF Logged, Positions, Shapes, SeqsRead
  <2>1. CASE /\ c \in DOMAIN chunks /\ chunks'[c] = chunks[c]
             /\ Claimed(p) \/ chunks[c].state # "open" \/ chunks[c].group # GroupAt(p)
    <3>1. CASE \E y \in chunks[c].seqs : h < y
      BY <1>a, <2>1, <3>1 DEF ChunkHoles
    <3>2. CASE chunks[c].state = "open" /\ h < read
      BY <1>a, <2>1, <3>2 DEF ChunkHoles
    <3>3. CASE chunks[c].state = "open" /\ h = p
      BY <1>a, <2>1, <3>3 DEF ClaimsHoused
    <3> QED BY <1>1, <2>0, <2>1, <3>1, <3>2, <3>3
  <2>2. CASE chunks'[c].seqs = {p}
    BY <1>1, <2>0, <2>2
  <2>3. CASE /\ c \in DOMAIN chunks /\ chunks[c].state = "open" /\ chunks[c].group = GroupAt(p)
             /\ chunks'[c].seqs = chunks[c].seqs \cup {p}
             /\ chunks'[c].group = chunks[c].group /\ chunks'[c].state = chunks[c].state
    <3>1. h <= p /\ h # p
      <4>1. CASE h < p + 1
        BY <1>1, <2>0, <2>3, <4>1
      <4>2. ASSUME NEW y \in chunks'[c].seqs, h < y PROVE h <= p /\ h # p
        BY <1>1, <1>4, <2>0, <2>3, <4>2
      <4> QED BY <4>1, <4>2
    <3>2. h < read
      BY <1>1, <2>0, <3>1
    <3>3. x \in chunks[c].seqs
      BY <1>1, <2>0, <2>3, <3>1
    <3> QED BY <1>a, <2>3, <3>2, <3>3 DEF ChunkHoles
  <2> QED BY <1>2, <2>1, <2>2, <2>3
<1> QED BY <1>q, <1>3, <1>5, <1>6 DEF Account

LEMMA SealAccount ==
    ASSUME Ready, NEW c \in DOMAIN chunks, Seal(c)
    PROVE  Account'
<1> USE DEF Ready
<1>u. UNCHANGED <<wal, content, files, idempotency, mode, claims, todo, flush, req, read>>
      /\ mode = "up"
  BY DEF Seal, Idle, AccumulatorOnly, catalogVars, dataVars, memory
<1>q. /\ AnsweredLogged' /\ IndexLogged' /\ KeysAnnounced' /\ RangesBehind' /\ ObjectsLanded'
      /\ NoneAborted' /\ ClaimsLogged' /\ ClaimsHoused' /\ FlushHoles' /\ ObjectHoles'
      /\ FlushDone' /\ Resumed'
      /\ \A h : HousedAsClaimed(h) => HousedAsClaimed(h)'
  BY <1>u, QuietAccount
<1>1. Phases'
  BY <1>u DEF Account, Phases
<1>2. /\ DOMAIN chunks' = DOMAIN chunks
      /\ \A x \in DOMAIN chunks :
             /\ chunks'[x].seqs = chunks[x].seqs /\ chunks'[x].group = chunks[x].group
             /\ chunks'[x].state = "open" => chunks[x].state = "open"
  BY SealShapes
<1>3. SeqsRead' /\ ChunkHoles'
  BY <1>u, <1>q, <1>2, ChunksStay
<1> QED BY <1>q, <1>1, <1>3 DEF Account

LEMMA StartFlushAccount ==
    ASSUME Ready, NEW c \in DOMAIN chunks, StartFlush(c)
    PROVE  Account'
<1> USE DEF Ready
<1>u. UNCHANGED <<content, files, idempotency, mode, claims, todo, req, read>> /\ mode = "up"
  BY DEF StartFlush, Idle, AccumulatorOnly, catalogVars, dataVars, memory
<1>a. /\ SeqsRead /\ ChunkHoles /\ RangesBehind /\ ObjectsLanded /\ AnsweredLogged /\ Phases
      /\ ChunksHoldWrites
  BY DEF Account, Body
<1>p. PICK b, lo, hi, g, r :
          /\ b = NextBatch /\ lo = flush'.lo /\ hi = flush'.hi /\ g = chunks[c].group
          /\ r = PendingRecord(b, g, lo, hi)
  OBVIOUS
<1>n. PICK n : n = Len(wal) + 1
  OBVIOUS
<1>1. chunks[c].seqs # {} /\ \A p \in chunks[c].seqs : p \in DOMAIN wal /\ wal[p].kind = "data"
  BY <1>a DEF ChunksHoldWrites
<1>2. /\ b \in Batches /\ b \notin Used
      /\ DOMAIN chunks' = DOMAIN chunks
      /\ \A x \in DOMAIN chunks :
             /\ chunks'[x].seqs = chunks[x].seqs /\ chunks'[x].group = chunks[x].group
             /\ chunks'[x].state = chunks[x].state
      /\ lo \in chunks[c].seqs /\ hi - 1 \in chunks[c].seqs
      /\ chunks[c].seqs \subseteq lo..hi - 1
      /\ lo \in Nat /\ hi \in Nat
      /\ flush' = Flushing(b, {c}, lo, hi, chunks[c].seqs)
      /\ r \in LogRecord
      /\ wal' = Append(wal, r)
  BY <1>p, <1>1, StartFlushShapes
<1>3. r.kind = "pending" /\ r.batch = b /\ r.lo = lo /\ r.hi = hi /\ r.group = g
  BY <1>p DEF PendingRecord
<1>4. /\ \A q \in DOMAIN wal' \ DOMAIN wal : q = n /\ wal'[q] = r
      /\ n \in DOMAIN wal' /\ n \notin DOMAIN wal /\ wal'[n] = r
  BY <1>n, <1>2, NewRecord DEF Shapes
<1>5. /\ flush'.pc = "announce" /\ flush'.batch = b /\ flush'.chunk = {c}
      /\ flush'.lo = lo /\ flush'.hi = hi /\ flush'.rows = chunks[c].seqs
  BY <1>2 DEF Flushing
<1>6. (\A q : ~PendingAt(q, b)) /\ ~Landed(b)
  BY <1>2, UnusedIsNew DEF Shapes
<1>7. KeysStill /\ KeysKept
  BY <1>u DEF KeysStill, KeysKept
<1>8. \A x : Aborted(x)' => Aborted(x)
  BY <1>3, <1>4, NoAbort
<1>9. ~Aborted(b)
  BY <1>2 DEF Aborted, Used, IsData
<1>10. RangesBehind'
  <2>1. hi <= n
    <3>1. hi - 1 \in DOMAIN wal /\ DOMAIN wal = 1..Len(wal) /\ Len(wal) \in Nat
      BY <1>1, <1>2 DEF Shapes
    <3> QED BY <1>n, <1>2, <3>1
  <2>2. lo \in RowsBetween(lo, hi)
    <3>1. \A p \in chunks[c].seqs : lo <= p /\ p < hi
      BY <1>2
    <3> QED BY <1>1, <1>2, <3>1 DEF RowsBetween
  <2> QED BY <1>a, <1>3, <1>4, <2>1, <2>2, RangesStay
<1>11. b \notin DOMAIN content
  BY <1>a, <1>6 DEF ObjectsLanded
<1>12. /\ KeysAnnounced' /\ ObjectsLanded' /\ ClaimsLogged' /\ ClaimsHoused'
       /\ ObjectHoles' /\ Resumed'
       /\ \A p, x, y : HousedWithin(p, x, y) => HousedWithin(p, x, y)'
       /\ \A p : HousedAsClaimed(p) => HousedAsClaimed(p)'
  BY <1>u, <1>3, <1>4, <1>7, <1>8, <1>10, <1>11, CalmAccount DEF AbortsSpare
<1>13. SeqsRead' /\ ChunkHoles'
  BY <1>u, <1>2, <1>12, ChunksStay
<1>14. FlushHoles'
  <2> SUFFICES ASSUME NEW q \in DOMAIN wal', NEW p \in Logged' \ chunks[c].seqs, Spans(q, b, p)'
               PROVE  HousedWithin(p, lo, hi)'
    BY <1>5 DEF FlushHoles
  <2>1. p \in Logged /\ p \in DOMAIN wal /\ GroupAt(p)' = GroupAt(p)
        /\ (q \in DOMAIN wal => Spans(q, b, p))
    BY <1>10, SpansBack
  <2>2. q = n
    BY <1>4, <1>6, <2>1 DEF Spans
  <2>3. GroupAt(p) = g /\ lo <= p /\ p < hi /\ p \in Nat
    <3>1. p \in Nat
      BY <2>1 DEF Shapes
    <3> QED BY <1>3, <1>4, <2>1, <2>2, <3>1 DEF Spans
  <2>4. lo < p /\ p < hi - 1
    BY <1>2, <2>3
  <2>5. HousedAsClaimed(p)
    BY <1>a, <1>p, <1>2, <2>1, <2>3, <2>4 DEF ChunkHoles
  <2>6. PICK q1 \in DOMAIN wal, b1 \in Batches : Houses(q1, b1, p) /\ ClaimOf(q1) \in claims
    BY <2>5 DEF HousedAsClaimed
  <2>7. /\ PendingAt(q1, b1) /\ wal[q1].group = g /\ wal[q1].lo <= p /\ p < wal[q1].hi
        /\ wal[q1].lo \in Nat /\ wal[q1].hi \in Nat
    <3>1. PendingAt(q1, b1) /\ GroupAt(p) = wal[q1].group /\ wal[q1].lo <= p /\ p < wal[q1].hi
      BY <2>6 DEF Houses, Spans
    <3> QED BY <2>3, <3>1, PendingFields
  <2>8. \A x \in chunks[c].seqs : x \in Nat /\ ~(wal[q1].lo <= x /\ x < wal[q1].hi)
    <3> TAKE x \in chunks[c].seqs
    <3>1. GroupAt(x) = g /\ ~Claimed(x) /\ x \in Nat
      BY <1>a, <1>p, <1>1 DEF SeqsRead, Shapes
    <3>2. /\ ClaimOf(q1).group = wal[q1].group /\ ClaimOf(q1).lo = wal[q1].lo
          /\ ClaimOf(q1).hi = wal[q1].hi
      BY DEF ClaimOf
    <3> QED BY <2>6, <2>7, <3>1, <3>2 DEF Claimed
  <2>9. lo < wal[q1].lo /\ wal[q1].hi < hi
    <3>1. ~(wal[q1].lo <= lo /\ lo < wal[q1].hi)
      BY <1>2, <2>8
    <3>2. ~(wal[q1].lo <= hi - 1 /\ hi - 1 < wal[q1].hi)
      BY <1>2, <2>8
    <3> QED BY <1>2, <2>3, <2>4, <2>7, <3>1, <3>2
  <2>10. HousedWithin(p, lo, hi)
    BY <1>2, <2>6, <2>9 DEF HousedWithin
  <2> QED BY <1>12, <2>10
<1>15. FlushDone'
  BY <1>u, <1>5, <1>7, FlushDoneStays
<1>16. NoneAborted'
  BY <1>u, <1>5, <1>8, <1>9, NoneAbortedStays
<1>17. Phases'
  BY <1>a, <1>u, <1>5 DEF Phases
<1>18. IndexLogged'
  BY <1>u, IndexStays
<1>19. AnsweredLogged'
  BY <1>a, <1>u, RequestsStay DEF AnsweredLogged
<1> QED BY <1>10, <1>12, <1>13, <1>14, <1>15, <1>16, <1>17, <1>18, <1>19 DEF Account

LEMMA AccumulatorAccount == ASSUME Ready, AccumulatorStep PROVE Account'
<1>1. ~Refuse
  BY DEF Ready, Clean, Refuse
<1> QED BY <1>1, AbsorbAccount, SealAccount, StartFlushAccount DEF AccumulatorStep

\* A step of the flush that commits nothing and uploads nothing.
LEMMA FlushCalm ==
    ASSUME Ready, UNCHANGED <<content, files, idempotency, mode, claims, todo, read, req>>,
           \A q \in DOMAIN wal' \ DOMAIN wal : wal'[q].kind \notin {"pending", "abort"},
           \A c \in DOMAIN chunks' :
               /\ c \in DOMAIN chunks /\ chunks'[c].seqs = chunks[c].seqs
               /\ chunks'[c].group = chunks[c].group
               /\ chunks'[c].state = "open" => chunks[c].state = "open",
           \/ flush' = NoFlush
           \/ /\ flush # NoFlush /\ flush'.batch = flush.batch /\ flush'.chunk = flush.chunk
              /\ flush'.lo = flush.lo /\ flush'.hi = flush.hi /\ flush'.rows = flush.rows
              /\ flush'.pc # "finish"
    PROVE  Account'
<1> USE DEF Ready
<1>a. AnsweredLogged /\ RangesBehind /\ Phases
  BY DEF Account
<1>1. KeysStill /\ KeysKept
  BY DEF KeysStill, KeysKept
<1>2. \A b : Aborted(b)' => Aborted(b)
  BY NoAbort
<1>3. RangesBehind'
  BY <1>a, RangesStay
<1>4. /\ KeysAnnounced' /\ ObjectsLanded' /\ ClaimsLogged' /\ ClaimsHoused'
      /\ ObjectHoles' /\ Resumed'
      /\ \A p, lo, hi : HousedWithin(p, lo, hi) => HousedWithin(p, lo, hi)'
      /\ \A p : HousedAsClaimed(p) => HousedAsClaimed(p)'
  BY <1>1, <1>2, <1>3, CalmAccount DEF AbortsSpare
<1>5. SeqsRead' /\ ChunkHoles'
  BY <1>4, ChunksStay
<1>6. FlushHoles'
  BY <1>3, <1>4, FlushStays
<1>7. FlushDone'
  BY <1>1, FlushDoneStays
<1>8. NoneAborted'
  BY <1>2, NoneAbortedStays
<1>9. IndexLogged' /\ AnsweredLogged'
  BY <1>a, IndexStays, RequestsStay DEF AnsweredLogged
<1>10. Phases'
  BY <1>a DEF Phases
<1> QED BY <1>3, <1>4, <1>5, <1>6, <1>7, <1>8, <1>9, <1>10 DEF Account

LEMMA UploadAccount == ASSUME Ready, Upload PROVE Account'
<1> USE DEF Ready
<1>u. UNCHANGED <<files, idempotency, mode, claims, todo, read, req, chunks>>
  BY DEF Upload, FlushOnly, catalogVars, dataVars, memory
<1>a. /\ AnsweredLogged /\ RangesBehind /\ ObjectsLanded /\ FlushHoles /\ ObjectHoles /\ Phases
      /\ OneRange /\ FlushLogged
  BY DEF Account, Body
<1>b. PICK b, lo, hi, rows : b = flush.batch /\ lo = flush.lo /\ hi = flush.hi /\ rows = flush.rows
  OBVIOUS
<1>f. /\ flush # NoFlush /\ b \in Batches /\ flush.pc = "upload" /\ flush \in FlushRecord
  BY <1>b, FlushFields DEF Upload
<1>1. /\ flush'.batch = b /\ flush'.chunk = flush.chunk /\ flush'.lo = lo /\ flush'.hi = hi
      /\ flush'.rows = rows /\ flush'.pc = "commit"
  BY <1>b, <1>f DEF Upload, FlushRecord
<1>2. PICK r \in LogRecord : r = BatchRecord("s3written", b)
  BY <1>f DEF BatchRecord, LogRecord
<1>3. r.kind = "s3written" /\ r.batch = b /\ wal' = Append(wal, r)
  BY <1>2, <1>b DEF BatchRecord, Upload
<1>n. PICK n : n = Len(wal) + 1
  OBVIOUS
<1>4. (\A q \in DOMAIN wal' \ DOMAIN wal : wal'[q] = r) /\ n \in DOMAIN wal' /\ wal'[n] = r
  BY <1>3, <1>n, NewRecord DEF Shapes
<1>5. b \notin DOMAIN content
  BY <1>a, <1>b, <1>f DEF FlushLogged, ObjectsLanded
<1>6. /\ DOMAIN content' = DOMAIN content \cup {b} /\ content'[b] = rows
      /\ \A x \in DOMAIN content : x \in DOMAIN content' /\ content'[x] = content[x]
  <2>1. content' = Over(Entry(b, rows), content)
    BY <1>b DEF Upload
  <2> QED BY <1>5, <2>1 DEF Over, Entry
<1>7. KeysStill /\ KeysKept
  BY <1>u DEF KeysStill, KeysKept
<1>8. \A x : Aborted(x)' => Aborted(x)
  BY <1>3, <1>4, NoAbort
<1>9. RangesBehind'
  BY <1>a, <1>3, <1>4, RangesStay
<1>10. /\ KeysAnnounced' /\ ClaimsLogged' /\ ClaimsHoused' /\ Resumed'
       /\ \A p, x, y : HousedWithin(p, x, y) => HousedWithin(p, x, y)'
       /\ \A p : HousedAsClaimed(p) => HousedAsClaimed(p)'
  BY <1>u, <1>3, <1>4, <1>6, <1>7, <1>8, <1>9, CalmAccount DEF AbortsSpare
<1>11. ObjectsLanded'
  <2>1. Landed(b)'
    BY <1>3, <1>4 DEF Landed
  <2> QED BY <1>a, <1>f, <1>6, <2>1, LoggedGrows DEF ObjectsLanded
<1>12. ObjectHoles'
  <2>1. ASSUME NEW x \in DOMAIN content, NEW q \in DOMAIN wal', NEW p \in Logged' \ content[x],
               Spans(q, x, p)'
        PROVE  HousedWithin(p, wal[q].lo, wal[q].hi)'
    BY <1>3, <1>4, <1>9, <1>10, <2>1, HolesStay
  <2>2. ASSUME NEW q \in DOMAIN wal', NEW p \in Logged' \ rows, Spans(q, b, p)'
        PROVE  HousedWithin(p, wal[q].lo, wal[q].hi)'
    <3>1. q \in DOMAIN wal /\ wal'[q] = wal[q]
      <4>1. wal'[q].kind = "pending"
        BY <2>2 DEF Spans, PendingAt
      <4>2. q \in DOMAIN wal
        BY <1>3, <1>4, <4>1
      <4> QED BY <4>2 DEF Grows
    <3>2. p \in Logged /\ Spans(q, b, p)
      BY <1>9, <2>2, <3>1, SpansBack
    <3>3. HousedWithin(p, lo, hi)
      BY <1>a, <1>b, <1>f, <3>1, <3>2 DEF FlushHoles
    <3>4. lo = wal'[q].lo /\ hi = wal'[q].hi
      <4>1. PICK q0 \in DOMAIN wal : PendingAt(q0, b) /\ wal[q0].lo = lo /\ wal[q0].hi = hi
        BY <1>a, <1>b, <1>f DEF FlushLogged
      <4> QED BY <1>a, <3>1, <3>2, <4>1 DEF OneRange, Spans, PendingAt
    <3> QED BY <1>10, <3>3, <3>4
  <2> SUFFICES ASSUME NEW x \in DOMAIN content', NEW q \in DOMAIN wal', NEW p \in Logged' \ content'[x],
                      Spans(q, x, p)'
               PROVE  HousedWithin(p, wal[q].lo, wal[q].hi)'
    BY DEF ObjectHoles
  <2>3. CASE x \in DOMAIN content
    BY <1>6, <2>1, <2>3
  <2>4. CASE x = b
    BY <1>6, <2>2, <2>4
  <2> QED BY <1>6, <2>3, <2>4
<1>13. SeqsRead' /\ ChunkHoles'
  BY <1>u, <1>10, ChunksStay
<1>14. FlushHoles'
  BY <1>b, <1>f, <1>1, <1>3, <1>4, <1>9, <1>10, FlushStays
<1>15. FlushDone'
  BY <1>u, <1>1, <1>7, FlushDoneStays
<1>16. NoneAborted'
  BY <1>b, <1>f, <1>u, <1>1, <1>8, NoneAbortedStays
<1>17. IndexLogged' /\ AnsweredLogged'
  BY <1>a, <1>u, IndexStays, RequestsStay DEF AnsweredLogged
<1>18. Phases'
  BY <1>a, <1>b, <1>u, <1>f, <1>1 DEF Phases
<1> QED BY <1>9, <1>10, <1>11, <1>12, <1>13, <1>14, <1>15, <1>16, <1>17, <1>18 DEF Account

-----------------------------------------------------------------------------
(* A batch is committed, found a duplicate, or is there. *)

LEMMA CommitOutcome ==
    ASSUME NEW b \in Batches, NEW rows, NEW K, CommitBatch(b, rows, K), snapshot_version \in Nat
    PROVE  /\ DOMAIN files \subseteq DOMAIN files' /\ DOMAIN files' \subseteq DOMAIN files \cup {b}
           /\ KeysKept
           /\ \A k \in DOMAIN idempotency' :
                  \/ k \in DOMAIN idempotency /\ idempotency'[k] = idempotency[k]
                  \/ k \in K /\ idempotency'[k].batch = b /\ b \in DOMAIN files'
           /\ b \in DOMAIN files' \/ \E k \in K : KeyTaken(k, b)
<1>1. CASE CommitFiles(b, T, S0, rows, K, 0)
  <2>1. /\ DOMAIN files' = DOMAIN files \cup {b}
        /\ DOMAIN idempotency \subseteq DOMAIN idempotency'
        /\ \A k \in DOMAIN idempotency :
               idempotency[k].batch # NoBatch => idempotency'[k].batch = idempotency[k].batch
        /\ \A k \in K : k \in DOMAIN idempotency' /\ idempotency'[k].batch = b
    BY <1>1, CommitTakesKeys
  <2>2. idempotency' = Over([k \in K |-> [batch |-> b, at |-> 0]], idempotency)
    BY <1>1 DEF CommitFiles
  <2>3. /\ DOMAIN idempotency' = K \cup DOMAIN idempotency
        /\ \A k \in DOMAIN idempotency \ K : idempotency'[k] = idempotency[k]
    BY <2>2 DEF Over
  <2> QED BY <2>1, <2>3 DEF KeysKept
<1>2. CASE CommitDuplicate(b, K)
  BY <1>2 DEF CommitDuplicate, dataVars, KeysKept
<1>3. CASE b \in DOMAIN files /\ UNCHANGED catalogVars
  BY <1>3 DEF catalogVars, dataVars, memory, KeysKept
<1> QED BY <1>1, <1>2, <1>3 DEF CommitBatch

\* Two announcements of a range with the same keyed write are of the same range.
LEMMA OneRangeByKey ==
    ASSUME Clean, NEW q \in DOMAIN wal, NEW q1 \in DOMAIN wal, NEW p \in Logged, Keyed(ItemAt(p)),
           wal[q].kind = "pending", wal[q].lo <= p, p < wal[q].hi,
           wal[q1].kind = "pending", wal[q1].lo <= p, p < wal[q1].hi
    PROVE  /\ wal[q].group = GroupAt(p) /\ wal[q1].group = GroupAt(p)
           /\ wal[q].lo = wal[q1].lo /\ wal[q].hi = wal[q1].hi
<1>1. Announces(q, p) /\ Announces(q1, p) /\ q \in Positions /\ q1 \in Positions
  BY DEF Announces, Positions
<1>2. wal[q].group = GroupAt(p) /\ wal[q1].group = GroupAt(p)
  BY <1>1 DEF Clean, StrayKey
<1>3. <<wal[q].lo, wal[q].hi>> = <<wal[q1].lo, wal[q1].hi>>
  BY <1>1 DEF Clean, StrayKey
<1> QED BY <1>2, <1>3

\* A batch is put in the catalog with the keys of its range.  A house it takes a
\* key from is of the same range, so its rows are in b or in a narrower house.
LEMMA CommitHouses ==
    ASSUME Ready, wal' = wal, content' = content, mode' = mode,
           NEW b \in Batches, NEW q0, PendingAt(q0, b), b \in DOMAIN content, ~Aborted(b),
           DOMAIN files \subseteq DOMAIN files',
           \A k \in DOMAIN idempotency' :
               \/ k \in DOMAIN idempotency /\ idempotency'[k] = idempotency[k]
               \/ /\ k \in KeysIn(wal[q0].lo, wal[q0].hi)
                  /\ idempotency'[k].batch = b /\ b \in DOMAIN files'
    PROVE  /\ \A p, lo, hi : HousedWithin(p, lo, hi) => HousedWithin(p, lo, hi)'
           /\ mode = "up" /\ claims \subseteq claims' => \A p : HousedAsClaimed(p) => HousedAsClaimed(p)'
<1> USE DEF Ready
<1>a. RangesBehind /\ ObjectHoles
  BY DEF Account
<1>0. /\ q0 \in DOMAIN wal /\ wal[q0].kind = "pending" /\ wal[q0].group \in Groups
      /\ wal[q0].lo \in Nat /\ wal[q0].hi \in Nat
  BY PendingFields
<1>w. /\ DOMAIN wal' = DOMAIN wal /\ Logged' = Logged
      /\ \A q, x : PendingAt(q, x)' <=> PendingAt(q, x)
      /\ \A x : Aborted(x)' <=> Aborted(x)
      /\ \A q, x, p : Spans(q, x, p)' <=> Spans(q, x, p)
  BY DEF Logged, Positions, IsData, PendingAt, Aborted, Spans, GroupAt, ItemAt
<1>1. ASSUME NEW q1, NEW b1, NEW p, Houses(q1, b1, p),
             ~(wal[q1].lo = wal[q0].lo /\ wal[q1].hi = wal[q0].hi /\ wal[q1].group = wal[q0].group)
      PROVE  Houses(q1, b1, p)'
  <2>1. /\ b1 \in DOMAIN content /\ Spans(q1, b1, p) /\ p \in content[b1]
        /\ ~Aborted(b1) /\ PendingAt(q1, b1)
        /\ b1 \in DOMAIN files \/ (mode # "up" /\ ~TakenAt(q1, b1))
    BY <1>1 DEF Houses, Spans
  <2>2. CASE b1 \in DOMAIN files
    BY <2>1, <2>2, <1>w DEF Houses
  <2>3. CASE mode # "up" /\ ~TakenAt(q1, b1)
    <3>1. ASSUME TakenAt(q1, b1)' PROVE FALSE
      <4>1. PICK h \in Logged : /\ Keyed(ItemAt(h)) /\ wal[q1].lo <= h /\ h < wal[q1].hi
                                /\ KeyTaken(KeyOf[ItemAt(h)], b1)'
        BY <1>a, <2>1, <3>1, TakenBy
      <4>2. PICK k : k = KeyOf[ItemAt(h)]
        OBVIOUS
      <4>3. ~KeyTaken(k, b1)
        BY <2>3, <4>1, <4>2 DEF TakenAt
      <4>4. k \in DOMAIN idempotency' /\ idempotency'[k].batch \notin {NoBatch, b1}
        <5>1. KeyTaken(k, b1)'
          BY <4>1, <4>2, <1>w DEF KeyTaken, ItemAt
        <5> QED BY <5>1 DEF KeyTaken
      <4>5. k \in KeysIn(wal[q0].lo, wal[q0].hi)
        BY <4>3, <4>4 DEF KeyTaken
      <4>6. PICK h0 \in Logged : KeyOf[ItemAt(h0)] = k /\ wal[q0].lo <= h0 /\ h0 < wal[q0].hi
        BY <4>5 DEF KeysIn, DataIn, OnDisk, Logged, Positions
      <4>7. h0 = h
        BY <4>1, <4>2, <4>6 DEF Clean, KeyLoggedTwice
      <4>8. q1 \in DOMAIN wal /\ wal[q1].kind = "pending"
        BY <2>1 DEF PendingAt
      <4> QED BY <1>0, <1>1, <4>1, <4>6, <4>7, <4>8, OneRangeByKey
    <3> QED BY <2>1, <2>3, <3>1, <1>w DEF Houses
  <2> QED BY <2>1, <2>2, <2>3
<1>2. ASSUME NEW q1, NEW b1, NEW p, Houses(q1, b1, p), b1 \in DOMAIN files PROVE Houses(q1, b1, p)'
  BY <1>2, <1>w DEF Houses
<1>3. ASSUME NEW p, NEW lo, NEW hi, HousedWithin(p, lo, hi) PROVE HousedWithin(p, lo, hi)'
  <2>0. lo \in Nat /\ hi \in Nat
    BY <1>3 DEF HousedWithin
  <2>1. PICK q1 \in DOMAIN wal, b1 \in Batches : Houses(q1, b1, p) /\ lo < wal[q1].lo /\ wal[q1].hi < hi
    BY <1>3 DEF HousedWithin
  <2>2. CASE Houses(q1, b1, p)'
    BY <2>0, <2>1, <2>2, <1>w DEF HousedWithin
  <2>3. CASE ~Houses(q1, b1, p)'
    <3>0. wal[q1].lo = wal[q0].lo /\ wal[q1].hi = wal[q0].hi /\ wal[q1].group = wal[q0].group
      BY <1>1, <2>1, <2>3
    <3>1. Spans(q0, b, p) /\ p \in Logged
      BY <2>1, <3>0 DEF Houses, Spans
    <3>2. CASE p \in content[b] /\ b \in DOMAIN files'
      <4>1. Houses(q0, b, p)'
        BY <3>1, <3>2, <1>w DEF Houses
      <4> QED BY <1>0, <2>0, <2>1, <3>0, <4>1, <1>w DEF HousedWithin
    <3>3. CASE p \notin content[b]
      <4>1. HousedWithin(p, wal[q0].lo, wal[q0].hi)
        BY <1>0, <1>a, <3>1, <3>3 DEF ObjectHoles
      <4>2. PICK q2 \in DOMAIN wal, b2 \in Batches :
                Houses(q2, b2, p) /\ wal[q0].lo < wal[q2].lo /\ wal[q2].hi < wal[q0].hi
        BY <4>1 DEF HousedWithin
      <4>3. wal[q2].lo \in Nat /\ wal[q2].hi \in Nat
        BY <4>2, PendingFields DEF Houses, Spans
      <4>4. Houses(q2, b2, p)'
        BY <1>0, <1>1, <4>2, <4>3
      <4>5. lo < wal[q2].lo /\ wal[q2].hi < hi
        BY <1>0, <2>0, <2>1, <3>0, <4>2, <4>3
      <4> QED BY <2>0, <4>4, <4>5, <1>w DEF HousedWithin
    <3>4. CASE b \notin DOMAIN files'
      <4>1. KeysStill
        BY <3>4 DEF KeysStill
      <4>2. Houses(q1, b1, p)'
        <5>1. /\ b1 \in DOMAIN content /\ Spans(q1, b1, p) /\ p \in content[b1]
              /\ ~Aborted(b1) /\ PendingAt(q1, b1)
              /\ b1 \in DOMAIN files \/ (mode # "up" /\ ~TakenAt(q1, b1))
          BY <2>1 DEF Houses, Spans
        <5>2. ~TakenAt(q1, b1) => ~TakenAt(q1, b1)'
          BY <1>a, <4>1, <5>1, TakenBack
        <5> QED BY <5>1, <5>2, <1>w DEF Houses
      <4> QED BY <2>3, <4>2
    <3> QED BY <3>2, <3>3, <3>4
  <2> QED BY <2>2, <2>3
<1>4. ASSUME mode = "up", claims \subseteq claims', NEW p, HousedAsClaimed(p) PROVE HousedAsClaimed(p)'
  <2>1. PICK q1 \in DOMAIN wal, b1 \in Batches : Houses(q1, b1, p) /\ ClaimOf(q1) \in claims
    BY <1>4 DEF HousedAsClaimed
  <2>2. b1 \in DOMAIN files
    BY <1>4, <2>1 DEF Houses
  <2>3. Houses(q1, b1, p)' /\ ClaimOf(q1)' \in claims'
    BY <1>2, <1>4, <2>1, <2>2, <1>w DEF ClaimOf
  <2> QED BY <2>1, <2>3, <1>w DEF HousedAsClaimed
<1> QED BY <1>3, <1>4

\* What a commit leaves, whatever its outcome.
LEMMA CommitAccount ==
    ASSUME Ready, NEW b \in Batches, NEW rows, NEW q0, PendingAt(q0, b), b \in DOMAIN content,
           ~Aborted(b), NEW K, K = KeysIn(wal[q0].lo, wal[q0].hi), CommitBatch(b, rows, K),
           wal' = wal, content' = content, mode' = mode
    PROVE  /\ RangesBehind' /\ KeysAnnounced' /\ IndexLogged' /\ ObjectsLanded' /\ ObjectHoles'
           /\ \A p, lo, hi : HousedWithin(p, lo, hi) => HousedWithin(p, lo, hi)'
           /\ mode = "up" /\ claims \subseteq claims' => \A p : HousedAsClaimed(p) => HousedAsClaimed(p)'
           /\ KeysKept
           /\ DOMAIN files \subseteq DOMAIN files' /\ DOMAIN files' \subseteq DOMAIN files \cup {b}
           /\ \A q \in DOMAIN wal : PendingAt(q, b) => b \in DOMAIN files' \/ TakenAt(q, b)'
<1> USE DEF Ready
<1>a. RangesBehind /\ KeysAnnounced /\ ObjectsLanded /\ OneRange
  BY DEF Account, Body
<1>1. /\ DOMAIN files \subseteq DOMAIN files' /\ DOMAIN files' \subseteq DOMAIN files \cup {b}
      /\ KeysKept
      /\ \A k \in DOMAIN idempotency' :
             \/ k \in DOMAIN idempotency /\ idempotency'[k] = idempotency[k]
             \/ k \in K /\ idempotency'[k].batch = b /\ b \in DOMAIN files'
      /\ b \in DOMAIN files' \/ \E k \in K : KeyTaken(k, b)
  BY CommitOutcome DEF Shapes
<1>2. \A k \in K : k # NoKey /\ \E p \in Logged : KeyOf[ItemAt(p)] = k /\ wal[q0].lo <= p /\ p < wal[q0].hi
  BY DEF KeysIn, DataIn, OnDisk, Logged, Positions
<1>3. RangesBehind'
  BY <1>a, RangesStay
<1>4. /\ \A p, lo, hi : HousedWithin(p, lo, hi) => HousedWithin(p, lo, hi)'
      /\ mode = "up" /\ claims \subseteq claims' => \A p : HousedAsClaimed(p) => HousedAsClaimed(p)'
  BY <1>1, CommitHouses
<1>5. KeysAnnounced'
  <2> SUFFICES ASSUME NEW k \in DOMAIN idempotency', idempotency'[k].batch # NoBatch
               PROVE  /\ idempotency'[k].batch \in DOMAIN files'
                      /\ \E q \in DOMAIN wal' : \E p \in Logged' :
                             /\ PendingAt(q, idempotency[k].batch)'
                             /\ KeyOf[ItemAt(p)'] = k /\ wal'[q].lo <= p /\ p < wal'[q].hi
    BY DEF KeysAnnounced
  <2>1. CASE k \in DOMAIN idempotency /\ idempotency'[k] = idempotency[k]
    BY <1>a, <1>1, <2>1, KeysStayAnnounced
  <2>2. CASE k \in K /\ idempotency'[k].batch = b /\ b \in DOMAIN files'
    <3>1. PICK p \in Logged : KeyOf[ItemAt(p)] = k /\ wal[q0].lo <= p /\ p < wal[q0].hi
      BY <1>2, <2>2
    <3>2. q0 \in DOMAIN wal' /\ wal'[q0] = wal[q0] /\ PendingAt(q0, b)' /\ p \in Logged' /\ ItemAt(p)' = ItemAt(p)
      BY <3>1, LoggedGrows DEF Grows, PendingAt
    <3>3. PendingAt(q0, idempotency[k].batch)'
      BY <2>2, <3>2 DEF PendingAt
    <3> QED BY <2>2, <3>1, <3>2, <3>3
  <2> QED BY <1>1, <2>1, <2>2
<1>6. IndexLogged'
  BY <1>1, <1>2, IndexStays
<1>7. ObjectsLanded'
  BY <1>a, LoggedGrows DEF ObjectsLanded
<1>8. ObjectHoles'
  BY <1>3, <1>4, HolesStay
<1>9. \A q \in DOMAIN wal : PendingAt(q, b) => b \in DOMAIN files' \/ TakenAt(q, b)'
  <2> SUFFICES ASSUME NEW q \in DOMAIN wal, PendingAt(q, b), b \notin DOMAIN files' PROVE TakenAt(q, b)'
    OBVIOUS
  <2>1. PICK k \in K : KeyTaken(k, b)
    BY <1>1
  <2>2. PICK p \in Logged : KeyOf[ItemAt(p)] = k /\ wal[q0].lo <= p /\ p < wal[q0].hi
    BY <1>2
  <2>3. wal[q].lo = wal[q0].lo /\ wal[q].hi = wal[q0].hi
    BY <1>a DEF OneRange, PendingAt
  <2>4. TakenAt(q, b)
    BY <1>2, <2>1, <2>2, <2>3 DEF TakenAt, Keyed
  <2> QED BY <1>1, <2>4, TakenStays
<1> QED BY <1>1, <1>3, <1>4, <1>5, <1>6, <1>7, <1>8, <1>9

\* What is known of a batch that is being flushed and has landed.
LEMMA FlushKnown ==
    ASSUME Ready, flush.pc \in {"announce", "upload", "commit", "finish"}
    PROVE  /\ flush # NoFlush /\ flush \in FlushRecord
           /\ flush.batch \in Batches /\ ~Aborted(flush.batch)
           /\ \E q \in DOMAIN wal :
                  PendingAt(q, flush.batch) /\ wal[q].lo = flush.lo /\ wal[q].hi = flush.hi
           /\ mode \in {"up", "resume"}
           /\ mode = "up" <=> flush.chunk # {}
           /\ mode = "resume" => flush.batch \in todo
<1> USE DEF Ready
<1>1. flush # NoFlush /\ flush \in FlushRecord /\ flush.batch \in Batches
  BY FlushFields
<1>2. FlushLogged /\ NoneAborted /\ Phases
  BY DEF Account, Body
<1>3. ~Aborted(flush.batch)
  BY <1>1, <1>2 DEF NoneAborted
<1>4. \E q \in DOMAIN wal :
          PendingAt(q, flush.batch) /\ wal[q].lo = flush.lo /\ wal[q].hi = flush.hi
  BY <1>1, <1>2 DEF FlushLogged
<1>5. mode \in {"up", "resume"} /\ (mode = "up" <=> flush.chunk # {})
      /\ (mode = "resume" => flush.batch \in todo)
  BY <1>1, <1>2 DEF Phases
<1> QED BY <1>1, <1>3, <1>4, <1>5

LEMMA CommitStepAccount == ASSUME Ready, Commit \/ ReplyLost PROVE Account'
<1> USE DEF Ready
<1>a. AnsweredLogged /\ RangesBehind /\ Phases
  BY DEF Account
<1>u. UNCHANGED <<wal, content, mode, claims, todo, read, req, chunks>> /\ flush.pc = "commit"
      /\ (ReplyLost => flush.chunk # {})
  BY DEF Commit, ReplyLost, FlushOnly
<1>b. PICK b, lo, hi, rows :
          b = flush.batch /\ lo = flush.lo /\ hi = flush.hi /\ rows = Cardinality(flush.rows)
  OBVIOUS
<1>f. /\ flush # NoFlush /\ flush \in FlushRecord /\ b \in Batches /\ ~Aborted(b)
      /\ \E q \in DOMAIN wal : PendingAt(q, b) /\ wal[q].lo = lo /\ wal[q].hi = hi
      /\ mode = "up" <=> flush.chunk # {}
      /\ mode = "resume" => b \in todo
  BY <1>u, <1>b, FlushKnown
<1>0. PICK q0 \in DOMAIN wal : PendingAt(q0, b) /\ wal[q0].lo = lo /\ wal[q0].hi = hi
  BY <1>f
<1>1. b \in DOMAIN content
  BY <1>u, <1>b, FlushedObject
<1>2. PICK K : K = KeysIn(lo, hi)
  OBVIOUS
<1>3. CommitBatch(b, rows, K)
  BY <1>b, <1>2 DEF Commit, ReplyLost, CommitBatch
<1>4. /\ RangesBehind' /\ KeysAnnounced' /\ IndexLogged' /\ ObjectsLanded' /\ ObjectHoles'
      /\ \A p, x, y : HousedWithin(p, x, y) => HousedWithin(p, x, y)'
      /\ mode = "up" => \A p : HousedAsClaimed(p) => HousedAsClaimed(p)'
      /\ KeysKept
      /\ DOMAIN files \subseteq DOMAIN files' /\ DOMAIN files' \subseteq DOMAIN files \cup {b}
      /\ \A q \in DOMAIN wal : PendingAt(q, b) => b \in DOMAIN files' \/ TakenAt(q, b)'
  <2>1. K = KeysIn(wal[q0].lo, wal[q0].hi)
    BY <1>0, <1>2
  <2> QED BY <1>u, <1>f, <1>0, <1>1, <1>3, <2>1, CommitAccount
<1>5. \/ flush' = NoFlush
      \/ /\ flush'.batch = b /\ flush'.chunk = flush.chunk /\ flush'.lo = lo /\ flush'.hi = hi
         /\ flush'.rows = flush.rows
  BY <1>b, <1>f DEF Commit, ReplyLost, FlushRecord
<1>6. \A x : Aborted(x)' => Aborted(x)
  BY <1>u, NoAbort
<1>7. ClaimsLogged' /\ ClaimsHoused'
  BY <1>u, <1>4, ClaimsStay
<1>8. Resumed'
  BY <1>u, <1>4, <1>6, ResumedStays DEF AbortsSpare
<1>9. SeqsRead' /\ ChunkHoles'
  <2>1. DOMAIN chunks' # {} => mode = "up"
    BY <1>a, <1>u DEF Phases
  <2> QED BY <1>u, <1>4, <2>1, ChunksStay
<1>10. FlushHoles'
  BY <1>b, <1>f, <1>u, <1>4, <1>5, FlushStays
<1>11. FlushDone'
  <2> SUFFICES ASSUME flush' # NoFlush, NEW q \in DOMAIN wal', PendingAt(q, flush.batch)'
               PROVE  flush'.batch \in DOMAIN files' \/ TakenAt(q, flush.batch)'
    BY DEF FlushDone
  <2>1. b = flush'.batch
    BY <1>5
  <2>2. PendingAt(q, b) /\ q \in DOMAIN wal
    BY <1>u, <2>1 DEF PendingAt
  <2>3. b \in DOMAIN files' \/ TakenAt(q, b)'
    BY <1>4, <2>2
  <2> QED BY <2>1, <2>3
<1>12. NoneAborted'
  BY <1>b, <1>f, <1>u, <1>4, <1>5, <1>6, NoneAbortedStays
<1>13. AnsweredLogged'
  BY <1>a, <1>u, RequestsStay DEF AnsweredLogged
<1>14. Phases'
  BY <1>a, <1>b, <1>u, <1>f, <1>5 DEF Phases
<1> QED BY <1>4, <1>7, <1>8, <1>9, <1>10, <1>11, <1>12, <1>13, <1>14 DEF Account

\* Recovery has dealt with a batch: its range is claimed.
LEMMA DealtWith ==
    ASSUME Ready, NEW b \in Batches, NEW q0, PendingAt(q0, b), Landed(b), ~Aborted(b),
           mode = "resume", mode' = "resume",
           claims' = claims \cup {ClaimOf(q0)}, todo' = todo \ {b}, read' = read, DOMAIN chunks' = {},
           KeysKept, DOMAIN files \subseteq DOMAIN files',
           \A q \in DOMAIN wal' \ DOMAIN wal : wal'[q].kind \notin {"pending", "abort"},
           \A q \in DOMAIN wal : PendingAt(q, b) => b \in DOMAIN files' \/ TakenAt(q, b)'
    PROVE  ClaimsLogged' /\ ClaimsHoused' /\ Resumed' /\ SeqsRead' /\ ChunkHoles'
<1> USE DEF Ready
<1>a. ClaimsLogged /\ Resumed /\ Phases /\ SeqsRead /\ OneRange
  BY DEF Account, Body
<1>0. q0 \in DOMAIN wal /\ wal[q0].kind = "pending" /\ wal[q0].batch = b
  BY DEF PendingAt
<1>1. \A q \in DOMAIN wal : q \in DOMAIN wal' /\ wal'[q] = wal[q] /\ ClaimOf(q)' = ClaimOf(q)
  BY DEF Grows, ClaimOf
<1>2. \A x : Aborted(x)' => Aborted(x)
  BY NoAbort
<1>3. ClaimsLogged'
  <2> SUFFICES ASSUME NEW c \in claims'
               PROVE  \E q \in DOMAIN wal' : wal'[q].kind = "pending" /\ c = ClaimOf(q)'
    BY DEF ClaimsLogged
  <2>1. PICK q \in DOMAIN wal : wal[q].kind = "pending" /\ c = ClaimOf(q)
    BY <1>a, <1>0 DEF ClaimsLogged
  <2> QED BY <1>1, <2>1
<1>4. ClaimsHoused'
  BY DEF ClaimsHoused
<1>5. ASSUME NEW q \in DOMAIN wal', NEW x \in Batches, PendingAt(q, x)', ~Aborted(x)', x \notin todo'
      PROVE  /\ x \in DOMAIN files' \/ TakenAt(q, x)'
             /\ Landed(x)' /\ ClaimOf(q)' \in claims'
  <2>1. q \in DOMAIN wal
    BY <1>5 DEF PendingAt
  <2>2. PendingAt(q, x) /\ ~Aborted(x)
    BY <1>5, <2>1, LoggedGrows
  <2>3. CASE x = b
    <3>1. ClaimOf(q) = ClaimOf(q0)
      BY <1>a, <1>0, <2>1, <2>2, <2>3 DEF OneRange, PendingAt, ClaimOf
    <3> QED BY <1>1, <2>1, <2>2, <2>3, <3>1, LoggedGrows
  <2>4. CASE x # b
    <3>1. /\ x \in DOMAIN files \/ TakenAt(q, x)
          /\ Landed(x) /\ ClaimOf(q) \in claims
      BY <1>a, <1>5, <2>1, <2>2, <2>4 DEF Resumed
    <3>2. TakenAt(q, x) => TakenAt(q, x)'
      BY <2>2, TakenStays
    <3> QED BY <1>1, <2>1, <3>1, <3>2, LoggedGrows
  <2> QED BY <2>3, <2>4
<1>6. ASSUME NEW c \in claims'
      PROVE  \E q \in DOMAIN wal' : \E x \in Batches :
                 PendingAt(q, x)' /\ c = ClaimOf(q)' /\ ~Aborted(x)' /\ Landed(x)'
  <2>1. PICK q \in DOMAIN wal, x \in Batches :
            PendingAt(q, x) /\ c = ClaimOf(q) /\ ~Aborted(x) /\ Landed(x)
    BY <1>a, <1>0 DEF Resumed
  <2> QED BY <1>1, <1>2, <2>1, LoggedGrows
<1>7. Resumed'
  BY <1>5, <1>6 DEF Resumed
<1>8. SeqsRead' /\ ChunkHoles'
  BY <1>a DEF SeqsRead, ChunkHoles, Grows
<1> QED BY <1>3, <1>4, <1>7, <1>8

LEMMA FinishAccount == ASSUME Ready, Finish PROVE Account'
<1> USE DEF Ready
<1>a. AnsweredLogged /\ RangesBehind /\ KeysAnnounced /\ ObjectsLanded /\ Phases /\ FlushDone /\ OneRange
  BY DEF Account, Body
<1>b. PICK b : b = flush.batch
  OBVIOUS
<1>u. /\ UNCHANGED <<content, files, idempotency, mode, read, req>>
      /\ flush.pc = "finish" /\ flush' = NoFlush
      /\ wal' = Append(wal, BatchRecord("committed", b))
      /\ \/ flush.chunk # {} /\ UNCHANGED <<claims, todo>>
         \/ /\ flush.chunk = {} /\ todo' = todo \ {b}
            /\ Claim(b, wal[LastPending(OnDisk, b)].group, flush.lo, flush.hi)
      /\ DOMAIN chunks' = DOMAIN chunks
      /\ \A c \in DOMAIN chunks :
             /\ chunks'[c].seqs = chunks[c].seqs /\ chunks'[c].group = chunks[c].group
             /\ chunks'[c].state = "open" => chunks[c].state = "open"
  <2>1. /\ catalogVars' = catalogVars /\ content' = content /\ FlushOnly
        /\ flush.pc = "finish" /\ flush' = NoFlush
        /\ wal' = Append(wal, BatchRecord("committed", b))
        /\ IF flush.chunk = {}
           THEN /\ Claim(b, wal[LastPending(OnDisk, b)].group, flush.lo, flush.hi)
                /\ todo' = todo \ {b}
           ELSE UNCHANGED <<claims, todo>>
    BY <1>b, Zenon DEF Finish
  <2>2. UNCHANGED <<files, idempotency>>
    BY <2>1 DEF catalogVars, dataVars, memory
  <2>3. /\ DOMAIN chunks' = DOMAIN chunks
        /\ \A c \in DOMAIN chunks :
               /\ chunks'[c].seqs = chunks[c].seqs /\ chunks'[c].group = chunks[c].group
               /\ chunks'[c].state = "open" => chunks[c].state = "open"
    BY FlushShapes DEF FlushStep
  <2> QED BY <2>1, <2>2, <2>3 DEF FlushOnly
<1>f. /\ flush # NoFlush /\ flush \in FlushRecord /\ b \in Batches /\ ~Aborted(b)
      /\ \E q \in DOMAIN wal : PendingAt(q, b) /\ wal[q].lo = flush.lo /\ wal[q].hi = flush.hi
      /\ mode \in {"up", "resume"} /\ (mode = "up" <=> flush.chunk # {})
      /\ mode = "resume" => b \in todo
  BY <1>u, <1>b, FlushKnown
<1>1. PICK r \in LogRecord : r = BatchRecord("committed", b)
  BY <1>f DEF BatchRecord, LogRecord
<1>2. r.kind = "committed" /\ wal' = Append(wal, r)
  BY <1>1, <1>u DEF BatchRecord
<1>3. \A q \in DOMAIN wal' \ DOMAIN wal : wal'[q].kind = "committed"
  BY <1>2, NewRecord DEF Shapes
<1>4. CASE flush.chunk # {}
  BY <1>u, <1>3, <1>4, FlushCalm
<1>5. CASE flush.chunk = {}
  <2>0. PICK q0 \in DOMAIN wal : PendingAt(q0, b) /\ wal[q0].lo = flush.lo /\ wal[q0].hi = flush.hi
    BY <1>f
  <2>1. mode = "resume" /\ todo' = todo \ {b}
    BY <1>f, <1>u, <1>5
  <2>2. claims' = claims \cup {ClaimOf(q0)}
    <3>1. PendingAt(LastPending(OnDisk, b), b)
      BY <2>0, LastPendingIsLast DEF Shapes
    <3>2. PICK p : p = LastPending(OnDisk, b)
      OBVIOUS
    <3>3. p \in DOMAIN wal /\ wal[p].group = wal[q0].group
      BY <1>a, <2>0, <3>1, <3>2 DEF OneRange, PendingAt
    <3>4. claims' = claims \cup {[group |-> wal[p].group, lo |-> flush.lo, hi |-> flush.hi]}
      BY <1>u, <1>5, <3>2 DEF Claim
    <3> QED BY <2>0, <3>3, <3>4 DEF ClaimOf
  <2>3. DOMAIN chunks' = {}
    <3>1. DOMAIN chunks = {}
      BY <1>a, <2>1 DEF Phases
    <3> QED BY <1>u, <1>5, <3>1
  <2>4. KeysStill /\ KeysKept
    BY <1>u DEF KeysStill, KeysKept
  <2>5. \A x : Aborted(x)' => Aborted(x)
    BY <1>3, NoAbort
  <2>6. RangesBehind'
    BY <1>a, <1>3, RangesStay
  <2>7. \A q, x, p : Houses(q, x, p) => Houses(q, x, p)' /\ q \in DOMAIN wal' /\ wal'[q] = wal[q]
    BY <1>a, <1>u, <2>1, <2>4, <2>5, HousesStay DEF AbortsSpare
  <2>8. \A p, lo, hi : HousedWithin(p, lo, hi) => HousedWithin(p, lo, hi)'
    BY <2>7, HousedStays
  <2>9. KeysAnnounced'
    BY <1>a, <1>u, <2>4, KeysCalm
  <2>10. ObjectsLanded' /\ ObjectHoles'
    <3>1. ObjectsLanded'
      BY <1>a, <1>u, LoggedGrows DEF ObjectsLanded
    <3>2. ObjectHoles'
      BY <1>u, <1>3, <2>6, <2>8, HolesStay
    <3> QED BY <3>1, <3>2
  <2>11. Landed(b)
    BY <1>b, <1>u, FlushedObject
  <2>12. \A q \in DOMAIN wal : PendingAt(q, b) => b \in DOMAIN files' \/ TakenAt(q, b)'
    <3> SUFFICES ASSUME NEW q \in DOMAIN wal, PendingAt(q, b) PROVE b \in DOMAIN files' \/ TakenAt(q, b)'
      OBVIOUS
    <3>1. b \in DOMAIN files \/ TakenAt(q, b)
      BY <1>a, <1>b, <1>f, <1>u DEF FlushDone
    <3>2. TakenAt(q, b) => TakenAt(q, b)'
      BY <2>4, TakenStays
    <3> QED BY <1>u, <3>1, <3>2
  <2>13. ClaimsLogged' /\ ClaimsHoused' /\ Resumed' /\ SeqsRead' /\ ChunkHoles'
    BY <1>f, <1>u, <1>3, <2>0, <2>1, <2>2, <2>3, <2>4, <2>11, <2>12, DealtWith
  <2>14. FlushHoles' /\ FlushDone'
    BY <1>u DEF FlushHoles, FlushDone
  <2>15. NoneAborted'
    BY <1>u, <2>1, <2>5, NoneAbortedStays
  <2>16. IndexLogged' /\ AnsweredLogged'
    BY <1>a, <1>u, IndexStays, RequestsStay DEF AnsweredLogged
  <2>17. Phases'
    BY <1>a, <1>u, <2>1, <2>3 DEF Phases
  <2> QED BY <2>6, <2>9, <2>10, <2>13, <2>14, <2>15, <2>16, <2>17 DEF Account
<1> QED BY <1>4, <1>5

LEMMA FlushAccount == ASSUME Ready, FlushStep PROVE Account'
<1> USE DEF Ready
<1>1. CASE Announce \/ FlushFails
  <2>1. UNCHANGED <<wal, content, files, idempotency, mode, claims, todo, read, req, chunks>>
    BY <1>1 DEF Announce, FlushFails, RecordInFlight, FlushOnly, catalogVars, dataVars, memory
  <2>2. flush \in FlushRecord /\ flush # NoFlush
    BY <1>1, FlushFields DEF Announce, FlushFails
  <2>3. \/ flush' = NoFlush
        \/ /\ flush'.batch = flush.batch /\ flush'.chunk = flush.chunk
           /\ flush'.lo = flush.lo /\ flush'.hi = flush.hi /\ flush'.rows = flush.rows
           /\ flush'.pc # "finish"
    BY <1>1, <2>2 DEF Announce, FlushFails, FlushRecord
  <2> QED BY <2>1, <2>2, <2>3, FlushCalm
<1> QED BY <1>1, UploadAccount, CommitStepAccount, FinishAccount DEF FlushStep

LEMMA ReclaimAccount == ASSUME Ready, NEW s, Reclaim(s) PROVE Account'
<1> USE DEF Ready
<1>u. UNCHANGED <<wal, content, files, idempotency, mode, claims, todo, flush, req, read>>
      /\ mode = "up"
  BY DEF Reclaim, logVars, catalogVars, dataVars, memory
<1>q. /\ AnsweredLogged' /\ IndexLogged' /\ KeysAnnounced' /\ RangesBehind' /\ ObjectsLanded'
      /\ NoneAborted' /\ ClaimsLogged' /\ ClaimsHoused' /\ FlushHoles' /\ ObjectHoles'
      /\ FlushDone' /\ Resumed'
      /\ \A h : HousedAsClaimed(h) => HousedAsClaimed(h)'
  BY <1>u, QuietAccount
<1>1. Phases'
  BY <1>u DEF Account, Phases
<1>2. \A c \in DOMAIN chunks' : c \in DOMAIN chunks /\ chunks'[c] = chunks[c]
  BY ReclaimShapes
<1>3. SeqsRead' /\ ChunkHoles'
  BY <1>u, <1>q, <1>2, ChunksStay
<1> QED BY <1>q, <1>1, <1>3 DEF Account

\* The monitor gives up a batch that is neither committed nor under way.
LEMMA AbortAccount == ASSUME Ready, NEW b \in Batches, Abort(b) PROVE Account'
<1> USE DEF Ready
<1>a. AnsweredLogged /\ RangesBehind /\ Phases /\ NoneAborted
  BY DEF Account
<1>u. /\ UNCHANGED <<content, files, idempotency, mode, claims, todo, flush, req, read, chunks>>
      /\ mode = "up" /\ wal' = Append(wal, BatchRecord("abort", b))
  BY DEF Abort, MonitorOnly, procVars, catalogVars, dataVars, memory
<1>1. b \notin DOMAIN files /\ ~(flush.pc # "none" /\ flush.batch = b)
  BY DEF Abort, Clean
<1>2. flush # NoFlush => flush.pc # "none"
  BY DEF Shapes, FlushRecord
<1>3. PICK r \in LogRecord : r = BatchRecord("abort", b)
  BY DEF BatchRecord, LogRecord
<1>4. r.kind = "abort" /\ r.batch = b /\ wal' = Append(wal, r)
  BY <1>3, <1>u DEF BatchRecord
<1>5. \A q \in DOMAIN wal' \ DOMAIN wal : wal'[q] = r
  BY <1>4, NewRecord DEF Shapes
<1>6. \A x : Aborted(x)' => Aborted(x) \/ x = b
  BY <1>4, <1>5 DEF Aborted, Grows
<1>7. KeysStill /\ KeysKept
  BY <1>u DEF KeysStill, KeysKept
<1>8. AbortsSpare
  BY <1>u, <1>1, <1>6 DEF AbortsSpare
<1>9. RangesBehind'
  BY <1>a, <1>4, <1>5, RangesStay
<1>10. /\ KeysAnnounced' /\ ObjectsLanded' /\ ClaimsLogged' /\ ClaimsHoused'
       /\ ObjectHoles' /\ Resumed'
       /\ \A p, lo, hi : HousedWithin(p, lo, hi) => HousedWithin(p, lo, hi)'
       /\ \A p : HousedAsClaimed(p) => HousedAsClaimed(p)'
  BY <1>u, <1>4, <1>5, <1>7, <1>8, <1>9, CalmAccount
<1>11. SeqsRead' /\ ChunkHoles'
  BY <1>u, <1>10, ChunksStay
<1>12. FlushHoles'
  <2>1. flush' = NoFlush \/ flush # NoFlush
    BY <1>u
  <2> QED BY <1>u, <1>4, <1>5, <1>9, <1>10, <2>1, FlushStays
<1>13. FlushDone'
  BY <1>u, <1>4, <1>5, <1>7, FlushDoneStays
<1>14. NoneAborted'
  <2>1. b \notin todo
    BY <1>a, <1>u DEF Phases
  <2> QED BY <1>a, <1>u, <1>1, <1>2, <1>6, <2>1 DEF NoneAborted
<1>15. IndexLogged' /\ AnsweredLogged'
  BY <1>a, <1>u, IndexStays, RequestsStay DEF AnsweredLogged
<1>16. Phases'
  BY <1>a, <1>u DEF Phases
<1> QED BY <1>9, <1>10, <1>11, <1>12, <1>13, <1>14, <1>15, <1>16 DEF Account

LEMMA CrashAccount == ASSUME Ready, Crash PROVE Account'
<1> USE DEF Ready
<1>a. AnsweredLogged /\ RangesBehind /\ KeysAnnounced /\ ObjectsLanded
  BY DEF Account
<1>u. /\ UNCHANGED <<wal, content>> /\ mode' = "reindex" /\ todo' = {} /\ claims' = {} /\ read' = 1
      /\ DOMAIN chunks' = {} /\ flush' = NoFlush
      /\ req' = [i \in Items |->
                    IF req[i] = "done" THEN "done"
                    ELSE IF Keyed(i) \/ req[i] = "idle" THEN "idle" ELSE "gone"]
  BY DEF Crash, logVars, Nothing
<1>1. (files' = files /\ idempotency' = idempotency) \/ (DOMAIN files' = {} /\ DOMAIN idempotency' = {})
  BY DEF Crash, CatalogLost, catalogVars, dataVars, memory, Nothing
<1>2. \A x : Aborted(x)' => Aborted(x)
  BY <1>u, NoAbort
<1>3. RangesBehind'
  BY <1>a, <1>u, RangesStay
<1>4. \A q, x, p : Houses(q, x, p) => Houses(q, x, p)' /\ q \in DOMAIN wal' /\ wal'[q] = wal[q]
  <2>1. CASE files' = files /\ idempotency' = idempotency
    <3>1. KeysStill
      BY <2>1 DEF KeysStill
    <3> QED BY <1>a, <1>u, <1>2, <2>1, <3>1, HousesStay DEF AbortsSpare
  <2>2. CASE DOMAIN files' = {} /\ DOMAIN idempotency' = {}
    BY <1>a, <1>u, <1>2, <2>2, HousesStay DEF AbortsSpare
  <2> QED BY <1>1, <2>1, <2>2
<1>5. \A p, lo, hi : HousedWithin(p, lo, hi) => HousedWithin(p, lo, hi)'
  BY <1>4, HousedStays
<1>6. KeysAnnounced'
  <2>1. CASE files' = files /\ idempotency' = idempotency
    <3>1. KeysStill
      BY <2>1 DEF KeysStill
    <3> QED BY <1>a, <2>1, <3>1, KeysCalm
  <2>2. CASE DOMAIN idempotency' = {}
    BY <2>2 DEF KeysAnnounced
  <2> QED BY <1>1, <2>1, <2>2
<1>7. ObjectsLanded'
  BY <1>a, <1>u, LoggedGrows DEF ObjectsLanded
<1>8. ObjectHoles'
  BY <1>u, <1>3, <1>5, HolesStay
<1>9. /\ ClaimsLogged' /\ ClaimsHoused' /\ ChunkHoles' /\ FlushHoles' /\ FlushDone' /\ Resumed'
      /\ Phases'
  BY <1>u DEF ClaimsLogged, ClaimsHoused, ChunkHoles, FlushHoles, FlushDone, Resumed, Phases
<1>10. SeqsRead'
  BY <1>u DEF SeqsRead, Grows
<1>11. NoneAborted'
  BY <1>u, <1>1, <1>2, NoneAbortedStays
<1>12. IndexLogged'
  BY <1>1, IndexStays
<1>13. AnsweredLogged'
  BY <1>a, <1>u, RequestsStay DEF AnsweredLogged
<1> QED BY <1>3, <1>6, <1>7, <1>8, <1>9, <1>10, <1>11, <1>12, <1>13 DEF Account

-----------------------------------------------------------------------------
(* What recovery finds. *)

\* Recovery knows the batches that are announced and not aborted.
LEMMA KnownBatch ==
    ASSUME Shapes, Body, gone = {}, NEW b
    PROVE  KnownIn(OnDisk, b) <=> (\E q \in DOMAIN wal : PendingAt(q, b)) /\ ~Aborted(b)
<1>1. OnDisk = DOMAIN wal /\ DOMAIN wal \subseteq Nat
  BY DEF OnDisk, Shapes
<1>2. PendingsOf(OnDisk, b) # {} <=> \E q \in DOMAIN wal : PendingAt(q, b)
  BY <1>1 DEF PendingsOf, RecordsOf, IsData, PendingAt
<1>3. ASSUME \E q \in DOMAIN wal : PendingAt(q, b),
             NEW p \in DOMAIN wal, wal[p].kind = "abort", wal[p].batch = b
      PROVE  ~(p < LastPending(OnDisk, b)) /\ p \in RecordsOf(OnDisk, b)
  <2>1. PendingAt(LastPending(OnDisk, b), b)
    BY <1>3, LastPendingIsLast DEF Shapes
  <2>2. PICK l : l = LastPending(OnDisk, b)
    OBVIOUS
  <2>3. l \in DOMAIN wal /\ wal[l].kind = "pending" /\ wal[l].batch = b
    BY <2>1, <2>2 DEF PendingAt
  <2>4. l < p
    BY <1>3, <2>3 DEF Body, PendingFirst
  <2>5. l \in Nat /\ p \in Nat
    BY <1>1, <2>3
  <2> QED BY <1>1, <1>3, <2>2, <2>4, <2>5 DEF RecordsOf, IsData
<1>4. ASSUME ~Aborted(b), NEW p \in RecordsOf(OnDisk, b) PROVE wal[p].kind # "abort"
  BY <1>1, <1>4 DEF RecordsOf, Aborted
<1> QED BY <1>1, <1>2, <1>3, <1>4 DEF KnownIn, Aborted

\* A batch is taken by one in the catalog that has its range and group.
LEMMA TakerSpans ==
    ASSUME Shapes, Clean, KeysAnnounced, NEW b, NEW q, NEW p, Spans(q, b, p), TakenAt(q, b)
    PROVE  \E q1 \in DOMAIN wal : \E b1 \in DOMAIN files : Spans(q1, b1, p)
<1>1. PICK h \in Logged : /\ Keyed(ItemAt(h)) /\ wal[q].lo <= h /\ h < wal[q].hi
                          /\ KeyTaken(KeyOf[ItemAt(h)], b)
  BY DEF TakenAt
<1>2. PICK k : k = KeyOf[ItemAt(h)]
  OBVIOUS
<1>3. PICK b1 : b1 = idempotency[k].batch
  OBVIOUS
<1>4. k \in DOMAIN idempotency /\ b1 # NoBatch
  BY <1>1, <1>2, <1>3 DEF KeyTaken
<1>5. b1 \in DOMAIN files
  BY <1>3, <1>4 DEF KeysAnnounced
<1>6. PICK q1 \in DOMAIN wal, h1 \in Logged :
          PendingAt(q1, b1) /\ KeyOf[ItemAt(h1)] = k /\ wal[q1].lo <= h1 /\ h1 < wal[q1].hi
  BY <1>3, <1>4 DEF KeysAnnounced
<1>7. h1 = h
  BY <1>1, <1>2, <1>6 DEF Clean, KeyLoggedTwice
<1>8. q \in DOMAIN wal /\ wal[q].kind = "pending" /\ wal[q1].kind = "pending"
  BY <1>6 DEF Spans, PendingAt
<1>9. wal[q1].group = wal[q].group /\ wal[q1].lo = wal[q].lo /\ wal[q1].hi = wal[q].hi
  BY <1>1, <1>6, <1>7, <1>8, OneRangeByKey
<1>10. Spans(q1, b1, p)
  BY <1>6, <1>9 DEF Spans
<1> QED BY <1>5, <1>10

\* A write that a batch with an object covers is in the object of one that is, or
\* can be, in the catalog.
LEMMA CoveredIsHoused ==
    ASSUME Shapes, Body, Clean, Account, NEW b, NEW q, NEW p, Spans(q, b, p), b \in DOMAIN content,
           ~Aborted(b)
    PROVE  \/ \E q1 \in DOMAIN wal : \E b1 \in Batches : Houses(q1, b1, p)
           \/ p \in content[b] /\ ~TakenAt(q, b)
<1>a. ObjectHoles /\ KeysAnnounced /\ NoneAborted /\ LandedHasObject /\ FilesLanded
  BY DEF Account, Body
<1>1. ASSUME NEW x \in DOMAIN content, NEW y, Spans(y, x, p), p \notin content[x]
      PROVE  \E q1 \in DOMAIN wal : \E b1 \in Batches : Houses(q1, b1, p)
  <2>1. y \in DOMAIN wal /\ p \in Logged \ content[x]
    BY <1>1 DEF Spans, PendingAt
  <2>2. HousedWithin(p, wal[y].lo, wal[y].hi)
    BY <1>a, <1>1, <2>1 DEF ObjectHoles
  <2> QED BY <2>2 DEF HousedWithin
<1>2. CASE p \notin content[b]
  BY <1>1, <1>2
<1>3. CASE TakenAt(q, b)
  <2>1. PICK q1 \in DOMAIN wal, b1 \in DOMAIN files : Spans(q1, b1, p)
    BY <1>a, <1>3, TakerSpans
  <2>2. b1 \in Batches /\ b1 \in DOMAIN content /\ ~Aborted(b1)
    BY <1>a DEF Shapes, FilesLanded, LandedHasObject, NoneAborted
  <2>3. CASE p \in content[b1]
    BY <2>1, <2>2, <2>3 DEF Houses
  <2>4. CASE p \notin content[b1]
    BY <1>1, <2>1, <2>2, <2>4
  <2> QED BY <2>3, <2>4
<1> QED BY <1>2, <1>3

LEMMA ReindexAccount == ASSUME Ready, NEW k, Reindex(k) PROVE Account'
<1> USE DEF Ready
<1>a. AnsweredLogged /\ RangesBehind /\ Phases
  BY DEF Account
<1>u. /\ UNCHANGED <<wal, content, files, mode, claims, todo, flush, req, read, chunks>>
      /\ mode = "reindex" /\ k \in KeysLogged /\ RecordIdempotency(k, NoBatch, 0)
  BY DEF Reindex, RecoveryOnly, RecordIdempotency, dataVars
<1>1. PICK r : r = [batch |-> NoBatch, at |-> 0]
  OBVIOUS
<1>2. /\ k \notin DOMAIN idempotency /\ r.batch = NoBatch
      /\ idempotency' = Over(Entry(k, r), idempotency)
  BY <1>u, <1>1 DEF RecordIdempotency
<1>3. KeysStill /\ KeysKept /\ DOMAIN idempotency' = DOMAIN idempotency \cup {k}
  BY <1>2, RecordKeeps
<1>4. k # NoKey /\ \E p \in Logged : KeyOf[ItemAt(p)] = k
  BY <1>u DEF KeysLogged, KeysIn, DataIn, OnDisk, Logged, Positions
<1>5. \A x : Aborted(x)' => Aborted(x)
  BY <1>u, NoAbort
<1>6. RangesBehind'
  BY <1>a, <1>u, RangesStay
<1>7. /\ KeysAnnounced' /\ ObjectsLanded' /\ ClaimsLogged' /\ ClaimsHoused'
      /\ ObjectHoles' /\ Resumed'
      /\ \A p, lo, hi : HousedWithin(p, lo, hi) => HousedWithin(p, lo, hi)'
      /\ \A p : HousedAsClaimed(p) => HousedAsClaimed(p)'
  BY <1>u, <1>3, <1>5, <1>6, CalmAccount DEF AbortsSpare
<1>8. SeqsRead' /\ ChunkHoles'
  BY <1>u, <1>7, ChunksStay
<1>9. flush' = NoFlush
  BY <1>a, <1>u DEF Phases
<1>10. FlushHoles' /\ FlushDone'
  BY <1>9 DEF FlushHoles, FlushDone
<1>11. NoneAborted'
  BY <1>u, <1>5, <1>9, NoneAbortedStays
<1>12. IndexLogged'
  BY <1>3, <1>4, IndexStays
<1>13. AnsweredLogged'
  BY <1>a, <1>u, RequestsStay DEF AnsweredLogged
<1>14. Phases'
  BY <1>a, <1>u DEF Phases
<1> QED BY <1>6, <1>7, <1>8, <1>10, <1>11, <1>12, <1>13, <1>14 DEF Account

LEMMA ResumeAccount == ASSUME Ready, Resume PROVE Account'
<1> USE DEF Ready
<1>a. AnsweredLogged /\ RangesBehind /\ KeysAnnounced /\ ObjectsLanded /\ NoneAborted /\ Phases /\ SeqsRead
  BY DEF Account
<1>u. /\ UNCHANGED <<wal, content, files, idempotency, claims, flush, req, read, chunks>>
      /\ mode = "reindex" /\ mode' = "resume" /\ todo' = BatchesIn(OnDisk)
  BY DEF Resume, RecoveryOnly, catalogVars, dataVars, memory
<1>0. claims = {} /\ flush = NoFlush /\ DOMAIN chunks = {}
  BY <1>a, <1>u DEF Phases
<1>1. KeysStill /\ KeysKept
  BY <1>u DEF KeysStill, KeysKept
<1>2. \A x : (Aborted(x)' <=> Aborted(x)) /\ \A q : PendingAt(q, x)' <=> PendingAt(q, x)
  BY <1>u DEF Aborted, PendingAt
<1>3. RangesBehind'
  BY <1>a, <1>u, RangesStay
<1>4. \A q, x, p : Houses(q, x, p) => Houses(q, x, p)' /\ q \in DOMAIN wal' /\ wal'[q] = wal[q]
  BY <1>a, <1>u, <1>1, <1>2, HousesStay DEF AbortsSpare
<1>5. \A p, lo, hi : HousedWithin(p, lo, hi) => HousedWithin(p, lo, hi)'
  BY <1>4, HousedStays
<1>6. KeysAnnounced'
  BY <1>a, <1>u, <1>1, KeysCalm
<1>7. ObjectsLanded'
  BY <1>a, <1>u, LoggedGrows DEF ObjectsLanded
<1>8. ObjectHoles'
  BY <1>u, <1>3, <1>5, HolesStay
<1>9. ClaimsLogged' /\ ClaimsHoused' /\ ChunkHoles' /\ FlushHoles' /\ FlushDone'
  BY <1>0, <1>u DEF ClaimsLogged, ClaimsHoused, ChunkHoles, FlushHoles, FlushDone
<1>10. SeqsRead'
  BY <1>a, <1>0, <1>u DEF SeqsRead
<1>11. \A b \in Batches : b \in todo' <=> (\E q \in DOMAIN wal : PendingAt(q, b)) /\ ~Aborted(b)
  BY <1>u, KnownBatch DEF BatchesIn
<1>12. Resumed'
  <2>1. ASSUME NEW q \in DOMAIN wal', NEW b \in Batches, PendingAt(q, b)', ~Aborted(b)', b \notin todo'
        PROVE  FALSE
    BY <1>2, <1>11, <1>u, <2>1
  <2> QED BY <1>0, <1>u, <2>1 DEF Resumed
<1>13. NoneAborted'
  BY <1>a, <1>0, <1>u, <1>2, <1>11 DEF NoneAborted
<1>14. IndexLogged' /\ AnsweredLogged'
  BY <1>a, <1>u, IndexStays, RequestsStay DEF AnsweredLogged
<1>15. Phases'
  BY <1>0, <1>u DEF Phases
<1> QED BY <1>3, <1>6, <1>7, <1>8, <1>9, <1>10, <1>12, <1>13, <1>14, <1>15 DEF Account

\* Between two batches of recovery.
LEMMA RecoveryTurn ==
    ASSUME Ready, NEW b \in todo, Turn(b)
    PROVE  /\ mode = "resume" /\ flush = NoFlush /\ DOMAIN chunks = {}
           /\ b \in Batches /\ ~Aborted(b)
           /\ \E q \in DOMAIN wal : /\ PendingAt(q, b) /\ q = LastPending(OnDisk, b)
                                    /\ BatchRange(b) = wal[q]
<1> USE DEF Ready
<1>a. Phases /\ NoneAborted
  BY DEF Account
<1>1. b \in Batches /\ PendingAt(LastPending(OnDisk, b), b)
  BY TodoRange
<1>2. mode = "resume" /\ flush.pc = "none"
  BY DEF Turn
<1>3. flush = NoFlush
  BY <1>2 DEF Shapes, FlushRecord
<1>4. DOMAIN chunks = {} /\ ~Aborted(b)
  BY <1>a, <1>1, <1>2 DEF Phases, NoneAborted
<1>5. PICK q : q = LastPending(OnDisk, b)
  OBVIOUS
<1>6. PendingAt(q, b) /\ q \in DOMAIN wal /\ BatchRange(b) = wal[q]
  BY <1>1, <1>5 DEF PendingAt, BatchRange
<1> QED BY <1>1, <1>2, <1>3, <1>4, <1>5, <1>6

LEMMA RecommitAccount == ASSUME Ready, NEW b \in todo, Recommit(b) PROVE Account'
<1> USE DEF Ready
<1>a. AnsweredLogged /\ RangesBehind /\ Phases
  BY DEF Account
<1>p. /\ mode = "resume" /\ flush = NoFlush /\ DOMAIN chunks = {} /\ b \in Batches /\ ~Aborted(b)
      /\ \E q \in DOMAIN wal : PendingAt(q, b) /\ BatchRange(b) = wal[q]
  BY RecoveryTurn DEF Recommit
<1>0. PICK q0 \in DOMAIN wal : PendingAt(q0, b) /\ BatchRange(b) = wal[q0]
  BY <1>p
<1>1. PICK K, rows, r : /\ K = KeysIn(wal[q0].lo, wal[q0].hi) /\ rows = Cardinality(content[b])
                        /\ r = wal[q0]
  OBVIOUS
<1>u. /\ UNCHANGED <<wal, content, mode, flush, read, req, chunks>>
      /\ CommitBatch(b, rows, K) /\ todo' = todo \ {b}
      /\ claims' = claims \cup {[group |-> r.group, lo |-> r.lo, hi |-> r.hi]}
      /\ StatusIn(OnDisk, b) \in {"s3written", "committed"}
  BY <1>0, <1>1, Zenon DEF Recommit, RecoveryOnly, Claim
<1>2. claims' = claims \cup {ClaimOf(q0)}
  BY <1>u, <1>1 DEF ClaimOf
<1>3. Landed(b)
  BY <1>0, <1>u, StatusLanded DEF Shapes
<1>4. b \in DOMAIN content
  BY <1>p, <1>3 DEF Body, LandedHasObject
<1>5. /\ RangesBehind' /\ KeysAnnounced' /\ IndexLogged' /\ ObjectsLanded' /\ ObjectHoles'
      /\ KeysKept
      /\ DOMAIN files \subseteq DOMAIN files' /\ DOMAIN files' \subseteq DOMAIN files \cup {b}
      /\ \A q \in DOMAIN wal : PendingAt(q, b) => b \in DOMAIN files' \/ TakenAt(q, b)'
  BY <1>p, <1>0, <1>1, <1>u, <1>4, CommitAccount
<1>6. ClaimsLogged' /\ ClaimsHoused' /\ Resumed' /\ SeqsRead' /\ ChunkHoles'
  BY <1>p, <1>0, <1>u, <1>2, <1>3, <1>5, DealtWith
<1>7. FlushHoles' /\ FlushDone'
  BY <1>p, <1>u DEF FlushHoles, FlushDone
<1>8. \A x : Aborted(x)' => Aborted(x)
  BY <1>u, NoAbort
<1>9. NoneAborted'
  BY <1>p, <1>u, <1>5, <1>8, NoneAbortedStays
<1>10. AnsweredLogged'
  BY <1>a, <1>u, RequestsStay DEF AnsweredLogged
<1>11. Phases'
  BY <1>p, <1>u DEF Phases
<1> QED BY <1>5, <1>6, <1>7, <1>9, <1>10, <1>11 DEF Account

\* A batch that is not uploaded is flushed again with every row of its range.
LEMMA RedoAccount == ASSUME Ready, NEW b \in todo, Redo(b) PROVE Account'
<1> USE DEF Ready
<1>a. AnsweredLogged /\ RangesBehind /\ ObjectsLanded /\ Phases /\ OneRange /\ PendingFirst
  BY DEF Account, Body
<1>p. /\ mode = "resume" /\ flush = NoFlush /\ DOMAIN chunks = {} /\ b \in Batches /\ ~Aborted(b)
      /\ \E q \in DOMAIN wal : PendingAt(q, b) /\ BatchRange(b) = wal[q]
  BY RecoveryTurn DEF Redo
<1>0. PICK q0 \in DOMAIN wal : PendingAt(q0, b) /\ BatchRange(b) = wal[q0]
  BY <1>p
<1>1. PICK g, lo, hi, rows :
          g = wal[q0].group /\ lo = wal[q0].lo /\ hi = wal[q0].hi /\ rows = RedoRows(b)
  OBVIOUS
<1>2. PICK r : r = PendingRecord(b, g, lo, hi)
  OBVIOUS
<1>u. /\ UNCHANGED <<content, files, idempotency, mode, todo, claims, read, req, chunks>>
      /\ wal' = Append(wal, r) /\ flush' = Flushing(b, {}, lo, hi, rows)
      /\ StatusIn(OnDisk, b) = "pending"
  <2>1. /\ catalogVars' = catalogVars /\ UNCHANGED <<content, mode, todo, claims, read, req, chunks>>
        /\ wal' = Append(wal, r) /\ flush' = Flushing(b, {}, lo, hi, rows)
        /\ StatusIn(OnDisk, b) = "pending"
    BY <1>0, <1>1, <1>2, Zenon DEF Redo, RecoveryOnly
  <2> QED BY <2>1 DEF catalogVars, dataVars, memory
<1>3. r \in LogRecord
  <2>1. PendingAt(LastPending(OnDisk, b), b)
    BY TodoRange
  <2>2. PendingRecord(b, BatchRange(b).group, BatchRange(b).lo, BatchRange(b).hi) \in LogRecord
    BY <2>1, RedoShapes
  <2> QED BY <1>0, <1>1, <1>2, <2>2
<1>4. r.kind = "pending" /\ r.batch = b /\ r.lo = lo /\ r.hi = hi /\ r.group = g
  BY <1>2 DEF PendingRecord
<1>n. PICK n : n = Len(wal) + 1
  OBVIOUS
<1>5. /\ \A q \in DOMAIN wal' \ DOMAIN wal : q = n /\ wal'[q] = r
  BY <1>n, <1>u, <1>3, NewRecord DEF Shapes
<1>6. ~Landed(b) /\ b \notin DOMAIN content
  BY <1>a, <1>0, <1>u, PendingNotLanded DEF Shapes, ObjectsLanded
<1>7. KeysStill /\ KeysKept
  BY <1>u DEF KeysStill, KeysKept
<1>8. \A x : Aborted(x)' => Aborted(x)
  BY <1>4, <1>5, NoAbort
<1>9. RangesBehind'
  <2>1. hi <= q0 /\ RowsBetween(lo, hi) # {}
    BY <1>a, <1>0, <1>1 DEF RangesBehind, PendingAt
  <2>2. q0 < n /\ q0 \in Nat /\ n \in Nat
    BY <1>0, <1>n DEF Shapes
  <2>3. hi \in Nat
    BY <1>0, <1>1, PendingFields
  <2>4. hi <= n
    BY <2>1, <2>2, <2>3
  <2> QED BY <1>a, <1>4, <1>5, <2>1, <2>4, RangesStay
<1>10. /\ KeysAnnounced' /\ ObjectsLanded' /\ ClaimsLogged' /\ ClaimsHoused'
       /\ ObjectHoles' /\ Resumed'
       /\ \A p : HousedAsClaimed(p) => HousedAsClaimed(p)'
  BY <1>u, <1>4, <1>5, <1>6, <1>7, <1>8, <1>9, CalmAccount DEF AbortsSpare
<1>11. SeqsRead' /\ ChunkHoles'
  BY <1>u, <1>10, ChunksStay
<1>12. /\ flush'.batch = b /\ flush'.lo = lo /\ flush'.hi = hi /\ flush'.pc = "announce"
       /\ flush'.rows = rows /\ flush'.chunk = {}
  BY <1>u DEF Flushing
<1>13. FlushHoles'
  <2> SUFFICES ASSUME NEW q \in DOMAIN wal', NEW p \in Logged' \ rows, Spans(q, flush.batch, p)'
               PROVE  FALSE
    BY <1>12 DEF FlushHoles
  <2>1. Spans(q, b, p)'
    BY <1>12 DEF Spans, PendingAt
  <2>2. p \in Logged /\ p \in DOMAIN wal /\ (q \in DOMAIN wal => Spans(q, b, p))
    BY <1>9, <2>1, SpansBack
  <2>3. lo <= p /\ p < hi
    <3>1. CASE q \in DOMAIN wal
      <4>1. wal[q].lo = lo /\ wal[q].hi = hi
        BY <1>a, <1>0, <1>1, <2>2, <3>1 DEF OneRange, Spans, PendingAt
      <4> QED BY <2>2, <3>1, <4>1 DEF Spans
    <3>2. CASE q \notin DOMAIN wal
      BY <1>4, <1>5, <2>1, <3>2 DEF Spans
    <3> QED BY <3>1, <3>2
  <2>4. p \in RedoRows(b)
    BY <1>0, <1>1, <2>2, <2>3 DEF RedoRows, DataIn, OnDisk, Logged
  <2> QED BY <1>1, <2>4
<1>14. FlushDone'
  BY <1>u, <1>7, <1>12, FlushDoneStays
<1>15. NoneAborted'
  BY <1>u, <1>8, <1>12, NoneAbortedStays
<1>16. IndexLogged' /\ AnsweredLogged'
  BY <1>a, <1>u, IndexStays, RequestsStay DEF AnsweredLogged
<1>17. Phases'
  BY <1>p, <1>u, <1>12 DEF Phases
<1> QED BY <1>9, <1>10, <1>11, <1>13, <1>14, <1>15, <1>16, <1>17 DEF Account

\* The range of a batch always holds a row to flush.
LEMMA NoGiveUp == ASSUME Ready, NEW b \in todo PROVE ~GiveUp(b)
<1> USE DEF Ready
<1> SUFFICES ASSUME GiveUp(b) PROVE FALSE
  OBVIOUS
<1>1. PICK q \in DOMAIN wal : PendingAt(q, b) /\ BatchRange(b) = wal[q]
  BY RecoveryTurn DEF GiveUp
<1>2. RowsBetween(wal[q].lo, wal[q].hi) # {}
  BY <1>1 DEF Account, RangesBehind, PendingAt
<1>3. RedoRows(b) = {}
  BY DEF GiveUp
<1> QED BY <1>1, <1>2, <1>3 DEF RedoRows, DataIn, RowsBetween, OnDisk, IsData

\* When recovery is through, what houses a write is in the catalog and claimed.
LEMMA ServeAccount == ASSUME Ready, Serve PROVE Account'
<1> USE DEF Ready
<1>a. /\ AnsweredLogged /\ RangesBehind /\ KeysAnnounced /\ ObjectsLanded /\ Phases /\ SeqsRead
      /\ ClaimsLogged /\ Resumed /\ LandedHasObject
  BY DEF Account, Body
<1>u. /\ UNCHANGED <<wal, content, files, idempotency, todo, claims, flush, req, read, chunks>>
      /\ mode = "resume" /\ mode' = "up" /\ todo = {} /\ flush.pc = "none"
  BY DEF Serve, RecoveryOnly, catalogVars, dataVars, memory
<1>0. flush = NoFlush /\ DOMAIN chunks = {}
  BY <1>a, <1>u DEF Phases, Shapes, FlushRecord
<1>1. ASSUME NEW q, NEW b \in Batches, PendingAt(q, b), ~Aborted(b)
      PROVE  (b \in DOMAIN files \/ TakenAt(q, b)) /\ ClaimOf(q) \in claims
  <2>1. q \in DOMAIN wal
    BY <1>1 DEF PendingAt
  <2> QED BY <1>a, <1>u, <1>1, <2>1 DEF Resumed
<1>2. ASSUME NEW q, NEW b, NEW p, Houses(q, b, p)
      PROVE  Houses(q, b, p)' /\ q \in DOMAIN wal' /\ wal'[q] = wal[q] /\ ClaimOf(q) \in claims
  <2>1. /\ b \in DOMAIN content /\ Spans(q, b, p) /\ p \in content[b] /\ ~Aborted(b)
        /\ b \in DOMAIN files \/ ~TakenAt(q, b)
    BY <1>2 DEF Houses
  <2>2. PendingAt(q, b) /\ b \in Batches
    BY <2>1, PendingFields DEF Spans
  <2>3. b \in DOMAIN files /\ ClaimOf(q) \in claims
    BY <1>1, <2>1, <2>2
  <2>4. Spans(q, b, p)' /\ ~Aborted(b)'
    BY <1>u, <2>1, LoggedGrows DEF Aborted
  <2>5. q \in DOMAIN wal' /\ wal'[q] = wal[q]
    BY <2>2, <1>u DEF PendingAt
  <2> QED BY <1>u, <2>1, <2>3, <2>4, <2>5 DEF Houses
<1>3. KeysStill /\ KeysKept
  BY <1>u DEF KeysStill, KeysKept
<1>4. \A x : Aborted(x)' => Aborted(x)
  BY <1>u, NoAbort
<1>5. RangesBehind'
  BY <1>a, <1>u, RangesStay
<1>6. \A p, lo, hi : HousedWithin(p, lo, hi) => HousedWithin(p, lo, hi)'
  BY <1>2, HousedStays
<1>7. KeysAnnounced'
  BY <1>a, <1>u, <1>3, KeysCalm
<1>8. ObjectsLanded'
  BY <1>a, <1>u, LoggedGrows DEF ObjectsLanded
<1>9. ObjectHoles'
  BY <1>u, <1>5, <1>6, HolesStay
<1>10. ClaimsLogged'
  BY <1>a, <1>u DEF ClaimsLogged, ClaimOf
<1>11. ClaimsHoused'
  <2> SUFFICES ASSUME NEW p \in Logged', Claimed(p)' PROVE HousedAsClaimed(p)'
    BY DEF ClaimsHoused
  <2>1. p \in Logged /\ Claimed(p)
    BY <1>u DEF Logged, Positions, IsData, Claimed, GroupAt, ItemAt
  <2>2. PICK c \in claims : c.group = GroupAt(p) /\ c.lo <= p /\ p < c.hi
    BY <2>1 DEF Claimed
  <2>3. PICK q \in DOMAIN wal, b \in Batches :
            PendingAt(q, b) /\ c = ClaimOf(q) /\ ~Aborted(b) /\ Landed(b)
    BY <1>a, <1>u DEF Resumed
  <2>4. Spans(q, b, p)
    BY <2>1, <2>2, <2>3 DEF Spans, ClaimOf
  <2>5. b \in DOMAIN content
    BY <1>a, <2>3 DEF LandedHasObject
  <2>6. \E q1 \in DOMAIN wal : \E b1 \in Batches : Houses(q1, b1, p)
    <3>1. CASE p \in content[b] /\ ~TakenAt(q, b)
      <4>1. b \in DOMAIN files
        BY <1>1, <2>3, <3>1
      <4> QED BY <2>3, <2>4, <2>5, <3>1, <4>1 DEF Houses
    <3> QED BY <2>3, <2>4, <2>5, <3>1, CoveredIsHoused
  <2>7. PICK q1 \in DOMAIN wal, b1 \in Batches : Houses(q1, b1, p)
    BY <2>6
  <2>8. Houses(q1, b1, p)' /\ q1 \in DOMAIN wal' /\ wal'[q1] = wal[q1] /\ ClaimOf(q1) \in claims
    BY <1>2, <2>7
  <2>9. ClaimOf(q1)' \in claims'
    BY <1>u, <2>8 DEF ClaimOf
  <2> QED BY <2>8, <2>9 DEF HousedAsClaimed
<1>12. ChunkHoles' /\ FlushHoles' /\ FlushDone' /\ Resumed'
  BY <1>0, <1>u DEF ChunkHoles, FlushHoles, FlushDone, Resumed
<1>13. SeqsRead'
  BY <1>a, <1>0, <1>u DEF SeqsRead
<1>14. NoneAborted'
  BY <1>0, <1>u, <1>4, NoneAbortedStays
<1>15. IndexLogged' /\ AnsweredLogged'
  BY <1>a, <1>u, IndexStays, RequestsStay DEF AnsweredLogged
<1>16. Phases'
  BY <1>0, <1>u DEF Phases
<1> QED BY <1>5, <1>7, <1>8, <1>9, <1>10, <1>11, <1>12, <1>13, <1>14, <1>15, <1>16 DEF Account

LEMMA RecoveryAccount == ASSUME Ready, RecoveryStep PROVE Account'
  BY ReindexAccount, ResumeAccount, ServeAccount, RecommitAccount, RedoAccount, NoGiveUp
     DEF RecoveryStep

\* Nothing happens.
LEMMA StutterAccount == ASSUME Ready, UNCHANGED vars PROVE Account'
<1>1. UNCHANGED <<wal, content, files, idempotency, mode, claims, todo, flush, req, read, chunks>>
  BY DEF vars, logVars, procVars, catalogVars, dataVars, memory
<1>2. /\ AnsweredLogged' /\ IndexLogged' /\ KeysAnnounced' /\ RangesBehind' /\ ObjectsLanded'
      /\ NoneAborted' /\ ClaimsLogged' /\ ClaimsHoused' /\ FlushHoles' /\ ObjectHoles'
      /\ FlushDone' /\ Resumed'
      /\ \A h : HousedAsClaimed(h) => HousedAsClaimed(h)'
  BY <1>1, QuietAccount
<1>3. SeqsRead' /\ ChunkHoles'
  BY <1>1, <1>2, ChunksStay DEF Ready
<1>4. Phases'
  BY <1>1 DEF Ready, Account, Phases
<1> QED BY <1>2, <1>3, <1>4 DEF Account

-----------------------------------------------------------------------------
(* The account holds, and answered writes are kept. *)

LEMMA AInvHoldsAtFirst == ASSUME Init PROVE AInv
<1>1. KInv
  BY KInvHoldsAtFirst
<1>2. /\ wal = << >> /\ content = Nothing /\ req = [i \in Items |-> "idle"]
      /\ mode = "up" /\ todo = {} /\ claims = {} /\ read = 1
      /\ chunks = Nothing /\ flush = NoFlush /\ files = Nothing /\ idempotency = Nothing
  BY DEF Init
<1>3. DOMAIN wal = {} /\ Len(wal) = 0
  BY <1>2
<1>4. DOMAIN content = {} /\ DOMAIN chunks = {} /\ DOMAIN files = {} /\ DOMAIN idempotency = {}
  BY <1>2 DEF Nothing
<1>5. AnsweredLogged /\ IndexLogged /\ KeysAnnounced
  BY <1>2, <1>4 DEF AnsweredLogged, IndexLogged, KeysAnnounced
<1>6. RangesBehind /\ ObjectsLanded /\ NoneAborted
  BY <1>3, <1>4 DEF RangesBehind, ObjectsLanded, NoneAborted, Aborted
<1>7. Phases /\ SeqsRead
  BY <1>2, <1>3, <1>4 DEF Phases, SeqsRead
<1>8. ClaimsLogged /\ ClaimsHoused
  BY <1>2 DEF ClaimsLogged, ClaimsHoused, Claimed
<1>9. ChunkHoles /\ FlushHoles /\ ObjectHoles /\ FlushDone /\ Resumed
  BY <1>2, <1>4 DEF ChunkHoles, FlushHoles, ObjectHoles, FlushDone, Resumed
<1> QED BY <1>1, <1>5, <1>6, <1>7, <1>8, <1>9 DEF AInv, Account

LEMMA AInvIsKept == ASSUME AInv, [Next]_vars PROVE AInv'
<1>1. KInv /\ KInv'
  BY KInvIsKept DEF AInv
<1>2. ASSUME Clean' PROVE Account'
  <2>1. gone \subseteq gone' /\ trouble \subseteq trouble' /\ (gone' # gone => "segment" \in trouble')
    BY GoneIsTrouble
  <2>2. gone' = {} /\ gone = {}
    BY <1>1, <1>2, <2>1 DEF KInv, Clean
  <2>3. Shapes /\ Body /\ Shapes' /\ Body'
    BY <1>1, <2>2 DEF KInv
  <2>4. Grows
    BY <2>3, NextGrows DEF Shapes
  <2>5. Clean
    BY <1>2, <2>1, <2>4, CleanLasts
  <2>6. Ready
    BY <1>2, <2>2, <2>3, <2>4, <2>5 DEF Ready, AInv
  <2>7. CASE ClientStep
    BY <2>6, <2>7, ClientAccount DEF ClientStep
  <2>8. CASE AccumulatorStep
    BY <2>6, <2>8, AccumulatorAccount
  <2>9. CASE FlushStep
    BY <2>6, <2>9, FlushAccount
  <2>10. CASE ReclaimStep
    BY <2>6, <2>10, ReclaimAccount DEF ReclaimStep
  <2>11. CASE MonitorStep
    <3>1. ~ \E n \in 0..Len(wal) : RemoveSegment(n)
      BY <1>2 DEF RemoveSegment, Clean
    <3> QED BY <2>6, <2>11, <3>1, AbortAccount DEF MonitorStep
  <2>12. CASE Crash
    BY <2>6, <2>12, CrashAccount
  <2>13. CASE RecoveryStep
    BY <2>6, <2>13, RecoveryAccount
  <2>14. CASE UNCHANGED vars
    BY <2>6, <2>14, StutterAccount
  <2> QED BY <2>7, <2>8, <2>9, <2>10, <2>11, <2>12, <2>13, <2>14 DEF Next
<1> QED BY <1>1, <1>2 DEF AInv

\* The range recovery sees of a batch is that of any of its announcements.
LEMMA RangeOfBatch ==
    ASSUME Shapes, Body, gone = {}, NEW q, NEW b, PendingAt(q, b)
    PROVE  /\ BatchRange(b).lo = wal[q].lo /\ BatchRange(b).hi = wal[q].hi
           /\ BatchRange(b).group = wal[q].group
           /\ Taken(b) <=> TakenAt(q, b)
           /\ \A p \in Logged : Covers(b, p) <=> Spans(q, b, p)
<1>1. q \in DOMAIN wal
  BY DEF PendingAt
<1>2. PendingAt(LastPending(OnDisk, b), b)
  BY <1>1, LastPendingIsLast DEF Shapes
<1>3. PICK l : l = LastPending(OnDisk, b)
  OBVIOUS
<1>4. l \in DOMAIN wal /\ PendingAt(l, b) /\ BatchRange(b) = wal[l]
  BY <1>2, <1>3 DEF PendingAt, BatchRange
<1>5. wal[l].lo = wal[q].lo /\ wal[l].hi = wal[q].hi /\ wal[l].group = wal[q].group
  BY <1>1, <1>4 DEF Body, OneRange, PendingAt
<1>6. BatchRange(b).lo = wal[q].lo /\ BatchRange(b).hi = wal[q].hi /\ BatchRange(b).group = wal[q].group
  BY <1>4, <1>5
<1>7. Taken(b) <=> TakenAt(q, b)
  <2>1. PICK lo, hi : lo = wal[q].lo /\ hi = wal[q].hi
    OBVIOUS
  <2>2. Taken(b) <=> \E k \in KeysIn(lo, hi) : KeyTaken(k, b)
    BY <1>6, <2>1 DEF Taken
  <2>3. DataIn(lo, hi) = {p \in Logged : lo <= p /\ p < hi}
    BY DEF DataIn, OnDisk, Logged, Positions
  <2>4. (\E k \in KeysIn(lo, hi) : KeyTaken(k, b)) <=>
            \E p \in Logged : Keyed(ItemAt(p)) /\ lo <= p /\ p < hi /\ KeyTaken(KeyOf[ItemAt(p)], b)
    BY <2>3 DEF KeysIn, Keyed
  <2> QED BY <2>1, <2>2, <2>4 DEF TakenAt
<1>8. \A p \in Logged : Covers(b, p) <=> Spans(q, b, p)
  BY <1>6 DEF Covers, Spans
<1> QED BY <1>6, <1>7, <1>8

LEMMA HousedIsKept ==
    ASSUME Shapes, Body, gone = {}, NEW q \in DOMAIN wal, NEW b \in Batches, NEW p, Houses(q, b, p)
    PROVE  Kept(p)
<1>1. /\ b \in DOMAIN content /\ Spans(q, b, p) /\ p \in content[b] /\ ~Aborted(b)
      /\ b \in DOMAIN files \/ ~TakenAt(q, b)
  BY DEF Houses
<1>2. PendingAt(q, b) /\ p \in Logged
  BY <1>1 DEF Spans
<1>3. CASE b \in DOMAIN files
  BY <1>1, <1>3 DEF Kept
<1>4. CASE ~TakenAt(q, b)
  <2>1. b \in BatchesIn(OnDisk)
    BY <1>1, <1>2, KnownBatch DEF BatchesIn
  <2>2. Covers(b, p) /\ ~Taken(b)
    BY <1>1, <1>2, <1>4, RangeOfBatch
  <2>3. p \in OnDisk
    BY <1>2 DEF OnDisk, Logged, Positions
  <2>4. Recoverable(p)
    BY <1>1, <2>1, <2>2, <2>3 DEF Recoverable
  <2> QED BY <2>4 DEF Kept
<1> QED BY <1>1, <1>3, <1>4

\* A batch that is announced and neither landed nor aborted is pending.
LEMMA StillPending ==
    ASSUME Shapes, gone = {}, NEW b, \E q \in DOMAIN wal : PendingAt(q, b), ~Landed(b), ~Aborted(b)
    PROVE  StatusIn(OnDisk, b) = "pending"
<1>1. OnDisk = DOMAIN wal /\ DOMAIN wal = 1..Len(wal) /\ Len(wal) \in Nat
  BY DEF OnDisk, Shapes
<1>2. RecordsOf(OnDisk, b) \subseteq 0..Len(wal) /\ RecordsOf(OnDisk, b) # {}
  BY <1>1 DEF RecordsOf, PendingAt, IsData
<1>3. PICK m : m = Max(RecordsOf(OnDisk, b))
  OBVIOUS
<1>4. m \in RecordsOf(OnDisk, b)
  BY <1>1, <1>2, <1>3, MaxIsGreatest
<1>5. m \in DOMAIN wal /\ wal[m].kind # "data" /\ wal[m].batch = b /\ wal[m] \in LogRecord
  BY <1>1, <1>4 DEF RecordsOf, IsData, Shapes
<1>6. wal[m].kind \in {"data", "pending", "s3written", "committed", "abort"}
  BY <1>5, RecordFields
<1>7. wal[m].kind = "pending"
  BY <1>5, <1>6 DEF Landed, Aborted
<1> QED BY <1>3, <1>7 DEF StatusIn

LEMMA WritesAreKept ==
    ASSUME gone = {}, Shapes, Body, Clean, Account, NEW p \in Logged
    PROVE  Kept(p)
<1>a. NoneAborted /\ KeysAnnounced /\ LandedHasObject /\ FilesLanded
  BY DEF Account, Body
<1>1. p \in OnDisk
  BY DEF OnDisk, Logged, Positions
<1> DEFINE Covering == {b \in BatchesIn(OnDisk) : Covers(b, p)}
<1>2. \A b \in Covering : b \in Batches /\ ~Aborted(b) /\ \E q \in DOMAIN wal : PendingAt(q, b) /\ Spans(q, b, p)
  <2> TAKE b \in Covering
  <2>1. b \in Batches /\ KnownIn(OnDisk, b) /\ Covers(b, p)
    BY DEF BatchesIn
  <2>2. ~Aborted(b) /\ \E q \in DOMAIN wal : PendingAt(q, b)
    BY <2>1, KnownBatch
  <2> QED BY <2>1, <2>2, RangeOfBatch
<1>3. CASE Covering = {}
  BY <1>1, <1>3 DEF Recoverable, Kept
<1>4. ASSUME NEW b \in Covering, Landed(b) PROVE Kept(p)
  <2>1. PICK q \in DOMAIN wal : PendingAt(q, b) /\ Spans(q, b, p)
    BY <1>2
  <2>2. b \in Batches /\ ~Aborted(b) /\ b \in DOMAIN content
    BY <1>a, <1>2, <1>4 DEF LandedHasObject
  <2>3. CASE \E q1 \in DOMAIN wal : \E b1 \in Batches : Houses(q1, b1, p)
    BY <2>3, HousedIsKept
  <2>4. CASE p \in content[b] /\ ~TakenAt(q, b)
    <3>1. ~Taken(b) /\ b \in Covering
      BY <2>1, <2>4, RangeOfBatch
    <3>2. Recoverable(p)
      BY <1>1, <2>4, <3>1 DEF Recoverable
    <3> QED BY <3>2 DEF Kept
  <2> HIDE DEF Covering
  <2> QED BY <2>1, <2>2, <2>3, <2>4, CoveredIsHoused
<1>5. ASSUME NEW b \in Covering, \A x \in Covering : ~Landed(x) PROVE Kept(p)
  <2>1. PICK q \in DOMAIN wal : PendingAt(q, b) /\ Spans(q, b, p)
    BY <1>2
  <2>2. StatusIn(OnDisk, b) = "pending"
    BY <1>2, <1>5, <2>1, StillPending
  <2>3. ~TakenAt(q, b)
    <3> SUFFICES ASSUME TakenAt(q, b) PROVE FALSE
      OBVIOUS
    <3>1. PICK q1 \in DOMAIN wal, b1 \in DOMAIN files : Spans(q1, b1, p)
      BY <1>a, <2>1, TakerSpans
    <3>2. b1 \in Batches /\ Landed(b1) /\ ~Aborted(b1) /\ PendingAt(q1, b1)
      BY <1>a, <3>1 DEF Shapes, FilesLanded, NoneAborted, Spans
    <3>3. b1 \in BatchesIn(OnDisk)
      BY <3>2, KnownBatch DEF BatchesIn
    <3>4. Covers(b1, p)
      BY <3>1, <3>2, RangeOfBatch
    <3> QED BY <1>5, <3>2, <3>3, <3>4
  <2>4. ~Taken(b)
    BY <2>1, <2>3, RangeOfBatch
  <2>5. Recoverable(p)
    BY <1>1, <2>2, <2>4 DEF Recoverable
  <2> QED BY <2>5 DEF Kept
<1> QED BY <1>3, <1>4, <1>5

LEMMA AInvKeepsWrites == ASSUME AInv PROVE AckedKeptUnlessDropped
<1> SUFFICES ASSUME Clean, NEW i \in Items, req[i] = "done"
             PROVE  \E p \in Logged : SameWrite(i, ItemAt(p)) /\ Kept(p)
  BY DEF AckedKeptUnlessDropped, AckedKept, Clean
<1>1. gone = {} /\ Shapes /\ Body /\ Account
  BY DEF AInv, KInv, Clean
<1>2. PICK p \in Logged : SameWrite(i, ItemAt(p))
  BY <1>1 DEF Account, AnsweredLogged
<1> QED BY <1>1, <1>2, WritesAreKept

\* A write with a receipt is in a file, or in the log where recovery will find
\* it, in every state: for any writes and keys, any number of batches, crashes
\* and faults, for as long as the monitor removes no segment and gives up no
\* batch that was committed, no logged write is refused for want of memory, no
\* key is logged twice and no batch takes the key of another group's write.
THEOREM AnsweredWritesAreKept == Spec => []AckedKeptUnlessDropped
<1>1. Init => AInv
  BY AInvHoldsAtFirst
<1>2. AInv /\ [Next]_vars => AInv'
  BY AInvIsKept
<1>3. AInv => AckedKeptUnlessDropped
  BY AInvKeepsWrites
<1> QED BY <1>1, <1>2, <1>3, PTL DEF Spec

-----------------------------------------------------------------------------
(* What is absorbed is read once.  A write has one home: a chunk until its
   flush is recorded, a file from its commit on, and between the two of them
   the snapshot decides.                                                     *)

\* None of the accidents ReadOnce excepts.  They last.
Spotless == trouble = {} /\ ~KeyLoggedTwice /\ ~StrayKey

DatesKnown == released \in Nat /\ booted.snapshot \in Nat

FilesDated ==
    \A b \in DOMAIN files :
        /\ files[b].table = T /\ files[b].deleted_at = 0
        /\ files[b].valid_from \in Nat \ {0} /\ files[b].valid_from <= snapshot_version

RowsApart ==
    \A b, d \in DOMAIN files : \A p \in content[b] : p \in content[d] => b = d

ChunksApart ==
    /\ \A c \in DOMAIN chunks : c \in chunks[c].seqs
    /\ \A c, d \in DOMAIN chunks :
           /\ \A p \in chunks[c].seqs : p \in chunks[d].seqs => c = d
           /\ /\ chunks[c].state = "open" /\ chunks[d].state = "open"
              /\ chunks[c].group = chunks[d].group
              => c = d

\* Flushed, a chunk is its file.
FlushedAreFiles ==
    \A c \in DOMAIN chunks : chunks[c].state = "flushed" =>
        /\ chunks[c].batch \in DOMAIN files /\ content[chunks[c].batch] = chunks[c].seqs
        /\ chunks[c].at # 0 /\ chunks[c].at = files[chunks[c].batch].valid_from

\* Its batch is committed and the chunk does not say so yet.
Finishing(c) == flush # NoFlush /\ flush.pc = "finish" /\ c \in flush.chunk

\* Until then no file has its rows.
UnflushedAreNot ==
    \A c \in DOMAIN chunks : chunks[c].state # "flushed" =>
        /\ chunks[c].at = 0
        /\ ~Finishing(c) =>
               /\ chunks[c].batch \notin DOMAIN files
               /\ \A b \in DOMAIN files : \A p \in content[b] : p \notin chunks[c].seqs

BatchesLogged ==
    \A c \in DOMAIN chunks :
        chunks[c].batch # NoBatch => \E q \in DOMAIN wal : PendingAt(q, chunks[c].batch)

\* While the node serves, a flush is of one sealed chunk and of all its rows.
FlushOfChunk ==
    mode = "up" /\ flush # NoFlush =>
        \E c \in DOMAIN chunks :
            /\ flush.chunk = {c} /\ chunks[c].state = "sealed"
            /\ chunks[c].batch = flush.batch /\ chunks[c].seqs = flush.rows
            /\ \A d \in DOMAIN chunks : chunks[d].batch = flush.batch => d = c

FlushFiled ==
    flush # NoFlush =>
        /\ flush.pc \in {"commit", "finish"} => content[flush.batch] = flush.rows
        /\ flush.pc = "finish" => flush.batch \in DOMAIN files
        /\ mode = "up" =>
               IF flush.pc = "finish" THEN flush.at = files[flush.batch].valid_from
               ELSE flush.batch \notin DOMAIN files

RowsOfGroup ==
    /\ \A b \in DOMAIN content : \A q \in DOMAIN wal : PendingAt(q, b) =>
           \A p \in content[b] : GroupAt(p) = wal[q].group
    /\ flush # NoFlush => \A q \in DOMAIN wal : PendingAt(q, flush.batch) =>
           \A p \in flush.rows : GroupAt(p) = wal[q].group

\* What recovery claimed is in a file of before it served, and what was
\* absorbed is in a chunk, or in a file readers had when the chunk went.
Homes ==
    mode = "up" => \A p \in Logged :
        /\ Claimed(p) =>
               \E b \in DOMAIN files : p \in content[b] /\ files[b].valid_from <= booted.snapshot
        /\ p < read /\ ~Claimed(p) =>
               \/ \E c \in DOMAIN chunks : p \in chunks[c].seqs
               \/ \E b \in DOMAIN files : p \in content[b] /\ files[b].valid_from <= released

\* Nothing is in a file that is still to be absorbed.
FiledAreRead ==
    mode = "up" => \A b \in DOMAIN files : \A p \in content[b] : p < read \/ Claimed(p)

\* The batches a recovery finds are of separate ranges.
RangesApart ==
    mode # "up" =>
        \A q, r \in DOMAIN wal : \A b, d \in Batches :
            /\ PendingAt(q, b) /\ PendingAt(r, d) /\ ~Aborted(b) /\ ~Aborted(d)
            /\ wal[q].group = wal[r].group /\ wal[q].lo < wal[r].hi /\ wal[r].lo < wal[q].hi
            => b = d

ReadAgain == mode # "up" => read = 1

Whereabouts ==
    /\ DatesKnown /\ FilesDated /\ RowsApart
    /\ ChunksApart /\ FlushedAreFiles /\ UnflushedAreNot /\ BatchesLogged
    /\ FlushOfChunk /\ FlushFiled /\ RowsOfGroup
    /\ Homes /\ FiledAreRead
    /\ RangesApart /\ ReadAgain

RInv == AInv /\ (Spotless => Whereabouts)

-----------------------------------------------------------------------------
(* What stays where it is. *)

\* A step of a log without accidents, from a state that is as described.
Watched ==
    /\ Ready /\ Account'
    /\ Spotless /\ Spotless'
    /\ Whereabouts

FilesStand ==
    \A b \in DOMAIN files :
        b \in DOMAIN files' /\ files'[b] = files[b] /\ content'[b] = content[b]

LEMMA SpotlessLasts ==
    ASSUME Grows, trouble \subseteq trouble', Spotless'
    PROVE  Spotless /\ Clean /\ Clean'
<1>1. Clean'
  BY DEF Spotless, Clean
<1>2. Clean
  BY <1>1, CleanLasts
<1> QED BY <1>1, <1>2 DEF Spotless, Clean

LEMMA FilesStayDated ==
    ASSUME Watched, UNCHANGED <<files, content, snapshot_version>>
    PROVE  FilesDated' /\ RowsApart' /\ FilesStand
<1>1. FilesDated'
  BY DEF Watched, Whereabouts, FilesDated
<1>2. RowsApart'
  BY DEF Watched, Whereabouts, RowsApart
<1> QED BY <1>1, <1>2 DEF FilesStand

\* Objects hold writes of the log.
LEMMA ObjectRowsLogged ==
    ASSUME Ready, NEW b \in DOMAIN content, NEW p \in content[b]
    PROVE  p \in Logged
  BY RowsAreLogged DEF Ready, Body, Logged, Positions, IsData

LEMMA FileRowsLogged ==
    ASSUME Ready, NEW b \in DOMAIN files, NEW p \in content[b]
    PROVE  p \in Logged /\ b \in DOMAIN content /\ b \in Batches
<1>1. Landed(b) /\ b \in Batches
  BY DEF Ready, Body, FilesLanded, Shapes
<1>2. b \in DOMAIN content
  BY <1>1 DEF Ready, Body, LandedHasObject
<1> QED BY <1>1, <1>2, ObjectRowsLogged

\* A write of a later log is absorbed or claimed only if it was.
LEMMA LoggedBack ==
    ASSUME Watched, NEW p \in Logged', p < read
    PROVE  p \in Logged
<1>1. /\ read \in Nat /\ read <= Len(wal) + 1 /\ Len(wal) \in Nat
      /\ p \in DOMAIN wal' /\ p \in Nat /\ IsData(p)'
  BY DEF Watched, Ready, Account, SeqsRead, Grows, Logged, Positions
<1>2. p \in DOMAIN wal
  <2>1. ASSUME p \notin DOMAIN wal PROVE FALSE
    <3>1. p = Len(wal) + 1
      BY <1>1, <2>1 DEF Watched, Ready, Grows
    <3> QED BY <1>1, <3>1
  <2> QED BY <2>1
<1> QED BY <1>1, <1>2 DEF Logged, Positions, IsData, Watched, Ready, Grows

LEMMA HomesStay ==
    ASSUME Watched, UNCHANGED <<mode, claims, read, booted>>, FilesStand,
           released' \in Nat, released <= released',
           \A c \in DOMAIN chunks : \A p \in chunks[c].seqs :
               \/ \E d \in DOMAIN chunks' : p \in chunks'[d].seqs
               \/ \E b \in DOMAIN files' : p \in content'[b] /\ files'[b].valid_from <= released'
    PROVE  Homes'
<1> USE DEF Watched, Ready
<1>a. /\ Homes /\ DatesKnown /\ FilesDated /\ RangesBehind /\ ClaimsLogged
  BY DEF Whereabouts, Account
<1> SUFFICES ASSUME mode = "up", NEW p \in Logged'
             PROVE  /\ Claimed(p)' =>
                           \E b \in DOMAIN files' :
                               p \in content'[b] /\ files'[b].valid_from <= booted.snapshot
                    /\ p < read /\ ~Claimed(p)' =>
                           \/ \E c \in DOMAIN chunks' : p \in chunks'[c].seqs
                           \/ \E b \in DOMAIN files' :
                                  p \in content'[b] /\ files'[b].valid_from <= released'
  BY DEF Homes
<1>1. ASSUME Claimed(p)'
      PROVE  \E b \in DOMAIN files' : p \in content'[b] /\ files'[b].valid_from <= booted.snapshot
  <2>1. p \in Logged /\ Claimed(p)
    BY <1>a, <1>1, ClaimedBack
  <2>2. PICK b \in DOMAIN files : p \in content[b] /\ files[b].valid_from <= booted.snapshot
    BY <1>a, <2>1 DEF Homes
  <2> QED BY <2>2 DEF FilesStand
<1>2. ASSUME p < read, ~Claimed(p)'
      PROVE  \/ \E c \in DOMAIN chunks' : p \in chunks'[c].seqs
             \/ \E b \in DOMAIN files' : p \in content'[b] /\ files'[b].valid_from <= released'
  <2>1. p \in Logged
    BY <1>2, LoggedBack
  <2>2. ~Claimed(p)
    BY <1>2, <2>1, ClaimedStays
  <2>3. CASE \E c \in DOMAIN chunks : p \in chunks[c].seqs
    BY <2>3
  <2>4. CASE \E b \in DOMAIN files : p \in content[b] /\ files[b].valid_from <= released
    <3>1. PICK b \in DOMAIN files : p \in content[b] /\ files[b].valid_from <= released
      BY <2>4
    <3>2. files[b].valid_from \in Nat /\ released \in Nat
      BY <1>a DEF FilesDated, DatesKnown
    <3>3. files[b].valid_from <= released'
      BY <3>1, <3>2
    <3> QED BY <3>1, <3>3 DEF FilesStand
  <2> QED BY <1>2, <1>a, <2>1, <2>2, <2>3, <2>4 DEF Homes
<1> QED BY <1>1, <1>2

LEMMA FiledStayRead ==
    ASSUME Watched, UNCHANGED <<mode, claims>>,
           \A b \in DOMAIN files' : b \in DOMAIN files /\ content'[b] = content[b],
           read' \in Nat, read <= read'
    PROVE  FiledAreRead'
<1> USE DEF Watched, Ready
<1> SUFFICES ASSUME mode = "up", NEW b \in DOMAIN files', NEW p \in content'[b]
             PROVE  p < read' \/ Claimed(p)'
  BY DEF FiledAreRead
<1>0. b \in DOMAIN files /\ p \in content[b]
  OBVIOUS
<1>1. p < read \/ Claimed(p)
  BY <1>0 DEF Whereabouts, FiledAreRead
<1>2. p \in Logged
  BY <1>0, FileRowsLogged
<1>3. p \in Nat /\ read \in Nat
  BY <1>2 DEF Logged, Positions, Shapes, Account, SeqsRead
<1> QED BY <1>1, <1>2, <1>3, ClaimedStays

LEMMA RecoveryStays ==
    ASSUME Watched, mode' = mode, \A q \in DOMAIN wal' \ DOMAIN wal : wal'[q].kind # "pending",
           mode # "up" => read' = read
    PROVE  RangesApart' /\ ReadAgain'
<1> USE DEF Watched, Ready
<1>a. RangesApart /\ ReadAgain
  BY DEF Whereabouts
<1>1. ASSUME NEW q, NEW b, PendingAt(q, b)', ~Aborted(b)'
      PROVE  q \in DOMAIN wal /\ PendingAt(q, b) /\ wal'[q] = wal[q] /\ ~Aborted(b)
  <2>1. q \in DOMAIN wal' /\ wal'[q].kind = "pending"
    BY <1>1 DEF PendingAt
  <2>2. q \in DOMAIN wal
    BY <2>1
  <2> QED BY <1>1, <2>2, LoggedGrows DEF Grows
<1>2. RangesApart'
  <2> SUFFICES ASSUME mode # "up", NEW q \in DOMAIN wal', NEW r \in DOMAIN wal',
                      NEW b \in Batches, NEW d \in Batches,
                      PendingAt(q, b)', PendingAt(r, d)', ~Aborted(b)', ~Aborted(d)',
                      wal'[q].group = wal'[r].group, wal'[q].lo < wal'[r].hi, wal'[r].lo < wal'[q].hi
               PROVE  b = d
    BY DEF RangesApart
  <2> QED BY <1>a, <1>1 DEF RangesApart
<1> QED BY <1>2, <1>a DEF ReadAgain

LEMMA RowsStayOfGroup ==
    ASSUME Watched, content' = content, \A q \in DOMAIN wal' \ DOMAIN wal : wal'[q].kind # "pending",
           \/ flush' = NoFlush
           \/ flush # NoFlush /\ flush'.batch = flush.batch /\ flush'.rows = flush.rows
    PROVE  RowsOfGroup'
<1> USE DEF Watched, Ready
<1>a. RowsOfGroup
  BY DEF Whereabouts
<1>1. ASSUME NEW q \in DOMAIN wal', NEW b, PendingAt(q, b)'
      PROVE  q \in DOMAIN wal /\ PendingAt(q, b) /\ wal'[q] = wal[q]
  <2>1. wal'[q].kind = "pending"
    BY <1>1 DEF PendingAt
  <2>2. q \in DOMAIN wal
    BY <2>1
  <2> QED BY <1>1, <2>2, LoggedGrows DEF Grows
<1>2. ASSUME NEW b \in DOMAIN content, NEW q \in DOMAIN wal', PendingAt(q, b)', NEW p \in content[b]
      PROVE  GroupAt(p)' = wal'[q].group
  <2>1. p \in Logged
    BY ObjectRowsLogged
  <2>2. GroupAt(p)' = GroupAt(p)
    BY <2>1, LoggedGrows
  <2> QED BY <1>a, <1>1, <1>2, <2>2 DEF RowsOfGroup
<1>3. ASSUME flush' # NoFlush, NEW q \in DOMAIN wal', PendingAt(q, flush.batch)', NEW p \in flush'.rows
      PROVE  GroupAt(p)' = wal'[q].group
  <2>1. flush # NoFlush /\ flush'.batch = flush.batch /\ p \in flush.rows
    BY <1>3
  <2>2. PendingAt(q, flush.batch) /\ q \in DOMAIN wal /\ wal'[q] = wal[q]
    BY <1>1, <1>3, <2>1 DEF PendingAt
  <2>3. GroupAt(p) = wal[q].group
    BY <1>a, <2>1, <2>2 DEF RowsOfGroup
  <2>4. p \in Logged
    BY <2>1 DEF Body, FlushLogged, RowsBetween, Logged, Positions, IsData
  <2> QED BY <2>2, <2>3, <2>4, LoggedGrows
<1> QED BY <1>2, <1>3 DEF RowsOfGroup

LEMMA ChunksStayLogged ==
    ASSUME Watched,
           \A c \in DOMAIN chunks' :
               \/ c \in DOMAIN chunks /\ chunks'[c].batch = chunks[c].batch
               \/ chunks'[c].batch = NoBatch
    PROVE  BatchesLogged'
<1> SUFFICES ASSUME NEW c \in DOMAIN chunks', chunks'[c].batch # NoBatch
             PROVE  \E q \in DOMAIN wal' : wal'[q].kind = "pending" /\ wal'[q].batch = chunks'[c].batch
  BY DEF BatchesLogged, PendingAt
<1>1. c \in DOMAIN chunks /\ chunks'[c].batch = chunks[c].batch
  OBVIOUS
<1>2. PICK q \in DOMAIN wal : PendingAt(q, chunks[c].batch)
  BY <1>1 DEF Watched, Whereabouts, BatchesLogged
<1>3. q \in DOMAIN wal' /\ wal'[q] = wal[q]
  BY DEF Watched, Ready, Grows
<1> QED BY <1>1, <1>2, <1>3 DEF PendingAt

-----------------------------------------------------------------------------
(* Steps of clients and of the monitor. *)

\* A step that moves no rows.
LEMMA CalmWhereabouts ==
    ASSUME Watched,
           UNCHANGED <<files, content, snapshot_version, chunks, flush, mode, claims, read, todo,
                       released, booted>>,
           \A q \in DOMAIN wal' \ DOMAIN wal : wal'[q].kind # "pending"
    PROVE  Whereabouts'
<1>1. DatesKnown' /\ FilesDated' /\ RowsApart' /\ FilesStand
  BY FilesStayDated DEF Watched, Whereabouts, DatesKnown
<1>2. ChunksApart'
  BY DEF Watched, Whereabouts, ChunksApart
<1>3. FlushedAreFiles'
  BY DEF Watched, Whereabouts, FlushedAreFiles
<1>4. UnflushedAreNot'
  BY DEF Watched, Whereabouts, UnflushedAreNot, Finishing
<1>5. BatchesLogged'
  BY ChunksStayLogged
<1>6. FlushOfChunk' /\ FlushFiled'
  BY DEF Watched, Whereabouts, FlushOfChunk, FlushFiled
<1>7. RowsOfGroup'
  <2>1. flush = NoFlush \/ flush # NoFlush
    OBVIOUS
  <2> QED BY <2>1, RowsStayOfGroup
<1>8. Homes'
  BY <1>1, HomesStay DEF Watched, Whereabouts, DatesKnown
<1>9. FiledAreRead'
  BY FiledStayRead DEF Watched, Ready, Account, SeqsRead
<1>10. RangesApart' /\ ReadAgain'
  BY RecoveryStays
<1> QED BY <1>1, <1>2, <1>3, <1>4, <1>5, <1>6, <1>7, <1>8, <1>9, <1>10 DEF Whereabouts

LEMMA ClientWhereabouts ==
    ASSUME Watched, NEW i \in Items,
           Check(i) \/ Reject(i) \/ Log(i) \/ Receipt(i) \/ ReceiptFails(i)
    PROVE  Whereabouts'
<1>1. UNCHANGED <<files, content, snapshot_version, chunks, flush, mode, claims, read, todo,
                  released, booted>>
  BY DEF Check, Reject, Log, Receipt, ReceiptFails, ReqStep, procVars, catalogVars, dataVars,
         memory, counters, RecordIdempotency
<1>2. wal' = wal \/ wal' = Append(wal, DataRecord(i))
  BY DEF Check, Reject, Log, Receipt, ReceiptFails
<1>3. ASSUME wal' = Append(wal, DataRecord(i)), NEW q \in DOMAIN wal' \ DOMAIN wal
      PROVE  wal'[q].kind # "pending"
  <2>1. PICK r : r = DataRecord(i)
    OBVIOUS
  <2>2. r \in LogRecord /\ r.kind = "data"
    BY <2>1 DEF DataRecord, LogRecord
  <2>3. wal'[q] = r
    BY <1>3, <2>1, <2>2, NewRecord DEF Watched, Ready, Shapes
  <2> QED BY <2>2, <2>3
<1> QED BY <1>1, <1>2, <1>3, CalmWhereabouts

LEMMA AbortWhereabouts ==
    ASSUME Watched, NEW b \in Batches, Abort(b)
    PROVE  Whereabouts'
<1>1. UNCHANGED <<files, content, snapshot_version, chunks, flush, mode, claims, read, todo,
                  released, booted>>
  BY DEF Abort, MonitorOnly, procVars, catalogVars, dataVars, counters
<1>2. PICK r : r = BatchRecord("abort", b)
  OBVIOUS
<1>3. r \in LogRecord /\ r.kind = "abort" /\ wal' = Append(wal, r)
  BY <1>2 DEF BatchRecord, LogRecord, Abort
<1>4. \A q \in DOMAIN wal' \ DOMAIN wal : wal'[q].kind # "pending"
  BY <1>3, NewRecord DEF Watched, Ready, Shapes
<1> QED BY <1>1, <1>4, CalmWhereabouts

-----------------------------------------------------------------------------
(* The accumulator. *)

\* What becomes of the chunks when a write is absorbed.
LEMMA AbsorbedChunks ==
    ASSUME Shapes, Absorb, NEW p, p = Min(Unread), ~Claimed(p)
    PROVE  \/ /\ OpenChunks(GroupAt(p)) = {}
              /\ DOMAIN chunks' = DOMAIN chunks \cup {p}
              /\ chunks'[p].seqs = {p} /\ chunks'[p].group = GroupAt(p) /\ chunks'[p].state = "open"
              /\ chunks'[p].batch = NoBatch /\ chunks'[p].at = 0
              /\ \A c \in DOMAIN chunks \ {p} : chunks'[c] = chunks[c]
           \/ /\ OpenChunks(GroupAt(p)) # {}
              /\ DOMAIN chunks' = DOMAIN chunks
              /\ \A c \in OpenChunks(GroupAt(p)) :
                     /\ chunks'[c].seqs = chunks[c].seqs \cup {p}
                     /\ chunks'[c].group = chunks[c].group /\ chunks'[c].state = chunks[c].state
                     /\ chunks'[c].batch = chunks[c].batch /\ chunks'[c].at = chunks[c].at
              /\ \A c \in DOMAIN chunks \ OpenChunks(GroupAt(p)) : chunks'[c] = chunks[c]
<1>1. CASE OpenChunks(GroupAt(p)) = {}
  <2>1. chunks' = Over(Entry(p, NewChunk(p)), chunks)
    BY <1>1 DEF Absorb
  <2>2. /\ DOMAIN chunks' = DOMAIN chunks \cup {p}
        /\ chunks'[p] = NewChunk(p)
        /\ \A c \in DOMAIN chunks \ {p} : chunks'[c] = chunks[c]
    BY <2>1 DEF Over, Entry
  <2> QED BY <1>1, <2>2 DEF NewChunk
<1>2. CASE OpenChunks(GroupAt(p)) # {}
  <2>1. chunks' = [c \in DOMAIN chunks |->
                     IF c \in OpenChunks(GroupAt(p))
                     THEN [chunks[c] EXCEPT !.seqs = @ \cup {p}] ELSE chunks[c]]
    BY <1>2 DEF Absorb
  <2>2. DOMAIN chunks' = DOMAIN chunks
    BY <2>1
  <2>3. ASSUME NEW c \in OpenChunks(GroupAt(p))
        PROVE  /\ chunks'[c].seqs = chunks[c].seqs \cup {p}
               /\ chunks'[c].group = chunks[c].group /\ chunks'[c].state = chunks[c].state
               /\ chunks'[c].batch = chunks[c].batch /\ chunks'[c].at = chunks[c].at
    <3>1. c \in DOMAIN chunks
      BY DEF OpenChunks
    <3>2. chunks[c] \in ChunkRecord
      BY <3>1 DEF Shapes
    <3>3. chunks'[c] = [chunks[c] EXCEPT !.seqs = @ \cup {p}]
      BY <2>1, <3>1
    <3> QED BY <3>2, <3>3 DEF ChunkRecord
  <2> QED BY <1>2, <2>1, <2>2, <2>3
<1> QED BY <1>1, <1>2

LEMMA AbsorbedIsNext ==
    ASSUME Ready, Absorb, NEW p, p = Min(Unread)
    PROVE  /\ p \in Logged /\ p \in Nat /\ read \in Nat /\ read <= p /\ read' = p + 1
           /\ \A h \in Logged : h < p + 1 => h < read \/ h = p
<1> USE DEF Ready
<1>1. Unread # {} /\ read' = p + 1
  BY DEF Absorb, ReadPast
<1>2. Unread \subseteq Nat /\ DOMAIN wal \subseteq Nat /\ read \in Nat
  BY DEF Unread, OnDisk, Shapes, Account, SeqsRead
<1>3. p \in Unread /\ \A x \in Unread : p <= x
  BY <1>1, <1>2, MinIsLeast
<1>4. p \in DOMAIN wal /\ p \in Logged /\ read <= p
  BY <1>2, <1>3 DEF Unread, OnDisk, Logged, Positions
<1>5. ASSUME NEW h \in Logged, h < p + 1, h # p PROVE h < read
  <2>1. h \in DOMAIN wal /\ IsData(h) /\ h \in Nat
    BY <1>2 DEF Logged, Positions
  <2>2. h < p
    BY <1>2, <1>4, <1>5, <2>1
  <2>3. h \notin Unread
    BY <1>2, <1>3, <1>4, <2>1, <2>2
  <2> QED BY <1>2, <2>1, <2>3 DEF Unread, OnDisk
<1> QED BY <1>1, <1>2, <1>4, <1>5

LEMMA NoFlushIdle == ASSUME Shapes, flush.pc = "none" PROVE flush = NoFlush
  BY DEF Shapes, FlushRecord

LEMMA UpIsUp == ASSUME mode' = "up" PROVE RangesApart' /\ ReadAgain'
  BY DEF RangesApart, ReadAgain

LEMMA NoFlushFiled ==
    ASSUME flush' = NoFlush
    PROVE  FlushOfChunk' /\ FlushFiled'
  BY DEF FlushOfChunk, FlushFiled

\* The write that is absorbed is in no chunk and in no file.
LEMMA NextIsNowhere ==
    ASSUME Watched, mode = "up", NEW p \in Nat, read <= p, ~Claimed(p)
    PROVE  /\ \A c \in DOMAIN chunks : p \notin chunks[c].seqs /\ p # c
           /\ \A b \in DOMAIN files : p \notin content[b]
<1>1. read \in Nat
  BY DEF Watched, Ready, Account, SeqsRead
<1>2. \A c \in DOMAIN chunks : p \notin chunks[c].seqs
  BY <1>1 DEF Watched, Ready, Account, SeqsRead
<1>3. \A c \in DOMAIN chunks : c \in chunks[c].seqs
  BY DEF Watched, Whereabouts, ChunksApart
<1>4. \A b \in DOMAIN files : p \notin content[b]
  BY <1>1 DEF Watched, Whereabouts, FiledAreRead
<1> QED BY <1>2, <1>3, <1>4

\* The write goes into a chunk of its own.
LEMMA NewChunkApart ==
    ASSUME Watched, NEW p \in Nat, flush = NoFlush, flush' = NoFlush, UNCHANGED <<files, content>>,
           \A c \in DOMAIN chunks : p \notin chunks[c].seqs /\ p # c,
           \A b \in DOMAIN files : p \notin content[b],
           NEW g, \A c \in DOMAIN chunks : chunks[c].state = "open" => chunks[c].group # g,
           DOMAIN chunks' = DOMAIN chunks \cup {p},
           chunks'[p].seqs = {p}, chunks'[p].group = g, chunks'[p].state = "open",
           chunks'[p].batch = NoBatch, chunks'[p].at = 0,
           \A c \in DOMAIN chunks \ {p} : chunks'[c] = chunks[c]
    PROVE  ChunksApart' /\ FlushedAreFiles' /\ UnflushedAreNot' /\ BatchesLogged'
<1>a. ChunksApart /\ FlushedAreFiles /\ UnflushedAreNot
  BY DEF Watched, Whereabouts
<1>0. \A c \in DOMAIN chunks : chunks'[c] = chunks[c] /\ c # p
  OBVIOUS
<1>1. ChunksApart'
  <2>1. ASSUME NEW c \in DOMAIN chunks' PROVE c \in chunks'[c].seqs
    <3>1. CASE c = p
      BY <3>1
    <3>2. CASE c \in DOMAIN chunks
      BY <1>a, <1>0, <3>2 DEF ChunksApart
    <3> QED BY <3>1, <3>2
  <2>2. ASSUME NEW c \in DOMAIN chunks', NEW d \in DOMAIN chunks',
               NEW x \in chunks'[c].seqs, x \in chunks'[d].seqs
        PROVE  c = d
    <3>1. CASE c = p
      BY <1>0, <2>2, <3>1
    <3>2. CASE d = p
      BY <1>0, <2>2, <3>2
    <3>3. CASE c \in DOMAIN chunks /\ d \in DOMAIN chunks
      BY <1>a, <1>0, <2>2, <3>3 DEF ChunksApart
    <3> QED BY <3>1, <3>2, <3>3
  <2>3. ASSUME NEW c \in DOMAIN chunks', NEW d \in DOMAIN chunks',
               chunks'[c].state = "open", chunks'[d].state = "open",
               chunks'[c].group = chunks'[d].group
        PROVE  c = d
    <3>1. CASE c = p
      BY <1>0, <2>3, <3>1
    <3>2. CASE d = p
      BY <1>0, <2>3, <3>2
    <3>3. CASE c \in DOMAIN chunks /\ d \in DOMAIN chunks
      BY <1>a, <1>0, <2>3, <3>3 DEF ChunksApart
    <3> QED BY <3>1, <3>2, <3>3
  <2> QED BY <2>1, <2>2, <2>3 DEF ChunksApart
<1>2. FlushedAreFiles'
  <2> SUFFICES ASSUME NEW c \in DOMAIN chunks', chunks'[c].state = "flushed"
               PROVE  /\ chunks'[c].batch \in DOMAIN files
                      /\ content[chunks'[c].batch] = chunks'[c].seqs
                      /\ chunks'[c].at # 0
                      /\ chunks'[c].at = files[chunks'[c].batch].valid_from
    BY DEF FlushedAreFiles
  <2>1. c \in DOMAIN chunks
    OBVIOUS
  <2> QED BY <1>a, <1>0, <2>1 DEF FlushedAreFiles
<1>3. UnflushedAreNot'
  <2> SUFFICES ASSUME NEW c \in DOMAIN chunks', chunks'[c].state # "flushed"
               PROVE  /\ chunks'[c].at = 0 /\ chunks'[c].batch \notin DOMAIN files
                      /\ \A b \in DOMAIN files : \A x \in content[b] : x \notin chunks'[c].seqs
    BY DEF UnflushedAreNot
  <2>1. CASE c = p
    <3>1. NoBatch \notin DOMAIN files
      BY NoBatchIsNone DEF Watched, Ready, Shapes
    <3> QED BY <2>1, <3>1
  <2>2. CASE c \in DOMAIN chunks
    BY <1>a, <1>0, <2>2 DEF UnflushedAreNot, Finishing
  <2> QED BY <2>1, <2>2
<1>4. BatchesLogged'
  BY <1>0, ChunksStayLogged
<1> QED BY <1>1, <1>2, <1>3, <1>4

\* Or into the open chunk of its group.
LEMMA OpenChunkApart ==
    ASSUME Watched, NEW p \in Nat, flush = NoFlush, flush' = NoFlush, UNCHANGED <<files, content>>,
           \A c \in DOMAIN chunks : p \notin chunks[c].seqs /\ p # c,
           \A b \in DOMAIN files : p \notin content[b],
           NEW g, DOMAIN chunks' = DOMAIN chunks,
           \A c \in OpenChunks(g) :
               /\ chunks'[c].seqs = chunks[c].seqs \cup {p}
               /\ chunks'[c].group = chunks[c].group /\ chunks'[c].state = chunks[c].state
               /\ chunks'[c].batch = chunks[c].batch /\ chunks'[c].at = chunks[c].at,
           \A c \in DOMAIN chunks \ OpenChunks(g) : chunks'[c] = chunks[c]
    PROVE  ChunksApart' /\ FlushedAreFiles' /\ UnflushedAreNot' /\ BatchesLogged'
<1>a. ChunksApart /\ FlushedAreFiles /\ UnflushedAreNot
  BY DEF Watched, Whereabouts
<1>0. \A c \in DOMAIN chunks :
          /\ chunks'[c].group = chunks[c].group /\ chunks'[c].state = chunks[c].state
          /\ chunks'[c].batch = chunks[c].batch /\ chunks'[c].at = chunks[c].at
          /\ chunks[c].seqs \subseteq chunks'[c].seqs
          /\ c \notin OpenChunks(g) => chunks'[c].seqs = chunks[c].seqs
          /\ c \in OpenChunks(g) => chunks'[c].seqs = chunks[c].seqs \cup {p}
  OBVIOUS
<1>b. \A c \in OpenChunks(g) :
          c \in DOMAIN chunks /\ chunks[c].state = "open" /\ chunks[c].group = g
  BY DEF OpenChunks
<1>1. ChunksApart'
  <2>1. \A c \in DOMAIN chunks' : c \in chunks'[c].seqs
    BY <1>a, <1>0 DEF ChunksApart
  <2>2. ASSUME NEW c \in DOMAIN chunks, NEW d \in DOMAIN chunks,
               NEW x \in chunks'[c].seqs, x \in chunks'[d].seqs
        PROVE  c = d
    <3>1. CASE x = p
      <4>1. c \in OpenChunks(g) /\ d \in OpenChunks(g)
        BY <1>0, <2>2, <3>1
      <4> QED BY <1>a, <1>b, <4>1 DEF ChunksApart
    <3>2. CASE x # p
      <4>1. x \in chunks[c].seqs /\ x \in chunks[d].seqs
        BY <1>0, <2>2, <3>2
      <4> QED BY <1>a, <4>1 DEF ChunksApart
    <3> QED BY <3>1, <3>2
  <2>3. \A c, d \in DOMAIN chunks' :
            /\ chunks'[c].state = "open" /\ chunks'[d].state = "open"
            /\ chunks'[c].group = chunks'[d].group
            => c = d
    BY <1>a, <1>0 DEF ChunksApart
  <2> QED BY <2>1, <2>2, <2>3 DEF ChunksApart
<1>2. FlushedAreFiles'
  <2> SUFFICES ASSUME NEW c \in DOMAIN chunks, chunks'[c].state = "flushed"
               PROVE  /\ chunks'[c].batch \in DOMAIN files
                      /\ content[chunks'[c].batch] = chunks'[c].seqs
                      /\ chunks'[c].at # 0
                      /\ chunks'[c].at = files[chunks'[c].batch].valid_from
    BY DEF FlushedAreFiles
  <2>1. c \notin OpenChunks(g)
    BY <1>0, <1>b
  <2> QED BY <1>a, <2>1 DEF FlushedAreFiles
<1>3. UnflushedAreNot'
  <2> SUFFICES ASSUME NEW c \in DOMAIN chunks, chunks'[c].state # "flushed"
               PROVE  /\ chunks'[c].at = 0 /\ chunks'[c].batch \notin DOMAIN files
                      /\ \A b \in DOMAIN files : \A x \in content[b] : x \notin chunks'[c].seqs
    BY DEF UnflushedAreNot
  <2>1. /\ chunks[c].at = 0 /\ chunks[c].batch \notin DOMAIN files
        /\ \A b \in DOMAIN files : \A x \in content[b] : x \notin chunks[c].seqs
    BY <1>a, <1>0 DEF UnflushedAreNot, Finishing
  <2> QED BY <1>0, <2>1
<1>4. BatchesLogged'
  BY <1>0, ChunksStayLogged
<1> QED BY <1>1, <1>2, <1>3, <1>4

LEMMA AbsorbWhereabouts == ASSUME Watched, Absorb PROVE Whereabouts'
<1> USE DEF Watched, Ready
<1>u. /\ UNCHANGED <<wal, content, files, snapshot_version, mode, claims, todo, flush, booted, released>>
      /\ mode = "up" /\ flush = NoFlush
  BY NoFlushIdle DEF Absorb, Idle, AccumulatorOnly, catalogVars, dataVars, counters
<1>p. PICK p : p = Min(Unread)
  OBVIOUS
<1>1. /\ p \in Logged /\ p \in Nat /\ read \in Nat /\ read <= p /\ read' = p + 1
      /\ \A h \in Logged : h < p + 1 => h < read \/ h = p
  BY <1>p, AbsorbedIsNext
<1>2. DatesKnown' /\ FilesDated' /\ RowsApart' /\ FilesStand
  BY <1>u, FilesStayDated DEF Whereabouts, DatesKnown
<1>3. FlushOfChunk' /\ FlushFiled' /\ RangesApart' /\ ReadAgain'
  BY <1>u, UpIsUp, NoFlushFiled
<1>4. RowsOfGroup'
  BY <1>u, RowsStayOfGroup
<1>5. FiledAreRead'
  BY <1>u, <1>1, FiledStayRead
<1>6. \A h : GroupAt(h)' = GroupAt(h) /\ (Claimed(h)' <=> Claimed(h))
  BY <1>u DEF GroupAt, ItemAt, Claimed
<1>7. Logged' = Logged
  BY <1>u DEF Logged, Positions, IsData
<1>h. Homes
  BY DEF Whereabouts
<1>8. ASSUME \A c \in DOMAIN chunks : \A x \in chunks[c].seqs : \E d \in DOMAIN chunks' : x \in chunks'[d].seqs,
             Claimed(p) \/ \E d \in DOMAIN chunks' : p \in chunks'[d].seqs
      PROVE  Homes'
  <2> SUFFICES ASSUME NEW h \in Logged
               PROVE  /\ Claimed(h) =>
                           \E b \in DOMAIN files :
                               h \in content[b] /\ files[b].valid_from <= booted.snapshot
                      /\ h < p + 1 /\ ~Claimed(h) =>
                           \/ \E c \in DOMAIN chunks' : h \in chunks'[c].seqs
                           \/ \E b \in DOMAIN files :
                                  h \in content[b] /\ files[b].valid_from <= released
    BY <1>u, <1>1, <1>6, <1>7 DEF Homes
  <2>1. Claimed(h) => \E b \in DOMAIN files : h \in content[b] /\ files[b].valid_from <= booted.snapshot
    BY <1>h, <1>u DEF Homes
  <2>2. ASSUME h < p + 1, ~Claimed(h)
        PROVE  \/ \E c \in DOMAIN chunks' : h \in chunks'[c].seqs
               \/ \E b \in DOMAIN files : h \in content[b] /\ files[b].valid_from <= released
    <3>1. CASE h = p
      BY <1>8, <2>2, <3>1
    <3>2. CASE h < read
      BY <1>8, <1>h, <1>u, <2>2, <3>2 DEF Homes
    <3> QED BY <1>1, <2>2, <3>1, <3>2
  <2> QED BY <2>1, <2>2
<1>9. CASE Claimed(p)
  <2>1. chunks' = chunks
    BY <1>9, <1>p DEF Absorb
  <2>2. ChunksApart' /\ FlushedAreFiles'
    BY <1>u, <2>1 DEF Whereabouts, ChunksApart, FlushedAreFiles
  <2>3. UnflushedAreNot'
    BY <1>u, <2>1 DEF Whereabouts, UnflushedAreNot, Finishing
  <2>4. BatchesLogged'
    BY <2>1, ChunksStayLogged
  <2>5. Homes'
    BY <1>8, <1>9, <2>1
  <2> QED BY <1>2, <1>3, <1>4, <1>5, <2>2, <2>3, <2>4, <2>5 DEF Whereabouts
<1>10. CASE ~Claimed(p)
  <2>1. /\ \A c \in DOMAIN chunks : p \notin chunks[c].seqs /\ p # c
        /\ \A b \in DOMAIN files : p \notin content[b]
    BY <1>u, <1>1, <1>10, NextIsNowhere
  <2>g. PICK g : g = GroupAt(p)
    OBVIOUS
  <2>2. CASE /\ OpenChunks(g) = {}
             /\ DOMAIN chunks' = DOMAIN chunks \cup {p}
             /\ chunks'[p].seqs = {p} /\ chunks'[p].group = g /\ chunks'[p].state = "open"
             /\ chunks'[p].batch = NoBatch /\ chunks'[p].at = 0
             /\ \A c \in DOMAIN chunks \ {p} : chunks'[c] = chunks[c]
    <3>1. \A c \in DOMAIN chunks : chunks[c].state = "open" => chunks[c].group # g
      BY <2>2 DEF OpenChunks
    <3>2. ChunksApart' /\ FlushedAreFiles' /\ UnflushedAreNot' /\ BatchesLogged'
      BY <1>u, <1>1, <2>1, <2>2, <3>1, NewChunkApart
    <3>3. Homes'
      BY <1>8, <2>1, <2>2
    <3> QED BY <1>2, <1>3, <1>4, <1>5, <3>2, <3>3 DEF Whereabouts
  <2>3. CASE /\ OpenChunks(g) # {}
             /\ DOMAIN chunks' = DOMAIN chunks
             /\ \A c \in OpenChunks(g) :
                    /\ chunks'[c].seqs = chunks[c].seqs \cup {p}
                    /\ chunks'[c].group = chunks[c].group /\ chunks'[c].state = chunks[c].state
                    /\ chunks'[c].batch = chunks[c].batch /\ chunks'[c].at = chunks[c].at
             /\ \A c \in DOMAIN chunks \ OpenChunks(g) : chunks'[c] = chunks[c]
    <3>1. ChunksApart' /\ FlushedAreFiles' /\ UnflushedAreNot' /\ BatchesLogged'
      BY <1>u, <1>1, <2>1, <2>3, OpenChunkApart
    <3>2. Homes'
      <4>1. \A c \in DOMAIN chunks : chunks[c].seqs \subseteq chunks'[c].seqs
        BY <2>3
      <4>2. \A c \in DOMAIN chunks : \A x \in chunks[c].seqs : \E d \in DOMAIN chunks' : x \in chunks'[d].seqs
        BY <2>3, <4>1
      <4>3. \E d \in DOMAIN chunks' : p \in chunks'[d].seqs
        BY <2>3 DEF OpenChunks
      <4> QED BY <1>8, <4>2, <4>3
    <3> QED BY <1>2, <1>3, <1>4, <1>5, <3>1, <3>2 DEF Whereabouts
  <2> QED BY <1>p, <1>10, <2>g, <2>2, <2>3, AbsorbedChunks
<1> QED BY <1>9, <1>10

\* Chunks that are sealed, flushed or freed keep their rows to themselves.
LEMMA ChunksStayApart ==
    ASSUME Watched,
           \A c \in DOMAIN chunks' :
               /\ c \in DOMAIN chunks
               /\ chunks'[c].seqs = chunks[c].seqs /\ chunks'[c].group = chunks[c].group
               /\ chunks'[c].state = "open" => chunks[c].state = "open"
    PROVE  ChunksApart'
<1>1. ChunksApart
  BY DEF Watched, Whereabouts
<1>2. \A c \in DOMAIN chunks' : c \in chunks'[c].seqs
  BY <1>1 DEF ChunksApart
<1>3. ASSUME NEW c \in DOMAIN chunks', NEW d \in DOMAIN chunks',
             NEW x \in chunks'[c].seqs, x \in chunks'[d].seqs
      PROVE  c = d
  BY <1>1, <1>3 DEF ChunksApart
<1>4. ASSUME NEW c \in DOMAIN chunks', NEW d \in DOMAIN chunks',
             chunks'[c].state = "open", chunks'[d].state = "open", chunks'[c].group = chunks'[d].group
      PROVE  c = d
  BY <1>1, <1>4 DEF ChunksApart
<1> QED BY <1>2, <1>3, <1>4 DEF ChunksApart

LEMMA ChunkMarked ==
    ASSUME Shapes, NEW c \in DOMAIN chunks, NEW st, chunks' = [chunks EXCEPT ![c].state = st]
    PROVE  /\ DOMAIN chunks' = DOMAIN chunks
           /\ \A d \in DOMAIN chunks :
                  /\ chunks'[d].seqs = chunks[d].seqs /\ chunks'[d].group = chunks[d].group
                  /\ chunks'[d].at = chunks[d].at
                  /\ d # c => chunks'[d] = chunks[d]
           /\ chunks'[c].state = st /\ chunks'[c].batch = chunks[c].batch
<1>1. \A d \in DOMAIN chunks : chunks[d] \in ChunkRecord
  BY DEF Shapes
<1> QED BY <1>1 DEF ChunkRecord

LEMMA ChunkNamed ==
    ASSUME Shapes, NEW c \in DOMAIN chunks, NEW b, chunks' = [chunks EXCEPT ![c].batch = b]
    PROVE  /\ DOMAIN chunks' = DOMAIN chunks
           /\ \A d \in DOMAIN chunks :
                  /\ chunks'[d].seqs = chunks[d].seqs /\ chunks'[d].group = chunks[d].group
                  /\ chunks'[d].at = chunks[d].at
                  /\ d # c => chunks'[d] = chunks[d]
           /\ chunks'[c].batch = b /\ chunks'[c].state = chunks[c].state
<1>1. \A d \in DOMAIN chunks : chunks[d] \in ChunkRecord
  BY DEF Shapes
<1> QED BY <1>1 DEF ChunkRecord

LEMMA SealWhereabouts ==
    ASSUME Watched, NEW c \in DOMAIN chunks, Seal(c)
    PROVE  Whereabouts'
<1> USE DEF Watched, Ready
<1>u. /\ UNCHANGED <<wal, content, files, snapshot_version, mode, claims, todo, flush, booted,
                     released, read>>
      /\ mode = "up" /\ flush = NoFlush
  BY NoFlushIdle DEF Seal, Idle, AccumulatorOnly, catalogVars, dataVars, counters
<1>c. /\ DOMAIN chunks' = DOMAIN chunks
      /\ \A d \in DOMAIN chunks :
             /\ chunks'[d].seqs = chunks[d].seqs /\ chunks'[d].group = chunks[d].group
             /\ chunks'[d].at = chunks[d].at
             /\ d # c => chunks'[d] = chunks[d]
      /\ chunks[c].state = "open" /\ chunks'[c].state = "sealed" /\ chunks'[c].batch = chunks[c].batch
  <2>1. chunks[c].state = "open" /\ chunks' = [chunks EXCEPT ![c].state = "sealed"]
    BY DEF Seal
  <2> QED BY <2>1, ChunkMarked
<1>1. DatesKnown' /\ FilesDated' /\ RowsApart' /\ FilesStand
  BY <1>u, FilesStayDated DEF Whereabouts, DatesKnown
<1>2. FlushOfChunk' /\ FlushFiled' /\ RangesApart' /\ ReadAgain'
  BY <1>u, UpIsUp, NoFlushFiled
<1>3. RowsOfGroup'
  BY <1>u, RowsStayOfGroup
<1>4. FiledAreRead'
  BY <1>u, FiledStayRead DEF Account, SeqsRead
<1>5. ChunksApart'
  BY <1>c, ChunksStayApart
<1>6. BatchesLogged'
  BY <1>c, ChunksStayLogged
<1>7. FlushedAreFiles'
  <2> SUFFICES ASSUME NEW d \in DOMAIN chunks, chunks'[d].state = "flushed"
               PROVE  /\ chunks'[d].batch \in DOMAIN files
                      /\ content[chunks'[d].batch] = chunks'[d].seqs
                      /\ chunks'[d].at # 0
                      /\ chunks'[d].at = files[chunks'[d].batch].valid_from
    BY <1>u, <1>c DEF FlushedAreFiles
  <2>1. d # c
    BY <1>c
  <2> QED BY <1>c, <2>1 DEF Whereabouts, FlushedAreFiles
<1>8. UnflushedAreNot'
  <2> SUFFICES ASSUME NEW d \in DOMAIN chunks, chunks'[d].state # "flushed"
               PROVE  /\ chunks'[d].at = 0 /\ chunks'[d].batch \notin DOMAIN files
                      /\ \A b \in DOMAIN files : \A x \in content[b] : x \notin chunks'[d].seqs
    BY <1>u, <1>c DEF UnflushedAreNot
  <2>1. chunks[d].state # "flushed" /\ chunks'[d].batch = chunks[d].batch
    BY <1>c
  <2> QED BY <1>u, <1>c, <2>1 DEF Whereabouts, UnflushedAreNot, Finishing
<1>9. Homes'
  BY <1>u, <1>c, <1>1, HomesStay DEF Whereabouts, DatesKnown
<1> QED BY <1>1, <1>2, <1>3, <1>4, <1>5, <1>6, <1>7, <1>8, <1>9 DEF Whereabouts

LEMMA StartFlushWhereabouts ==
    ASSUME Watched, NEW c \in DOMAIN chunks, StartFlush(c)
    PROVE  Whereabouts'
<1> USE DEF Watched, Ready
<1>u. /\ UNCHANGED <<content, files, snapshot_version, mode, claims, todo, booted, released, read>>
      /\ mode = "up" /\ flush = NoFlush /\ chunks[c].state = "sealed"
  BY NoFlushIdle DEF StartFlush, Idle, AccumulatorOnly, catalogVars, dataVars, counters
<1>b. PICK b : b = NextBatch
  OBVIOUS
<1>r. PICK r, lo, hi : lo = Min(chunks[c].seqs) /\ hi = Max(chunks[c].seqs) + 1
                       /\ r = PendingRecord(b, chunks[c].group, lo, hi)
  OBVIOUS
<1>0. b \in Batches /\ b \notin Used
  BY <1>b DEF StartFlush, NextBatch
<1>1. (\A q : ~PendingAt(q, b)) /\ ~Landed(b)
  BY <1>0, UnusedIsNew DEF Shapes
<1>2. b \notin DOMAIN files /\ b \notin DOMAIN content /\ b # NoBatch
  BY <1>0, <1>1, NoBatchIsNone DEF Body, FilesLanded, Account, ObjectsLanded
<1>3. \A d \in DOMAIN chunks : chunks[d].batch # b
  BY <1>1, <1>2 DEF Whereabouts, BatchesLogged
<1>4. wal' = Append(wal, r) /\ r.kind = "pending" /\ r.batch = b /\ r.group = chunks[c].group
  BY <1>b, <1>r DEF StartFlush, PendingRecord
<1>n. PICK n : n = Len(wal) + 1
  OBVIOUS
<1>5. (\A q \in DOMAIN wal' \ DOMAIN wal : q = n) /\ n \in DOMAIN wal' /\ wal'[n] = r
      /\ \A q \in DOMAIN wal : wal'[q] = wal[q]
  <2>1. PICK S : S = LogRecord \cup {r}
    OBVIOUS
  <2>2. wal \in Seq(S) /\ r \in S
    BY <2>1 DEF Shapes
  <2> QED BY <1>4, <1>n, <2>2
<1>6. flush' = Flushing(b, {c}, lo, hi, chunks[c].seqs)
  BY <1>b, <1>r DEF StartFlush
<1>7. /\ flush' # NoFlush /\ flush'.pc = "announce" /\ flush'.batch = b /\ flush'.chunk = {c}
      /\ flush'.rows = chunks[c].seqs
  <2>1. flush'.pc = "announce"
    BY <1>6 DEF Flushing
  <2>2. NoFlush.pc = "none"
    BY DEF NoFlush
  <2> QED BY <1>6, <2>1, <2>2 DEF Flushing
<1>c. /\ DOMAIN chunks' = DOMAIN chunks
      /\ \A d \in DOMAIN chunks :
             /\ chunks'[d].seqs = chunks[d].seqs /\ chunks'[d].group = chunks[d].group
             /\ chunks'[d].at = chunks[d].at
             /\ d # c => chunks'[d] = chunks[d]
      /\ chunks'[c].state = "sealed" /\ chunks'[c].batch = b
  <2>1. chunks' = [chunks EXCEPT ![c].batch = b]
    BY <1>b DEF StartFlush
  <2> QED BY <1>u, <2>1, ChunkNamed
<1>8. DatesKnown' /\ FilesDated' /\ RowsApart' /\ FilesStand
  BY <1>u, FilesStayDated DEF Whereabouts, DatesKnown
<1>9. RangesApart' /\ ReadAgain'
  BY <1>u, UpIsUp
<1>10. FiledAreRead'
  BY <1>u, FiledStayRead DEF Account, SeqsRead
<1>11. ChunksApart'
  BY <1>c, <1>u, ChunksStayApart
<1>12. BatchesLogged'
  <2> SUFFICES ASSUME NEW d \in DOMAIN chunks, chunks'[d].batch # NoBatch
               PROVE  \E q \in DOMAIN wal' : wal'[q].kind = "pending" /\ wal'[q].batch = chunks'[d].batch
    BY <1>c DEF BatchesLogged, PendingAt
  <2>1. CASE d = c
    BY <1>4, <1>5, <1>c, <2>1
  <2>2. CASE d # c
    <3>1. PICK q \in DOMAIN wal : PendingAt(q, chunks[d].batch)
      BY <1>c, <2>2 DEF Whereabouts, BatchesLogged
    <3>2. q \in DOMAIN wal' /\ wal'[q] = wal[q]
      BY DEF Grows
    <3> QED BY <1>c, <2>2, <3>1, <3>2 DEF PendingAt
  <2> QED BY <2>1, <2>2
<1>13. FlushedAreFiles'
  <2> SUFFICES ASSUME NEW d \in DOMAIN chunks, chunks'[d].state = "flushed"
               PROVE  /\ chunks'[d].batch \in DOMAIN files
                      /\ content[chunks'[d].batch] = chunks'[d].seqs
                      /\ chunks'[d].at # 0
                      /\ chunks'[d].at = files[chunks'[d].batch].valid_from
    BY <1>u, <1>c DEF FlushedAreFiles
  <2>1. d # c
    BY <1>c
  <2> QED BY <1>c, <2>1 DEF Whereabouts, FlushedAreFiles
<1>14. UnflushedAreNot'
  <2> SUFFICES ASSUME NEW d \in DOMAIN chunks, chunks'[d].state # "flushed"
               PROVE  /\ chunks'[d].at = 0 /\ chunks'[d].batch \notin DOMAIN files
                      /\ \A x \in DOMAIN files : \A p \in content[x] : p \notin chunks'[d].seqs
    BY <1>u, <1>c DEF UnflushedAreNot
  <2>1. chunks[d].state # "flushed"
    BY <1>c, <1>u
  <2>2. /\ chunks[d].at = 0 /\ chunks[d].batch \notin DOMAIN files
        /\ \A x \in DOMAIN files : \A p \in content[x] : p \notin chunks[d].seqs
    BY <1>u, <2>1 DEF Whereabouts, UnflushedAreNot, Finishing
  <2>3. chunks'[d].batch \notin DOMAIN files
    BY <1>2, <1>c, <2>2
  <2> QED BY <1>c, <2>2, <2>3
<1>15. FlushOfChunk'
  <2>1. \A d \in DOMAIN chunks' : chunks'[d].batch = b => d = c
    BY <1>3, <1>c
  <2>2. /\ c \in DOMAIN chunks' /\ flush'.chunk = {c} /\ chunks'[c].state = "sealed"
        /\ chunks'[c].batch = flush'.batch /\ chunks'[c].seqs = flush'.rows
        /\ \A d \in DOMAIN chunks' : chunks'[d].batch = flush'.batch => d = c
    BY <1>c, <1>7, <2>1
  <2> QED BY <2>2 DEF FlushOfChunk
<1>16. FlushFiled'
  BY <1>2, <1>7, <1>u DEF FlushFiled
<1>17. RowsOfGroup'
  <2>1. ASSUME NEW x \in DOMAIN content, NEW q \in DOMAIN wal', PendingAt(q, x)', NEW p \in content[x]
        PROVE  GroupAt(p)' = wal'[q].group
    <3>1. q \in DOMAIN wal
      BY <1>2, <1>4, <1>5, <2>1 DEF PendingAt
    <3>2. PendingAt(q, x) /\ wal'[q] = wal[q]
      BY <1>5, <2>1, <3>1 DEF PendingAt
    <3>3. GroupAt(p)' = GroupAt(p)
      BY ObjectRowsLogged, LoggedGrows
    <3> QED BY <3>1, <3>2, <3>3 DEF Whereabouts, RowsOfGroup
  <2>2. ASSUME NEW q \in DOMAIN wal', PendingAt(q, flush.batch)', NEW p \in flush'.rows
        PROVE  GroupAt(p)' = wal'[q].group
    <3>1. wal'[q].kind = "pending" /\ wal'[q].batch = b
      BY <1>7, <2>2 DEF PendingAt
    <3>2. q = n
      BY <1>1, <1>5, <3>1 DEF PendingAt
    <3>3. p \in Logged /\ GroupAt(p) = chunks[c].group
      BY <1>7, RowsAreChunked DEF Account, SeqsRead, Body
    <3> QED BY <1>4, <1>5, <3>2, <3>3, LoggedGrows
  <2> QED BY <1>u, <2>1, <2>2 DEF RowsOfGroup
<1>18. Homes'
  BY <1>u, <1>c, <1>8, HomesStay DEF Whereabouts, DatesKnown
<1> QED BY <1>8, <1>9, <1>10, <1>11, <1>12, <1>13, <1>14, <1>15, <1>16, <1>17, <1>18 DEF Whereabouts

LEMMA AccumulatorWhereabouts == ASSUME Watched, AccumulatorStep PROVE Whereabouts'
<1>1. ~Refuse
  BY DEF Refuse, Watched, Spotless
<1> QED BY <1>1, AbsorbWhereabouts, SealWhereabouts, StartFlushWhereabouts DEF AccumulatorStep

-----------------------------------------------------------------------------
(* No flush finds its rows in the catalog already. *)

\* A keyed write of a batch's range and group is in its object: a hole is in
\* the range of another batch.
LEMMA KeyedIsHeld ==
    ASSUME Watched, NEW b \in DOMAIN content, NEW q, NEW h, Spans(q, b, h), Keyed(ItemAt(h))
    PROVE  h \in content[b]
<1> USE DEF Watched, Ready
<1> SUFFICES ASSUME h \notin content[b] PROVE FALSE
  OBVIOUS
<1>0. PendingAt(q, b) /\ q \in DOMAIN wal /\ h \in Logged /\ wal[q].lo <= h /\ h < wal[q].hi
      /\ wal[q].kind = "pending"
  BY DEF Spans, PendingAt
<1>1. HousedWithin(h, wal[q].lo, wal[q].hi)
  BY <1>0 DEF Account, ObjectHoles
<1>2. PICK q2 \in DOMAIN wal, b2 \in Batches :
          Houses(q2, b2, h) /\ wal[q].lo < wal[q2].lo /\ wal[q2].hi < wal[q].hi
  BY <1>1 DEF HousedWithin
<1>3. PendingAt(q2, b2) /\ wal[q2].kind = "pending" /\ wal[q2].lo <= h /\ h < wal[q2].hi
  BY <1>2 DEF Houses, Spans, PendingAt
<1>4. wal[q].lo \in Nat /\ wal[q2].lo \in Nat
  BY <1>0, <1>3, PendingFields
<1>5. wal[q].lo # wal[q2].lo
  BY <1>2, <1>4
<1>6. Announces(q, h) /\ Announces(q2, h) /\ q \in Positions /\ q2 \in Positions
  BY <1>0, <1>3 DEF Announces, Positions
<1>7. <<wal[q2].lo, wal[q2].hi>> # <<wal[q].lo, wal[q].hi>>
  BY <1>5
<1>8. StrayKey
  BY <1>0, <1>6, <1>7 DEF StrayKey
<1> QED BY <1>8 DEF Spotless

\* A batch whose key is taken shares its range with a batch in the catalog, and
\* the write with the key.
LEMMA TakerShares ==
    ASSUME Watched, NEW b, NEW q, PendingAt(q, b), NEW k \in KeysIn(wal[q].lo, wal[q].hi), KeyTaken(k, b)
    PROVE  \E q1 \in DOMAIN wal : \E b1 \in DOMAIN files : \E h \in Logged :
               /\ b1 # b /\ Spans(q1, b1, h) /\ Spans(q, b, h) /\ Keyed(ItemAt(h))
<1> USE DEF Watched, Ready
<1>1. PICK h \in DataIn(wal[q].lo, wal[q].hi) : KeyOf[ItemAt(h)] = k /\ k # NoKey
  BY DEF KeysIn
<1>2. h \in Logged /\ wal[q].lo <= h /\ h < wal[q].hi /\ Keyed(ItemAt(h))
  BY <1>1 DEF DataIn, OnDisk, Logged, Positions, Keyed
<1>3. PICK b1 : b1 = idempotency[k].batch
  OBVIOUS
<1>4. k \in DOMAIN idempotency /\ b1 # NoBatch /\ b1 # b
  BY <1>3 DEF KeyTaken
<1>5. b1 \in DOMAIN files
  BY <1>3, <1>4 DEF Account, KeysAnnounced
<1>6. PICK q1 \in DOMAIN wal, h1 \in Logged :
          PendingAt(q1, b1) /\ KeyOf[ItemAt(h1)] = k /\ wal[q1].lo <= h1 /\ h1 < wal[q1].hi
  BY <1>3, <1>4 DEF Account, KeysAnnounced
<1>7. h1 = h
  BY <1>1, <1>2, <1>6 DEF Spotless, KeyLoggedTwice
<1>8. q \in DOMAIN wal /\ Announces(q, h) /\ Announces(q1, h) /\ q \in Positions /\ q1 \in Positions
  BY <1>2, <1>6, <1>7 DEF Announces, Positions, PendingAt
<1>9. wal[q].group = GroupAt(h) /\ wal[q1].group = GroupAt(h)
  BY <1>2, <1>8 DEF Spotless, StrayKey
<1>10. Spans(q1, b1, h) /\ Spans(q, b, h)
  BY <1>2, <1>6, <1>7, <1>9 DEF Spans
<1> QED BY <1>2, <1>4, <1>5, <1>10

\* In a recovery no two batches hold a write.
LEMMA ObjectsApart ==
    ASSUME Watched, mode # "up", NEW b \in DOMAIN content, NEW d \in DOMAIN content,
           ~Aborted(b), ~Aborted(d), NEW p \in content[b], p \in content[d]
    PROVE  b = d
<1> USE DEF Watched, Ready
<1>1. PICK q \in DOMAIN wal : PendingAt(q, b)
  BY DEF Body, ObjectsInRange
<1>2. PICK r \in DOMAIN wal : PendingAt(r, d)
  BY DEF Body, ObjectsInRange
<1>3. /\ wal[q].lo <= p /\ p < wal[q].hi /\ wal[r].lo <= p /\ p < wal[r].hi
  BY <1>1, <1>2 DEF Body, ObjectsInRange, RowsBetween
<1>4. GroupAt(p) = wal[q].group /\ GroupAt(p) = wal[r].group
  BY <1>1, <1>2 DEF Whereabouts, RowsOfGroup
<1>5. p \in Nat
  BY ObjectRowsLogged DEF Logged, Positions, Shapes
<1>6. /\ wal[q].lo \in Nat /\ wal[q].hi \in Nat /\ wal[r].lo \in Nat /\ wal[r].hi \in Nat
      /\ b \in Batches /\ d \in Batches
  BY <1>1, <1>2, PendingFields
<1>7. wal[q].lo < wal[r].hi /\ wal[r].lo < wal[q].hi
  BY <1>3, <1>5, <1>6
<1> QED BY <1>1, <1>2, <1>4, <1>6, <1>7 DEF Whereabouts, RangesApart

\* So there a commit finds no duplicate.
LEMMA NoDuplicateResumed ==
    ASSUME Watched, mode # "up", NEW b, NEW q, PendingAt(q, b), ~Aborted(b)
    PROVE  \A k \in KeysIn(wal[q].lo, wal[q].hi) : ~KeyTaken(k, b)
<1> USE DEF Watched, Ready
<1> SUFFICES ASSUME NEW k \in KeysIn(wal[q].lo, wal[q].hi), KeyTaken(k, b) PROVE FALSE
  OBVIOUS
<1>1. PICK q1 \in DOMAIN wal, b1 \in DOMAIN files, h \in Logged :
          b1 # b /\ Spans(q1, b1, h) /\ Spans(q, b, h)
  BY TakerShares
<1>2. ~Aborted(b1) /\ b1 \in Batches
  BY <1>1, FileRowsLogged DEF Shapes, Account, NoneAborted
<1>a. /\ PendingAt(q1, b1) /\ GroupAt(h) = wal[q1].group /\ wal[q1].lo <= h /\ h < wal[q1].hi
  BY <1>1 DEF Spans
<1>b. /\ GroupAt(h) = wal[q].group /\ wal[q].lo <= h /\ h < wal[q].hi
  BY <1>1 DEF Spans
<1>c. b \in Batches /\ q \in DOMAIN wal
  <2>1. q \in DOMAIN wal
    BY DEF PendingAt
  <2> QED BY <2>1, PendingFields
<1>3. /\ PendingAt(q1, b1) /\ wal[q].group = wal[q1].group /\ b \in Batches
      /\ wal[q].lo <= h /\ h < wal[q].hi /\ wal[q1].lo <= h /\ h < wal[q1].hi
      /\ q \in DOMAIN wal
  BY <1>a, <1>b, <1>c
<1>4. h \in Nat /\ wal[q].lo \in Nat /\ wal[q].hi \in Nat /\ wal[q1].lo \in Nat /\ wal[q1].hi \in Nat
  BY <1>1, <1>3, PendingFields DEF Logged, Positions, Shapes
<1>5. wal[q].lo < wal[q1].hi /\ wal[q1].lo < wal[q].hi
  BY <1>3, <1>4
<1> QED BY <1>1, <1>2, <1>3, <1>5 DEF Whereabouts, RangesApart

\* Nor does it while the node serves.
LEMMA NoDuplicateUp ==
    ASSUME Watched, mode = "up", flush # NoFlush, flush.pc = "commit",
           NEW q, PendingAt(q, flush.batch)
    PROVE  \A k \in KeysIn(wal[q].lo, wal[q].hi) : ~KeyTaken(k, flush.batch)
<1> USE DEF Watched, Ready
<1> SUFFICES ASSUME NEW k \in KeysIn(wal[q].lo, wal[q].hi), KeyTaken(k, flush.batch) PROVE FALSE
  OBVIOUS
<1>b. PICK b : b = flush.batch
  OBVIOUS
<1>1. PICK q1 \in DOMAIN wal, b1 \in DOMAIN files, h \in Logged :
          b1 # b /\ Spans(q1, b1, h) /\ Spans(q, b, h) /\ Keyed(ItemAt(h))
  BY <1>b, TakerShares
<1>2. b \in DOMAIN content /\ b1 \in DOMAIN content
  <2>1. Landed(b1) /\ b1 \in Batches
    BY <1>1 DEF Body, FilesLanded, Shapes
  <2> QED BY <2>1, <1>b, FlushedObject DEF Body, LandedHasObject
<1>3. h \in content[b] /\ h \in content[b1]
  BY <1>1, <1>2, KeyedIsHeld
<1>4. content[b] = flush.rows
  BY <1>b DEF Whereabouts, FlushFiled
<1>5. PICK c \in DOMAIN chunks : chunks[c].state = "sealed" /\ chunks[c].seqs = flush.rows
  BY DEF Whereabouts, FlushOfChunk
<1>6. ~Finishing(c)
  BY DEF Finishing
<1>7. chunks[c].state # "flushed"
  BY <1>5
<1>8. h \notin chunks[c].seqs
  BY <1>1, <1>3, <1>6, <1>7 DEF Whereabouts, UnflushedAreNot
<1> QED BY <1>3, <1>4, <1>5, <1>8

-----------------------------------------------------------------------------
(* A flush under way. *)

\* Before its commit a flush that goes on or fails moves no rows.
LEMMA FlushOnWhereabouts ==
    ASSUME Watched, flush # NoFlush, flush.pc # "finish",
           UNCHANGED <<wal, files, content, snapshot_version, chunks, mode, claims, read, todo,
                       released, booted>>,
           FlushOfChunk', FlushFiled', RowsOfGroup'
    PROVE  Whereabouts'
<1>1. DatesKnown' /\ FilesDated' /\ RowsApart' /\ FilesStand
  BY FilesStayDated DEF Watched, Whereabouts, DatesKnown
<1>2. ChunksApart' /\ FlushedAreFiles'
  BY DEF Watched, Whereabouts, ChunksApart, FlushedAreFiles
<1>3. UnflushedAreNot'
  BY DEF Watched, Whereabouts, UnflushedAreNot, Finishing
<1>4. BatchesLogged'
  BY ChunksStayLogged
<1>5. Homes'
  BY <1>1, HomesStay DEF Watched, Whereabouts, DatesKnown
<1>6. FiledAreRead'
  BY FiledStayRead DEF Watched, Ready, Account, SeqsRead
<1>7. RangesApart' /\ ReadAgain'
  BY RecoveryStays
<1> QED BY <1>1, <1>2, <1>3, <1>4, <1>5, <1>6, <1>7 DEF Whereabouts

LEMMA FlushFailsWhereabouts == ASSUME Watched, FlushFails PROVE Whereabouts'
<1> USE DEF Watched, Ready
<1>1. /\ UNCHANGED <<wal, files, content, snapshot_version, chunks, mode, claims, read, todo,
                     released, booted>>
      /\ flush.pc \in {"announce", "upload", "commit"} /\ flush' = NoFlush
  BY DEF FlushFails, FlushOnly, catalogVars, dataVars, counters
<1>2. flush # NoFlush
  BY <1>1, FlushKnown
<1>3. FlushOfChunk' /\ FlushFiled'
  BY <1>1, NoFlushFiled
<1>4. RowsOfGroup'
  BY <1>1, RowsStayOfGroup
<1> QED BY <1>1, <1>2, <1>3, <1>4, FlushOnWhereabouts

LEMMA AnnounceWhereabouts == ASSUME Watched, Announce PROVE Whereabouts'
<1> USE DEF Watched, Ready
<1>0. catalogVars' = catalogVars \/ RecordInFlight(flush.batch, 0)
  BY DEF Announce
<1>a. UNCHANGED <<files, snapshot_version>>
  BY <1>0 DEF RecordInFlight, catalogVars, dataVars, counters
<1>1. /\ UNCHANGED <<wal, files, content, snapshot_version, chunks, mode, claims, read, todo,
                     released, booted>>
      /\ flush.pc = "announce" /\ flush' = [flush EXCEPT !.pc = "upload"]
  BY <1>a DEF Announce, FlushOnly
<1>2. flush # NoFlush /\ flush \in FlushRecord
  BY <1>1, FlushKnown
<1>3. /\ flush'.pc = "upload" /\ flush'.batch = flush.batch /\ flush'.chunk = flush.chunk
      /\ flush'.rows = flush.rows /\ flush'.at = flush.at
  BY <1>1, <1>2 DEF FlushRecord
<1>4. FlushOfChunk'
  BY <1>1, <1>2, <1>3 DEF Whereabouts, FlushOfChunk
<1>5. FlushFiled'
  BY <1>1, <1>2, <1>3 DEF Whereabouts, FlushFiled
<1>6. RowsOfGroup'
  BY <1>1, <1>2, <1>3, RowsStayOfGroup
<1> QED BY <1>1, <1>2, <1>4, <1>5, <1>6, FlushOnWhereabouts

LEMMA UploadWhereabouts == ASSUME Watched, Upload PROVE Whereabouts'
<1> USE DEF Watched, Ready
<1>u. /\ UNCHANGED <<files, snapshot_version, chunks, mode, claims, read, todo, released, booted>>
      /\ flush.pc = "upload"
  BY DEF Upload, FlushOnly, catalogVars, dataVars, counters
<1>b. PICK b, rows : b = flush.batch /\ rows = flush.rows
  OBVIOUS
<1>f. /\ flush # NoFlush /\ b \in Batches /\ flush \in FlushRecord
  BY <1>b, <1>u, FlushKnown
<1>1. /\ flush'.batch = b /\ flush'.chunk = flush.chunk /\ flush'.rows = rows
      /\ flush'.at = flush.at /\ flush'.pc = "commit"
  BY <1>b, <1>f DEF Upload, FlushRecord
<1>2. PICK r : r = BatchRecord("s3written", b)
  OBVIOUS
<1>3. r \in LogRecord /\ r.kind = "s3written" /\ wal' = Append(wal, r)
  BY <1>2, <1>b, <1>f DEF BatchRecord, LogRecord, Upload
<1>4. \A q \in DOMAIN wal' \ DOMAIN wal : wal'[q].kind # "pending"
  BY <1>3, NewRecord DEF Shapes
<1>5. b \notin DOMAIN content /\ b \notin DOMAIN files
  <2>1. ~Landed(b)
    BY <1>b, <1>f, <1>u DEF Body, FlushLogged
  <2> QED BY <2>1 DEF Account, ObjectsLanded, Body, FilesLanded
<1>6. /\ DOMAIN content' = DOMAIN content \cup {b} /\ content'[b] = rows
      /\ \A x \in DOMAIN content : content'[x] = content[x]
  <2>1. content' = Over(Entry(b, rows), content)
    BY <1>b DEF Upload
  <2> QED BY <1>5, <2>1 DEF Over, Entry
<1>7. \A x \in DOMAIN files : x \in DOMAIN content /\ content'[x] = content[x]
  BY <1>6, FileRowsLogged DEF Shapes, Body, FilesLanded, LandedHasObject
<1>8. FilesStand
  BY <1>u, <1>7 DEF FilesStand
<1>9. DatesKnown' /\ FilesDated'
  BY <1>u DEF Whereabouts, DatesKnown, FilesDated
<1>10. RowsApart'
  BY <1>u, <1>7 DEF Whereabouts, RowsApart
<1>11. ChunksApart'
  BY <1>u DEF Whereabouts, ChunksApart
<1>12. FlushedAreFiles'
  BY <1>u, <1>7 DEF Whereabouts, FlushedAreFiles
<1>13. UnflushedAreNot'
  <2> SUFFICES ASSUME NEW c \in DOMAIN chunks, chunks[c].state # "flushed"
               PROVE  /\ chunks[c].at = 0 /\ chunks[c].batch \notin DOMAIN files
                      /\ \A x \in DOMAIN files : \A p \in content'[x] : p \notin chunks[c].seqs
    BY <1>u DEF UnflushedAreNot
  <2>1. ~Finishing(c)
    BY <1>u DEF Finishing
  <2> QED BY <1>7, <2>1 DEF Whereabouts, UnflushedAreNot
<1>14. BatchesLogged'
  BY <1>u, ChunksStayLogged
<1>15. FlushOfChunk'
  BY <1>b, <1>f, <1>u, <1>1 DEF Whereabouts, FlushOfChunk
<1>16. FlushFiled'
  BY <1>b, <1>f, <1>u, <1>1, <1>5, <1>6 DEF Whereabouts, FlushFiled
<1>17. RowsOfGroup'
  <2>1. ASSUME NEW q \in DOMAIN wal', NEW x, PendingAt(q, x)'
        PROVE  q \in DOMAIN wal /\ PendingAt(q, x) /\ wal'[q] = wal[q]
    <3>1. wal'[q].kind = "pending"
      BY <2>1 DEF PendingAt
    <3>2. q \in DOMAIN wal
      BY <1>4, <3>1
    <3> QED BY <2>1, <3>2, LoggedGrows DEF Grows
  <2>2. ASSUME NEW q \in DOMAIN wal', PendingAt(q, b)', NEW p \in rows
        PROVE  GroupAt(p)' = wal'[q].group
    <3>1. GroupAt(p) = wal[q].group
      BY <1>b, <1>f, <2>1, <2>2 DEF Whereabouts, RowsOfGroup
    <3>2. p \in Logged
      BY <1>b, <1>f, <2>2 DEF Body, FlushLogged, RowsBetween, Logged, Positions, IsData
    <3> QED BY <2>1, <2>2, <3>1, <3>2, LoggedGrows
  <2>3. ASSUME NEW x \in DOMAIN content, NEW q \in DOMAIN wal', PendingAt(q, x)', NEW p \in content[x]
        PROVE  GroupAt(p)' = wal'[q].group
    <3>1. GroupAt(p) = wal[q].group
      BY <2>1, <2>3 DEF Whereabouts, RowsOfGroup
    <3>2. p \in Logged
      BY ObjectRowsLogged
    <3> QED BY <2>1, <2>3, <3>1, <3>2, LoggedGrows
  <2>4. ASSUME NEW x \in DOMAIN content', NEW q \in DOMAIN wal', PendingAt(q, x)', NEW p \in content'[x]
        PROVE  GroupAt(p)' = wal'[q].group
    <3>1. CASE x = b
      BY <1>6, <2>2, <2>4, <3>1
    <3>2. CASE x \in DOMAIN content
      BY <1>6, <2>3, <2>4, <3>2
    <3> QED BY <1>6, <3>1, <3>2
  <2>5. ASSUME NEW q \in DOMAIN wal', PendingAt(q, flush.batch)', NEW p \in flush'.rows
        PROVE  GroupAt(p)' = wal'[q].group
    <3>1. PendingAt(q, b)'
      BY <1>1, <2>5 DEF PendingAt
    <3> QED BY <1>1, <2>2, <2>5, <3>1
  <2> QED BY <2>4, <2>5 DEF RowsOfGroup
<1>18. Homes'
  BY <1>u, <1>8, HomesStay DEF Whereabouts, DatesKnown
<1>19. FiledAreRead'
  BY <1>u, <1>7, FiledStayRead DEF Account, SeqsRead
<1>20. RangesApart' /\ ReadAgain'
  BY <1>u, <1>4, RecoveryStays
<1> QED BY <1>8, <1>9, <1>10, <1>11, <1>12, <1>13, <1>14, <1>15, <1>16, <1>17, <1>18, <1>19, <1>20
        DEF Whereabouts

\* A new file counts from the snapshot its commit makes.
LEMMA CommittedFile ==
    ASSUME NEW b, NEW rows, NEW K, CommitFiles(b, T, S0, rows, K, 0)
    PROVE  /\ b \notin DOMAIN files /\ DOMAIN files' = DOMAIN files \cup {b}
           /\ files'[b].table = T /\ files'[b].deleted_at = 0
           /\ files'[b].valid_from = snapshot_version + 1
           /\ \A x \in DOMAIN files : files'[x] = files[x]
           /\ snapshot_version' = snapshot_version + 1
<1>1. PICK f : f = NewFile(T, S0, rows)
  OBVIOUS
<1>2. b \notin DOMAIN files /\ files' = Over(Entry(b, f), files)
      /\ snapshot_version' = snapshot_version + 1
  BY <1>1 DEF CommitFiles, CommitAccepted, NextSnapshot
<1>3. /\ DOMAIN files' = DOMAIN files \cup {b} /\ files'[b] = f
      /\ \A x \in DOMAIN files : files'[x] = files[x]
  BY <1>2 DEF Over, Entry
<1>4. f.table = T /\ f.deleted_at = 0 /\ f.valid_from = snapshot_version + 1
  BY <1>1 DEF NewFile
<1> QED BY <1>2, <1>3, <1>4

LEMMA FileAdded ==
    ASSUME Watched, content' = content, NEW b,
           DOMAIN files' = DOMAIN files \cup {b},
           files'[b].table = T, files'[b].deleted_at = 0, files'[b].valid_from = snapshot_version + 1,
           \A x \in DOMAIN files : files'[x] = files[x],
           snapshot_version' = snapshot_version + 1,
           \A x \in DOMAIN files : \A p \in content[x] : p \in content[b] => x = b
    PROVE  FilesDated' /\ RowsApart' /\ FilesStand
<1>s. snapshot_version \in Nat
  BY DEF Watched, Ready, Shapes
<1>1. FilesDated'
  <2> SUFFICES ASSUME NEW x \in DOMAIN files'
               PROVE  /\ files'[x].table = T /\ files'[x].deleted_at = 0
                      /\ files'[x].valid_from \in Nat \ {0}
                      /\ files'[x].valid_from <= snapshot_version'
    BY DEF FilesDated
  <2>1. CASE x = b
    BY <1>s, <2>1
  <2>2. CASE x \in DOMAIN files
    <3>1. /\ files[x].table = T /\ files[x].deleted_at = 0
          /\ files[x].valid_from \in Nat \ {0} /\ files[x].valid_from <= snapshot_version
      BY <2>2 DEF Watched, Whereabouts, FilesDated
    <3> QED BY <1>s, <2>2, <3>1
  <2> QED BY <2>1, <2>2
<1>2. RowsApart'
  BY DEF Watched, Whereabouts, RowsApart
<1> QED BY <1>1, <1>2 DEF FilesStand

\* While the node is down or recovers it has no chunks, and nothing is read.
LEMMA DownWhereabouts ==
    ASSUME mode' # "up", DOMAIN chunks' = {},
           DatesKnown', FilesDated', RowsApart', FlushFiled', RowsOfGroup',
           RangesApart', ReadAgain'
    PROVE  Whereabouts'
<1>1. ChunksApart' /\ FlushedAreFiles' /\ UnflushedAreNot' /\ BatchesLogged'
  BY DEF ChunksApart, FlushedAreFiles, UnflushedAreNot, BatchesLogged
<1>2. FlushOfChunk' /\ Homes' /\ FiledAreRead'
  BY DEF FlushOfChunk, Homes, FiledAreRead
<1> QED BY <1>1, <1>2 DEF Whereabouts

\* A commit of a serving node.
LEMMA CommitUp ==
    ASSUME Watched, mode = "up", flush # NoFlush, flush.pc = "commit", NEW b, b = flush.batch,
           UNCHANGED <<wal, content, chunks, mode, claims, read, todo, released, booted>>,
           DOMAIN files' = DOMAIN files \cup {b},
           files'[b].table = T, files'[b].deleted_at = 0, files'[b].valid_from = snapshot_version + 1,
           \A x \in DOMAIN files : files'[x] = files[x],
           snapshot_version' = snapshot_version + 1,
           flush' # NoFlush, flush'.pc = "finish", flush'.batch = b, flush'.chunk = flush.chunk,
           flush'.rows = flush.rows, flush'.at = snapshot_version'
    PROVE  Whereabouts'
<1> USE DEF Watched, Ready
<1>a. FlushOfChunk /\ FlushFiled /\ UnflushedAreNot /\ FlushedAreFiles /\ ChunksApart
  BY DEF Whereabouts
<1>1. PICK c \in DOMAIN chunks :
          /\ flush.chunk = {c} /\ chunks[c].state = "sealed"
          /\ chunks[c].batch = b /\ chunks[c].seqs = flush.rows
          /\ \A d \in DOMAIN chunks : chunks[d].batch = b => d = c
  BY <1>a DEF FlushOfChunk
<1>2. content[b] = chunks[c].seqs /\ b \notin DOMAIN files
  BY <1>a, <1>1 DEF FlushFiled
<1>3. ~ \E d : Finishing(d)
  BY DEF Finishing
<1>4. \A x \in DOMAIN files : \A p \in content[x] : p \notin content[b]
  <2>1. chunks[c].state # "flushed"
    BY <1>1
  <2> QED BY <1>a, <1>2, <1>3, <2>1 DEF UnflushedAreNot
<1>5. FilesDated' /\ RowsApart' /\ FilesStand
  BY <1>4, FileAdded
<1>6. ChunksApart' /\ BatchesLogged'
  BY <1>a, ChunksStayLogged DEF ChunksApart
<1>7. FlushedAreFiles'
  <2> SUFFICES ASSUME NEW d \in DOMAIN chunks, chunks[d].state = "flushed"
               PROVE  /\ chunks[d].batch \in DOMAIN files'
                      /\ content[chunks[d].batch] = chunks[d].seqs
                      /\ chunks[d].at # 0
                      /\ chunks[d].at = files'[chunks[d].batch].valid_from
    BY DEF FlushedAreFiles
  <2> QED BY <1>a DEF FlushedAreFiles
<1>8. UnflushedAreNot'
  <2> SUFFICES ASSUME NEW d \in DOMAIN chunks, chunks[d].state # "flushed"
               PROVE  /\ chunks[d].at = 0
                      /\ ~Finishing(d)' =>
                             /\ chunks[d].batch \notin DOMAIN files'
                             /\ \A x \in DOMAIN files' : \A p \in content[x] : p \notin chunks[d].seqs
    BY DEF UnflushedAreNot
  <2>1. /\ chunks[d].at = 0 /\ chunks[d].batch \notin DOMAIN files
        /\ \A x \in DOMAIN files : \A p \in content[x] : p \notin chunks[d].seqs
    BY <1>a, <1>3 DEF UnflushedAreNot
  <2>2. ASSUME ~Finishing(d)' PROVE d # c
    BY <1>1, <2>2 DEF Finishing
  <2>3. ASSUME d # c PROVE chunks[d].batch # b /\ \A p \in content[b] : p \notin chunks[d].seqs
    BY <1>a, <1>1, <1>2, <2>3 DEF ChunksApart
  <2> QED BY <2>1, <2>2, <2>3
<1>9. FlushOfChunk'
  BY <1>a DEF FlushOfChunk
<1>10. FlushFiled'
  BY <1>1, <1>2 DEF FlushFiled
<1>11. RowsOfGroup'
  BY RowsStayOfGroup
<1>12. DatesKnown' /\ Homes'
  BY <1>5, HomesStay DEF Whereabouts, DatesKnown
<1>13. FiledAreRead'
  <2> SUFFICES ASSUME NEW x \in DOMAIN files', NEW p \in content[x] PROVE p < read \/ Claimed(p)
    BY DEF FiledAreRead, Claimed, GroupAt, ItemAt
  <2>1. CASE x = b
    BY <1>2, <2>1 DEF Account, SeqsRead
  <2>2. CASE x \in DOMAIN files
    BY <2>2 DEF Whereabouts, FiledAreRead
  <2> QED BY <2>1, <2>2
<1>14. RangesApart' /\ ReadAgain'
  BY UpIsUp
<1> QED BY <1>5, <1>6, <1>7, <1>8, <1>9, <1>10, <1>11, <1>12, <1>13, <1>14 DEF Whereabouts

\* In a recovery a commit puts the batch into the catalog, or it is there.
LEMMA CommitDown ==
    ASSUME Watched, mode # "up", NEW b, NEW q, PendingAt(q, b), ~Aborted(b), b \in DOMAIN content,
           NEW rows, NEW K, K = KeysIn(wal[q].lo, wal[q].hi), CommitBatch(b, rows, K), content' = content
    PROVE  FilesDated' /\ RowsApart' /\ FilesStand /\ b \in DOMAIN files'
<1> USE DEF Watched, Ready
<1>1. ~CommitDuplicate(b, K)
  BY NoDuplicateResumed DEF CommitDuplicate
<1>2. CASE CommitFiles(b, T, S0, rows, K, 0)
  <2>1. /\ b \notin DOMAIN files /\ DOMAIN files' = DOMAIN files \cup {b}
        /\ files'[b].table = T /\ files'[b].deleted_at = 0
        /\ files'[b].valid_from = snapshot_version + 1
        /\ \A x \in DOMAIN files : files'[x] = files[x]
        /\ snapshot_version' = snapshot_version + 1
    BY <1>2, CommittedFile
  <2>2. ASSUME NEW x \in DOMAIN files, NEW p \in content[x], p \in content[b] PROVE x = b
    <3>1. x \in DOMAIN content /\ x \in Batches
      BY <2>2, FileRowsLogged
    <3>2. ~Aborted(x)
      BY <3>1 DEF Account, NoneAborted
    <3> QED BY <2>2, <3>1, <3>2, ObjectsApart
  <2> QED BY <2>1, <2>2, FileAdded
<1>3. CASE b \in DOMAIN files /\ UNCHANGED catalogVars
  <2>1. UNCHANGED <<files, snapshot_version>>
    BY <1>3 DEF catalogVars, dataVars, counters
  <2> QED BY <1>3, <2>1, FilesStayDated
<1> QED BY <1>1, <1>2, <1>3 DEF CommitBatch

LEMMA CommitWhereabouts == ASSUME Watched, Commit PROVE Whereabouts'
<1> USE DEF Watched, Ready
<1>u. /\ UNCHANGED <<wal, content, chunks, mode, claims, read, todo, released, booted>>
      /\ flush.pc = "commit"
      /\ CommitBatch(flush.batch, Cardinality(flush.rows), KeysIn(flush.lo, flush.hi))
      /\ flush' = [flush EXCEPT !.pc = "finish", !.at = snapshot_version']
  BY DEF Commit, FlushOnly
<1>b. PICK b, rows : b = flush.batch /\ rows = Cardinality(flush.rows)
  OBVIOUS
<1>f. /\ flush # NoFlush /\ flush \in FlushRecord /\ ~Aborted(b) /\ mode \in {"up", "resume"}
      /\ \E q \in DOMAIN wal : PendingAt(q, b) /\ wal[q].lo = flush.lo /\ wal[q].hi = flush.hi
  BY <1>u, <1>b, FlushKnown
<1>0. PICK q \in DOMAIN wal : PendingAt(q, b) /\ wal[q].lo = flush.lo /\ wal[q].hi = flush.hi
  BY <1>f
<1>1. PICK K : K = KeysIn(wal[q].lo, wal[q].hi)
  OBVIOUS
<1>2. CommitBatch(b, rows, K)
  BY <1>u, <1>b, <1>0, <1>1
<1>3. /\ flush'.pc = "finish" /\ flush'.batch = b /\ flush'.chunk = flush.chunk
      /\ flush'.rows = flush.rows /\ flush'.at = snapshot_version'
  BY <1>u, <1>b, <1>f DEF FlushRecord
<1>4. flush' # NoFlush
  BY <1>3 DEF NoFlush
<1>5. b \in DOMAIN content
  BY <1>u, <1>b, FlushedObject
<1>6. CASE mode = "up"
  <2>1. ~CommitDuplicate(b, K)
    BY <1>u, <1>b, <1>f, <1>0, <1>1, <1>6, NoDuplicateUp DEF CommitDuplicate
  <2>2. b \notin DOMAIN files
    BY <1>u, <1>b, <1>f, <1>6 DEF Whereabouts, FlushFiled
  <2>3. CommitFiles(b, T, S0, rows, K, 0)
    BY <1>2, <2>1, <2>2 DEF CommitBatch
  <2>4. /\ DOMAIN files' = DOMAIN files \cup {b}
        /\ files'[b].table = T /\ files'[b].deleted_at = 0
        /\ files'[b].valid_from = snapshot_version + 1
        /\ \A x \in DOMAIN files : files'[x] = files[x]
        /\ snapshot_version' = snapshot_version + 1
    BY <2>3, CommittedFile
  <2> QED BY <1>u, <1>b, <1>f, <1>3, <1>4, <1>6, <2>4, CommitUp
<1>7. CASE mode = "resume"
  <2>1. FilesDated' /\ RowsApart' /\ FilesStand /\ b \in DOMAIN files'
    BY <1>u, <1>f, <1>0, <1>1, <1>2, <1>5, <1>7, CommitDown
  <2>2. DOMAIN chunks' = {}
    BY <1>u, <1>7 DEF Account, Phases
  <2>3. DatesKnown'
    BY <1>u DEF Whereabouts, DatesKnown
  <2>4. content[b] = flush.rows
    BY <1>u, <1>b, <1>f DEF Whereabouts, FlushFiled
  <2>5. FlushFiled'
    BY <1>u, <1>3, <1>7, <2>1, <2>4 DEF FlushFiled
  <2>6. RowsOfGroup'
    BY <1>u, <1>b, <1>f, <1>3, RowsStayOfGroup
  <2>7. RangesApart' /\ ReadAgain'
    BY <1>u, RecoveryStays
  <2>8. mode' # "up"
    BY <1>u, <1>7
  <2> QED BY <2>1, <2>2, <2>3, <2>5, <2>6, <2>7, <2>8, DownWhereabouts
<1> QED BY <1>f, <1>6, <1>7

\* The chunk of a batch that is committed is that file.
LEMMA FinishUp ==
    ASSUME Watched, mode = "up", flush # NoFlush, flush.pc = "finish", flush' = NoFlush,
           UNCHANGED <<content, files, snapshot_version, mode, claims, read, todo, released, booted>>,
           \A q \in DOMAIN wal' \ DOMAIN wal : wal'[q].kind # "pending",
           DOMAIN chunks' = DOMAIN chunks,
           \A c \in flush.chunk : c \in DOMAIN chunks =>
               /\ chunks'[c].seqs = chunks[c].seqs /\ chunks'[c].group = chunks[c].group
               /\ chunks'[c].batch = chunks[c].batch
               /\ chunks'[c].state = "flushed" /\ chunks'[c].at = flush.at,
           \A c \in DOMAIN chunks \ flush.chunk : chunks'[c] = chunks[c]
    PROVE  Whereabouts'
<1> USE DEF Watched, Ready
<1>a. FlushOfChunk /\ FlushFiled /\ UnflushedAreNot /\ FlushedAreFiles /\ ChunksApart
  BY DEF Whereabouts
<1>1. PICK c \in DOMAIN chunks :
          /\ flush.chunk = {c} /\ chunks[c].state = "sealed"
          /\ chunks[c].batch = flush.batch /\ chunks[c].seqs = flush.rows
          /\ \A d \in DOMAIN chunks : chunks[d].batch = flush.batch => d = c
  BY <1>a DEF FlushOfChunk
<1>2. /\ flush.batch \in DOMAIN files /\ content[flush.batch] = flush.rows
      /\ flush.at = files[flush.batch].valid_from
  BY <1>a DEF FlushFiled
<1>3. /\ chunks'[c].seqs = chunks[c].seqs /\ chunks'[c].group = chunks[c].group
      /\ chunks'[c].batch = chunks[c].batch
      /\ chunks'[c].state = "flushed" /\ chunks'[c].at = flush.at
      /\ \A d \in DOMAIN chunks : d # c => chunks'[d] = chunks[d]
  BY <1>1
<1>4. \A d \in DOMAIN chunks : /\ chunks'[d].seqs = chunks[d].seqs /\ chunks'[d].group = chunks[d].group
                               /\ chunks'[d].batch = chunks[d].batch
                               /\ chunks'[d].state = "open" => chunks[d].state = "open"
  BY <1>3
<1>5. DatesKnown' /\ FilesDated' /\ RowsApart' /\ FilesStand
  BY FilesStayDated DEF Whereabouts, DatesKnown
<1>6. ChunksApart' /\ BatchesLogged'
  BY <1>4, ChunksStayApart, ChunksStayLogged
<1>7. FlushedAreFiles'
  <2> SUFFICES ASSUME NEW d \in DOMAIN chunks, chunks'[d].state = "flushed"
               PROVE  /\ chunks'[d].batch \in DOMAIN files
                      /\ content[chunks'[d].batch] = chunks'[d].seqs
                      /\ chunks'[d].at # 0
                      /\ chunks'[d].at = files[chunks'[d].batch].valid_from
    BY DEF FlushedAreFiles
  <2>1. CASE d = c
    <3>1. files[flush.batch].valid_from # 0
      BY <1>2 DEF Whereabouts, FilesDated
    <3> QED BY <1>1, <1>2, <1>3, <2>1, <3>1
  <2>2. CASE d # c
    BY <1>a, <1>3, <2>2 DEF FlushedAreFiles
  <2> QED BY <2>1, <2>2
<1>8. UnflushedAreNot'
  <2> SUFFICES ASSUME NEW d \in DOMAIN chunks, chunks'[d].state # "flushed"
               PROVE  /\ chunks'[d].at = 0 /\ chunks'[d].batch \notin DOMAIN files
                      /\ \A x \in DOMAIN files : \A p \in content[x] : p \notin chunks'[d].seqs
    BY DEF UnflushedAreNot
  <2>1. d # c /\ chunks'[d] = chunks[d]
    BY <1>3
  <2>2. ~Finishing(d)
    BY <1>1, <2>1 DEF Finishing
  <2> QED BY <1>a, <2>1, <2>2 DEF UnflushedAreNot
<1>9. FlushOfChunk' /\ FlushFiled'
  BY NoFlushFiled
<1>10. RowsOfGroup'
  BY RowsStayOfGroup
<1>11. Homes'
  BY <1>4, <1>5, HomesStay DEF Whereabouts, DatesKnown
<1>12. FiledAreRead'
  BY FiledStayRead DEF Account, SeqsRead
<1>13. RangesApart' /\ ReadAgain'
  BY UpIsUp
<1> QED BY <1>5, <1>6, <1>7, <1>8, <1>9, <1>10, <1>11, <1>12, <1>13 DEF Whereabouts

LEMMA ChunksFinished ==
    ASSUME Shapes, Finish
    PROVE  /\ DOMAIN chunks' = DOMAIN chunks
           /\ \A c \in flush.chunk : c \in DOMAIN chunks =>
                  /\ chunks'[c].seqs = chunks[c].seqs /\ chunks'[c].group = chunks[c].group
                  /\ chunks'[c].batch = chunks[c].batch
                  /\ chunks'[c].state = "flushed" /\ chunks'[c].at = flush.at
           /\ \A c \in DOMAIN chunks \ flush.chunk : chunks'[c] = chunks[c]
<1> DEFINE finished(c) == [chunks[c] EXCEPT !.state = "flushed", !.at = flush.at]
<1>1. chunks' = [c \in DOMAIN chunks |-> IF c \in flush.chunk THEN finished(c) ELSE chunks[c]]
  BY Zenon DEF Finish
<1>2. ASSUME NEW c \in DOMAIN chunks
      PROVE  /\ finished(c).seqs = chunks[c].seqs /\ finished(c).group = chunks[c].group
             /\ finished(c).batch = chunks[c].batch
             /\ finished(c).state = "flushed" /\ finished(c).at = flush.at
  <2>1. chunks[c] \in ChunkRecord
    BY DEF Shapes
  <2> QED BY <2>1 DEF ChunkRecord
<1> HIDE DEF finished
<1> QED BY <1>1, <1>2

LEMMA FinishWhereabouts == ASSUME Watched, Finish PROVE Whereabouts'
<1> USE DEF Watched, Ready
<1>b. PICK b : b = flush.batch
  OBVIOUS
<1>u. /\ UNCHANGED <<content, files, snapshot_version, mode, read, released, booted>>
      /\ flush.pc = "finish" /\ flush' = NoFlush
      /\ wal' = Append(wal, BatchRecord("committed", b))
      /\ flush.chunk # {} => UNCHANGED <<claims, todo>>
  <2>1. /\ catalogVars' = catalogVars /\ content' = content /\ FlushOnly
        /\ flush.pc = "finish" /\ flush' = NoFlush
        /\ wal' = Append(wal, BatchRecord("committed", b))
        /\ IF flush.chunk = {}
           THEN /\ Claim(b, wal[LastPending(OnDisk, b)].group, flush.lo, flush.hi)
                /\ todo' = todo \ {b}
           ELSE UNCHANGED <<claims, todo>>
    BY <1>b, Zenon DEF Finish
  <2>2. UNCHANGED <<files, snapshot_version>>
    BY <2>1 DEF catalogVars, dataVars, counters
  <2> QED BY <2>1, <2>2 DEF FlushOnly
<1>f. /\ flush # NoFlush /\ b \in Batches /\ mode \in {"up", "resume"}
      /\ mode = "up" <=> flush.chunk # {}
  BY <1>u, <1>b, FlushKnown
<1>1. PICK r : r = BatchRecord("committed", b)
  OBVIOUS
<1>2. r \in LogRecord /\ r.kind = "committed" /\ wal' = Append(wal, r)
  BY <1>u, <1>1, <1>f DEF BatchRecord, LogRecord
<1>3. \A q \in DOMAIN wal' \ DOMAIN wal : wal'[q].kind # "pending"
  BY <1>2, NewRecord DEF Shapes
<1>c. /\ DOMAIN chunks' = DOMAIN chunks
      /\ \A c \in flush.chunk : c \in DOMAIN chunks =>
             /\ chunks'[c].seqs = chunks[c].seqs /\ chunks'[c].group = chunks[c].group
             /\ chunks'[c].batch = chunks[c].batch
             /\ chunks'[c].state = "flushed" /\ chunks'[c].at = flush.at
      /\ \A c \in DOMAIN chunks \ flush.chunk : chunks'[c] = chunks[c]
  BY ChunksFinished
<1>4. CASE mode = "up"
  BY <1>u, <1>f, <1>3, <1>c, <1>4, FinishUp
<1>5. CASE mode = "resume"
  <2>0. mode # "up" /\ mode' # "up"
    BY <1>u, <1>5
  <2>1. DatesKnown' /\ FilesDated' /\ RowsApart' /\ FilesStand
    BY <1>u, FilesStayDated DEF Whereabouts, DatesKnown
  <2>2. DOMAIN chunks' = {}
    BY <1>c, <2>0 DEF Account, Phases
  <2>3. FlushFiled' /\ RowsOfGroup'
    BY <1>u, <1>3, NoFlushFiled, RowsStayOfGroup
  <2>4. RangesApart' /\ ReadAgain'
    BY <1>u, <1>3, RecoveryStays
  <2> QED BY <2>0, <2>1, <2>2, <2>3, <2>4, DownWhereabouts
<1> QED BY <1>f, <1>4, <1>5

LEMMA FlushWhereabouts == ASSUME Watched, FlushStep PROVE Whereabouts'
<1>1. ~ReplyLost
  BY DEF ReplyLost, Watched, Spotless
<1> QED BY <1>1, AnnounceWhereabouts, UploadWhereabouts, CommitWhereabouts, FinishWhereabouts,
           FlushFailsWhereabouts
        DEF FlushStep

-----------------------------------------------------------------------------
(* A chunk is freed when readers have its file. *)

LEMMA ReclaimWhereabouts ==
    ASSUME Watched, NEW s \in 1..snapshot_version, Reclaim(s)
    PROVE  Whereabouts'
<1> USE DEF Watched, Ready
<1>u. /\ UNCHANGED <<wal, content, files, snapshot_version, mode, claims, todo, flush, booted, read>>
      /\ mode = "up"
  BY DEF Reclaim, logVars, catalogVars, dataVars, counters
<1>a. FlushOfChunk /\ FlushFiled /\ UnflushedAreNot /\ FlushedAreFiles /\ DatesKnown /\ FilesDated
  BY DEF Whereabouts
<1>1. PICK out : out = {c \in DOMAIN chunks : chunks[c].state = "flushed" /\ chunks[c].at <= s}
  OBVIOUS
<1>2. PICK X : X = {released} \cup {chunks[c].at : c \in out}
  OBVIOUS
<1>3. /\ DOMAIN chunks' = DOMAIN chunks \ out
      /\ \A c \in DOMAIN chunks' : chunks'[c] = chunks[c]
  <2>1. chunks' = Without(chunks, out)
    BY <1>1 DEF Reclaim
  <2> QED BY <2>1 DEF Without, Restrict
<1>4. released' = Max(X)
  BY <1>1, <1>2 DEF Reclaim
<1>5. released' \in Nat /\ \A x \in X : x <= released'
  <2>1. released \in Nat /\ s \in Nat
    BY <1>a DEF DatesKnown, Shapes
  <2>2. PICK n \in Nat : released <= n /\ s <= n
    BY <2>1
  <2>3. \A c \in out : chunks[c].at \in Nat /\ chunks[c].at <= s
    BY <1>1 DEF Shapes, ChunkRecord
  <2>4. X \subseteq 0..n /\ X # {}
    BY <1>2, <2>1, <2>2, <2>3
  <2>5. Max(X) \in X /\ \A x \in X : x <= Max(X)
    BY <2>2, <2>4, MaxIsGreatest
  <2>6. released' \in X /\ \A x \in X : x <= released'
    BY <1>4, <2>5
  <2>7. released' \in 0..n
    BY <2>4, <2>6
  <2>8. released' \in Nat
    BY <2>2, <2>7
  <2> QED BY <2>6, <2>8
<1>6. released <= released' /\ \A c \in out : chunks[c].at <= released'
  BY <1>2, <1>5
<1>7. DatesKnown' /\ FilesDated' /\ RowsApart' /\ FilesStand
  BY <1>u, <1>5, FilesStayDated DEF Whereabouts, DatesKnown
<1>8. ChunksApart' /\ BatchesLogged'
  BY <1>3, ChunksStayApart, ChunksStayLogged
<1>9. FlushedAreFiles'
  <2> SUFFICES ASSUME NEW d \in DOMAIN chunks', chunks'[d].state = "flushed"
               PROVE  /\ chunks'[d].batch \in DOMAIN files
                      /\ content[chunks'[d].batch] = chunks'[d].seqs
                      /\ chunks'[d].at # 0
                      /\ chunks'[d].at = files[chunks'[d].batch].valid_from
    BY <1>u DEF FlushedAreFiles
  <2> QED BY <1>a, <1>3 DEF FlushedAreFiles
<1>10. UnflushedAreNot'
  <2> SUFFICES ASSUME NEW d \in DOMAIN chunks', chunks'[d].state # "flushed"
               PROVE  /\ chunks'[d].at = 0
                      /\ ~Finishing(d) =>
                             /\ chunks'[d].batch \notin DOMAIN files
                             /\ \A x \in DOMAIN files : \A p \in content[x] : p \notin chunks'[d].seqs
    BY <1>u DEF UnflushedAreNot, Finishing
  <2> QED BY <1>a, <1>3 DEF UnflushedAreNot
<1>11. FlushOfChunk'
  <2> SUFFICES ASSUME flush # NoFlush
               PROVE  \E c \in DOMAIN chunks' :
                          /\ flush.chunk = {c} /\ chunks'[c].state = "sealed"
                          /\ chunks'[c].batch = flush.batch /\ chunks'[c].seqs = flush.rows
                          /\ \A d \in DOMAIN chunks' : chunks'[d].batch = flush.batch => d = c
    BY <1>u DEF FlushOfChunk
  <2>1. PICK c \in DOMAIN chunks :
            /\ flush.chunk = {c} /\ chunks[c].state = "sealed"
            /\ chunks[c].batch = flush.batch /\ chunks[c].seqs = flush.rows
            /\ \A d \in DOMAIN chunks : chunks[d].batch = flush.batch => d = c
    BY <1>a, <1>u DEF FlushOfChunk
  <2>2. c \in DOMAIN chunks' /\ chunks'[c] = chunks[c]
    BY <1>1, <1>3, <2>1
  <2>3. \A d \in DOMAIN chunks' : chunks'[d].batch = flush.batch => d = c
    BY <1>3, <2>1
  <2> QED BY <2>1, <2>2, <2>3
<1>12. FlushFiled'
  BY <1>a, <1>u DEF FlushFiled
<1>13. RowsOfGroup'
  <2>1. flush' = NoFlush \/ (flush # NoFlush /\ flush'.batch = flush.batch /\ flush'.rows = flush.rows)
    BY <1>u
  <2> QED BY <1>u, <2>1, RowsStayOfGroup
<1>14. Homes'
  <2>1. ASSUME NEW c \in DOMAIN chunks, NEW p \in chunks[c].seqs
        PROVE  \/ \E d \in DOMAIN chunks' : p \in chunks'[d].seqs
               \/ \E b \in DOMAIN files' : p \in content'[b] /\ files'[b].valid_from <= released'
    <3>1. CASE c \in out
      <4>1. PICK b : b = chunks[c].batch
        OBVIOUS
      <4>2. b \in DOMAIN files /\ content[b] = chunks[c].seqs /\ files[b].valid_from = chunks[c].at
        BY <1>a, <1>1, <3>1, <4>1 DEF FlushedAreFiles
      <4> QED BY <1>u, <1>6, <2>1, <3>1, <4>2
    <3>2. CASE c \notin out
      BY <1>3, <2>1, <3>2
    <3> QED BY <3>1, <3>2
  <2> QED BY <1>u, <1>5, <1>6, <1>7, <2>1, HomesStay
<1>15. FiledAreRead'
  BY <1>u, FiledStayRead DEF Account, SeqsRead
<1>16. RangesApart' /\ ReadAgain'
  BY <1>u, UpIsUp
<1> QED BY <1>7, <1>8, <1>9, <1>10, <1>11, <1>12, <1>13, <1>14, <1>15, <1>16 DEF Whereabouts

-----------------------------------------------------------------------------
(* Crash and recovery. *)

\* Of two batches with a write in common the log shows that one was tried again.
LEMMA RangesApartAfterCrash ==
    ASSUME Watched, ~Retried, wal' = wal
    PROVE  RangesApart'
<1> USE DEF Watched, Ready
<1> SUFFICES ASSUME NEW q \in DOMAIN wal, NEW r \in DOMAIN wal, NEW b \in Batches, NEW d \in Batches,
                    PendingAt(q, b), PendingAt(r, d), ~Aborted(b), ~Aborted(d),
                    wal[q].group = wal[r].group, wal[q].lo < wal[r].hi, wal[r].lo < wal[q].hi
             PROVE  b = d
  BY DEF RangesApart, PendingAt, Aborted
<1>1. b \in BatchesIn(OnDisk) /\ d \in BatchesIn(OnDisk)
  BY KnownBatch DEF BatchesIn
<1>2. /\ BatchRange(b).lo = wal[q].lo /\ BatchRange(b).hi = wal[q].hi
      /\ BatchRange(b).group = wal[q].group
  BY RangeOfBatch
<1>3. /\ BatchRange(d).lo = wal[r].lo /\ BatchRange(d).hi = wal[r].hi
      /\ BatchRange(d).group = wal[r].group
  BY RangeOfBatch
<1>4. Overlapping(b, d)
  BY <1>2, <1>3 DEF Overlapping, BatchRange
<1> QED BY <1>1, <1>4 DEF Retried

LEMMA CrashWhereabouts == ASSUME Watched, Crash PROVE Whereabouts'
<1> USE DEF Watched, Ready
<1>u. /\ UNCHANGED <<wal, content, booted>> /\ mode' = "reindex" /\ read' = 1
      /\ DOMAIN chunks' = {} /\ flush' = NoFlush /\ released' = 0
  BY DEF Crash, logVars, Nothing
<1>1. \/ files' = files /\ snapshot_version' = snapshot_version
      \/ DOMAIN files' = {}
  BY DEF Crash, CatalogLost, catalogVars, dataVars, counters, Nothing
<1>2. DatesKnown'
  BY <1>u DEF Whereabouts, DatesKnown
<1>3. FilesDated' /\ RowsApart'
  <2>1. CASE files' = files /\ snapshot_version' = snapshot_version
    BY <1>u, <2>1, FilesStayDated
  <2>2. CASE DOMAIN files' = {}
    BY <2>2 DEF FilesDated, RowsApart
  <2> QED BY <1>1, <2>1, <2>2
<1>4. FlushFiled' /\ RowsOfGroup'
  BY <1>u, NoFlushFiled, RowsStayOfGroup
<1>5. ~Retried
  BY DEF Crash, Spotless
<1>6. RangesApart'
  BY <1>u, <1>5, RangesApartAfterCrash
<1>7. mode' # "up" /\ ReadAgain'
  BY <1>u DEF ReadAgain
<1> QED BY <1>u, <1>2, <1>3, <1>4, <1>6, <1>7, DownWhereabouts

LEMMA ReindexWhereabouts == ASSUME Watched, NEW k, Reindex(k) PROVE Whereabouts'
<1>1. /\ UNCHANGED <<wal, content, chunks, flush, mode, claims, read, todo, released, booted>>
      /\ RecordIdempotency(k, NoBatch, 0)
  BY DEF Reindex, RecoveryOnly
<1>2. UNCHANGED <<files, snapshot_version>>
  BY <1>1 DEF RecordIdempotency, dataVars, counters
<1> QED BY <1>1, <1>2, CalmWhereabouts

LEMMA ResumeWhereabouts == ASSUME Watched, Resume PROVE Whereabouts'
<1> USE DEF Watched, Ready
<1>u. /\ UNCHANGED <<wal, content, files, snapshot_version, chunks, flush, read, released, booted>>
      /\ mode = "reindex" /\ mode' = "resume"
  BY DEF Resume, RecoveryOnly, catalogVars, dataVars, counters
<1>0. DOMAIN chunks' = {} /\ flush' = NoFlush /\ mode' # "up"
  BY <1>u DEF Account, Phases
<1>1. DatesKnown' /\ FilesDated' /\ RowsApart'
  BY <1>u, FilesStayDated DEF Whereabouts, DatesKnown
<1>2. FlushFiled' /\ RowsOfGroup'
  BY <1>0, <1>u, NoFlushFiled, RowsStayOfGroup
<1>3. RangesApart' /\ ReadAgain'
  BY <1>u DEF Whereabouts, RangesApart, ReadAgain, PendingAt, Aborted
<1> QED BY <1>0, <1>1, <1>2, <1>3, DownWhereabouts

LEMMA RecommitWhereabouts == ASSUME Watched, NEW b \in todo, Recommit(b) PROVE Whereabouts'
<1> USE DEF Watched, Ready
<1>p. /\ mode = "resume" /\ flush = NoFlush /\ DOMAIN chunks = {} /\ b \in Batches /\ ~Aborted(b)
      /\ \E q \in DOMAIN wal : PendingAt(q, b) /\ BatchRange(b) = wal[q]
  BY RecoveryTurn DEF Recommit
<1>0. PICK q \in DOMAIN wal : PendingAt(q, b) /\ BatchRange(b) = wal[q]
  BY <1>p
<1>1. PICK K, rows : K = KeysIn(wal[q].lo, wal[q].hi) /\ rows = Cardinality(content[b])
  OBVIOUS
<1>u. /\ UNCHANGED <<wal, content, mode, flush, read, chunks, released, booted>>
      /\ CommitBatch(b, rows, K)
      /\ StatusIn(OnDisk, b) \in {"s3written", "committed"}
  BY <1>0, <1>1, Zenon DEF Recommit, RecoveryOnly
<1>2. Landed(b)
  BY <1>0, <1>u, StatusLanded DEF Shapes
<1>3. b \in DOMAIN content
  BY <1>p, <1>2 DEF Body, LandedHasObject
<1>4. mode # "up" /\ mode' # "up" /\ DOMAIN chunks' = {} /\ flush' = NoFlush
  BY <1>p, <1>u
<1>5. DatesKnown' /\ FilesDated' /\ RowsApart'
  BY <1>p, <1>0, <1>1, <1>u, <1>3, <1>4, CommitDown DEF Whereabouts, DatesKnown
<1>6. FlushFiled' /\ RowsOfGroup'
  BY <1>4, <1>u, NoFlushFiled, RowsStayOfGroup
<1>7. RangesApart' /\ ReadAgain'
  BY <1>u, RecoveryStays
<1> QED BY <1>4, <1>5, <1>6, <1>7, DownWhereabouts

\* The batch is announced again, with the range it had.
LEMMA RedoWhereabouts == ASSUME Watched, NEW b \in todo, Redo(b) PROVE Whereabouts'
<1> USE DEF Watched, Ready
<1>p. /\ mode = "resume" /\ flush = NoFlush /\ DOMAIN chunks = {} /\ b \in Batches /\ ~Aborted(b)
      /\ \E q \in DOMAIN wal : PendingAt(q, b) /\ BatchRange(b) = wal[q]
  BY RecoveryTurn DEF Redo
<1>0. PICK q0 \in DOMAIN wal : PendingAt(q0, b) /\ BatchRange(b) = wal[q0]
  BY <1>p
<1>1. PICK g, lo, hi, rows :
          g = wal[q0].group /\ lo = wal[q0].lo /\ hi = wal[q0].hi /\ rows = RedoRows(b)
  OBVIOUS
<1>2. PICK r : r = PendingRecord(b, g, lo, hi)
  OBVIOUS
<1>u. /\ UNCHANGED <<content, files, snapshot_version, mode, read, chunks, released, booted>>
      /\ wal' = Append(wal, r) /\ flush' = Flushing(b, {}, lo, hi, rows)
      /\ StatusIn(OnDisk, b) = "pending"
      /\ \A p \in rows : GroupAt(p) = g
  <2>1. /\ catalogVars' = catalogVars
        /\ UNCHANGED <<content, mode, read, chunks, released, booted>>
        /\ wal' = Append(wal, r) /\ flush' = Flushing(b, {}, lo, hi, rows)
        /\ StatusIn(OnDisk, b) = "pending"
        /\ trouble' = IF \E p \in rows : GroupAt(p) # g THEN trouble \cup {"foreign"} ELSE trouble
    BY <1>0, <1>1, <1>2, Zenon DEF Redo, RecoveryOnly
  <2>2. UNCHANGED <<files, snapshot_version>>
    BY <2>1 DEF catalogVars, dataVars, counters
  <2>3. \A p \in rows : GroupAt(p) = g
    BY <2>1 DEF Spotless
  <2> QED BY <2>1, <2>2, <2>3
<1>3. r \in LogRecord
  <2>1. PendingAt(LastPending(OnDisk, b), b)
    BY TodoRange
  <2>2. PendingRecord(b, BatchRange(b).group, BatchRange(b).lo, BatchRange(b).hi) \in LogRecord
    BY <2>1, RedoShapes
  <2> QED BY <1>0, <1>1, <1>2, <2>2
<1>4. r.kind = "pending" /\ r.batch = b /\ r.lo = lo /\ r.hi = hi /\ r.group = g
  BY <1>2 DEF PendingRecord
<1>5. \A q \in DOMAIN wal' \ DOMAIN wal : wal'[q] = r
  BY <1>u, <1>3, NewRecord DEF Shapes
<1>6. b \notin DOMAIN content
  <2>1. ~Landed(b)
    BY <1>0, <1>u, PendingNotLanded DEF Shapes, Body
  <2> QED BY <2>1 DEF Account, ObjectsLanded
<1>7. /\ flush'.batch = b /\ flush'.pc = "announce" /\ flush'.rows = rows
  BY <1>u DEF Flushing
<1>8. /\ mode # "up" /\ mode' # "up" /\ DOMAIN chunks' = {}
  BY <1>p, <1>u
<1>9. ASSUME NEW q \in DOMAIN wal', NEW x, PendingAt(q, x)'
      PROVE  \E h \in DOMAIN wal :
                 /\ PendingAt(h, x) /\ wal[h].group = wal'[q].group
                 /\ wal[h].lo = wal'[q].lo /\ wal[h].hi = wal'[q].hi
  <2>1. CASE q \in DOMAIN wal
    <3>1. wal'[q] = wal[q]
      BY <2>1 DEF Grows
    <3> QED BY <1>9, <2>1, <3>1 DEF PendingAt
  <2>2. CASE q \notin DOMAIN wal
    <3>1. wal'[q] = r
      BY <1>5, <2>2
    <3>2. x = b
      BY <1>4, <1>9, <3>1 DEF PendingAt
    <3> QED BY <1>0, <1>1, <1>4, <3>1, <3>2
  <2> QED BY <2>1, <2>2
<1>10. DatesKnown' /\ FilesDated' /\ RowsApart'
  BY <1>u, FilesStayDated DEF Whereabouts, DatesKnown
<1>11. FlushFiled'
  BY <1>7, <1>8 DEF FlushFiled
<1>12. RowsOfGroup'
  <2>1. ASSUME NEW x \in DOMAIN content, NEW q \in DOMAIN wal', PendingAt(q, x)', NEW p \in content[x]
        PROVE  GroupAt(p)' = wal'[q].group
    <3>1. PICK h \in DOMAIN wal : PendingAt(h, x) /\ wal[h].group = wal'[q].group
      BY <1>9, <2>1
    <3>2. GroupAt(p)' = GroupAt(p)
      BY ObjectRowsLogged, LoggedGrows
    <3> QED BY <3>1, <3>2 DEF Whereabouts, RowsOfGroup
  <2>2. ASSUME NEW q \in DOMAIN wal', PendingAt(q, b)', NEW p \in rows
        PROVE  GroupAt(p)' = wal'[q].group
    <3>1. PICK h \in DOMAIN wal : PendingAt(h, b) /\ wal[h].group = wal'[q].group
      BY <1>9, <2>2
    <3>2. wal[h].group = g
      BY <1>0, <1>1, <3>1 DEF Body, OneRange, PendingAt
    <3>3. p \in Logged
      BY <1>1, <2>2 DEF RedoRows, DataIn, OnDisk, Logged, Positions
    <3> QED BY <1>u, <2>2, <3>1, <3>2, <3>3, LoggedGrows
  <2>3. ASSUME NEW q \in DOMAIN wal', PendingAt(q, flush.batch)', NEW p \in flush'.rows
        PROVE  GroupAt(p)' = wal'[q].group
    <3>1. PendingAt(q, b)'
      BY <1>7, <2>3 DEF PendingAt
    <3> QED BY <1>7, <2>2, <2>3, <3>1
  <2> QED BY <1>u, <2>1, <2>3 DEF RowsOfGroup
<1>13. RangesApart'
  <2> SUFFICES ASSUME NEW q \in DOMAIN wal', NEW h \in DOMAIN wal', NEW x \in Batches, NEW y \in Batches,
                      PendingAt(q, x)', PendingAt(h, y)', ~Aborted(x)', ~Aborted(y)',
                      wal'[q].group = wal'[h].group, wal'[q].lo < wal'[h].hi, wal'[h].lo < wal'[q].hi
               PROVE  x = y
    BY DEF RangesApart
  <2>1. ~Aborted(x) /\ ~Aborted(y)
    BY LoggedGrows DEF Aborted, Grows
  <2>2. PICK q1 \in DOMAIN wal : /\ PendingAt(q1, x) /\ wal[q1].group = wal'[q].group
                                 /\ wal[q1].lo = wal'[q].lo /\ wal[q1].hi = wal'[q].hi
    BY <1>9
  <2>3. PICK h1 \in DOMAIN wal : /\ PendingAt(h1, y) /\ wal[h1].group = wal'[h].group
                                 /\ wal[h1].lo = wal'[h].lo /\ wal[h1].hi = wal'[h].hi
    BY <1>9
  <2> QED BY <1>8, <2>1, <2>2, <2>3 DEF Whereabouts, RangesApart
<1>14. ReadAgain'
  BY <1>u DEF Whereabouts, ReadAgain
<1> QED BY <1>8, <1>10, <1>11, <1>12, <1>13, <1>14, DownWhereabouts

\* The node serves: what recovery claimed is in files that all readers have.
LEMMA ServeWhereabouts == ASSUME Watched, Serve PROVE Whereabouts'
<1> USE DEF Watched, Ready
<1>u. /\ UNCHANGED <<wal, content, files, snapshot_version, chunks, claims, flush, read, released, todo>>
      /\ mode = "resume" /\ mode' = "up" /\ todo = {} /\ flush.pc = "none"
      /\ booted'.snapshot = snapshot_version
  BY DEF Serve, RecoveryOnly, catalogVars, dataVars, counters
<1>0. flush = NoFlush /\ flush' = NoFlush /\ DOMAIN chunks = {} /\ DOMAIN chunks' = {} /\ read = 1
  BY <1>u, NoFlushIdle DEF Account, Phases, Whereabouts, ReadAgain
<1>1. FilesDated' /\ RowsApart'
  BY <1>u, FilesStayDated
<1>2. DatesKnown'
  BY <1>u DEF Whereabouts, DatesKnown, Shapes
<1>3. ChunksApart' /\ FlushedAreFiles' /\ UnflushedAreNot' /\ BatchesLogged'
  BY <1>0 DEF ChunksApart, FlushedAreFiles, UnflushedAreNot, BatchesLogged
<1>4. FlushOfChunk' /\ FlushFiled' /\ RowsOfGroup'
  BY <1>0, <1>u, NoFlushFiled, RowsStayOfGroup
<1>5. RangesApart' /\ ReadAgain'
  BY <1>u, UpIsUp
<1>6. Homes'
  <2> SUFFICES ASSUME NEW p \in Logged'
               PROVE  /\ Claimed(p)' =>
                             \E b \in DOMAIN files :
                                 p \in content[b] /\ files[b].valid_from <= snapshot_version
                      /\ ~(p < 1)
    BY <1>u, <1>0 DEF Homes
  <2>1. ~(p < 1)
    BY DEF Logged, Positions, Shapes
  <2>2. ASSUME Claimed(p)'
        PROVE  \E b \in DOMAIN files : p \in content[b] /\ files[b].valid_from <= snapshot_version
    <3>1. HousedAsClaimed(p)'
      BY <1>u, <2>2 DEF Account, ClaimsHoused
    <3>2. PICK q \in DOMAIN wal', b \in Batches : Houses(q, b, p)'
      BY <3>1 DEF HousedAsClaimed
    <3>3. b \in DOMAIN files /\ p \in content[b]
      BY <1>u, <3>2 DEF Houses
    <3> QED BY <3>3 DEF Whereabouts, FilesDated
  <2> QED BY <2>1, <2>2
<1>7. FiledAreRead'
  <2> SUFFICES ASSUME NEW b \in DOMAIN files, NEW p \in content[b] PROVE Claimed(p)
    BY <1>u DEF FiledAreRead, Claimed, GroupAt, ItemAt
  <2>1. p \in Logged /\ b \in DOMAIN content /\ b \in Batches
    BY FileRowsLogged
  <2>2. ~Aborted(b)
    BY <2>1 DEF Account, NoneAborted
  <2>3. PICK q \in DOMAIN wal : PendingAt(q, b)
    BY <2>1 DEF Body, ObjectsInRange
  <2>4. ClaimOf(q) \in claims
    BY <1>u, <2>1, <2>2, <2>3 DEF Account, Resumed
  <2>5. wal[q].lo <= p /\ p < wal[q].hi
    BY <2>1, <2>3 DEF Body, ObjectsInRange, RowsBetween
  <2>6. GroupAt(p) = wal[q].group
    BY <2>1, <2>3 DEF Whereabouts, RowsOfGroup
  <2> QED BY <2>4, <2>5, <2>6 DEF Claimed, ClaimOf
<1> QED BY <1>1, <1>2, <1>3, <1>4, <1>5, <1>6, <1>7 DEF Whereabouts

LEMMA RecoveryWhereabouts == ASSUME Watched, RecoveryStep PROVE Whereabouts'
<1>1. \A b \in todo : ~GiveUp(b)
  BY NoGiveUp DEF Watched
<1> QED BY <1>1, ReindexWhereabouts, ResumeWhereabouts, ServeWhereabouts, RecommitWhereabouts,
           RedoWhereabouts
        DEF RecoveryStep

LEMMA StutterWhereabouts == ASSUME Watched, UNCHANGED vars PROVE Whereabouts'
<1>1. UNCHANGED <<wal, files, content, snapshot_version, chunks, flush, mode, claims, read, todo,
                  released, booted>>
  BY DEF vars, logVars, procVars, catalogVars, dataVars, counters
<1> QED BY <1>1, CalmWhereabouts

-----------------------------------------------------------------------------
(* Every write absorbed is read once. *)

LEMMA RInvHoldsAtFirst == ASSUME Init PROVE RInv
<1>1. AInv
  BY AInvHoldsAtFirst
<1>2. /\ wal = << >> /\ content = Nothing /\ files = Nothing /\ chunks = Nothing
      /\ mode = "up" /\ claims = {} /\ read = 1 /\ flush = NoFlush
      /\ released = 0 /\ booted.snapshot = 1
  BY DEF Init
<1>3. DOMAIN wal = {} /\ DOMAIN content = {} /\ DOMAIN files = {} /\ DOMAIN chunks = {}
  BY <1>2 DEF Nothing
<1>4. DatesKnown /\ FilesDated /\ RowsApart
  BY <1>2, <1>3 DEF DatesKnown, FilesDated, RowsApart
<1>5. ChunksApart /\ FlushedAreFiles /\ UnflushedAreNot /\ BatchesLogged
  BY <1>3 DEF ChunksApart, FlushedAreFiles, UnflushedAreNot, BatchesLogged
<1>6. FlushOfChunk /\ FlushFiled /\ RowsOfGroup
  BY <1>2, <1>3 DEF FlushOfChunk, FlushFiled, RowsOfGroup
<1>7. Homes /\ FiledAreRead
  BY <1>3 DEF Homes, FiledAreRead, Logged, Positions
<1>8. RangesApart /\ ReadAgain
  BY <1>2 DEF RangesApart, ReadAgain
<1> QED BY <1>1, <1>4, <1>5, <1>6, <1>7, <1>8 DEF RInv, Whereabouts

LEMMA RInvIsKept == ASSUME RInv, [Next]_vars PROVE RInv'
<1>0. AInv /\ AInv'
  BY AInvIsKept DEF RInv
<1>1. KInv /\ KInv'
  BY <1>0 DEF AInv
<1>2. ASSUME Spotless' PROVE Whereabouts'
  <2>1. gone \subseteq gone' /\ trouble \subseteq trouble' /\ (gone' # gone => "segment" \in trouble')
    BY GoneIsTrouble
  <2>2. gone' = {} /\ gone = {}
    BY <1>1, <1>2, <2>1 DEF KInv, Spotless
  <2>3. Shapes /\ Body /\ Shapes' /\ Body'
    BY <1>1, <2>2 DEF KInv
  <2>4. Grows
    BY <2>3, NextGrows DEF Shapes
  <2>5. Spotless /\ Clean /\ Clean'
    BY <1>2, <2>1, <2>4, SpotlessLasts
  <2>6. Watched
    BY <1>0, <1>2, <2>2, <2>3, <2>4, <2>5 DEF Watched, Ready, AInv, RInv
  <2>7. CASE ClientStep
    BY <2>6, <2>7, ClientWhereabouts DEF ClientStep
  <2>8. CASE AccumulatorStep
    BY <2>6, <2>8, AccumulatorWhereabouts
  <2>9. CASE FlushStep
    BY <2>6, <2>9, FlushWhereabouts
  <2>10. CASE ReclaimStep
    BY <2>6, <2>10, ReclaimWhereabouts DEF ReclaimStep
  <2>11. CASE MonitorStep
    <3>1. ~ \E n \in 0..Len(wal) : RemoveSegment(n)
      BY <1>2 DEF RemoveSegment, Spotless
    <3> QED BY <2>6, <2>11, <3>1, AbortWhereabouts DEF MonitorStep
  <2>12. CASE Crash
    BY <2>6, <2>12, CrashWhereabouts
  <2>13. CASE RecoveryStep
    BY <2>6, <2>13, RecoveryWhereabouts
  <2>14. CASE UNCHANGED vars
    BY <2>6, <2>14, StutterWhereabouts
  <2> QED BY <2>7, <2>8, <2>9, <2>10, <2>11, <2>12, <2>13, <2>14 DEF Next
<1> QED BY <1>0, <1>2 DEF RInv

\* A chunk is a file, or no file has its rows.
LEMMA ChunkOrFile ==
    ASSUME Whereabouts, mode = "up", NEW c \in DOMAIN chunks
    PROVE  \/ /\ chunks[c].batch \in DOMAIN files /\ content[chunks[c].batch] = chunks[c].seqs
              /\ chunks[c].at = 0 \/ chunks[c].at = files[chunks[c].batch].valid_from
           \/ /\ chunks[c].at = 0 /\ chunks[c].batch \notin DOMAIN files
              /\ \A b \in DOMAIN files : \A p \in content[b] : p \notin chunks[c].seqs
<1>1. CASE chunks[c].state = "flushed"
  BY <1>1 DEF Whereabouts, FlushedAreFiles
<1>2. CASE chunks[c].state # "flushed" /\ ~Finishing(c)
  BY <1>2 DEF Whereabouts, UnflushedAreNot
<1>3. CASE chunks[c].state # "flushed" /\ Finishing(c)
  <2>1. flush # NoFlush /\ flush.pc = "finish" /\ c \in flush.chunk
    BY <1>3 DEF Finishing
  <2>2. PICK d \in DOMAIN chunks :
            /\ flush.chunk = {d} /\ chunks[d].batch = flush.batch /\ chunks[d].seqs = flush.rows
    BY <2>1 DEF Whereabouts, FlushOfChunk
  <2>3. c = d
    BY <2>1, <2>2
  <2>4. flush.batch \in DOMAIN files /\ content[flush.batch] = flush.rows
    BY <2>1 DEF Whereabouts, FlushFiled
  <2>5. chunks[c].at = 0
    BY <1>3 DEF Whereabouts, UnflushedAreNot
  <2> QED BY <2>2, <2>3, <2>4, <2>5
<1> QED BY <1>1, <1>2, <1>3

\* What a reader sees of the files.
LEMMA SeenFiles ==
    ASSUME FilesDated, NEW s, NEW b
    PROVE  b \in VisibleFiles(T, s) <=> b \in DOMAIN files /\ files[b].valid_from <= s
  BY DEF FilesDated, VisibleFiles, VisibleAt, ProtectsAt

LEMMA OneCopy ==
    ASSUME Shapes, Account, Whereabouts, mode = "up", NEW p \in Logged, p < read,
           NEW s \in Int, released <= s, booted.snapshot <= s
    PROVE  Copies(p, s) = 1
<1>a. Homes /\ RowsApart /\ ChunksApart /\ FilesDated /\ DatesKnown
  BY DEF Whereabouts
<1>1. PICK V, C : /\ V = {b \in VisibleFiles(T, s) : p \in content[b]}
                  /\ C = {c \in DOMAIN chunks : p \in chunks[c].seqs /\ VisibleChunk(c, s)}
  OBVIOUS
<1>2. Copies(p, s) = Cardinality(V) + Cardinality(C)
  BY <1>1 DEF Copies
<1>3. \A b : b \in V <=> b \in DOMAIN files /\ files[b].valid_from <= s /\ p \in content[b]
  BY <1>1, <1>a, SeenFiles
<1>4. ASSUME NEW b \in DOMAIN files, p \in content[b], files[b].valid_from <= s
      PROVE  Copies(p, s) = 1
  <2>1. V = {b}
    BY <1>3, <1>a, <1>4 DEF RowsApart
  <2>2. ASSUME NEW c \in DOMAIN chunks, p \in chunks[c].seqs PROVE ~VisibleChunk(c, s)
    <3>1. chunks[c].batch \in DOMAIN files /\ content[chunks[c].batch] = chunks[c].seqs
      BY <1>4, <2>2, ChunkOrFile
    <3>2. chunks[c].batch = b
      BY <1>a, <1>4, <2>2, <3>1 DEF RowsApart
    <3>3. b \in VisibleFiles(T, s)
      BY <1>a, <1>4, SeenFiles
    <3> QED BY <3>2, <3>3 DEF VisibleChunk
  <2>3. C = {}
    BY <1>1, <2>2
  <2>4. Cardinality(V) = 1 /\ Cardinality(C) = 0
    BY <2>1, <2>3, FS_Singleton, FS_EmptySet
  <2> QED BY <1>2, <2>4
<1>5. ASSUME \A b \in DOMAIN files : p \in content[b] => ~(files[b].valid_from <= s)
      PROVE  Copies(p, s) = 1
  <2>1. V = {}
    BY <1>3, <1>5
  <2>2. ASSUME NEW b \in DOMAIN files, NEW x \in Nat, files[b].valid_from <= x, x <= s
        PROVE  files[b].valid_from <= s
    BY <1>a, <2>2 DEF FilesDated
  <2>3. released \in Nat /\ booted.snapshot \in Nat
    BY <1>a DEF DatesKnown
  <2>4. ~Claimed(p)
    BY <1>a, <1>5, <2>2, <2>3 DEF Homes
  <2>5. PICK c \in DOMAIN chunks : p \in chunks[c].seqs
    BY <1>a, <1>5, <2>2, <2>3, <2>4 DEF Homes
  <2>6. VisibleChunk(c, s)
    <3>1. CASE /\ chunks[c].batch \in DOMAIN files /\ content[chunks[c].batch] = chunks[c].seqs
               /\ chunks[c].at = 0 \/ chunks[c].at = files[chunks[c].batch].valid_from
      <4>1. ~(files[chunks[c].batch].valid_from <= s)
        BY <1>5, <2>5, <3>1
      <4>2. chunks[c].batch \notin VisibleFiles(T, s)
        BY <1>a, <4>1, SeenFiles
      <4>3. files[chunks[c].batch].valid_from \in Nat
        BY <1>a, <3>1 DEF FilesDated
      <4>4. chunks[c].at = 0 \/ s < chunks[c].at
        BY <3>1, <4>1, <4>3
      <4> QED BY <4>2, <4>4 DEF VisibleChunk
    <3>2. CASE chunks[c].at = 0 /\ chunks[c].batch \notin DOMAIN files
      <4>1. chunks[c].batch \notin VisibleFiles(T, s)
        BY <1>a, <3>2, SeenFiles
      <4> QED BY <3>2, <4>1 DEF VisibleChunk
    <3> QED BY <3>1, <3>2, ChunkOrFile
  <2>7. C = {c}
    BY <1>1, <1>a, <2>5, <2>6 DEF ChunksApart
  <2>8. Cardinality(V) = 0 /\ Cardinality(C) = 1
    BY <2>1, <2>7, FS_Singleton, FS_EmptySet
  <2> QED BY <1>2, <2>8
<1> QED BY <1>4, <1>5

LEMMA RInvReadsOnce == ASSUME RInv PROVE ReadOnce
<1> SUFFICES ASSUME mode = "up", Spotless,
                    NEW s \in Max({released, booted.snapshot})..snapshot_version,
                    NEW p \in Logged, p < read
             PROVE  Copies(p, s) = 1
  BY DEF ReadOnce, Spotless
<1>1. Whereabouts /\ Clean
  BY DEF RInv, Spotless, Clean
<1>2. gone = {} /\ Shapes /\ Account
  BY <1>1 DEF RInv, AInv, KInv, Spotless
<1>3. released \in Nat /\ booted.snapshot \in Nat
  BY <1>1 DEF Whereabouts, DatesKnown
<1>4. PICK X : X = {released, booted.snapshot}
  OBVIOUS
<1>5. PICK n \in Nat : released <= n /\ booted.snapshot <= n
  BY <1>3
<1>6. X \subseteq 0..n /\ X # {}
  BY <1>3, <1>4, <1>5
<1>7. Max(X) \in X /\ \A x \in X : x <= Max(X)
  BY <1>5, <1>6, MaxIsGreatest
<1>8. PICK m : m = Max(X)
  OBVIOUS
<1>9. m \in Nat /\ released <= m /\ booted.snapshot <= m
  BY <1>3, <1>4, <1>7, <1>8
<1>10. s \in Int /\ m <= s
  BY <1>4, <1>8, <1>9
<1>11. released <= s /\ booted.snapshot <= s
  BY <1>3, <1>9, <1>10
<1> QED BY <1>1, <1>2, <1>10, <1>11, OneCopy

\* A query finds every write absorbed once, in a chunk or in a file, at every
\* snapshot that is not stale: for any writes, batches, crashes and faults, as
\* long as nothing in trouble has happened, no key is logged twice and no batch
\* takes the key of another group's write.
THEOREM AbsorbedIsReadOnce == Spec => []ReadOnce
<1>1. Init => RInv
  BY RInvHoldsAtFirst
<1>2. RInv /\ [Next]_vars => RInv'
  BY RInvIsKept
<1>3. RInv => ReadOnce
  BY RInvReadsOnce
<1> QED BY <1>1, <1>2, <1>3, PTL DEF Spec
=============================================================================
