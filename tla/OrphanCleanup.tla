--------------------------- MODULE OrphanCleanup ----------------------------
(***************************************************************************)
(* Objects and the files of the catalog: whoever writes a file uploads the *)
(* object first and commits it later, and a collector deletes the objects  *)
(* nobody will read (compaction/src/lib.rs orphan_cleanup_round).          *)
(*                                                                         *)
(* Writers: flushes (ingest/src/flush.rs), which announce a batch before   *)
(* its upload and are taken up again from the WAL; merges, which announce  *)
(* too; DELETE and UPDATE statements (sql/src/dml.rs), whose vectors and   *)
(* new files are not announced.  Any of them may die between two steps.    *)
(* A collector lists the objects, asks what is known, then what vectors    *)
(* are referenced, and deletes what it has seen unprotected for `Grace'.   *)
(*                                                                         *)
(* Two deployments.  With the catalog in the process (MemoryCatalog), it   *)
(* answers for the files it shows and the announcements, which nobody      *)
(* sweeps.  With metanodes the collector asks the copy of its own node     *)
(* (RemoteCatalog): every file it has heard of, retired or not, and no     *)
(* announcement; the copy may lag.                                         *)
(*                                                                         *)
(* Time is kept relative: it is always Now, and a tick makes every time    *)
(* stamp one older, until it is too old for any comparison to notice.      *)
(***************************************************************************)
EXTENDS Catalog, SequencesExt

CONSTANTS
    Collectors,          \* processes that run the loop
    Queries,             \* queries under way
    Grace, TTL,          \* orphan_grace; IN_FLIGHT_TTL_MS
    NoFile,              \* a DELETE writes no file
    Table, Shard,        \* the only ones here
    MaxFaults            \* bound: crashes and refusals

ASSUME CleanupAssumption ==
    /\ Grace \in Nat /\ TTL \in Nat \ {0}
    /\ NoFile \notin Batches
    /\ "data" \notin DvIds
    /\ Table \in Tables /\ Shard \in Shards
    /\ MaxFaults \in Nat

VARIABLES
    metanode,     \* whether the catalog is at metanodes, which nothing changes
    faults,
    objects,      \* what is in the store: <<batch, "data">>, <<anchor, statement>>
    job,          \* batch -> the flush or merge that writes it
    stmt,         \* statement -> how far it is, its anchor and its new file
    round,        \* collector -> the round it is in
    first_seen,   \* collector -> batch -> when it was first seen unprotected
    copy,         \* collector -> the files and vectors its node has heard of
    query,        \* query -> the snapshot it reads and since when
    born,         \* history: batch -> when its data object was first uploaded
    overdue,      \* history: batches found unknown `Grace' after they were born
    shared        \* history: protected batches left with an entry in first_seen

Now == Max({Grace, TTL})

storeVars == <<objects, job, stmt>>
gcVars == <<round, first_seen, copy, overdue, shared>>
vars == <<catalogVars, faults, storeVars, gcVars, query, born>>

Data(b) == <<b, "data">>

\* An object that is written again keeps its first date.
Bear(B) == born' = Over(born, [b \in B |-> Now])

Fault == faults < MaxFaults /\ faults' = faults + 1

Idle == [at |-> "none"]
Done == [at |-> "done", inputs |-> {}, keys |-> {}]
Unheard == [files |-> {}, deletions |-> {}]

-----------------------------------------------------------------------------
(* Flushes and merges. *)

Started == {d \in DvIds : stmt[d] # Idle}
NewFiles == {stmt[d].new : d \in Started}

Unused(b) == job[b] = Idle /\ b \notin NewFiles

BeginFlush(b, K) ==
    /\ Unused(b)
    /\ job' = [job EXCEPT ![b] = [at |-> "pending", inputs |-> {}, keys |-> K]]
    /\ UNCHANGED <<catalogVars, faults, objects, stmt, gcVars, query, born>>

\* The inputs are the files of the shard at the present snapshot; what
\* makes them worth merging, their number or their vectors, is left open.
BeginMerge(n) ==
    LET O == VisibleFiles(Table, snapshot_version) IN
    /\ Unused(n)
    /\ O # {}
    /\ job' = [job EXCEPT ![n] = [at |-> "pending", inputs |-> O, keys |-> {}]]
    /\ UNCHANGED <<catalogVars, faults, objects, stmt, gcVars, query, born>>

\* Slip: the upload comes first.
AnnounceLate(b) ==
    /\ job[b].at = "pending"
    /\ job' = [job EXCEPT ![b].at = "announced"]
    /\ UNCHANGED <<catalogVars, faults, objects, stmt, gcVars, query, born>>

\* An announcement that is there already stays as it is.
Announce(b) ==
    /\ job[b].at = "pending"
    /\ IF b \in DOMAIN in_flight THEN UNCHANGED catalogVars ELSE RecordInFlight(b, Now)
    /\ job' = [job EXCEPT ![b].at = "announced"]
    /\ UNCHANGED <<faults, objects, stmt, gcVars, query, born>>

Upload(b) ==
    /\ job[b].at = "announced"
    /\ objects' = objects \cup {Data(b)}
    /\ job' = [job EXCEPT ![b].at = "uploaded"]
    /\ Bear({b})
    /\ UNCHANGED <<catalogVars, faults, stmt, gcVars, query>>

\* A flush that has logged its upload is never uploaded again: a restart
\* commits it.  A merge commits straight after its upload.
LogUpload(b) ==
    /\ job[b].at = "uploaded"
    /\ job[b].inputs = {}
    /\ job' = [job EXCEPT ![b].at = "written"]
    /\ UNCHANGED <<catalogVars, faults, objects, stmt, gcVars, query, born>>

Commit(b) ==
    /\ job[b].at = "written"
    /\ \/ CommitFiles(b, Table, Shard, 1, job[b].keys, 0)
       \/ CommitDuplicate(b, job[b].keys)
    /\ job' = [job EXCEPT ![b] = Done]
    /\ UNCHANGED <<faults, objects, stmt, gcVars, query, born>>

\* A refused merge leaves its announcement to the sweep, if there is one.
CommitMerge(n) ==
    /\ job[n].at = "uploaded"
    /\ job[n].inputs # {}
    /\ IF \A b \in job[n].inputs : AnchorAlive(b)
       THEN CommitCompaction(job[n].inputs, n, Table, Shard, 1, 0, "compaction")
       ELSE UNCHANGED catalogVars
    /\ job' = [job EXCEPT ![n] = Done]
    /\ UNCHANGED <<faults, objects, stmt, gcVars, query, born>>

\* A step of the writer fails, or its process dies.  A merge is forgotten, a
\* flush left to the monitor, which gives it up; a restart redoes it from its
\* Pending record, unless the catalog has died with the process.
Die(b) ==
    /\ Fault
    /\ job[b].at \in {"pending", "announced", "uploaded"}
    /\ \/ metanode /\ job[b].inputs = {} /\ job' = [job EXCEPT ![b].at = "pending"]
       \/ job' = [job EXCEPT ![b] = Done]
    /\ UNCHANGED <<catalogVars, objects, stmt, gcVars, query, born>>

\* The leader's round over the announcements; nothing sweeps a catalog in
\* the process.
Sweep ==
    /\ metanode
    /\ SweepInFlight(TTL, Now)
    /\ UNCHANGED <<faults, storeVars, gcVars, query, born>>

-----------------------------------------------------------------------------
(* DELETE and UPDATE: objects, then the WAL, then the catalog. *)

BeginStatement(d, b, n) ==
    /\ stmt[d] = Idle
    /\ b \in VisibleFiles(Table, snapshot_version)
    /\ n # NoFile => Unused(n)
    /\ objects' = objects \cup {<<b, d>>} \cup {Data(f) : f \in {n} \ {NoFile}}
    /\ stmt' = [stmt EXCEPT ![d] = [at |-> "uploaded", anchor |-> b, new |-> n]]
    /\ Bear({n} \ {NoFile})
    /\ UNCHANGED <<catalogVars, faults, job, gcVars, query>>

LogStatement(d) ==
    /\ stmt[d].at = "uploaded"
    /\ stmt' = [stmt EXCEPT ![d].at = "logged"]
    /\ UNCHANGED <<catalogVars, faults, objects, job, gcVars, query, born>>

\* At once, or by the replay after a restart.
ApplyStatement(d) ==
    LET s == stmt[d] IN
    /\ s.at = "logged"
    /\ IF AnchorAlive(s.anchor)
       THEN IF s.new = NoFile
            THEN ApplyDeletions(d, Table, Entry(s.anchor, 1))
            ELSE ApplyUpdate(d, Table, Entry(s.anchor, 1),
                             Entry(s.new, [shard |-> Shard, rows |-> 1]), 0)
       ELSE UNCHANGED catalogVars
    /\ stmt' = [stmt EXCEPT ![d].at = "done"]
    /\ UNCHANGED <<faults, objects, job, gcVars, query, born>>

DieBeforeLog(d) ==
    /\ Fault
    /\ stmt[d].at = "uploaded"
    /\ stmt' = [stmt EXCEPT ![d].at = "done"]
    /\ UNCHANGED <<catalogVars, objects, job, gcVars, query, born>>

-----------------------------------------------------------------------------
(* The collector. *)

\* Slip: a tombstone protects for ever.
KnownEver(heard) == DOMAIN files \cup DOMAIN in_flight

KnownToCollector(heard) == IF metanode THEN heard.files ELSE KnownBatches

\* Revoked vectors too.
ReferencedVectors(heard) ==
    {<<k[2], k[1]>> : k \in IF metanode THEN heard.deletions ELSE DOMAIN deletions}

\* The replica that answers may lag, and have holes; nothing heard of is lost.
Refresh(g) ==
    IF metanode
    THEN \E F \in SUBSET DOMAIN files, D \in SUBSET DOMAIN deletions :
             copy' = [copy EXCEPT ![g].files = @ \cup F, ![g].deletions = @ \cup D]
    ELSE UNCHANGED copy

Listed(r) == {p[1] : p \in r.objects}

ListObjects(g) ==
    /\ round[g] = Idle
    /\ round' = [round EXCEPT ![g] = [at |-> "listed", objects |-> objects]]
    /\ UNCHANGED <<catalogVars, faults, storeVars, first_seen, copy, overdue, shared, query, born>>

AskKnown(g) ==
    /\ round[g].at = "listed"
    /\ UNCHANGED <<catalogVars, faults, storeVars, first_seen, overdue, shared, query, born>>
    /\ Refresh(g)
    /\ round' = [round EXCEPT ![g] =
           [at |-> "known", objects |-> round[g].objects, known |-> KnownToCollector(copy'[g])]]

\* The clock is read last, and settles which observations are old enough.
\* What is overdue then, the collector may take for garbage.
AskReferenced(g) ==
    LET r == round[g] IN
    /\ r.at = "known"
    /\ UNCHANGED <<catalogVars, faults, storeVars, first_seen, shared, query, born>>
    /\ Refresh(g)
    /\ round' = [round EXCEPT ![g] =
           [at |-> "judge", objects |-> r.objects, known |-> r.known,
            referenced |-> ReferencedVectors(copy'[g]), read |-> Now,
            old |-> {b \in DOMAIN first_seen[g] : Now - first_seen[g][b] >= Grace}]]
    /\ overdue' = overdue \cup
           {b \in Listed(r) \ r.known : b \in DOMAIN born /\ Now - born[b] >= Grace}

\* A vector needs its anchor and a reference, anything else its batch.
IsObjectProtected(p, r) ==
    /\ p[1] \in r.known
    /\ p = Data(p[1]) \/ p \in r.referenced

\* No observation is left; with no grace the next one is old at once.
Unseen(acc) == [acc EXCEPT !.at = -1, !.old = Grace = 0]

\* Slip: each sight is dated anew.
JudgeAfresh(acc, p, r, refused) ==
    IF IsObjectProtected(p, r) THEN Unseen(acc)
    ELSE IF acc.old /\ p \notin refused THEN [Unseen(acc) EXCEPT !.gone = @ \cup {p}]
    ELSE [acc EXCEPT !.at = r.read]

\* Slip: the first sight is enough.
JudgeAtOnce(acc, p, r, refused) ==
    IF IsObjectProtected(p, r) \/ p \in refused THEN Unseen(acc)
    ELSE [Unseen(acc) EXCEPT !.gone = @ \cup {p}]

\* The walk over the paths of one batch, the data file first.  They share
\* one observation: `at' is its time (-1 for none), `old' whether it is old
\* enough, `gone' what is deleted, unless the store refuses.
JudgePath(acc, p, r, refused) ==
    IF IsObjectProtected(p, r) THEN Unseen(acc)
    ELSE IF acc.old /\ p \notin refused THEN [Unseen(acc) EXCEPT !.gone = @ \cup {p}]
    ELSE [acc EXCEPT !.at = IF @ = -1 THEN r.read ELSE @]

PathsOf(b, r) ==
    (IF Data(b) \in r.objects THEN <<Data(b)>> ELSE <<>>)
        \o SetToSeq({p \in r.objects : p[1] = b /\ p # Data(b)})

Verdict(b, seen, r, refused) ==
    LET paths == PathsOf(b, r)
        walk[i \in 0..Len(paths)] ==
            IF i = 0
            THEN [at |-> IF b \in DOMAIN seen THEN seen[b] ELSE -1,
                  old |-> Grace = 0 \/ b \in r.old, gone |-> {}]
            ELSE JudgePath(walk[i - 1], paths[i], r, refused)
    IN walk[Len(paths)]

JudgeAndDelete(g, refused) ==
    LET r == round[g]
        verdict == [b \in Listed(r) |-> Verdict(b, first_seen[g], r, refused)]
        kept == {b \in Listed(r) : verdict[b].at # -1}
    IN
    /\ r.at = "judge"
    /\ objects' = objects \ UNION {verdict[b].gone : b \in Listed(r)}
    /\ first_seen' = [first_seen EXCEPT ![g] = [b \in kept |-> verdict[b].at]]
    /\ shared' = shared \cup {b \in kept : b \in r.known /\ Data(b) \in r.objects}
    /\ round' = [round EXCEPT ![g] = Idle]
    /\ UNCHANGED <<catalogVars, job, stmt, copy, overdue, query, born>>

\* A listing or a question that fails ends the round; nothing is deleted.
AbandonRound(g) ==
    /\ Fault
    /\ round[g].at \in {"listed", "known"}
    /\ round' = [round EXCEPT ![g] = Idle]
    /\ UNCHANGED <<catalogVars, storeVars, first_seen, copy, overdue, shared, query, born>>

\* Its node restarts; a catalog in the process would be lost with it.
RestartCollector(g) ==
    /\ metanode
    /\ Fault
    /\ round[g] # Idle \/ first_seen[g] # Nothing
    /\ round' = [round EXCEPT ![g] = Idle]
    /\ first_seen' = [first_seen EXCEPT ![g] = Nothing]
    /\ copy' = [copy EXCEPT ![g] = Unheard]
    /\ UNCHANGED <<catalogVars, storeVars, overdue, shared, query, born>>

-----------------------------------------------------------------------------
(* Queries and time. *)

BeginQuery(q) ==
    /\ query[q] = Idle
    /\ query' = [query EXCEPT ![q] =
           [at |-> "reading", snapshot |-> snapshot_version, since |-> Now]]
    /\ UNCHANGED <<catalogVars, faults, storeVars, gcVars, born>>

Older(f) == [x \in DOMAIN f |-> IF f[x] = 0 THEN 0 ELSE f[x] - 1]

Tick ==
    /\ in_flight' = Older(in_flight)
    /\ born' = Older(born)
    /\ first_seen' = [g \in Collectors |-> Older(first_seen[g])]
    /\ round' = [g \in Collectors |->
           IF round[g].at = "judge" /\ round[g].read > 0
           THEN [round[g] EXCEPT !.read = @ - 1] ELSE round[g]]
    /\ query' = [q \in Queries |->
           IF query[q] # Idle /\ query[q].since > 0
           THEN [query[q] EXCEPT !.since = @ - 1] ELSE query[q]]
    /\ UNCHANGED <<structure, dataVars, idempotency, purged, counters, leases,
                   faults, storeVars, copy, overdue, shared>>

\* The table is there: no operation used here looks whether it is.
Init ==
    /\ CatalogInit
    /\ metanode \in BOOLEAN
    /\ faults = 0
    /\ objects = {}
    /\ job = [b \in Batches |-> Idle]
    /\ stmt = [d \in DvIds |-> Idle]
    /\ round = [g \in Collectors |-> Idle]
    /\ first_seen = [g \in Collectors |-> Nothing]
    /\ query = [q \in Queries |-> Idle]
    /\ copy = [g \in Collectors |-> Unheard]
    /\ born = Nothing
    /\ overdue = {}
    /\ shared = {}

WriterStep ==
    \/ \E b \in Batches, K \in SUBSET Keys : BeginFlush(b, K)
    \/ \E b \in Batches : BeginMerge(b)
    \/ \E b \in Batches : Announce(b) \/ Upload(b) \/ LogUpload(b)
    \/ \E b \in Batches : Commit(b) \/ CommitMerge(b)
    \/ \E b \in Batches : Die(b)

StatementStep ==
    \E d \in DvIds :
        \/ \E b \in Batches, n \in Batches \cup {NoFile} : BeginStatement(d, b, n)
        \/ LogStatement(d) \/ ApplyStatement(d) \/ DieBeforeLog(d)

RoundStep(g) ==
    \/ ListObjects(g) \/ AskKnown(g) \/ AskReferenced(g)
    \/ JudgeAndDelete(g, {}) /\ UNCHANGED faults

\* Some deletions are refused by the store.
RefusedStep(g) ==
    \E refused \in SUBSET objects : refused # {} /\ JudgeAndDelete(g, refused) /\ Fault

Next ==
    \/ WriterStep
    \/ StatementStep
    \/ Sweep
    \/ \E g \in Collectors : RoundStep(g)
    \/ \E g \in Collectors : RefusedStep(g)
    \/ \E g \in Collectors : AbandonRound(g)
    \/ \E g \in Collectors : RestartCollector(g)
    \/ \E q \in Queries : BeginQuery(q)
    \/ Tick

\* The loops run on timers: of the collector, and of the leader that sweeps.
Fairness ==
    /\ WF_vars(Tick)
    /\ WF_vars(Sweep)
    /\ \A g \in Collectors : WF_vars(RoundStep(g))

Spec == Init /\ [][Next /\ UNCHANGED metanode]_<<vars, metanode>> /\ Fairness

-----------------------------------------------------------------------------

Stages == {"none", "pending", "announced", "uploaded", "written", "logged", "done"}

\* The objects, the jobs and the observations of the collectors have the
\* shape the code gives them.
TypeOK ==
    /\ faults \in 0..MaxFaults
    /\ objects \subseteq Batches \X ({"data"} \cup DvIds)
    /\ \A b \in Batches : job[b].at \in Stages
    /\ \A d \in DvIds : stmt[d].at \in Stages
    /\ \A g \in Collectors :
           /\ round[g].at \in {"none", "listed", "known", "judge"}
           /\ IsMap(first_seen[g], Batches, 0..Now)
    /\ DOMAIN copy = Collectors
    /\ IsMap(born, Batches, 0..Now)
    /\ overdue \subseteq Batches
    /\ shared \subseteq Batches

Present == {b \in DOMAIN files : ProtectsAt(files[b], snapshot_version)}

\* Announced by a flush or a merge, so not the new file of an UPDATE.
Announced(b) == b \notin NewFiles

\* Nobody can take it for garbage: it is announced to a catalog that answers
\* for announcements, or no collector has read its clock `Grace' after the
\* upload without having heard of the file.
Covered(b) == (~metanode /\ Announced(b)) \/ b \notin overdue

\* No file the catalog shows is without its object.  Where the catalog is in the
\* process an announced file is safe whatever the grace; with metanodes, and
\* for the new files of an UPDATE, everything rests on the grace, and that is
\* enough: a file whose commit reaches the collector's copy within the grace
\* is never lost, whatever was observed, refused, redone or restarted before
\* (compaction/src/lib.rs orphan_cleanup_round).
NoDanglingFile == \A b \in Present : Covered(b) => Data(b) \in objects

\* A query finds every file of its snapshot for as long as the grace lasts
\* after it began, though compaction retires files under it, but for files
\* that share their observation with an orphaned vector.
ReadersHaveGrace ==
    \A q \in Queries :
        query[q].at = "reading" /\ Now - query[q].since < Grace =>
            \A b \in VisibleFiles(Table, query[q].snapshot) :
                Covered(b) /\ (metanode \/ b \notin shared) => Data(b) \in objects

\* With any grace at all, the vectors that hide rows of present files are there
\* to be read, as long as the files are: though a statement uploads them
\* before the catalog hears of them (sql/src/dml.rs:658).  With metanodes
\* that is so of files that are not overdue.
VectorsAreThere ==
    Grace > 0 =>
        \A k \in DOMAIN deletions :
            /\ k[2] \in Present /\ Data(k[2]) \in objects
            /\ metanode => k[2] \notin overdue
            /\ ActiveAt(deletions[k], snapshot_version)
            => <<k[2], k[1]>> \in objects

\* Nobody may read it any more, and nothing speaks for it: neither a file nor an
\* announcement, or with metanodes, whose copies keep tombstones, not even one.
Reclaimable(b) ==
    IF metanode THEN b \notin DOMAIN files ELSE b \notin Present \cup DOMAIN in_flight

\* In the end no object is left of such a file: those that merges retire, where
\* the catalog is in the process, and what crashed flushes, refused merges,
\* duplicates and stalled statements leave behind
\* (compaction/src/lib.rs orphan_cleanup_round).
GarbageGoes == <>[](\A b \in Batches : Reclaimable(b) => Data(b) \notin objects)
=============================================================================
