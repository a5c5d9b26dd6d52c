-------------------------- MODULE TableLifeProofs --------------------------
(***************************************************************************)
(* The store's idea of the table follows the log; no row of before a DROP  *)
(* is in a file again; no row answered in the present life of the table is *)
(* lost; what is found of a row is whole; and a replay rebuilds the table: *)
(* for any number of sessions, writers, statements and crashes,            *)
(* LivenessFollowsLog, DroppedStaysDropped, AnsweredKept, FoundWhole and   *)
(* ReplayRebuilds hold.                                                    *)
(***************************************************************************)
EXTENDS TableLife, FiniteSetTheorems, SequenceTheorems, TLAPS

Log(r) == log' = Append(log, r)

\* What LivenessFollowsLog needs around it: the accumulator is within the log.
Within ==
    /\ \E S : log \in Seq(S)
    /\ read \in Nat /\ upto \in Nat
    /\ read <= upto
    /\ upto <= Len(log)

IInv == Within /\ LivenessFollowsLog

-----------------------------------------------------------------------------
(* What is alive at a position. *)

\* At the beginning of the log the table counts as alive, never created.
LEMMA LivenessAtNothing == LivenessAt(0) = [exists |-> TRUE, epoch |-> 0]
  <1>1. \A op : Ops(op, 1, 0) = {}
    BY DEF Ops
  <1>2. Cardinality({}) = 0
    BY FS_EmptySet
  <1> QED BY <1>1, <1>2 DEF LivenessAt

\* The statements of a kind up to a position are finitely many.
LEMMA OpsFinite ==
  ASSUME NEW op, NEW n \in Nat
  PROVE  /\ IsFiniteSet(Ops(op, 1, n))
         /\ Cardinality(Ops(op, 1, n)) \in Nat
  <1>1. IsFiniteSet(1..n)
    BY FS_Interval
  <1>2. Ops(op, 1, n) \subseteq 1..n
    BY DEF Ops
  <1> QED BY <1>1, <1>2, FS_Subset, FS_CardinalityType

\* One record further: it is counted if it is of that kind.
LEMMA OpsNext ==
  ASSUME NEW op, NEW n \in Nat
  PROVE  /\ log[n + 1].op = op =>
                Cardinality(Ops(op, 1, n + 1)) = Cardinality(Ops(op, 1, n)) + 1
         /\ log[n + 1].op # op => Ops(op, 1, n + 1) = Ops(op, 1, n)
  <1>1. ASSUME log[n + 1].op = op
        PROVE  Ops(op, 1, n + 1) = Ops(op, 1, n) \cup {n + 1}
    BY <1>1 DEF Ops
  <1>2. n + 1 \notin Ops(op, 1, n)
    BY DEF Ops
  <1>3. IsFiniteSet(Ops(op, 1, n)) /\ Cardinality(Ops(op, 1, n)) \in Nat
    BY OpsFinite
  <1>4. Cardinality(Ops(op, 1, n) \cup {n + 1}) = Cardinality(Ops(op, 1, n)) + 1
    BY <1>2, <1>3, FS_AddElement
  <1>5. ASSUME log[n + 1].op # op
        PROVE  Ops(op, 1, n + 1) = Ops(op, 1, n)
    BY <1>5 DEF Ops
  <1> QED BY <1>1, <1>4, <1>5

\* No drop up to a position is the last word.
Standing(n) == \A d \in Ops("drop", 1, n) : Ops("create", d, n) # {}

\* A CREATE makes the table stand, a DROP makes it fall, and nothing else counts.
LEMMA StandingNext ==
  ASSUME NEW n \in Nat
  PROVE  /\ log[n + 1].op = "create" => Standing(n + 1)
         /\ log[n + 1].op = "drop" => ~Standing(n + 1)
         /\ log[n + 1].op \notin {"create", "drop"} => (Standing(n + 1) <=> Standing(n))
  <1>1. ASSUME log[n + 1].op = "create"
        PROVE  Standing(n + 1)
    <2> SUFFICES ASSUME NEW d \in Ops("drop", 1, n + 1)
                 PROVE  n + 1 \in Ops("create", d, n + 1)
      BY DEF Standing
    <2> QED BY <1>1 DEF Ops
  <1>2. ASSUME log[n + 1].op = "drop"
        PROVE  ~Standing(n + 1)
    <2>1. n + 1 \in Ops("drop", 1, n + 1)
      BY <1>2 DEF Ops
    <2>2. Ops("create", n + 1, n + 1) = {}
      BY <1>2 DEF Ops
    <2> QED BY <2>1, <2>2 DEF Standing
  <1>3. ASSUME log[n + 1].op \notin {"create", "drop"}
        PROVE  Standing(n + 1) <=> Standing(n)
    <2>1. Ops("drop", 1, n + 1) = Ops("drop", 1, n)
      BY <1>3, OpsNext
    <2>2. \A d \in 1..n : Ops("create", d, n + 1) = Ops("create", d, n)
      BY <1>3 DEF Ops
    <2>3. Ops("drop", 1, n) \subseteq 1..n
      BY DEF Ops
    <2> QED BY <2>1, <2>2, <2>3 DEF Standing
  <1> QED BY <1>1, <1>2, <1>3

\* Liveness one record further.
LEMMA LivenessNext ==
  ASSUME NEW n \in Nat
  PROVE  LivenessAt(n + 1) =
           [exists |-> IF log[n + 1].op \in {"create", "drop"}
                       THEN log[n + 1].op = "create" ELSE LivenessAt(n).exists,
            epoch |-> IF log[n + 1].op = "create"
                      THEN LivenessAt(n).epoch + 1 ELSE LivenessAt(n).epoch]
  <1>1. \A m : LivenessAt(m) = [exists |-> Standing(m), epoch |-> Cardinality(Ops("create", 1, m))]
    BY DEF LivenessAt, Standing
  <1>2. Standing(n + 1) = IF log[n + 1].op \in {"create", "drop"}
                          THEN log[n + 1].op = "create" ELSE Standing(n)
    <2>1. Standing(n) \in BOOLEAN /\ Standing(n + 1) \in BOOLEAN
      BY DEF Standing
    <2> QED BY <2>1, StandingNext
  <1>3. Cardinality(Ops("create", 1, n + 1)) =
            IF log[n + 1].op = "create" THEN Cardinality(Ops("create", 1, n)) + 1
            ELSE Cardinality(Ops("create", 1, n))
    BY OpsNext
  <1> QED BY <1>1, <1>2, <1>3

-----------------------------------------------------------------------------
(* What the actions do to it. *)

\* The log's own view of a position, in its old or its new state.
View(l, n) ==
    [exists |-> \A d \in {p \in 1..n : l[p].op = "drop"} : {p \in d..n : l[p].op = "create"} # {},
     epoch |-> Cardinality({p \in 1..n : l[p].op = "create"})]

\* Two logs that agree up to a position agree about what is alive there.
LEMMA ViewsAgree ==
  ASSUME NEW k, NEW l, NEW n \in Nat, \A p \in 1..n : k[p] = l[p]
  PROVE  View(k, n) = View(l, n)
  <1>1. \A op : {p \in 1..n : k[p].op = op} = {p \in 1..n : l[p].op = op}
    OBVIOUS
  <1>2. \A d \in 1..n : {p \in d..n : k[p].op = "create"} = {p \in d..n : l[p].op = "create"}
    OBVIOUS
  <1> QED BY <1>1, <1>2 DEF View

\* A record appended is above everything absorbed.
LEMMA LogGrows ==
  ASSUME IInv, NEW r, Log(r), UNCHANGED <<live, read, upto>>
  PROVE  IInv'
  <1>1. PICK S : log \in Seq(S)
    BY DEF IInv, Within
  <1>2. log \in Seq(S \cup {r})
    BY <1>1, SMT
  <1>3. /\ log' \in Seq(S \cup {r})
        /\ Len(log') = Len(log) + 1
        /\ \A p \in 1..Len(log) : log'[p] = log[p]
    BY <1>2, AppendProperties DEF Log
  <1>4. Len(log) \in Nat
    BY <1>1, LenProperties
  <1>5. Within'
    BY <1>3, <1>4 DEF IInv, Within
  <1>6. \A p \in 1..read : log'[p] = log[p]
    BY <1>3, <1>4 DEF IInv, Within
  <1>7. View(log', read) = View(log, read)
    BY <1>6, ViewsAgree DEF IInv, Within
  <1>8. LivenessFollowsLog'
    BY <1>7 DEF IInv, LivenessFollowsLog, LivenessAt, Ops, View
  <1> QED BY <1>5, <1>8 DEF IInv

\* A step that leaves the log and the accumulator alone.
LEMMA Aside ==
  ASSUME IInv, UNCHANGED <<log, live, read, upto>>
  PROVE  IInv'
  BY DEF IInv, Within, LivenessFollowsLog, LivenessAt, Ops

\* A scan only looks further.
LEMMA ScanKeeps ==
  ASSUME IInv, Scan
  PROVE  IInv'
  <1>1. PICK S : log \in Seq(S)
    BY DEF IInv, Within
  <1>2. Len(log) \in Nat
    BY <1>1, LenProperties
  <1>3. UNCHANGED <<log, live, read>> /\ upto' = Len(log) /\ read <= Len(log)
    BY <1>2 DEF Scan, Accumulates, IInv, Within
  <1> QED BY <1>2, <1>3 DEF IInv, Within, LivenessFollowsLog, LivenessAt, Ops

\* A record absorbed moves the store as it moves the log.
LEMMA AbsorbKeeps ==
  ASSUME IInv, Absorb
  PROVE  IInv'
  <1>1. PICK S : log \in Seq(S)
    BY DEF IInv, Within
  <1>2. Len(log) \in Nat
    BY <1>1, LenProperties
  <1>3. UNCHANGED <<log, upto>> /\ read' = read + 1 /\ read < upto
    BY DEF Absorb, Accumulates
  <1>4. Within'
    BY <1>2, <1>3 DEF IInv, Within
  <1>5. live = LivenessAt(read) /\ read \in Nat
    BY DEF IInv, Within, LivenessFollowsLog
  <1>6. live' = LivenessAt(read + 1)
    <2> DEFINE op == log[read + 1].op
    <2>1. CASE op = "data"
      <3>1. live' = live
        BY <2>1 DEF Absorb, AbsorbData
      <3>2. op \notin {"create", "drop"}
        BY <2>1
      <3>3. LivenessAt(read + 1) = [exists |-> live.exists, epoch |-> live.epoch]
        BY <1>5, <3>2, LivenessNext
      <3> QED BY <1>5, <3>1, <3>3 DEF LivenessAt
    <2>2. CASE op # "data"
      <3>1. live' = [exists |-> IF op \in {"create", "drop"} THEN op = "create" ELSE live.exists,
                     epoch |-> IF op = "create" THEN live.epoch + 1 ELSE live.epoch]
        BY <2>2 DEF Absorb, Observe
      <3> QED BY <1>5, <3>1, LivenessNext
    <2> QED BY <2>1, <2>2
  <1>7. LivenessFollowsLog'
    BY <1>3, <1>6 DEF LivenessFollowsLog, LivenessAt, Ops
  <1> QED BY <1>4, <1>7 DEF IInv

\* A restart begins the log again.
LEMMA CrashKeeps ==
  ASSUME IInv, Crash
  PROVE  IInv'
  <1>1. PICK S : log \in Seq(S)
    BY DEF IInv, Within
  <1>2. Len(log) \in Nat
    BY <1>1, LenProperties
  <1>3. /\ UNCHANGED log /\ read' = 0 /\ upto' = 0
        /\ live' = [exists |-> TRUE, epoch |-> 0]
    BY DEF Crash, FreshStore, logVars
  <1>4. Within'
    BY <1>2, <1>3 DEF IInv, Within
  <1>5. LivenessFollowsLog'
    BY <1>3, LivenessAtNothing DEF LivenessFollowsLog, LivenessAt, Ops
  <1> QED BY <1>4, <1>5 DEF IInv

\* A statement logs its record or leaves the log alone.
LEMMA SessionKeeps ==
  ASSUME IInv, NEW s \in Sessions, SessionStep(s)
  PROVE  IInv'
  <1>1. ASSUME NEW schema \in Shapes, Create(s, schema) \/ CreateExisting(s, schema)
        PROVE  IInv'
    BY <1>1, Aside DEF Create, CreateExisting, InSession, logVars, storeVars
  <1>2. ASSUME NEW change, Alter(s, change)
        PROVE  IInv'
    BY <1>2, Aside DEF Alter, InSession, logVars, storeVars
  <1>3. CASE Drop(s) \/ AlterApply(s) \/ AlterRefused(s)
    BY <1>3, Aside DEF Drop, AlterApply, AlterRefused, InSession, logVars, storeVars
  <1>4. CASE LogDdl(s)
    <2>1. Log(session[s].record) /\ UNCHANGED <<live, read, upto>>
      BY <1>4 DEF LogDdl, Log, storeVars
    <2> QED BY <2>1, LogGrows
  <1> QED BY <1>1, <1>2, <1>3, <1>4 DEF SessionStep

\* So does a write.
LEMMA WriterKeeps ==
  ASSUME IInv, NEW w \in Writers, WriterStep(w)
  PROVE  IInv'
  <1>1. ASSUME NEW columns \in Shapes, BeginWrite(w, columns)
        PROVE  IInv'
    BY <1>1, Aside DEF BeginWrite, InWrite, storeVars
  <1>2. CASE Judge(w) \/ Evolve(w) \/ EvolveConflict(w) \/ Update(w)
    BY <1>2, Aside DEF Judge, Evolve, EvolveConflict, Update, InWrite, storeVars
  <1>3. CASE LogWrite(w)
    <2>1. /\ Log(DataRecord(writer[w].columns, writer[w].entry.version))
          /\ UNCHANGED <<live, read, upto>>
      BY <1>3 DEF LogWrite, Log, InWrite, storeVars
    <2> QED BY <2>1, LogGrows
  <1> QED BY <1>1, <1>2, <1>3 DEF WriterStep

\* The accumulator scans, absorbs, flushes and discards.
LEMMA StoreKeeps ==
  ASSUME IInv, StoreStep
  PROVE  IInv'
  <1>1. ASSUME NEW k, Discard(k) \/ BeginFlush(k)
        PROVE  IInv'
    BY <1>1, Aside DEF Discard, BeginFlush, Accumulates
  <1>2. CASE EndFlush
    BY <1>2, Aside DEF EndFlush, Accumulates
  <1> QED BY <1>1, <1>2, ScanKeeps, AbsorbKeeps DEF StoreStep

\* Replay reads the log and changes the catalog.
LEMMA RestartKeeps ==
  ASSUME IInv, RestartStep
  PROVE  IInv'
  <1>1. CASE Resume
    BY <1>1, Aside DEF Resume
  <1>2. CASE ReplayCreateOrDrop \/ ConvergeStep
    BY <1>2, Aside DEF ReplayCreateOrDrop, ConvergeStep, Replays, logVars, storeVars
  <1>3. CASE ReplayFails \/ ReplayEnds
    BY <1>3, Aside DEF ReplayFails, ReplayEnds, Replays, logVars, storeVars
  <1> QED BY <1>1, <1>2, <1>3 DEF RestartStep

-----------------------------------------------------------------------------

\* It holds at the beginning.
LEMMA InitHolds == Init => IInv
  <1> SUFFICES ASSUME Init PROVE IInv
    OBVIOUS
  <1>1. log \in Seq({}) /\ Len(log) = 0
    BY DEF Init
  <1>2. Within
    BY <1>1 DEF Within, Init
  <1>3. LivenessFollowsLog
    BY LivenessAtNothing DEF LivenessFollowsLog, Init
  <1> QED BY <1>2, <1>3 DEF IInv

\* And every step keeps it.
LEMMA NextKeeps == IInv /\ [Next]_vars => IInv'
  <1> SUFFICES ASSUME IInv, [Next]_vars PROVE IInv'
    OBVIOUS
  <1>1. CASE UNCHANGED vars
    BY <1>1, Aside DEF vars, logVars, storeVars
  <1>2. CASE Next
    BY <1>2, SessionKeeps, WriterKeeps, StoreKeeps, CrashKeeps, RestartKeeps DEF Next
  <1> QED BY <1>1, <1>2

\* The store's epochs are the log's, through every restart: what the gate of
\* recovery computes from the log (pipeline.rs:975) and what the store counts as
\* it goes (store.rs:466) never disagree about a record.
THEOREM EpochsFollowTheLog == Spec => []LivenessFollowsLog
  <1>1. IInv => LivenessFollowsLog
    BY DEF IInv
  <1> QED BY <1>1, InitHolds, NextKeeps, PTL DEF Spec

-----------------------------------------------------------------------------
(* Nothing from before a DROP is in a file. *)

Clean == "late" \notin trouble
Dropping(s) == session[s].pc = "log" /\ session[s].record = DropRecord

\* What is about to be logged is a DROP or is none; nothing is in a restart.
SessionsOK ==
    /\ \E S : session \in [Sessions -> S]
    /\ \A s \in Sessions : session[s].pc = "log" =>
           session[s].record = DropRecord \/ session[s].record.op \in {"create", "alter"}
    /\ ~Up => \A s \in Sessions : session[s].pc # "log"
    /\ "phase" \in DOMAIN server

From(lo) == {p \in Nat : lo <= p}

\* A chunk holds rows from its first on, which has been absorbed.
ChunksOK ==
    \A k \in DOMAIN chunks :
        /\ k \in Nat \ {0} /\ k <= read
        /\ "rows" \in DOMAIN chunks[k]
        /\ chunks[k].rows \subseteq From(k)

\* So does a batch.
BatchesOK ==
    /\ \E S : batches \in Seq(S)
    /\ \A b \in DOMAIN batches :
           /\ batches[b].lo \in Nat \ {0}
           /\ {"rows", "lo", "status"} \subseteq DOMAIN batches[b]
           /\ batches[b].rows \subseteq From(batches[b].lo)
    /\ flush # NoFlush => flush.batch \in DOMAIN batches

FilesOK == \A b \in DOMAIN files : files[b] \subseteq Nat \ {0}

\* A DROP applied and not yet logged has emptied the table; one that is logged
\* comes before every row in it.
Emptied == \A s \in Sessions : Dropping(s) => DOMAIN files = {}
Behind == \A b \in DOMAIN files : \A p \in files[b] : Ops("drop", p, Len(log)) = {}

Shapely == SessionsOK /\ ChunksOK /\ BatchesOK /\ FilesOK
DInv == IInv /\ Shapely /\ (Clean => Emptied /\ Behind)

\* The log's length, as SMT wants it.
LEMMA LogLength ==
  ASSUME Within
  PROVE  Len(log) \in Nat /\ DOMAIN log = 1..Len(log)
  <1>1. PICK S : log \in Seq(S)
    BY DEF Within
  <1> QED BY <1>1, LenProperties

\* The gate of recovery: a batch whose epoch is the last one has no DROP behind it.
LEMMA EraHasNoDrop ==
  ASSUME Within, NEW lo \in Nat \ {0}, SameEra(lo)
  PROVE  Ops("drop", lo, Len(log)) = {}
  <1> DEFINE n == Len(log)
  <1>1. n \in Nat
    BY LogLength
  <1> SUFFICES ASSUME NEW d \in Ops("drop", lo, n)
               PROVE  FALSE
    OBVIOUS
  <1>2. d \in lo..n /\ log[d].op = "drop"
    BY DEF Ops
  <1>3. LivenessAt(n) = LivenessAt(lo) /\ LivenessAt(lo).exists
    BY DEF SameEra
  <1>4. LivenessAt(n).exists
    BY <1>3
  <1>5. d \in Ops("drop", 1, n)
    BY <1>1, <1>2 DEF Ops
  <1>6. PICK c \in Ops("create", d, n) : TRUE
    BY <1>4, <1>5 DEF LivenessAt
  <1>7. c \in d..n /\ log[c].op = "create" /\ c # d
    BY <1>2 DEF Ops
  <1>8. c \in 1..n /\ c > lo
    BY <1>1, <1>2, <1>7
  <1>9. Ops("create", 1, lo) \cup {c} \subseteq Ops("create", 1, n)
    BY <1>1, <1>2, <1>7, <1>8 DEF Ops
  <1>10. c \notin Ops("create", 1, lo)
    BY <1>8 DEF Ops
  <1>11. IsFiniteSet(Ops("create", 1, lo)) /\ Cardinality(Ops("create", 1, lo)) \in Nat
    BY OpsFinite
  <1>12. Cardinality(Ops("create", 1, lo) \cup {c}) = Cardinality(Ops("create", 1, lo)) + 1
    BY <1>10, <1>11, FS_AddElement
  <1>13. Cardinality(Ops("create", 1, lo) \cup {c}) <= Cardinality(Ops("create", 1, n))
    BY <1>1, <1>9, OpsFinite, FS_Subset
  <1>14. Cardinality(Ops("create", 1, n)) = Cardinality(Ops("create", 1, lo))
    BY <1>3 DEF LivenessAt
  <1>15. Cardinality(Ops("create", 1, n)) \in Nat
    BY <1>1, OpsFinite
  <1> QED BY <1>11, <1>12, <1>13, <1>14, <1>15

-----------------------------------------------------------------------------
(* How the parts are kept. *)

\* What a step adds to the accidents stays.
LEMMA CleanBefore ==
  ASSUME trouble \subseteq trouble', Clean'
  PROVE  Clean
  BY DEF Clean

\* A step that leaves the files, the sessions and the log alone.
LEMMA EmptiedAside ==
  ASSUME DInv, UNCHANGED <<files, session, log>>, trouble \subseteq trouble'
  PROVE  (Clean => Emptied /\ Behind)'
  BY DEF DInv, Clean, Emptied, Dropping, Behind, Ops, DropRecord

\* A record that is no DROP leaves what is behind one where it is.
LEMMA BehindAppend ==
  ASSUME Within, FilesOK, Behind, NEW r, r.op # "drop", Log(r), UNCHANGED files
  PROVE  Behind'
  <1>1. PICK S : log \in Seq(S)
    BY DEF Within
  <1>2. log \in Seq(S \cup {r})
    BY <1>1, SMT
  <1>3. /\ Len(log') = Len(log) + 1 /\ Len(log) \in Nat
        /\ \A p \in 1..Len(log) : log'[p] = log[p]
        /\ log'[Len(log) + 1] = r
    BY <1>2, AppendProperties, LenProperties DEF Log
  <1> SUFFICES ASSUME NEW b \in DOMAIN files, NEW p \in files[b],
                      NEW q \in p..(Len(log) + 1), log'[q].op = "drop"
               PROVE  FALSE
    BY <1>3 DEF Behind, Ops
  <1>4. p \in Nat \ {0}
    BY DEF FilesOK
  <1>5. q # Len(log) + 1
    BY <1>3
  <1>6. q \in p..Len(log) /\ q \in 1..Len(log)
    BY <1>3, <1>4, <1>5
  <1>7. Ops("drop", p, Len(log)) = {}
    BY DEF Behind
  <1>8. log[q].op # "drop"
    BY <1>6, <1>7 DEF Ops
  <1> QED BY <1>3, <1>6, <1>8

\* A session's next state replaces its last.
LEMMA SessionsMove ==
  ASSUME SessionsOK, NEW s \in Sessions, NEW r, session' = [session EXCEPT ![s] = r],
         Up, UNCHANGED server,
         r.pc = "log" => r.record = DropRecord \/ r.record.op \in {"create", "alter"}
  PROVE  /\ SessionsOK'
         /\ session'[s] = r
         /\ \A z \in Sessions \ {s} : session'[z] = session[z]
  <1>1. PICK S : session \in [Sessions -> S]
    BY DEF SessionsOK
  <1>2. session' \in [Sessions -> S \cup {r}]
    BY <1>1
  <1>3. session'[s] = r /\ \A z \in Sessions \ {s} : session'[z] = session[z]
    BY <1>1
  <1>4. Up'
    BY DEF Up
  <1>5. \A z \in Sessions : session'[z].pc = "log" =>
            session'[z].record = DropRecord \/ session'[z].record.op \in {"create", "alter"}
    <2> SUFFICES ASSUME NEW z \in Sessions
                 PROVE  session'[z].pc = "log" =>
                          session'[z].record = DropRecord \/ session'[z].record.op \in {"create", "alter"}
      OBVIOUS
    <2>1. CASE z = s
      BY <1>3, <2>1
    <2>2. CASE z # s
      BY <1>3, <2>2 DEF SessionsOK
    <2> QED BY <2>1, <2>2
  <1>6. SessionsOK'
    BY <1>2, <1>4, <1>5 DEF SessionsOK, DropRecord
  <1> QED BY <1>3, <1>6

\* Statements, the writers and replay leave the store's rows alone.
LEMMA RowsAside ==
  ASSUME Shapely, UNCHANGED <<chunks, read, batches, flush>>
  PROVE  ChunksOK' /\ BatchesOK'
  BY DEF Shapely, ChunksOK, BatchesOK, From

-----------------------------------------------------------------------------
(* Statements. *)

\* A CREATE leaves files, chunks and batches, and a table that stands.
LEMMA CreateClean ==
  ASSUME DInv, IInv', NEW s \in Sessions, NEW schema,
         Create(s, schema) \/ CreateExisting(s, schema)
  PROVE  DInv'
  <1> DEFINE r == [pc |-> "log", record |-> CreateRecord(schema), turn |-> ddls]
  <1>1. /\ session' = [session EXCEPT ![s] = r] /\ Up
        /\ UNCHANGED <<files, log, chunks, read, batches, flush, server, trouble>>
    BY DEF Create, CreateExisting, CreateTable, catalogVars, ToLog, Ready, InSession, logVars, storeVars
  <1>2. r.pc = "log" /\ r.record.op = "create" /\ r.record # DropRecord
    BY DEF CreateRecord, DropRecord
  <1> HIDE DEF r
  <1>3. /\ SessionsOK' /\ session'[s] = r
        /\ \A z \in Sessions \ {s} : session'[z] = session[z]
    BY <1>1, <1>2, SessionsMove DEF DInv, Shapely
  <1>4. ChunksOK' /\ BatchesOK'
    BY <1>1, RowsAside DEF DInv
  <1>5. FilesOK'
    BY <1>1 DEF DInv, Shapely, FilesOK
  <1>6. ASSUME Clean' PROVE Emptied' /\ Behind'
    <2>1. Emptied /\ Behind
      BY <1>1, <1>6 DEF DInv, Clean
    <2>2. \A z \in Sessions : Dropping(z)' => Dropping(z)
      BY <1>2, <1>3 DEF Dropping, DropRecord
    <2> QED BY <1>1, <2>1, <2>2 DEF Emptied, Behind, Ops
  <1> QED BY <1>3, <1>4, <1>5, <1>6 DEF DInv, Shapely

\* An ALTER changes columns only.
LEMMA AlterClean ==
  ASSUME DInv, IInv', NEW s \in Sessions,
         AlterApply(s) \/ AlterRefused(s) \/ \E change : Alter(s, change)
  PROVE  DInv'
  <1>1. PICK r : /\ session' = [session EXCEPT ![s] = r] /\ Up
                 /\ r.pc = "log" => r.record.op = "alter"
                 /\ UNCHANGED <<files, log, chunks, read, batches, flush, server>>
                 /\ trouble \subseteq trouble'
    <2>1. CASE AlterApply(s)
      BY <2>1 DEF AlterApply, EvolveSchema, ToLog, AlterRecord, Blame, InSession, logVars, storeVars
    <2>2. CASE AlterRefused(s)
      BY <2>2 DEF AlterRefused, Idle, catalogVars, InSession, logVars, storeVars
    <2>3. ASSUME NEW change, Alter(s, change)
          PROVE  \E r : /\ session' = [session EXCEPT ![s] = r] /\ Up
                        /\ r.pc = "log" => r.record.op = "alter"
                        /\ UNCHANGED <<files, log, chunks, read, batches, flush, server>>
                        /\ trouble \subseteq trouble'
      BY <2>3 DEF Alter, Ready, catalogVars, InSession, logVars, storeVars
    <2> QED BY <2>1, <2>2, <2>3
  <1>3. /\ SessionsOK' /\ session'[s] = r
        /\ \A z \in Sessions \ {s} : session'[z] = session[z]
    BY <1>1, SessionsMove DEF DInv, Shapely
  <1>4. ChunksOK' /\ BatchesOK'
    BY <1>1, RowsAside DEF DInv
  <1>5. FilesOK'
    BY <1>1 DEF DInv, Shapely, FilesOK
  <1>6. ASSUME Clean' PROVE Emptied' /\ Behind'
    <2>1. Emptied /\ Behind
      BY <1>1, <1>6, CleanBefore DEF DInv
    <2>2. \A z \in Sessions : Dropping(z)' => Dropping(z)
      BY <1>1, <1>3 DEF Dropping, DropRecord
    <2> QED BY <1>1, <2>1, <2>2 DEF Emptied, Behind, Ops
  <1> QED BY <1>3, <1>4, <1>5, <1>6 DEF DInv, Shapely

\* A DROP empties the table before it is logged.
LEMMA DropClean ==
  ASSUME DInv, IInv', NEW s \in Sessions, Drop(s)
  PROVE  DInv'
  <1> DEFINE r == [pc |-> "log", record |-> DropRecord, turn |-> ddls]
  <1>1. /\ session' = [session EXCEPT ![s] = r] /\ Up
        /\ DOMAIN files' = {}
        /\ UNCHANGED <<log, chunks, read, batches, flush, server, trouble>>
    BY DEF Drop, DropTable, NoColumns, ToLog, Ready, InSession, logVars, storeVars
  <1>2. r.record = DropRecord
    OBVIOUS
  <1> HIDE DEF r
  <1>3. SessionsOK'
    BY <1>1, <1>2, SessionsMove DEF DInv, Shapely
  <1>4. ChunksOK' /\ BatchesOK'
    BY <1>1, RowsAside DEF DInv
  <1> QED BY <1>1, <1>3, <1>4 DEF DInv, Shapely, FilesOK, Emptied, Behind

\* Logged, it finds the table empty; another record moves nothing.
LEMMA LogClean ==
  ASSUME DInv, IInv', NEW s \in Sessions, LogDdl(s)
  PROVE  DInv'
  <1> DEFINE r == session[s].record
  <1>1. /\ session' = [session EXCEPT ![s] = Idle] /\ Up
        /\ session[s].pc = "log" /\ Log(r)
        /\ UNCHANGED <<files, chunks, read, batches, flush, server>>
        /\ trouble \subseteq trouble'
    BY DEF LogDdl, Log, catalogVars, storeVars, Blame
  <1>2. Idle.pc # "log"
    BY DEF Idle
  <1>3. /\ SessionsOK' /\ session'[s] = Idle
        /\ \A z \in Sessions \ {s} : session'[z] = session[z]
    BY <1>1, <1>2, SessionsMove DEF DInv, Shapely
  <1>4. ChunksOK' /\ BatchesOK'
    BY <1>1, RowsAside DEF DInv
  <1>5. FilesOK'
    BY <1>1 DEF DInv, Shapely, FilesOK
  <1>6. ASSUME Clean' PROVE Emptied' /\ Behind'
    <2>1. Emptied /\ Behind
      BY <1>1, <1>6, CleanBefore DEF DInv
    <2>2. \A z \in Sessions : Dropping(z)' => Dropping(z)
      BY <1>2, <1>3 DEF Dropping, DropRecord
    <2>3. Emptied'
      BY <1>1, <2>1, <2>2 DEF Emptied
    <2>4. CASE r = DropRecord
      <3>1. DOMAIN files = {}
        BY <1>1, <2>1, <2>4 DEF Emptied, Dropping
      <3> QED BY <1>1, <2>3, <3>1 DEF Behind
    <2>5. CASE r # DropRecord
      <3>1. r.op # "drop"
        BY <1>1, <2>5 DEF DInv, Shapely, SessionsOK
      <3>2. Within /\ FilesOK
        BY DEF DInv, IInv, Shapely
      <3> QED BY <1>1, <2>1, <2>3, <3>1, <3>2, BehindAppend
    <2> QED BY <2>4, <2>5
  <1> QED BY <1>3, <1>4, <1>5, <1>6 DEF DInv, Shapely

\* A statement's steps.
LEMMA SessionClean ==
  ASSUME DInv, IInv', NEW s \in Sessions, SessionStep(s)
  PROVE  DInv'
  BY CreateClean, AlterClean, DropClean, LogClean DEF SessionStep

-----------------------------------------------------------------------------
(* Writes. *)

\* A write adds at most one record, of data, at the end of the log.
LEMMA WriterClean ==
  ASSUME DInv, IInv', NEW w \in Writers, WriterStep(w)
  PROVE  DInv'
  <1>1. /\ UNCHANGED <<files, session, chunks, read, batches, flush, server>>
        /\ trouble \subseteq trouble'
        /\ log' = log \/ \E c, v : Log(DataRecord(c, v))
    <2>1. ASSUME NEW columns, BeginWrite(w, columns)
          PROVE  /\ UNCHANGED <<files, session, chunks, read, batches, flush, server>>
                 /\ trouble \subseteq trouble'
                 /\ log' = log
      BY <2>1 DEF BeginWrite, InWrite, catalogVars, storeVars
    <2>2. CASE Judge(w) \/ Update(w) \/ EvolveConflict(w)
      BY <2>2 DEF Judge, Update, EvolveConflict, InWrite, catalogVars, storeVars
    <2>3. CASE Evolve(w)
      BY <2>3 DEF Evolve, EvolveSchema, Blame, InWrite, storeVars
    <2>4. CASE LogWrite(w)
      BY <2>4 DEF LogWrite, Log, InWrite, catalogVars, storeVars
    <2> QED BY <2>1, <2>2, <2>3, <2>4 DEF WriterStep
  <1>2. SessionsOK'
    BY <1>1 DEF DInv, Shapely, SessionsOK, Up
  <1>3. ChunksOK' /\ BatchesOK'
    BY <1>1, RowsAside DEF DInv
  <1>4. FilesOK'
    BY <1>1 DEF DInv, Shapely, FilesOK
  <1>5. ASSUME Clean' PROVE Emptied' /\ Behind'
    <2>1. Emptied /\ Behind
      BY <1>1, <1>5, CleanBefore DEF DInv
    <2>2. Emptied'
      BY <1>1, <2>1 DEF Emptied, Dropping, DropRecord
    <2>3. CASE log' = log
      BY <1>1, <2>1, <2>2, <2>3 DEF Behind, Ops
    <2>4. ASSUME NEW c, NEW v, Log(DataRecord(c, v))
          PROVE  Behind'
      <3>1. DataRecord(c, v).op # "drop"
        BY DEF DataRecord
      <3>2. Within /\ FilesOK
        BY DEF DInv, IInv, Shapely
      <3> QED BY <1>1, <2>1, <2>4, <3>1, <3>2, BehindAppend
    <2> QED BY <1>1, <2>2, <2>3, <2>4
  <1> QED BY <1>2, <1>3, <1>4, <1>5 DEF DInv, Shapely

-----------------------------------------------------------------------------
(* The accumulator. *)

\* It leaves the sessions and the log alone; what remains to show is its rows.
LEMMA StoreAside ==
  ASSUME DInv, IInv', ChunksOK', BatchesOK', UNCHANGED <<files, session, log, server>>,
         trouble \subseteq trouble'
  PROVE  DInv'
  <1>1. SessionsOK' /\ FilesOK'
    BY DEF DInv, Shapely, SessionsOK, FilesOK, Up, DropRecord
  <1>2. (Clean => Emptied /\ Behind)'
    BY EmptiedAside
  <1> QED BY <1>1, <1>2 DEF DInv, Shapely

\* A seal leaves the rows of every chunk.
LEMMA SealedRows ==
  ASSUME ChunksOK, NEW ks
  PROVE  /\ DOMAIN Sealed(ks) = DOMAIN chunks
         /\ \A k \in DOMAIN chunks : /\ "rows" \in DOMAIN Sealed(ks)[k]
                                     /\ Sealed(ks)[k].rows = chunks[k].rows
  <1>1. \A k \in DOMAIN chunks : "rows" \in DOMAIN chunks[k]
    BY DEF ChunksOK
  <1>2. \A k \in DOMAIN chunks :
            LET c == [chunks[k] EXCEPT !.open = FALSE]
            IN "rows" \in DOMAIN c /\ c.rows = chunks[k].rows
    BY <1>1
  <1>3. DOMAIN Sealed(ks) = DOMAIN chunks
    BY DEF Sealed
  <1>4. \A k \in DOMAIN chunks : Sealed(ks)[k] =
            IF k \in ks THEN [chunks[k] EXCEPT !.open = FALSE] ELSE chunks[k]
    BY DEF Sealed
  <1> QED BY <1>1, <1>2, <1>3, <1>4

\* Absorption puts a record in a chunk of the epoch the store has reached.
LEMMA AbsorbClean ==
  ASSUME DInv, IInv', Absorb
  PROVE  DInv'
  <1> DEFINE p == read + 1
  <1>1. /\ UNCHANGED <<files, session, log, server, batches, flush>>
        /\ read' = p /\ p \in Nat \ {0}
        /\ trouble \subseteq trouble'
    <2>1. p \in Nat \ {0}
      BY DEF DInv, IInv, Within
    <2>2. UNCHANGED <<files, session, log, server, batches, flush>> /\ read' = p
      BY DEF Absorb, Accumulates
    <2>3. trouble \subseteq trouble'
      BY DEF Absorb, AbsorbData, Observe
    <2> QED BY <2>1, <2>2, <2>3
  <1>2. BatchesOK'
    BY <1>1 DEF DInv, Shapely, BatchesOK, From
  <1>3. ASSUME ChunksOK, AppendRow(p)
        PROVE  ChunksOK'
    <2> DEFINE same == {k \in OpenChunk : chunks[k].version = log[p].version}
               takes == {k \in same : chunks[k].columns = log[p].columns}
    <2>0. \A k \in DOMAIN chunks : /\ k \in Nat \ {0} /\ k <= read /\ "rows" \in DOMAIN chunks[k]
                                   /\ chunks[k].rows \subseteq From(k)
      BY <1>3 DEF ChunksOK
    <2>1. CASE same = {}
      <3>1. chunks' = Put(p, NextChunk(p), Sealed(OpenChunk))
        BY <1>3, <2>1 DEF AppendRow
      <3>2. /\ DOMAIN chunks' = {p} \cup DOMAIN chunks
            /\ chunks'[p] = NextChunk(p)
            /\ \A k \in DOMAIN chunks \ {p} : chunks'[k] = Sealed(OpenChunk)[k]
        BY <1>3, <3>1, SealedRows DEF Put, Over
      <3>3. "rows" \in DOMAIN NextChunk(p) /\ NextChunk(p).rows = {p}
        BY DEF NextChunk
      <3>4. {p} \subseteq From(p)
        BY <1>1 DEF From
      <3>5. ASSUME NEW k \in DOMAIN chunks'
            PROVE  /\ k \in Nat \ {0} /\ k <= read'
                   /\ "rows" \in DOMAIN chunks'[k]
                   /\ chunks'[k].rows \subseteq From(k)
        <4>1. CASE k = p
          BY <1>1, <3>2, <3>3, <3>4, <4>1
        <4>2. CASE k # p
          <5>1. k \in DOMAIN chunks /\ chunks'[k] = Sealed(OpenChunk)[k]
            BY <3>2, <4>2
          <5>2. k <= read'
            BY <1>1, <2>0, <5>1 DEF DInv, IInv, Within
          <5> QED BY <1>3, <2>0, <5>1, <5>2, SealedRows
        <4> QED BY <4>1, <4>2
      <3> QED BY <3>5 DEF ChunksOK, From
    <2>2. CASE same # {}
      <3>1. chunks' = [k \in DOMAIN chunks |->
                          IF k \in takes THEN [chunks[k] EXCEPT !.rows = @ \cup {p}]
                          ELSE chunks[k]]
        BY <1>3, <2>2 DEF AppendRow
      <3> HIDE DEF same, takes
      <3>2. ASSUME NEW k \in DOMAIN chunks
            PROVE  /\ k <= read'
                   /\ "rows" \in DOMAIN chunks'[k]
                   /\ chunks'[k].rows \subseteq From(k)
        <4>1. k <= read' /\ k <= p /\ p \in From(k)
          BY <1>1, <2>0 DEF DInv, IInv, Within, From
        <4>2. CASE k \notin takes
          BY <2>0, <3>1, <4>1, <4>2
        <4>3. CASE k \in takes
          <5>1. chunks'[k] = [chunks[k] EXCEPT !.rows = chunks[k].rows \cup {p}]
            BY <3>1, <4>3
          <5>2. "rows" \in DOMAIN chunks'[k] /\ chunks'[k].rows = chunks[k].rows \cup {p}
            BY <2>0, <5>1
          <5> QED BY <2>0, <4>1, <5>2
        <4> QED BY <4>2, <4>3
      <3> QED BY <2>0, <3>1, <3>2 DEF ChunksOK, From
    <2> QED BY <2>1, <2>2
  <1>4. ASSUME chunks' = chunks
        PROVE  ChunksOK'
    BY <1>1, <1>4 DEF DInv, IInv, Within, Shapely, ChunksOK, From
  <1>5. AppendRow(p) \/ chunks' = chunks
    BY DEF Absorb, AbsorbData, Observe
  <1>6. ChunksOK'
    BY <1>3, <1>4, <1>5 DEF DInv, Shapely
  <1> QED BY <1>1, <1>2, <1>6, StoreAside

\* A chunk discarded is one less.
LEMMA DiscardClean ==
  ASSUME DInv, IInv', NEW k, Discard(k)
  PROVE  DInv'
  <1>1. /\ UNCHANGED <<files, session, log, server, batches, flush, read, trouble>>
        /\ chunks' = WithoutChunk(k)
    BY DEF Discard, Accumulates
  <1>2. ChunksOK'
    BY <1>1 DEF WithoutChunk, DInv, Shapely, ChunksOK, From
  <1>3. BatchesOK'
    BY <1>1 DEF DInv, Shapely, BatchesOK, From
  <1> QED BY <1>1, <1>2, <1>3, StoreAside

\* A batch begun has the rows of its chunk.
LEMMA BeginFlushClean ==
  ASSUME DInv, IInv', NEW k, BeginFlush(k)
  PROVE  DInv'
  <1> DEFINE b == Batch("pending", k, chunks[k].rows)
  <1>1. /\ UNCHANGED <<files, session, log, server, read, trouble>>
        /\ k \in DOMAIN chunks
        /\ chunks' = Sealed({k})
        /\ batches' = Append(batches, b)
        /\ flush' = [chunk |-> k, batch |-> Len(batches) + 1]
    BY DEF BeginFlush, Accumulates
  <1>2. ChunksOK /\ BatchesOK
    BY DEF DInv, Shapely
  <1>3. ChunksOK'
    BY <1>1, <1>2, SealedRows DEF ChunksOK, From
  <1>4. /\ b.lo \in Nat \ {0} /\ {"rows", "lo", "status"} \subseteq DOMAIN b
        /\ b.rows \subseteq From(b.lo)
    BY <1>1, <1>2 DEF ChunksOK, Batch
  <1> HIDE DEF b
  <1>5. PICK S : batches \in Seq(S)
    BY <1>2 DEF BatchesOK
  <1>6. batches \in Seq(S \cup {b})
    BY <1>5, SMT
  <1>7. /\ batches' \in Seq(S \cup {b})
        /\ Len(batches) \in Nat /\ Len(batches') = Len(batches) + 1
        /\ DOMAIN batches = 1..Len(batches) /\ DOMAIN batches' = 1..(Len(batches) + 1)
        /\ \A i \in 1..Len(batches) : batches'[i] = batches[i]
        /\ batches'[Len(batches) + 1] = b
    BY <1>1, <1>6, AppendProperties, LenProperties
  <1>8. \A i \in DOMAIN batches' :
           /\ batches'[i].lo \in Nat \ {0}
           /\ {"rows", "lo", "status"} \subseteq DOMAIN batches'[i]
           /\ batches'[i].rows \subseteq From(batches'[i].lo)
    <2> SUFFICES ASSUME NEW i \in DOMAIN batches'
                 PROVE  /\ batches'[i].lo \in Nat \ {0}
                        /\ {"rows", "lo", "status"} \subseteq DOMAIN batches'[i]
                        /\ batches'[i].rows \subseteq From(batches'[i].lo)
      OBVIOUS
    <2>1. CASE i = Len(batches) + 1
      BY <1>4, <1>7, <2>1
    <2>2. CASE i # Len(batches) + 1
      <3>1. i \in DOMAIN batches /\ batches'[i] = batches[i]
        BY <1>7, <2>2
      <3> QED BY <1>2, <3>1 DEF BatchesOK
    <2> QED BY <2>1, <2>2
  <1>9. flush'.batch \in DOMAIN batches'
    BY <1>1, <1>7
  <1>10. BatchesOK'
    BY <1>7, <1>8, <1>9 DEF BatchesOK, From
  <1> QED BY <1>1, <1>3, <1>10, StoreAside

\* The commit brings rows of before no DROP, unless one has overtaken it.
LEMMA EndFlushClean ==
  ASSUME DInv, IInv', EndFlush
  PROVE  DInv'
  <1> DEFINE b == flush.batch
  <1>1. /\ UNCHANGED <<session, log, server, read>>
        /\ flush # NoFlush /\ flush' = NoFlush
        /\ files' = Put(b, batches[b].rows, files)
        /\ batches' = [batches EXCEPT ![b].status = "committed"]
        /\ chunks' = WithoutChunk(flush.chunk)
        /\ trouble \subseteq trouble'
        /\ DropOvertakes(batches[b].lo) => ~Clean'
    BY DEF EndFlush, Accumulates, Blame, Clean
  <1>2. ChunksOK /\ BatchesOK /\ FilesOK
    BY DEF DInv, Shapely
  <1>3. b \in DOMAIN batches
    BY <1>1, <1>2 DEF BatchesOK
  <1>4. /\ batches[b].lo \in Nat \ {0} /\ {"rows", "lo", "status"} \subseteq DOMAIN batches[b]
        /\ batches[b].rows \subseteq From(batches[b].lo)
    BY <1>2, <1>3 DEF BatchesOK
  <1> HIDE DEF b
  <1>5. ChunksOK'
    BY <1>1, <1>2 DEF WithoutChunk, ChunksOK, From
  <1>6. BatchesOK'
    <2> DEFINE c == [batches[b] EXCEPT !.status = "committed"]
    <2>1. batches' = [batches EXCEPT ![b] = c]
      BY <1>1
    <2>2. /\ c.lo = batches[b].lo /\ c.rows = batches[b].rows
          /\ {"rows", "lo", "status"} \subseteq DOMAIN c
      BY <1>4
    <2> HIDE DEF c
    <2>3. PICK S : batches \in Seq(S)
      BY <1>2 DEF BatchesOK
    <2>4. batches \in Seq(S \cup {c})
      BY <2>3, SMT
    <2>5. DOMAIN batches = 1..Len(batches)
      BY <2>3, LenProperties
    <2>6. /\ batches' \in Seq(S \cup {c})
          /\ DOMAIN batches' = DOMAIN batches
          /\ \A i \in DOMAIN batches : batches'[i] = IF i = b THEN c ELSE batches[i]
      BY <1>3, <2>1, <2>4, <2>5, ExceptSeq, SMT
    <2>7. ASSUME NEW i \in DOMAIN batches'
          PROVE  /\ batches'[i].lo \in Nat \ {0}
                 /\ {"rows", "lo", "status"} \subseteq DOMAIN batches'[i]
                 /\ batches'[i].rows \subseteq From(batches'[i].lo)
      <3>1. CASE i = b
        BY <1>4, <2>2, <2>6, <3>1
      <3>2. CASE i # b
        BY <1>2, <2>6, <3>2 DEF BatchesOK
      <3> QED BY <3>1, <3>2
    <2> QED BY <1>1, <2>6, <2>7 DEF BatchesOK, From, NoFlush
  <1>7. /\ DOMAIN files' = {b} \cup DOMAIN files
        /\ files'[b] = batches[b].rows
        /\ \A f \in DOMAIN files \ {b} : files'[f] = files[f]
    BY <1>1 DEF Put, Over
  <1>8. FilesOK'
    <2> SUFFICES ASSUME NEW f \in DOMAIN files' PROVE files'[f] \subseteq Nat \ {0}
      BY DEF FilesOK
    <2>1. batches[b].rows \subseteq Nat \ {0}
      BY <1>4 DEF From
    <2> QED BY <1>2, <1>7, <2>1 DEF FilesOK
  <1>9. SessionsOK'
    BY <1>1 DEF DInv, Shapely, SessionsOK, Up, DropRecord
  <1>10. ASSUME Clean' PROVE Emptied' /\ Behind'
    <2>1. Emptied /\ Behind
      BY <1>1, <1>10, CleanBefore DEF DInv
    <2>2. /\ Ops("drop", batches[b].lo, Len(log)) = {}
          /\ \A s \in Sessions : ~Dropping(s)
      BY <1>1, <1>10 DEF DropOvertakes, Dropping
    <2>3. Emptied'
      BY <1>1, <2>2 DEF Emptied, Dropping, DropRecord
    <2>4. ASSUME NEW p \in batches[b].rows
          PROVE  Ops("drop", p, Len(log)) = {}
      <3>1. Len(log) \in Nat
        BY LogLength DEF DInv, IInv
      <3>2. p \in Nat /\ batches[b].lo <= p
        BY <1>4 DEF From
      <3> QED BY <1>4, <2>2, <3>1, <3>2 DEF Ops
    <2>5. \A f \in DOMAIN files' : \A p \in files'[f] : Ops("drop", p, Len(log)) = {}
      BY <1>7, <2>1, <2>4 DEF Behind
    <2>6. Behind'
      BY <1>1, <2>5 DEF Behind, Ops
    <2> QED BY <2>3, <2>6
  <1> QED BY <1>5, <1>6, <1>8, <1>9, <1>10 DEF DInv, Shapely

\* A step of the accumulator.
LEMMA StoreClean ==
  ASSUME DInv, IInv', StoreStep
  PROVE  DInv'
  <1>1. CASE Scan
    <2>1. UNCHANGED <<files, session, log, server, chunks, read, batches, flush, trouble>>
      BY <1>1 DEF Scan, Accumulates
    <2>2. ChunksOK' /\ BatchesOK'
      BY <2>1, RowsAside DEF DInv
    <2> QED BY <2>1, <2>2, StoreAside
  <1> QED BY <1>1, AbsorbClean, EndFlushClean, DiscardClean, BeginFlushClean DEF StoreStep

-----------------------------------------------------------------------------
(* Restart. *)

\* A crash empties the store; what a durable catalog keeps, the log keeps in order.
LEMMA CrashClean ==
  ASSUME DInv, IInv', Crash
  PROVE  DInv'
  <1>1. /\ UNCHANGED <<log, batches>>
        /\ session' = [s \in Sessions |-> Idle]
        /\ DOMAIN chunks' = {} /\ flush' = NoFlush /\ "phase" \in DOMAIN server'
        /\ files' = files \/ DOMAIN files' = {}
        /\ trouble \subseteq trouble'
    BY DEF Crash, logVars, FreshStore, NoColumns
  <1>2. \A s \in Sessions : session'[s].pc # "log"
    BY <1>1 DEF Idle
  <1>3. session' \in [Sessions -> {Idle}]
    BY <1>1
  <1>4. SessionsOK'
    BY <1>1, <1>2, <1>3 DEF SessionsOK, DropRecord
  <1>5. ChunksOK' /\ BatchesOK' /\ FilesOK'
    BY <1>1 DEF DInv, Shapely, ChunksOK, BatchesOK, FilesOK, From, NoFlush
  <1>6. ASSUME Clean' PROVE Emptied' /\ Behind'
    BY <1>1, <1>2, <1>6, CleanBefore DEF DInv, Emptied, Dropping, Behind, Ops
  <1> QED BY <1>4, <1>5, <1>6 DEF DInv, Shapely

\* Replay of the statements empties the table or leaves it.
LEMMA ReplayClean ==
  ASSUME DInv, IInv', ReplayCreateOrDrop \/ ConvergeStep \/ ReplayFails \/ ReplayEnds
  PROVE  DInv'
  <1>1. /\ UNCHANGED <<log, batches, session, chunks, read, flush>>
        /\ ~Up /\ ~Up' /\ "phase" \in DOMAIN server'
        /\ files' = files \/ DOMAIN files' = {}
        /\ trouble \subseteq trouble'
    <2>1. "phase" \in DOMAIN server
      BY DEF DInv, Shapely, SessionsOK
    <2>2. /\ UNCHANGED <<log, batches, session, chunks, read, flush>>
          /\ server.phase = "ddl"
      BY DEF ReplayCreateOrDrop, ConvergeStep, ReplayFails, ReplayEnds, Replaying, Replays,
             logVars, storeVars
    <2>3. server'.phase # "up" /\ "phase" \in DOMAIN server'
      <3>1. \A x : LET z == [server EXCEPT !.at = x]
                   IN z.phase = server.phase /\ "phase" \in DOMAIN z
        BY <2>1
      <3>2. \A x : LET z == [server EXCEPT !.phase = x]
                   IN z.phase = x /\ "phase" \in DOMAIN z
        BY <2>1
      <3>3. CASE server' = server \/ Onward
        BY <2>1, <2>2, <3>1, <3>3 DEF Onward
      <3>4. CASE \E x \in {"refused", "batches"} : server' = [server EXCEPT !.phase = x]
        BY <3>2, <3>4
      <3> QED BY <3>3, <3>4 DEF ReplayCreateOrDrop, ConvergeStep, ReplayFails, ReplayEnds
    <2>4. files' = files \/ DOMAIN files' = {}
      BY DEF ReplayCreateOrDrop, ConvergeStep, ReplayFails, ReplayEnds, CreateTable, DropTable,
             EvolveSchema, NoColumns, catalogVars
    <2>5. trouble \subseteq trouble'
      BY DEF ReplayCreateOrDrop, ConvergeStep, ReplayFails, ReplayEnds, Blame
    <2> QED BY <2>2, <2>3, <2>4, <2>5 DEF Up
  <1>2. \A s \in Sessions : session[s].pc # "log"
    BY <1>1 DEF DInv, Shapely, SessionsOK
  <1>3. SessionsOK'
    BY <1>1 DEF DInv, Shapely, SessionsOK, DropRecord
  <1>4. ChunksOK' /\ BatchesOK'
    BY <1>1, RowsAside DEF DInv
  <1>5. FilesOK'
    BY <1>1 DEF DInv, Shapely, FilesOK
  <1>6. ASSUME Clean' PROVE Emptied' /\ Behind'
    BY <1>1, <1>2, <1>6, CleanBefore DEF DInv, Emptied, Dropping, Behind, Ops
  <1> QED BY <1>3, <1>4, <1>5, <1>6 DEF DInv, Shapely

\* Recovery takes back the batches of the present epoch only.
LEMMA ResumeClean ==
  ASSUME DInv, IInv', Resume
  PROVE  DInv'
  <1> DEFINE kept == {b \in DOMAIN batches : batches[b].status # "aborted" /\ SameEra(batches[b].lo)}
             back(b) == [batches[b] EXCEPT !.status = "committed", !.rows = RowsOf(b)]
             gone(b) == [batches[b] EXCEPT !.status = "aborted"]
  <1>1. /\ UNCHANGED <<session, log, read, chunks, flush, trouble>>
        /\ ~Up /\ Up' /\ "phase" \in DOMAIN server'
        /\ files' = Over(files, [b \in kept |-> RowsOf(b)])
        /\ batches' = [b \in DOMAIN batches |-> IF b \in kept THEN back(b) ELSE gone(b)]
    BY DEF Resume, Up
  <1>2. ChunksOK /\ BatchesOK /\ FilesOK /\ Within
    BY DEF DInv, IInv, Shapely
  <1>3. kept \subseteq DOMAIN batches /\ \A b \in kept : SameEra(batches[b].lo)
    OBVIOUS
  <1> HIDE DEF kept
  <1>4. \A b \in DOMAIN batches : RowsOf(b) \subseteq From(batches[b].lo)
    <2> SUFFICES ASSUME NEW b \in DOMAIN batches, NEW p \in RowsOf(b)
                 PROVE  p \in From(batches[b].lo)
      OBVIOUS
    <2>1. batches[b].lo \in Nat \ {0} /\ batches[b].rows \subseteq From(batches[b].lo)
      BY <1>2 DEF BatchesOK
    <2>2. CASE batches[b].status = "pending"
      <3>1. p \in Rows /\ p \in batches[b].lo..batches[b].hi
        BY <2>2 DEF RowsOf
      <3>2. p \in Nat
        BY <1>2, <3>1, LogLength DEF Rows
      <3> QED BY <2>1, <3>1, <3>2 DEF From
    <2> QED BY <2>1, <2>2 DEF RowsOf
  <1>5. \A b \in DOMAIN batches :
           /\ back(b).lo = batches[b].lo /\ back(b).rows = RowsOf(b)
           /\ {"rows", "lo", "status"} \subseteq DOMAIN back(b)
           /\ gone(b).lo = batches[b].lo /\ gone(b).rows = batches[b].rows
           /\ {"rows", "lo", "status"} \subseteq DOMAIN gone(b)
    <2>1. \A b \in DOMAIN batches : {"rows", "lo", "status"} \subseteq DOMAIN batches[b]
      BY <1>2 DEF BatchesOK
    <2> QED BY <2>1
  <1> HIDE DEF back, gone
  <1>6. /\ DOMAIN batches' = DOMAIN batches
        /\ \A b \in DOMAIN batches : batches'[b] = IF b \in kept THEN back(b) ELSE gone(b)
    BY <1>1
  <1>7. BatchesOK'
    <2>1. PICK S : batches \in Seq(S)
      BY <1>2 DEF BatchesOK
    <2>2. DOMAIN batches = 1..Len(batches) /\ Len(batches) \in Nat
      BY <2>1, LenProperties
    <2> DEFINE R == {batches'[b] : b \in DOMAIN batches}
    <2>3. batches' \in [1..Len(batches) -> R]
      BY <1>1, <2>2
    <2>4. batches' \in Seq(R)
      BY <2>2, <2>3, SeqDef
    <2>5. flush' # NoFlush => flush'.batch \in DOMAIN batches'
      BY <1>1, <1>2, <1>6 DEF BatchesOK, NoFlush
    <2>6. ASSUME NEW b \in DOMAIN batches'
          PROVE  /\ batches'[b].lo \in Nat \ {0}
                 /\ {"rows", "lo", "status"} \subseteq DOMAIN batches'[b]
                 /\ batches'[b].rows \subseteq From(batches'[b].lo)
      BY <1>2, <1>4, <1>5, <1>6 DEF BatchesOK
    <2> QED BY <2>4, <2>5, <2>6 DEF BatchesOK, From, NoFlush
  <1>8. /\ DOMAIN files' = DOMAIN files \cup kept
        /\ \A b \in DOMAIN files : files'[b] = files[b]
        /\ \A b \in kept \ DOMAIN files : files'[b] = RowsOf(b)
    BY <1>1 DEF Over
  <1>9. FilesOK'
    <2>1. \A b \in kept : RowsOf(b) \subseteq Nat \ {0}
      BY <1>2, <1>3, <1>4 DEF From, BatchesOK
    <2> QED BY <1>2, <1>8, <2>1 DEF FilesOK
  <1>10. \A s \in Sessions : session[s].pc # "log"
    BY <1>1 DEF DInv, Shapely, SessionsOK
  <1>11. SessionsOK'
    BY <1>1, <1>10 DEF DInv, Shapely, SessionsOK, DropRecord
  <1>12. ChunksOK'
    BY <1>1 DEF DInv, Shapely, ChunksOK, From
  <1>13. ASSUME Clean' PROVE Emptied' /\ Behind'
    <2>1. Behind
      BY <1>1, <1>13 DEF DInv, Clean
    <2>2. Emptied'
      BY <1>1, <1>10 DEF Emptied, Dropping
    <2>3. ASSUME NEW b \in kept, NEW p \in RowsOf(b)
          PROVE  Ops("drop", p, Len(log)) = {}
      <3>1. batches[b].lo \in Nat \ {0}
        BY <1>2, <1>3 DEF BatchesOK
      <3>2. Ops("drop", batches[b].lo, Len(log)) = {}
        BY <1>2, <1>3, <3>1, EraHasNoDrop
      <3>3. p \in Nat /\ batches[b].lo <= p
        BY <1>3, <1>4 DEF From
      <3>4. Len(log) \in Nat
        BY <1>2, LogLength
      <3> QED BY <3>1, <3>2, <3>3, <3>4 DEF Ops
    <2>4. \A b \in DOMAIN files' : \A p \in files'[b] : Ops("drop", p, Len(log)) = {}
      BY <1>8, <2>1, <2>3 DEF Behind
    <2>5. Behind'
      BY <1>1, <2>4 DEF Behind, Ops
    <2> QED BY <2>2, <2>5
  <1> QED BY <1>7, <1>9, <1>11, <1>12, <1>13 DEF DInv, Shapely

-----------------------------------------------------------------------------

\* At the beginning nothing is stored.
LEMMA InitClean == Init => DInv
  <1> SUFFICES ASSUME Init PROVE DInv
    OBVIOUS
  <1>1. IInv
    BY InitHolds
  <1>2. session \in [Sessions -> {Idle}] /\ \A s \in Sessions : session[s].pc # "log"
    BY DEF Init, Idle
  <1>3. SessionsOK
    BY <1>2 DEF SessionsOK, Init
  <1>4. DOMAIN chunks = {} /\ DOMAIN files = {}
    BY DEF Init, NoColumns
  <1>5. batches \in Seq({}) /\ DOMAIN batches = {} /\ flush = NoFlush
    BY DEF Init
  <1>6. ChunksOK /\ BatchesOK /\ FilesOK
    BY <1>4, <1>5 DEF ChunksOK, BatchesOK, FilesOK
  <1>7. Emptied /\ Behind
    BY <1>4 DEF Emptied, Behind
  <1> QED BY <1>1, <1>3, <1>6, <1>7 DEF DInv, Shapely

\* Every step keeps the invariant.
LEMMA NextClean == DInv /\ [Next]_vars => DInv'
  <1> SUFFICES ASSUME DInv, [Next]_vars PROVE DInv'
    OBVIOUS
  <1>1. IInv'
    BY NextKeeps DEF DInv
  <1>2. CASE UNCHANGED vars
    <2>1. UNCHANGED <<files, session, log, server, chunks, read, batches, flush, trouble>>
      BY <1>2 DEF vars, catalogVars, logVars, storeVars
    <2>2. ChunksOK' /\ BatchesOK'
      BY <2>1, RowsAside DEF DInv
    <2> QED BY <1>1, <2>1, <2>2, StoreAside
  <1>3. CASE RestartStep
    BY <1>1, <1>3, ReplayClean, ResumeClean DEF RestartStep
  <1>4. CASE Next
    BY <1>1, <1>3, <1>4, SessionClean, WriterClean, StoreClean, CrashClean DEF Next
  <1> QED BY <1>2, <1>4

\* No row written before a DROP is in a file of the table again, whatever is
\* replayed after a crash and however statements interleave, as long as no flush
\* that passed is_stale (pipeline.rs:712) was overtaken by the DROP.
THEOREM DropIsForGood == Spec => []DroppedStaysDropped
  <1>1. DInv => DroppedStaysDropped
    BY DEF DInv, Behind, Clean, DroppedStaysDropped
  <1> QED BY <1>1, InitClean, NextClean, PTL DEF Spec

-----------------------------------------------------------------------------
(* A row answered is kept: while no batch was turned away, a row of the table's
   present life is in a chunk or in a batch that is committed, and a batch that is
   committed is in a file. *)

\* The row's table lives, by the log, and is the one it was logged in.
Quiet(p) ==
    /\ LivenessAt(p).exists
    /\ Ops("drop", p, Len(log)) \cup Ops("create", p, Len(log)) = {}

\* Nothing was turned away.
Taken == "turned away" \notin trouble

\* A batch that is not aborted has the row; one that is committed has it.
Settled(p) == \E b \in DOMAIN batches : batches[b].status # "aborted" /\ p \in batches[b].rows
Committed(p) == \E b \in DOMAIN batches : batches[b].status = "committed" /\ p \in batches[b].rows
InSomeChunk(p) == \E k \in DOMAIN chunks : p \in chunks[k].rows

\* Until it is up the process has absorbed nothing.
Down == ~Up => DOMAIN chunks = {} /\ claims = {} /\ read = 0 /\ upto = 0 /\ flush = NoFlush

\* A chunk has rows of its epoch, from its first on; one of them is the last.
ChunkShape ==
    \A k \in DOMAIN chunks :
        /\ {"epoch", "version", "columns", "rows", "open"} \subseteq DOMAIN chunks[k]
        /\ k \in chunks[k].rows
        /\ \A p \in chunks[k].rows :
               p \in Rows /\ p <= read /\ LivenessAt(p) = [exists |-> TRUE, epoch |-> chunks[k].epoch]
        /\ \E m \in chunks[k].rows : \A p \in chunks[k].rows : p <= m

\* At most one chunk of an epoch takes rows.
OneOpen ==
    \A j, k \in DOMAIN chunks :
        chunks[j].open /\ chunks[k].open /\ chunks[j].epoch = chunks[k].epoch => j = k

\* So has a batch.
BatchShape ==
    \A b \in DOMAIN batches :
        /\ "hi" \in DOMAIN batches[b]
        /\ batches[b].hi \in 1..Len(log)
        /\ batches[b].lo \in batches[b].rows
        /\ \A p \in batches[b].rows : p \in Rows /\ p <= batches[b].hi /\ LivenessAt(p).exists
        /\ \A p, q \in batches[b].rows : LivenessAt(p) = LivenessAt(q)

\* The batch under way has the rows of its chunk, as long as that is there.
FlushShape ==
    flush # NoFlush =>
        /\ read = upto
        /\ batches[flush.batch].status = "pending"
        /\ flush.chunk \in DOMAIN chunks => chunks[flush.chunk].rows = batches[flush.batch].rows

\* A file is of a batch that is no longer pending.
FileShape ==
    \A b \in DOMAIN files :
        /\ b \in DOMAIN batches
        /\ batches[b].status # "pending"
        /\ batches[b].rows \subseteq files[b]

\* Recovery claims positions of the log.
ClaimShape == \A p \in claims : p \in 1..Len(log)

\* A committed batch is in a file, if it has a row of the present life.
Landed ==
    Up /\ (\A s \in Sessions : ~Dropping(s)) =>
        \A b \in DOMAIN batches : \A p \in batches[b].rows :
            batches[b].status = "committed" /\ Quiet(p) => b \in DOMAIN files

\* Within a chunk's reach: up to its last row, or while it is open to what is absorbed.
Reaches(k, p) ==
    /\ k <= p
    /\ LivenessAt(p).epoch = chunks[k].epoch
    /\ (\E q \in chunks[k].rows : p <= q) \/ (chunks[k].open /\ p <= read)

\* The rows within a chunk's reach are in it, or in a batch already.
Held ==
    \A k \in DOMAIN chunks : \A p \in Rows :
        Quiet(p) /\ Reaches(k, p) => p \in chunks[k].rows \/ Settled(p)

\* So are the rows within a batch's.
Covered ==
    \A b \in DOMAIN batches : \A p \in Rows :
        batches[b].lo <= p /\ p <= batches[b].hi /\ Quiet(p) => Settled(p)

\* What recovery claims it has committed, and what is absorbed is in a chunk or
\* committed.
Claimed == \A p \in Rows : p \in claims /\ Quiet(p) => Committed(p)
Stored == \A p \in Rows : p <= read /\ Quiet(p) => InSomeChunk(p) \/ Committed(p)

Formed == Down /\ ChunkShape /\ OneOpen /\ BatchShape /\ FlushShape /\ FileShape /\ ClaimShape
KInv == DInv /\ Formed /\ Landed /\ (Taken => Held /\ Covered /\ Claimed /\ Stored)

\* The positions of rows.
LEMMA RowsInLog ==
  ASSUME Within
  PROVE  /\ Len(log) \in Nat
         /\ \A p \in Rows : p \in 1..Len(log) /\ log[p].op = "data"
         /\ \A p \in 1..Len(log) : log[p].op = "data" => p \in Rows
  BY LogLength DEF Rows

\* Liveness stands still where nothing is created or dropped.
LEMMA StandsStill ==
  ASSUME NEW p \in Nat \ {0}, NEW n \in Nat, p <= n,
         Ops("drop", p, n) \cup Ops("create", p, n) = {}
  PROVE  LivenessAt(n) = LivenessAt(p)
  <1>1. Ops("create", 1, n) = Ops("create", 1, p)
    BY DEF Ops
  <1>2. Ops("drop", 1, n) = Ops("drop", 1, p)
    BY DEF Ops
  <1>3. \A d \in Ops("drop", 1, p) : Ops("create", d, n) = Ops("create", d, p)
    BY DEF Ops
  <1> QED BY <1>1, <1>2, <1>3 DEF LivenessAt

\* A row of the present life sees what the end of the log sees, and all between.
LEMMA QuietStands ==
  ASSUME Within, NEW p \in 1..Len(log), Quiet(p), NEW n \in p..Len(log)
  PROVE  LivenessAt(n) = LivenessAt(p) /\ LivenessAt(p).exists
  <1>1. Len(log) \in Nat
    BY LogLength
  <1>2. Ops("drop", p, n) \cup Ops("create", p, n) = {}
    BY <1>1 DEF Quiet, Ops
  <1> QED BY <1>1, <1>2, StandsStill DEF Quiet

\* A batch with a row of the present life passes the gate of recovery.
LEMMA QuietIsSameEra ==
  ASSUME Within, NEW p \in 1..Len(log), Quiet(p), NEW lo, LivenessAt(lo) = LivenessAt(p)
  PROVE  SameEra(lo)
  <1>1. Len(log) \in p..Len(log)
    BY LogLength
  <1> QED BY <1>1, QuietStands DEF SameEra

\* What passes the gate is of the present life.
LEMMA SameEraIsQuiet ==
  ASSUME Within, NEW lo \in Rows, SameEra(lo)
  PROVE  Quiet(lo)
  <1> DEFINE n == Len(log)
  <1>1. n \in Nat /\ lo \in 1..n /\ log[lo].op = "data"
    BY RowsInLog
  <1>2. Ops("drop", lo, n) = {}
    BY <1>1, EraHasNoDrop
  <1>3. Ops("create", lo, n) = {}
    <2> SUFFICES ASSUME NEW c \in Ops("create", lo, n)
                 PROVE  FALSE
      OBVIOUS
    <2>1. c \in lo..n /\ log[c].op = "create" /\ c # lo
      BY <1>1 DEF Ops
    <2>2. c \in 1..n /\ c > lo
      BY <1>1, <2>1
    <2>3. Ops("create", 1, lo) \cup {c} \subseteq Ops("create", 1, n)
      BY <1>1, <2>1, <2>2 DEF Ops
    <2>4. c \notin Ops("create", 1, lo)
      BY <1>1, <2>2 DEF Ops
    <2>5. IsFiniteSet(Ops("create", 1, lo)) /\ Cardinality(Ops("create", 1, lo)) \in Nat
      BY <1>1, OpsFinite
    <2>6. Cardinality(Ops("create", 1, lo) \cup {c}) = Cardinality(Ops("create", 1, lo)) + 1
      BY <2>4, <2>5, FS_AddElement
    <2>7. Cardinality(Ops("create", 1, lo) \cup {c}) <= Cardinality(Ops("create", 1, n))
      BY <1>1, <2>3, OpsFinite, FS_Subset
    <2>8. Cardinality(Ops("create", 1, n)) = Cardinality(Ops("create", 1, lo))
      BY DEF SameEra, LivenessAt
    <2>9. Cardinality(Ops("create", 1, n)) \in Nat
      BY <1>1, OpsFinite
    <2> QED BY <2>5, <2>6, <2>7, <2>8, <2>9
  <1>4. LivenessAt(lo).exists
    BY DEF SameEra
  <1> QED BY <1>2, <1>3, <1>4 DEF Quiet

\* A record more leaves what is alive before it, and may end a life.
LEMMA LogMore ==
  ASSUME Within, NEW r, Log(r)
  PROVE  /\ Len(log) \in Nat /\ Len(log') = Len(log) + 1
         /\ \A p \in 1..Len(log) : log'[p] = log[p]
         /\ \A p \in 1..Len(log) : LivenessAt(p)' = LivenessAt(p)
         /\ \A p \in 1..Len(log) : Quiet(p)' => Quiet(p)
         /\ \A p \in 1..Len(log) : r.op = "drop" => ~Quiet(p)'
         /\ \A p \in 1..Len(log) : p \in Rows' <=> p \in Rows
         /\ \A p \in Rows' : p \in 1..Len(log) \/ p = Len(log) + 1
  <1>1. PICK S : log \in Seq(S)
    BY DEF Within
  <1>2. log \in Seq(S \cup {r})
    BY <1>1, SMT
  <1>3. /\ Len(log') = Len(log) + 1 /\ Len(log) \in Nat
        /\ DOMAIN log = 1..Len(log) /\ DOMAIN log' = 1..(Len(log) + 1)
        /\ \A p \in 1..Len(log) : log'[p] = log[p]
        /\ log'[Len(log) + 1] = r
    BY <1>2, AppendProperties, LenProperties DEF Log
  <1>4. ASSUME NEW p \in 1..Len(log)
        PROVE  LivenessAt(p)' = LivenessAt(p)
    <2>1. p \in Nat /\ \A q \in 1..p : log'[q] = log[q]
      BY <1>3
    <2>2. View(log', p) = View(log, p)
      BY <2>1, ViewsAgree
    <2> QED BY <2>2 DEF LivenessAt, Ops, View
  <1>5. ASSUME NEW p \in 1..Len(log), Quiet(p)'
        PROVE  Quiet(p) /\ r.op # "drop"
    <2>1. \A q \in p..(Len(log) + 1) : log'[q].op # "drop" /\ log'[q].op # "create"
      BY <1>3, <1>5 DEF Quiet, Ops
    <2>2. LivenessAt(p).exists
      BY <1>4, <1>5 DEF Quiet
    <2>3. \A q \in p..Len(log) : log[q].op # "drop" /\ log[q].op # "create"
      BY <1>3, <2>1
    <2> QED BY <1>3, <2>1, <2>2, <2>3 DEF Quiet, Ops
  <1> QED BY <1>3, <1>4, <1>5 DEF Rows

\* What has gone wrong stays so.
LEMMA TakenBefore ==
  ASSUME trouble \subseteq trouble', Taken'
  PROVE  Taken
  BY Zenon DEF Taken

\* The log alone decides about a position, and the batches about a row.
LEMMA SameLog ==
  ASSUME UNCHANGED log
  PROVE  /\ Rows' = Rows
         /\ \A p : LivenessAt(p)' = LivenessAt(p)
         /\ \A p : Quiet(p)' <=> Quiet(p)
  BY DEF Rows, LivenessAt, Quiet, Ops

LEMMA SameBatches ==
  ASSUME UNCHANGED batches
  PROVE  \A p : (Settled(p)' <=> Settled(p)) /\ (Committed(p)' <=> Committed(p))
  BY DEF Settled, Committed

-----------------------------------------------------------------------------
(* Statements, writes and replay. *)

\* A step that leaves the log and the store's rows alone, and empties the table
\* only while a DROP is to be logged or the process is down.
LEMMA KeptAside ==
  ASSUME KInv, DInv', UNCHANGED <<log, batches, chunks, claims, read, flush>>,
         trouble \subseteq trouble', Up' <=> Up,
         upto' = upto \/ (flush = NoFlush /\ Up),
         files' = files \/ (DOMAIN files' = {} /\ (Up => \E s \in Sessions : Dropping(s)')),
         \A s \in Sessions : Dropping(s) => Dropping(s)'
  PROVE  KInv'
  <1>1. /\ Rows' = Rows
        /\ \A p : LivenessAt(p)' = LivenessAt(p)
        /\ \A p : Quiet(p)' <=> Quiet(p)
    BY SameLog
  <1>2. \A p : (Settled(p)' <=> Settled(p)) /\ (Committed(p)' <=> Committed(p))
    BY SameBatches
  <1>3. Formed
    BY DEF KInv
  <1>4. Down'
    BY <1>3 DEF Formed, Down, NoFlush
  <1>5. ChunkShape'
    BY <1>1, <1>3 DEF Formed, ChunkShape
  <1>6. OneOpen'
    BY <1>3 DEF Formed, OneOpen
  <1>7. BatchShape'
    BY <1>1, <1>3 DEF Formed, BatchShape
  <1>8. FlushShape'
    BY <1>3 DEF Formed, FlushShape, NoFlush
  <1>9. FileShape'
    BY <1>3 DEF Formed, FileShape
  <1>10. ClaimShape'
    BY <1>3 DEF Formed, ClaimShape
  <1>11. Landed'
    <2>1. CASE files' = files
      BY <1>1, <2>1 DEF KInv, Landed
    <2>2. CASE files' # files
      BY <2>2 DEF Landed
    <2> QED BY <2>1, <2>2
  <1>12. ASSUME Taken' PROVE Held' /\ Covered' /\ Claimed' /\ Stored'
    <2>1. Held /\ Covered /\ Claimed /\ Stored
      BY <1>12, TakenBefore DEF KInv
    <2>2. Held'
      BY <1>1, <1>2, <2>1 DEF Held, Reaches
    <2>3. Covered'
      BY <1>1, <1>2, <2>1 DEF Covered
    <2>4. Claimed'
      BY <1>1, <1>2, <2>1 DEF Claimed
    <2>5. Stored'
      BY <1>1, <1>2, <2>1 DEF Stored, InSomeChunk
    <2> QED BY <2>2, <2>3, <2>4, <2>5
  <1> QED BY <1>4, <1>5, <1>6, <1>7, <1>8, <1>9, <1>10, <1>11, <1>12 DEF KInv, Formed

\* A record appended is above all that is absorbed, batched or claimed.
LEMMA KeptLog ==
  ASSUME KInv, DInv', NEW r, Log(r), Up, Up',
         UNCHANGED <<files, batches, chunks, claims, read, upto, flush>>,
         trouble \subseteq trouble',
         \A s \in Sessions : Dropping(s) => Dropping(s)' \/ r.op = "drop"
  PROVE  KInv'
  <1> DEFINE n == Len(log)
  <1>1. /\ n \in Nat /\ Len(log') = n + 1
        /\ \A p \in 1..n : LivenessAt(p)' = LivenessAt(p)
        /\ \A p \in 1..n : Quiet(p)' => Quiet(p)
        /\ \A p \in 1..n : r.op = "drop" => ~Quiet(p)'
        /\ \A p \in 1..n : p \in Rows' <=> p \in Rows
        /\ \A p \in Rows' : p \in 1..n \/ p = n + 1
    BY LogMore DEF KInv, DInv, IInv
  <1>2. \A p : (Settled(p)' <=> Settled(p)) /\ (Committed(p)' <=> Committed(p))
    BY SameBatches
  <1>3. Formed /\ read \in Nat /\ read <= n
    BY <1>1 DEF KInv, DInv, IInv, Within
  <1>4. \A p \in Rows : p \in 1..n
    BY RowsInLog DEF KInv, DInv, IInv
  <1> HIDE DEF n
  <1>5. Down'
    BY DEF Down
  <1>6. ChunkShape'
    <2> SUFFICES ASSUME NEW k \in DOMAIN chunks
                 PROVE  \A p \in chunks[k].rows :
                            p \in Rows' /\ p <= read
                            /\ LivenessAt(p)' = [exists |-> TRUE, epoch |-> chunks[k].epoch]
      BY <1>3 DEF Formed, ChunkShape
    <2> QED BY <1>1, <1>3, <1>4 DEF Formed, ChunkShape
  <1>7. OneOpen'
    BY <1>3 DEF Formed, OneOpen
  <1>8. BatchShape'
    <2> SUFFICES ASSUME NEW b \in DOMAIN batches
                 PROVE  /\ "hi" \in DOMAIN batches[b]
                        /\ batches[b].hi \in 1..(n + 1)
                        /\ batches[b].lo \in batches[b].rows
                        /\ \A p \in batches[b].rows :
                               p \in Rows' /\ p <= batches[b].hi /\ LivenessAt(p)'.exists
                        /\ \A p, q \in batches[b].rows : LivenessAt(p)' = LivenessAt(q)'
      BY <1>1 DEF BatchShape
    <2>1. /\ "hi" \in DOMAIN batches[b]
          /\ batches[b].hi \in 1..n
          /\ batches[b].lo \in batches[b].rows
          /\ \A p \in batches[b].rows : p \in Rows /\ p <= batches[b].hi /\ LivenessAt(p).exists
          /\ \A p, q \in batches[b].rows : LivenessAt(p) = LivenessAt(q)
      BY <1>3 DEF Formed, BatchShape, n
    <2>2. \A p \in batches[b].rows : p \in 1..n
      BY <1>4, <2>1
    <2>3. \A p \in batches[b].rows : p \in Rows' /\ LivenessAt(p)' = LivenessAt(p)
      BY <1>1, <2>1, <2>2
    <2>4. \A p, q \in batches[b].rows : LivenessAt(p)' = LivenessAt(q)'
      BY <2>1, <2>3
    <2> QED BY <1>1, <2>1, <2>3, <2>4
  <1>9. FlushShape'
    BY <1>3 DEF Formed, FlushShape, NoFlush
  <1>10. FileShape'
    BY <1>3 DEF Formed, FileShape
  <1>11. ClaimShape'
    BY <1>1, <1>3 DEF Formed, ClaimShape, n
  <1>12. Landed'
    <2> SUFFICES ASSUME \A s \in Sessions : ~Dropping(s)',
                        NEW b \in DOMAIN batches, NEW p \in batches[b].rows,
                        batches[b].status = "committed", Quiet(p)'
                 PROVE  b \in DOMAIN files
      BY DEF Landed
    <2>1. p \in 1..n
      BY <1>3, <1>4 DEF Formed, BatchShape
    <2>2. Quiet(p) /\ r.op # "drop"
      BY <1>1, <2>1
    <2> QED BY <2>2 DEF KInv, Landed
  <1>13. ASSUME Taken' PROVE Held' /\ Covered' /\ Claimed' /\ Stored'
    <2>1. Held /\ Covered /\ Claimed /\ Stored
      BY <1>13, TakenBefore DEF KInv
    <2>2. ASSUME NEW k \in DOMAIN chunks, NEW p \in Rows', Quiet(p)', Reaches(k, p)'
          PROVE  p \in chunks[k].rows \/ Settled(p)
      <3>1. p <= read
        <4>1. CASE \E q \in chunks[k].rows : p <= q
          <5>1. PICK q \in chunks[k].rows : p <= q
            BY <4>1
          <5>2. q \in 1..n /\ q <= read
            BY <1>3, <1>4 DEF Formed, ChunkShape
          <5> QED BY <1>1, <1>3, <5>1, <5>2
        <4> QED BY <2>2, <4>1 DEF Reaches
      <3>2. p \in 1..n
        BY <1>1, <1>3, <3>1
      <3>3. p \in Rows /\ Quiet(p) /\ LivenessAt(p)' = LivenessAt(p)
        BY <1>1, <2>2, <3>2
      <3>4. Reaches(k, p)
        BY <2>2, <3>3 DEF Reaches
      <3> QED BY <2>1, <3>3, <3>4 DEF Held
    <2>3. Held'
      BY <1>2, <2>2 DEF Held
    <2>4. Covered'
      <3> SUFFICES ASSUME NEW b \in DOMAIN batches, NEW p \in Rows',
                          batches[b].lo <= p, p <= batches[b].hi, Quiet(p)'
                   PROVE  Settled(p)
        BY <1>2 DEF Covered
      <3>1. batches[b].hi \in 1..n
        BY <1>3 DEF Formed, BatchShape, n
      <3>2. p \in 1..n
        BY <1>1, <3>1
      <3> QED BY <1>1, <2>1, <3>2 DEF Covered
    <2>5. Claimed'
      <3> SUFFICES ASSUME NEW p \in Rows', p \in claims, Quiet(p)'
                   PROVE  Committed(p)
        BY <1>2 DEF Claimed
      <3>1. p \in 1..n
        BY <1>3 DEF Formed, ClaimShape, n
      <3> QED BY <1>1, <2>1, <3>1 DEF Claimed
    <2>6. Stored'
      <3> SUFFICES ASSUME NEW p \in Rows', p <= read, Quiet(p)'
                   PROVE  InSomeChunk(p) \/ Committed(p)
        BY <1>2 DEF Stored, InSomeChunk
      <3>1. p \in 1..n
        BY <1>1, <1>3
      <3> QED BY <1>1, <2>1, <3>1 DEF Stored
    <2> QED BY <2>3, <2>4, <2>5, <2>6
  <1> QED BY <1>5, <1>6, <1>7, <1>8, <1>9, <1>10, <1>11, <1>12, <1>13 DEF KInv, Formed

\* A statement that is not logged yet: the session goes on, and the table changes.
LEMMA SessionMoves ==
  ASSUME KInv, DInv', NEW s \in Sessions, NEW r, Up, UNCHANGED server,
         session' = [session EXCEPT ![s] = r], session[s].pc # "log",
         UNCHANGED <<log, batches, chunks, claims, read, upto, flush>>,
         trouble \subseteq trouble',
         files' = files \/ (DOMAIN files' = {} /\ r.pc = "log" /\ r.record = DropRecord)
  PROVE  KInv'
  <1>1. PICK S : session \in [Sessions -> S]
    BY DEF KInv, DInv, Shapely, SessionsOK
  <1>2. session'[s] = r /\ \A z \in Sessions \ {s} : session'[z] = session[z]
    BY <1>1
  <1>3. \A z \in Sessions : Dropping(z) => Dropping(z)'
    BY <1>2 DEF Dropping, DropRecord
  <1>4. r.pc = "log" /\ r.record = DropRecord => Dropping(s)'
    BY <1>2 DEF Dropping, DropRecord
  <1>5. Up' <=> Up
    BY DEF Up
  <1> QED BY <1>3, <1>4, <1>5, KeptAside

\* A statement's steps.
LEMMA SessionKept ==
  ASSUME KInv, DInv', NEW s \in Sessions, SessionStep(s)
  PROVE  KInv'
  <1>1. ASSUME NEW schema, Create(s, schema) \/ CreateExisting(s, schema)
        PROVE  KInv'
    <2>1. /\ Up /\ session[s].pc # "log"
          /\ session' = [session EXCEPT ![s] =
                 [pc |-> "log", record |-> CreateRecord(schema), turn |-> ddls]]
          /\ UNCHANGED <<server, files, log, batches, chunks, claims, read, upto, flush, trouble>>
      BY <1>1 DEF Create, CreateExisting, CreateTable, catalogVars, ToLog, Ready, InSession,
                  logVars, storeVars
    <2> QED BY <2>1, SessionMoves
  <1>2. ASSUME NEW change, Alter(s, change)
        PROVE  KInv'
    <2>1. /\ Up /\ session[s].pc # "log"
          /\ session' = [session EXCEPT ![s] =
                 [pc |-> "evolve", change |-> change, expected |-> table.version]]
          /\ UNCHANGED <<server, files, log, batches, chunks, claims, read, upto, flush, trouble>>
      BY <1>2 DEF Alter, Ready, catalogVars, InSession, logVars, storeVars
    <2> QED BY <2>1, SessionMoves
  <1>3. CASE Drop(s)
    <2> DEFINE r == [pc |-> "log", record |-> DropRecord, turn |-> ddls]
    <2>1. /\ Up /\ session[s].pc # "log"
          /\ session' = [session EXCEPT ![s] = r]
          /\ DOMAIN files' = {}
          /\ UNCHANGED <<server, log, batches, chunks, claims, read, upto, flush, trouble>>
      BY <1>3 DEF Drop, DropTable, NoColumns, ToLog, Ready, InSession, logVars, storeVars
    <2>2. r.pc = "log" /\ r.record = DropRecord
      OBVIOUS
    <2> HIDE DEF r
    <2> QED BY <2>1, <2>2, SessionMoves
  <1>4. CASE AlterApply(s)
    <2>1. PICK r : session' = [session EXCEPT ![s] = r]
      BY <1>4 DEF AlterApply, ToLog
    <2>2. /\ Up /\ session[s].pc # "log" /\ trouble \subseteq trouble'
          /\ UNCHANGED <<server, files, log, batches, chunks, claims, read, upto, flush>>
      BY <1>4 DEF AlterApply, EvolveSchema, Blame, InSession, logVars, storeVars
    <2> QED BY <2>1, <2>2, SessionMoves
  <1>5. CASE AlterRefused(s)
    <2>1. /\ Up /\ session[s].pc # "log" /\ trouble \subseteq trouble'
          /\ session' = [session EXCEPT ![s] = Idle]
          /\ UNCHANGED <<server, files, log, batches, chunks, claims, read, upto, flush>>
      BY <1>5 DEF AlterRefused, catalogVars, InSession, logVars, storeVars
    <2> QED BY <2>1, SessionMoves
  <1>6. CASE LogDdl(s)
    <2>1. /\ Up /\ Up' /\ session[s].pc = "log" /\ Log(session[s].record)
          /\ session' = [session EXCEPT ![s] = Idle]
          /\ UNCHANGED <<files, batches, chunks, claims, read, upto, flush>>
          /\ trouble \subseteq trouble'
      BY <1>6 DEF LogDdl, Log, Up, catalogVars, storeVars, Blame
    <2>2. PICK S : session \in [Sessions -> S]
      BY DEF KInv, DInv, Shapely, SessionsOK
    <2>3. \A z \in Sessions \ {s} : session'[z] = session[z]
      BY <2>1, <2>2
    <2>4. DropRecord.op = "drop"
      BY DEF DropRecord
    <2>5. \A z \in Sessions : Dropping(z) => Dropping(z)' \/ session[s].record.op = "drop"
      <3> SUFFICES ASSUME NEW z \in Sessions, Dropping(z)
                   PROVE  Dropping(z)' \/ session[s].record.op = "drop"
        OBVIOUS
      <3>1. CASE z = s
        BY <2>4, <3>1 DEF Dropping
      <3>2. CASE z # s
        BY <2>3, <3>2 DEF Dropping, DropRecord
      <3> QED BY <3>1, <3>2
    <2>6. PICK r : r = session[s].record
      OBVIOUS
    <2>7. Log(r) /\ \A z \in Sessions : Dropping(z) => Dropping(z)' \/ r.op = "drop"
      BY <2>1, <2>5, <2>6
    <2> QED BY <2>1, <2>7, KeptLog
  <1> QED BY <1>1, <1>2, <1>3, <1>4, <1>5, <1>6 DEF SessionStep

\* A write adds a row at the end of the log, and nothing else that counts.
LEMMA WriterKept ==
  ASSUME KInv, DInv', NEW w \in Writers, WriterStep(w)
  PROVE  KInv'
  <1>1. ASSUME UNCHANGED <<session, server, files, log, batches, chunks, claims, read, upto, flush>>,
               trouble \subseteq trouble'
        PROVE  KInv'
    <2>1. (Up' <=> Up) /\ \A s \in Sessions : Dropping(s) => Dropping(s)'
      BY <1>1 DEF Up, Dropping, DropRecord
    <2> QED BY <1>1, <2>1, KeptAside
  <1>2. ASSUME NEW columns, BeginWrite(w, columns)
        PROVE  KInv'
    BY <1>1, <1>2 DEF BeginWrite, InWrite, catalogVars, storeVars
  <1>3. CASE Judge(w) \/ Update(w) \/ EvolveConflict(w)
    BY <1>1, <1>3 DEF Judge, Update, EvolveConflict, InWrite, catalogVars, storeVars
  <1>4. CASE Evolve(w)
    BY <1>1, <1>4 DEF Evolve, EvolveSchema, Blame, InWrite, storeVars
  <1>5. CASE LogWrite(w)
    <2>1. /\ Log(DataRecord(writer[w].columns, writer[w].entry.version))
          /\ Up /\ UNCHANGED <<session, server>>
          /\ UNCHANGED <<files, batches, chunks, claims, read, upto, flush>>
          /\ trouble \subseteq trouble'
      BY <1>5 DEF LogWrite, Log, WriterAt, InWrite, catalogVars, storeVars
    <2>2. Up' /\ \A s \in Sessions : Dropping(s) => Dropping(s)'
      BY <2>1 DEF Up, Dropping, DropRecord
    <2> QED BY <2>1, <2>2, KeptLog
  <1> QED BY <1>2, <1>3, <1>4, <1>5 DEF WriterStep

\* Replay of the statements changes the catalog only, while nothing is stored.
LEMMA ReplayKept ==
  ASSUME KInv, DInv', ReplayCreateOrDrop \/ ConvergeStep \/ ReplayFails \/ ReplayEnds
  PROVE  KInv'
  <1>1. "phase" \in DOMAIN server /\ server.phase = "ddl"
    BY DEF KInv, DInv, Shapely, SessionsOK, ReplayCreateOrDrop, ConvergeStep, ReplayFails,
           ReplayEnds, Replaying
  <1>2. ~Up /\ ~Up'
    <2>1. \A x : [server EXCEPT !.at = x].phase = server.phase
      BY <1>1
    <2>2. \A x : [server EXCEPT !.phase = x].phase = x
      BY <1>1
    <2>3. CASE server' = server \/ Onward
      BY <1>1, <2>1, <2>3 DEF Onward, Up
    <2>4. CASE \E x \in {"refused", "batches"} : server' = [server EXCEPT !.phase = x]
      BY <1>1, <2>2, <2>4 DEF Up
    <2> QED BY <2>3, <2>4 DEF ReplayCreateOrDrop, ConvergeStep, ReplayFails, ReplayEnds
  <1>3. UNCHANGED <<log, batches, session, chunks, claims, read, upto, flush>>
    BY DEF ReplayCreateOrDrop, ConvergeStep, ReplayFails, ReplayEnds, Replays, logVars, storeVars
  <1>4. files' = files \/ DOMAIN files' = {}
    BY DEF ReplayCreateOrDrop, ConvergeStep, ReplayFails, ReplayEnds, CreateTable, DropTable,
           EvolveSchema, NoColumns, catalogVars
  <1>5. trouble \subseteq trouble'
    BY DEF ReplayCreateOrDrop, ConvergeStep, ReplayFails, ReplayEnds, Blame
  <1>6. \A s \in Sessions : Dropping(s) => Dropping(s)'
    BY <1>3 DEF Dropping, DropRecord
  <1> QED BY <1>2, <1>3, <1>4, <1>5, <1>6, KeptAside


-----------------------------------------------------------------------------
(* The accumulator. *)

\* A scan only looks further.
LEMMA ScanKept ==
  ASSUME KInv, DInv', Scan
  PROVE  KInv'
  <1>1. /\ UNCHANGED <<session, server, files, log, batches, chunks, claims, read, flush, trouble>>
        /\ Up /\ flush = NoFlush
    BY DEF Scan, Accumulates
  <1>2. (Up' <=> Up) /\ \A s \in Sessions : Dropping(s) => Dropping(s)'
    BY <1>1 DEF Up, Dropping, DropRecord
  <1> QED BY <1>1, <1>2, KeptAside

\* A row of the present life that is absorbed sees the store's own epoch.
LEMMA QuietIsLive ==
  ASSUME IInv, NEW p \in Rows, Quiet(p), p <= read
  PROVE  live = LivenessAt(p) /\ live.exists
  <1>1. Len(log) \in Nat /\ p \in 1..Len(log)
    BY RowsInLog DEF IInv
  <1>2. read \in p..Len(log)
    BY <1>1 DEF IInv, Within
  <1>3. LivenessAt(read) = LivenessAt(p) /\ LivenessAt(p).exists
    BY <1>1, <1>2, QuietStands DEF IInv
  <1> QED BY <1>3 DEF IInv, LivenessFollowsLog

\* A chunk discarded has no row of the present life.
LEMMA DiscardKept ==
  ASSUME KInv, DInv', NEW k, Discard(k)
  PROVE  KInv'
  <1>1. /\ UNCHANGED <<session, server, files, log, batches, claims, read, upto, flush, live>>
        /\ Up /\ k \in DOMAIN chunks /\ Stale(chunks[k].epoch)
        /\ trouble' = trouble
        /\ DOMAIN chunks' = DOMAIN chunks \ {k}
        /\ \A j \in DOMAIN chunks' : chunks'[j] = chunks[j]
    BY DEF Discard, Accumulates, WithoutChunk
  <1>2. /\ Rows' = Rows
        /\ \A p : LivenessAt(p)' = LivenessAt(p)
        /\ \A p : Quiet(p)' <=> Quiet(p)
    BY <1>1, SameLog
  <1>3. \A p : (Settled(p)' <=> Settled(p)) /\ (Committed(p)' <=> Committed(p))
    BY <1>1, SameBatches
  <1>4. Formed
    BY DEF KInv
  <1>5. Down'
    BY <1>1 DEF Down, Up
  <1>6. ChunkShape'
    BY <1>1, <1>2, <1>4 DEF Formed, ChunkShape
  <1>7. OneOpen'
    BY <1>1, <1>4 DEF Formed, OneOpen
  <1>8. BatchShape'
    BY <1>1, <1>2, <1>4 DEF Formed, BatchShape
  <1>9. FlushShape'
    BY <1>1, <1>4 DEF Formed, FlushShape, NoFlush
  <1>10. FileShape' /\ ClaimShape'
    BY <1>1, <1>4 DEF Formed, FileShape, ClaimShape
  <1>11. Landed'
    BY <1>1, <1>2 DEF KInv, Landed, Up, Dropping, DropRecord
  <1>12. ASSUME Taken' PROVE Held' /\ Covered' /\ Claimed' /\ Stored'
    <2>1. Held /\ Covered /\ Claimed /\ Stored
      BY <1>1, <1>12, TakenBefore DEF KInv
    <2>2. Held'
      BY <1>1, <1>2, <1>3, <2>1 DEF Held, Reaches
    <2>3. Covered' /\ Claimed'
      BY <1>1, <1>2, <1>3, <2>1 DEF Covered, Claimed
    <2>4. ASSUME NEW p \in Rows, p <= read, Quiet(p)
          PROVE  InSomeChunk(p)' \/ Committed(p)
      <3>1. p \notin chunks[k].rows
        <4>1. live = LivenessAt(p) /\ live.exists
          BY <2>4, QuietIsLive DEF KInv, DInv
        <4>2. p \in chunks[k].rows => live.epoch = chunks[k].epoch
          BY <1>1, <1>4, <4>1 DEF Formed, ChunkShape
        <4> QED BY <1>1, <4>1, <4>2 DEF Stale
      <3>2. InSomeChunk(p) => InSomeChunk(p)'
        BY <1>1, <3>1 DEF InSomeChunk
      <3> QED BY <2>1, <2>4, <3>2 DEF Stored
    <2>5. Stored'
      BY <1>1, <1>2, <1>3, <2>4 DEF Stored
    <2> QED BY <2>2, <2>3, <2>5
  <1> QED BY <1>5, <1>6, <1>7, <1>8, <1>9, <1>10, <1>11, <1>12 DEF KInv, Formed

\* What a seal leaves of a chunk.
LEMMA SealedChunk ==
  ASSUME ChunkShape, NEW ks
  PROVE  /\ DOMAIN Sealed(ks) = DOMAIN chunks
         /\ \A k \in DOMAIN chunks :
                /\ DOMAIN Sealed(ks)[k] = DOMAIN chunks[k]
                /\ Sealed(ks)[k].rows = chunks[k].rows
                /\ Sealed(ks)[k].epoch = chunks[k].epoch
                /\ Sealed(ks)[k].open <=> (k \notin ks /\ chunks[k].open)
  <1> SUFFICES ASSUME NEW k \in DOMAIN chunks
               PROVE  /\ DOMAIN Sealed(ks)[k] = DOMAIN chunks[k]
                      /\ Sealed(ks)[k].rows = chunks[k].rows
                      /\ Sealed(ks)[k].epoch = chunks[k].epoch
                      /\ Sealed(ks)[k].open <=> (k \notin ks /\ chunks[k].open)
    BY DEF Sealed
  <1>1. {"epoch", "version", "columns", "rows", "open"} \subseteq DOMAIN chunks[k]
    BY DEF ChunkShape
  <1>2. Sealed(ks)[k] = IF k \in ks THEN [chunks[k] EXCEPT !.open = FALSE] ELSE chunks[k]
    BY DEF Sealed
  <1> DEFINE c == [chunks[k] EXCEPT !.open = FALSE]
  <1>3. /\ DOMAIN c = DOMAIN chunks[k] /\ c.rows = chunks[k].rows
        /\ c.epoch = chunks[k].epoch /\ c.open = FALSE
    BY <1>1
  <1> QED BY <1>2, <1>3

\* A batch begun has the rows of its chunk, and all within its reach are settled.
LEMMA BeginFlushKept ==
  ASSUME KInv, DInv', NEW k, BeginFlush(k)
  PROVE  KInv'
  <1> DEFINE b == Batch("pending", k, chunks[k].rows)
             i == Len(batches) + 1
  <1>1. /\ UNCHANGED <<session, server, files, log, claims, read, upto, live, trouble>>
        /\ Up /\ read = upto /\ flush = NoFlush
        /\ k \in DOMAIN chunks /\ ~Stale(chunks[k].epoch)
        /\ chunks' = Sealed({k})
        /\ batches' = Append(batches, b)
        /\ flush' = [chunk |-> k, batch |-> i]
    BY DEF BeginFlush, Accumulates
  <1>2. /\ Rows' = Rows
        /\ \A p : LivenessAt(p)' = LivenessAt(p)
        /\ \A p : Quiet(p)' <=> Quiet(p)
    BY <1>1, SameLog
  <1>3. Formed /\ IInv
    BY DEF KInv, DInv
  <1>4. /\ DOMAIN chunks' = DOMAIN chunks
        /\ \A j \in DOMAIN chunks :
               /\ DOMAIN chunks'[j] = DOMAIN chunks[j]
               /\ chunks'[j].rows = chunks[j].rows
               /\ chunks'[j].epoch = chunks[j].epoch
               /\ chunks'[j].open => chunks[j].open
    BY <1>1, <1>3, SealedChunk DEF Formed
  <1>5. /\ \A p \in chunks[k].rows : p \in Rows /\ p <= read /\ p \in 1..Len(log)
        /\ \A p \in chunks[k].rows : LivenessAt(p) = [exists |-> TRUE, epoch |-> chunks[k].epoch]
        /\ k \in chunks[k].rows
        /\ Len(log) \in Nat /\ read \in Nat
    BY <1>1, <1>3, RowsInLog DEF Formed, ChunkShape, IInv, Within
  <1>6. Max(chunks[k].rows) \in chunks[k].rows /\ \A p \in chunks[k].rows : p <= Max(chunks[k].rows)
    <2>1. \E m \in chunks[k].rows : \A p \in chunks[k].rows : m >= p
      BY <1>1, <1>3, <1>5 DEF Formed, ChunkShape
    <2>2. /\ Max(chunks[k].rows) \in chunks[k].rows
          /\ \A p \in chunks[k].rows : Max(chunks[k].rows) >= p
      BY <2>1, Zenon DEF Max
    <2> QED BY <1>5, <2>2
  <1>7. /\ b.status = "pending" /\ b.lo = k /\ b.rows = chunks[k].rows
        /\ b.hi = Max(chunks[k].rows)
        /\ DOMAIN b = {"status", "lo", "rows", "hi"}
    BY DEF Batch
  <1> HIDE DEF b
  <1>8. PICK S : batches \in Seq(S)
    BY DEF KInv, DInv, Shapely, BatchesOK
  <1>9. batches \in Seq(S \cup {b})
    BY <1>8, SMT
  <1>10. /\ Len(batches) \in Nat
         /\ DOMAIN batches = 1..Len(batches) /\ DOMAIN batches' = 1..i
         /\ \A j \in DOMAIN batches : batches'[j] = batches[j]
         /\ batches'[i] = b
    BY <1>1, <1>9, AppendProperties, LenProperties
  <1>11. /\ DOMAIN batches' = DOMAIN batches \cup {i} /\ i \notin DOMAIN batches
    BY <1>10
  <1> HIDE DEF i
  <1>12. \A p : (Settled(p) => Settled(p)') /\ (Committed(p)' <=> Committed(p))
    BY <1>7, <1>10, <1>11 DEF Settled, Committed
  <1>13. \A p \in chunks[k].rows : Settled(p)'
    BY <1>7, <1>10, <1>11 DEF Settled
  <1>14. Down'
    BY <1>1 DEF Down, Up
  <1>15. ChunkShape'
    <2> SUFFICES ASSUME NEW j \in DOMAIN chunks
                 PROVE  /\ {"epoch", "version", "columns", "rows", "open"} \subseteq DOMAIN chunks'[j]
                        /\ j \in chunks'[j].rows
                        /\ \A p \in chunks'[j].rows :
                              p \in Rows /\ p <= read
                              /\ LivenessAt(p) = [exists |-> TRUE, epoch |-> chunks'[j].epoch]
                        /\ \E m \in chunks'[j].rows : \A p \in chunks'[j].rows : p <= m
      BY <1>1, <1>2, <1>4 DEF ChunkShape
    <2> QED BY <1>3, <1>4 DEF Formed, ChunkShape
  <1>16. OneOpen'
    BY <1>3, <1>4 DEF Formed, OneOpen
  <1>17. BatchShape'
    <2> SUFFICES ASSUME NEW j \in DOMAIN batches'
                 PROVE  /\ "hi" \in DOMAIN batches'[j]
                        /\ batches'[j].hi \in 1..Len(log)
                        /\ batches'[j].lo \in batches'[j].rows
                        /\ \A p \in batches'[j].rows :
                               p \in Rows /\ p <= batches'[j].hi /\ LivenessAt(p).exists
                        /\ \A p, q \in batches'[j].rows : LivenessAt(p) = LivenessAt(q)
      BY <1>1, <1>2 DEF BatchShape
    <2>1. CASE j = i
      <3>1. /\ DOMAIN batches'[j] = {"status", "lo", "rows", "hi"}
            /\ batches'[j].lo = k /\ batches'[j].rows = chunks[k].rows
            /\ batches'[j].hi = Max(chunks[k].rows)
        BY <1>7, <1>10, <2>1
      <3>2. Max(chunks[k].rows) \in 1..Len(log)
        BY <1>5, <1>6
      <3>3. \A p \in chunks[k].rows : LivenessAt(p).exists
        BY <1>5
      <3>4. \A p, q \in chunks[k].rows : LivenessAt(p) = LivenessAt(q)
        BY <1>5
      <3> QED BY <1>5, <1>6, <3>1, <3>2, <3>3, <3>4
    <2>2. CASE j # i
      <3>1. j \in DOMAIN batches /\ batches'[j] = batches[j]
        BY <1>10, <1>11, <2>2
      <3> QED BY <1>3, <3>1 DEF Formed, BatchShape
    <2> QED BY <2>1, <2>2
  <1>18. FlushShape'
    <2>1. flush'.batch = i /\ flush'.chunk = k
      BY <1>1
    <2>2. batches'[i].status = "pending" /\ batches'[i].rows = chunks[k].rows
      BY <1>7, <1>10
    <2>3. chunks'[k].rows = chunks[k].rows
      BY <1>1, <1>4
    <2>4. read' = upto'
      BY <1>1
    <2> QED BY <2>1, <2>2, <2>3, <2>4 DEF FlushShape
  <1>19. FileShape' /\ ClaimShape'
    BY <1>1, <1>3, <1>10, <1>11 DEF Formed, FileShape, ClaimShape
  <1>20. Landed'
    BY <1>1, <1>2, <1>7, <1>10, <1>11 DEF KInv, Landed, Up, Dropping, DropRecord
  <1>21. ASSUME Taken' PROVE Held' /\ Covered' /\ Claimed' /\ Stored'
    <2>1. Held /\ Covered /\ Claimed /\ Stored
      BY <1>1, <1>21, TakenBefore DEF KInv
    <2>2. ASSUME NEW j \in DOMAIN chunks, NEW p \in Rows, Quiet(p), Reaches(j, p)'
          PROVE  p \in chunks'[j].rows \/ Settled(p)'
      <3>1. Reaches(j, p)
        BY <1>1, <1>2, <1>4, <2>2 DEF Reaches
      <3> QED BY <1>4, <1>12, <2>1, <2>2, <3>1 DEF Held
    <2>3. Held'
      BY <1>2, <1>4, <2>2 DEF Held
    <2>4. ASSUME NEW j \in DOMAIN batches', NEW p \in Rows, Quiet(p),
                 batches'[j].lo <= p, p <= batches'[j].hi
          PROVE  Settled(p)'
      <3>1. CASE j = i
        <4>1. k <= p /\ p <= Max(chunks[k].rows)
          BY <1>7, <1>10, <2>4, <3>1
        <4>2. p \in 1..Len(log)
          BY <1>3, RowsInLog DEF IInv
        <4>3. Max(chunks[k].rows) <= read /\ Max(chunks[k].rows) \in 1..Len(log)
          BY <1>5, <1>6
        <4>4. p <= read
          BY <1>5, <4>1, <4>2, <4>3
        <4>5. live = LivenessAt(p)
          BY <1>3, <2>4, <4>4, QuietIsLive
        <4>6. LivenessAt(p).epoch = chunks[k].epoch
          BY <1>1, <4>5 DEF Stale
        <4>7. Reaches(k, p)
          BY <1>6, <4>1, <4>6 DEF Reaches
        <4>8. p \in chunks[k].rows \/ Settled(p)
          BY <1>1, <2>1, <2>4, <4>7 DEF Held
        <4> QED BY <1>12, <1>13, <4>8
      <3>2. CASE j # i
        <4>1. j \in DOMAIN batches /\ batches'[j] = batches[j]
          BY <1>10, <1>11, <3>2
        <4> QED BY <1>12, <2>1, <2>4, <4>1 DEF Covered
      <3> QED BY <3>1, <3>2
    <2>5. Covered'
      BY <1>2, <2>4 DEF Covered
    <2>6. Claimed'
      BY <1>1, <1>2, <1>12, <2>1 DEF Claimed
    <2>7. \A p : InSomeChunk(p)' <=> InSomeChunk(p)
      BY <1>4 DEF InSomeChunk
    <2>8. Stored'
      BY <1>1, <1>2, <1>12, <2>1, <2>7 DEF Stored
    <2> QED BY <2>3, <2>5, <2>6, <2>8
  <1> QED BY <1>14, <1>15, <1>16, <1>17, <1>18, <1>19, <1>20, <1>21 DEF KInv, Formed


\* The commit makes the batch a file, and the rows of its chunk committed.
LEMMA EndFlushKept ==
  ASSUME KInv, DInv', EndFlush
  PROVE  KInv'
  <1> DEFINE b == flush.batch
             k == flush.chunk
  <1>1. /\ UNCHANGED <<session, server, log, claims, read, upto>>
        /\ Up /\ flush # NoFlush /\ flush' = NoFlush
        /\ files' = Put(b, batches[b].rows, files)
        /\ batches' = [batches EXCEPT ![b].status = "committed"]
        /\ chunks' = WithoutChunk(k)
        /\ trouble \subseteq trouble'
    BY DEF EndFlush, Accumulates, Blame
  <1>2. /\ Rows' = Rows
        /\ \A p : LivenessAt(p)' = LivenessAt(p)
        /\ \A p : Quiet(p)' <=> Quiet(p)
    BY <1>1, SameLog
  <1>3. Formed /\ BatchesOK
    BY DEF KInv, DInv, Shapely
  <1>4. /\ b \in DOMAIN batches
        /\ batches[b].status = "pending"
        /\ k \in DOMAIN chunks => chunks[k].rows = batches[b].rows
    BY <1>1, <1>3 DEF BatchesOK, Formed, FlushShape
  <1> HIDE DEF b, k
  <1>5. \A j \in DOMAIN batches : {"rows", "lo", "hi", "status"} \subseteq DOMAIN batches[j]
    BY <1>3 DEF BatchesOK, Formed, BatchShape
  <1>6. /\ DOMAIN batches' = DOMAIN batches
        /\ \A j \in DOMAIN batches :
               /\ DOMAIN batches'[j] = DOMAIN batches[j]
               /\ batches'[j].rows = batches[j].rows
               /\ batches'[j].lo = batches[j].lo
               /\ batches'[j].hi = batches[j].hi
               /\ batches'[j].status = IF j = b THEN "committed" ELSE batches[j].status
    <2> DEFINE c == [batches[b] EXCEPT !.status = "committed"]
    <2>1. batches' = [batches EXCEPT ![b] = c]
      BY <1>1
    <2>2. /\ DOMAIN c = DOMAIN batches[b] /\ c.lo = batches[b].lo /\ c.rows = batches[b].rows
          /\ c.hi = batches[b].hi /\ c.status = "committed"
      BY <1>4, <1>5
    <2> HIDE DEF c
    <2>3. /\ DOMAIN batches' = DOMAIN batches
          /\ \A j \in DOMAIN batches : batches'[j] = IF j = b THEN c ELSE batches[j]
      BY <2>1
    <2> QED BY <1>4, <2>2, <2>3
  <1>7. /\ DOMAIN files' = {b} \cup DOMAIN files
        /\ files'[b] = batches[b].rows
        /\ \A f \in DOMAIN files \ {b} : files'[f] = files[f]
    BY <1>1 DEF Put, Over
  <1>8. /\ DOMAIN chunks' = DOMAIN chunks \ {k}
        /\ \A j \in DOMAIN chunks' : chunks'[j] = chunks[j]
    BY <1>1 DEF WithoutChunk
  <1>9. \A p : (Settled(p) => Settled(p)') /\ (Committed(p) => Committed(p)')
    BY <1>6 DEF Settled, Committed
  <1>10. \A p \in batches[b].rows : Committed(p)'
    BY <1>4, <1>6 DEF Committed
  <1>11. Down' /\ FlushShape'
    BY <1>1 DEF Down, Up, FlushShape, NoFlush
  <1>12. ChunkShape'
    BY <1>1, <1>2, <1>3, <1>8 DEF Formed, ChunkShape
  <1>13. OneOpen'
    BY <1>3, <1>8 DEF Formed, OneOpen
  <1>14. BatchShape'
    BY <1>1, <1>2, <1>3, <1>6 DEF Formed, BatchShape
  <1>15. FileShape'
    BY <1>3, <1>4, <1>6, <1>7 DEF Formed, FileShape
  <1>16. ClaimShape'
    BY <1>1, <1>3 DEF Formed, ClaimShape
  <1>17. Landed'
    BY <1>1, <1>2, <1>6, <1>7 DEF KInv, Landed, Up, Dropping, DropRecord
  <1>18. ASSUME Taken' PROVE Held' /\ Covered' /\ Claimed' /\ Stored'
    <2>1. Held /\ Covered /\ Claimed /\ Stored
      BY <1>1, <1>18, TakenBefore DEF KInv
    <2>2. Held'
      BY <1>1, <1>2, <1>8, <1>9, <2>1 DEF Held, Reaches
    <2>3. Covered'
      BY <1>1, <1>2, <1>6, <1>9, <2>1 DEF Covered
    <2>4. Claimed'
      BY <1>1, <1>2, <1>9, <2>1 DEF Claimed
    <2>5. \A p : InSomeChunk(p) => InSomeChunk(p)' \/ Committed(p)'
      BY <1>4, <1>8, <1>10 DEF InSomeChunk
    <2>6. Stored'
      BY <1>1, <1>2, <1>9, <2>1, <2>5 DEF Stored
    <2> QED BY <2>2, <2>3, <2>4, <2>6
  <1> QED BY <1>11, <1>12, <1>13, <1>14, <1>15, <1>16, <1>17, <1>18 DEF KInv, Formed

\* A crash leaves the log, and what it says of batches.
LEMMA CrashKept ==
  ASSUME KInv, DInv', Crash
  PROVE  KInv'
  <1>1. /\ UNCHANGED <<log, batches>>
        /\ server' = [phase |-> "ddl", at |-> 0]
        /\ DOMAIN chunks' = {} /\ claims' = {} /\ read' = 0 /\ upto' = 0 /\ flush' = NoFlush
        /\ files' = files \/ DOMAIN files' = {}
        /\ trouble \subseteq trouble'
    BY DEF Crash, logVars, FreshStore, NoColumns
  <1>2. /\ Rows' = Rows
        /\ \A p : LivenessAt(p)' = LivenessAt(p)
        /\ \A p : Quiet(p)' <=> Quiet(p)
    BY <1>1, SameLog
  <1>3. \A p : (Settled(p)' <=> Settled(p)) /\ (Committed(p)' <=> Committed(p))
    BY <1>1, SameBatches
  <1>4. Formed
    BY DEF KInv
  <1>5. ~Up'
    BY <1>1 DEF Up
  <1>6. Down' /\ ChunkShape' /\ OneOpen' /\ FlushShape' /\ ClaimShape' /\ Landed'
    BY <1>1, <1>5 DEF Down, ChunkShape, OneOpen, FlushShape, ClaimShape, Landed, NoFlush
  <1>7. BatchShape'
    BY <1>1, <1>2, <1>4 DEF Formed, BatchShape
  <1>8. FileShape'
    BY <1>1, <1>4 DEF Formed, FileShape
  <1>9. ASSUME Taken' PROVE Held' /\ Covered' /\ Claimed' /\ Stored'
    <2>1. Covered
      BY <1>1, <1>9, TakenBefore DEF KInv
    <2>2. Covered'
      BY <1>1, <1>2, <1>3, <2>1 DEF Covered
    <2>3. Held' /\ Claimed'
      BY <1>1 DEF Held, Claimed
    <2>4. \A p \in Rows : p \in Nat \ {0}
      BY RowsInLog DEF KInv, DInv, IInv
    <2>5. Stored'
      BY <1>1, <1>2, <2>4 DEF Stored
    <2> QED BY <2>2, <2>3, <2>5
  <1> QED BY <1>6, <1>7, <1>8, <1>9 DEF KInv, Formed


\* Recovery commits every batch with a row of the present life, and all it claims.
LEMMA ResumeKept ==
  ASSUME KInv, DInv', Resume
  PROVE  KInv'
  <1> DEFINE kept == {b \in DOMAIN batches : batches[b].status # "aborted" /\ SameEra(batches[b].lo)}
             back(b) == [batches[b] EXCEPT !.status = "committed", !.rows = RowsOf(b)]
             gone(b) == [batches[b] EXCEPT !.status = "aborted"]
  <1>0. ~Up /\ Up' /\ claims' = UNION {batches[b].lo..batches[b].hi : b \in kept}
    <2>1. server.phase = "batches" /\ server' = [phase |-> "up", at |-> 0]
      BY Zenon DEF Resume
    <2>2. claims' = UNION {batches[b].lo..batches[b].hi : b \in kept}
      BY Zenon DEF Resume
    <2> HIDE DEF kept
    <2> QED BY <2>1, <2>2 DEF Up
  <1>1. /\ UNCHANGED <<session, log, read, upto, chunks, flush, trouble>>
        /\ files' = Over(files, [b \in kept |-> RowsOf(b)])
        /\ batches' = [b \in DOMAIN batches |-> IF b \in kept THEN back(b) ELSE gone(b)]
    <2>1. UNCHANGED <<session, log, read, upto, chunks, flush, trouble>>
      BY Zenon DEF Resume
    <2>2. files' = Over(files, [b \in kept |-> RowsOf(b)])
      BY Zenon DEF Resume
    <2>3. batches' = [b \in DOMAIN batches |-> IF b \in kept THEN back(b) ELSE gone(b)]
      BY Zenon DEF Resume
    <2> HIDE DEF kept, back, gone
    <2> QED BY <2>1, <2>2, <2>3
  <1>2. Formed /\ BatchesOK /\ Within
    BY DEF KInv, DInv, IInv, Shapely
  <1>3. /\ \A b \in kept : b \in DOMAIN batches /\ batches[b].status # "aborted" /\ SameEra(batches[b].lo)
        /\ \A b \in DOMAIN batches : batches[b].status # "aborted" /\ SameEra(batches[b].lo) => b \in kept
    OBVIOUS
  <1> HIDE DEF kept
  <1>4. \A b \in DOMAIN batches :
           /\ {"rows", "lo", "status", "hi"} \subseteq DOMAIN batches[b]
           /\ batches[b].lo \in Nat \ {0} /\ batches[b].hi \in 1..Len(log)
           /\ batches[b].lo \in batches[b].rows
           /\ \A p \in batches[b].rows : p \in Rows /\ p <= batches[b].hi /\ batches[b].lo <= p
    BY <1>2 DEF Formed, BatchesOK, BatchShape, From
  <1>5. \A b \in DOMAIN batches :
           /\ DOMAIN back(b) = DOMAIN batches[b]
           /\ back(b).lo = batches[b].lo /\ back(b).hi = batches[b].hi
           /\ back(b).rows = RowsOf(b) /\ back(b).status = "committed"
           /\ DOMAIN gone(b) = DOMAIN batches[b]
           /\ gone(b).lo = batches[b].lo /\ gone(b).hi = batches[b].hi
           /\ gone(b).rows = batches[b].rows /\ gone(b).status = "aborted"
    BY <1>4
  <1> HIDE DEF back, gone
  <1>6. /\ DOMAIN batches' = DOMAIN batches
        /\ \A b \in DOMAIN batches :
               /\ "hi" \in DOMAIN batches'[b]
               /\ batches'[b].lo = batches[b].lo /\ batches'[b].hi = batches[b].hi
        /\ \A b \in kept : batches'[b].rows = RowsOf(b) /\ batches'[b].status = "committed"
        /\ \A b \in DOMAIN batches \ kept :
               batches'[b].rows = batches[b].rows /\ batches'[b].status = "aborted"
    <2>1. \A b \in DOMAIN batches : batches'[b] = IF b \in kept THEN back(b) ELSE gone(b)
      BY <1>1
    <2> QED BY <1>1, <1>3, <1>4, <1>5, <2>1
  <1>7. /\ Rows' = Rows
        /\ \A p : LivenessAt(p)' = LivenessAt(p)
        /\ \A p : Quiet(p)' <=> Quiet(p)
    BY <1>1, SameLog
  <1>8. \A p \in Rows : p \in 1..Len(log)
    BY <1>2, RowsInLog
  <1>9. ASSUME NEW b \in kept
        PROVE  /\ batches[b].rows \subseteq RowsOf(b)
               /\ \A p \in RowsOf(b) : p \in Rows /\ batches[b].lo <= p /\ p <= batches[b].hi
    <2>1. b \in DOMAIN batches
      BY <1>3
    <2>2. CASE batches[b].status = "pending"
      <3>1. RowsOf(b) = Rows \cap (batches[b].lo..batches[b].hi)
        BY <2>2 DEF RowsOf
      <3> QED BY <1>4, <1>8, <2>1, <3>1
    <2>3. CASE batches[b].status # "pending"
      <3>1. RowsOf(b) = batches[b].rows
        BY <2>3 DEF RowsOf
      <3> QED BY <1>4, <2>1, <3>1
    <2> QED BY <2>2, <2>3
  <1>10. ASSUME NEW b \in kept, NEW p \in RowsOf(b)
         PROVE  LivenessAt(p) = LivenessAt(batches[b].lo) /\ LivenessAt(p).exists
    <2>1. PICK lo : lo = batches[b].lo
      OBVIOUS
    <2>2. lo \in Rows /\ SameEra(lo)
      BY <1>3, <1>4, <2>1
    <2>3. Quiet(lo)
      BY <1>2, <2>2, SameEraIsQuiet
    <2>4. lo \in 1..Len(log) /\ p \in lo..Len(log)
      BY <1>3, <1>8, <1>9, <2>1, <2>2
    <2>5. LivenessAt(p) = LivenessAt(lo) /\ LivenessAt(lo).exists
      BY <1>2, <2>3, <2>4, QuietStands
    <2> QED BY <2>1, <2>5
  <1>11. ASSUME NEW p \in Rows, Quiet(p), Settled(p)
         PROVE  Committed(p)' /\ Settled(p)'
    <2>1. PICK b \in DOMAIN batches : batches[b].status # "aborted" /\ p \in batches[b].rows
      BY <1>11 DEF Settled
    <2>2. PICK lo : lo = batches[b].lo
      OBVIOUS
    <2>3. LivenessAt(lo) = LivenessAt(p)
      BY <1>2, <1>4, <2>1, <2>2 DEF Formed, BatchShape
    <2>4. SameEra(lo)
      BY <1>2, <1>8, <1>11, <2>3, QuietIsSameEra
    <2>5. b \in kept
      BY <1>3, <2>1, <2>2, <2>4
    <2>6. p \in batches'[b].rows /\ batches'[b].status = "committed"
      BY <1>6, <1>9, <2>1, <2>5
    <2> QED BY <1>6, <2>6 DEF Committed, Settled
  <1>12. DOMAIN chunks = {} /\ read = 0 /\ upto = 0 /\ flush = NoFlush
    BY <1>0, <1>1, <1>2 DEF Formed, Down
  <1>13. Down' /\ ChunkShape' /\ OneOpen' /\ FlushShape'
    BY <1>0, <1>1, <1>12 DEF Down, ChunkShape, OneOpen, FlushShape, NoFlush
  <1>14. BatchShape'
    <2> SUFFICES ASSUME NEW b \in DOMAIN batches
                 PROVE  /\ "hi" \in DOMAIN batches'[b]
                        /\ batches'[b].hi \in 1..Len(log)
                        /\ batches'[b].lo \in batches'[b].rows
                        /\ \A p \in batches'[b].rows :
                               p \in Rows /\ p <= batches'[b].hi /\ LivenessAt(p).exists
                        /\ \A p, q \in batches'[b].rows : LivenessAt(p) = LivenessAt(q)
      BY <1>1, <1>6, <1>7 DEF BatchShape
    <2>1. CASE b \in kept
      <3>1. batches'[b].rows = RowsOf(b)
        BY <1>6, <2>1
      <3>2. batches[b].lo \in RowsOf(b)
        BY <1>4, <1>9, <2>1
      <3>3. \A p \in RowsOf(b) : p \in Rows /\ p <= batches[b].hi /\ LivenessAt(p).exists
        BY <1>9, <1>10, <2>1
      <3>4. \A p, q \in RowsOf(b) : LivenessAt(p) = LivenessAt(q)
        BY <1>10, <2>1
      <3> QED BY <1>4, <1>6, <3>1, <3>2, <3>3, <3>4
    <2>2. CASE b \notin kept
      <3>1. batches'[b].rows = batches[b].rows
        BY <1>6, <2>2
      <3> QED BY <1>2, <1>6, <3>1 DEF Formed, BatchShape
    <2> QED BY <2>1, <2>2
  <1>15. /\ DOMAIN files' = DOMAIN files \cup kept
         /\ \A b \in DOMAIN files : files'[b] = files[b]
         /\ \A b \in kept \ DOMAIN files : files'[b] = RowsOf(b)
    BY <1>1 DEF Over
  <1>16. FileShape'
    <2> SUFFICES ASSUME NEW b \in DOMAIN files'
                 PROVE  /\ b \in DOMAIN batches
                        /\ batches'[b].status # "pending"
                        /\ batches'[b].rows \subseteq files'[b]
      BY <1>6 DEF FileShape
    <2>1. CASE b \in DOMAIN files
      <3>1. b \in DOMAIN batches /\ batches[b].status # "pending" /\ batches[b].rows \subseteq files[b]
        BY <1>2, <2>1 DEF Formed, FileShape
      <3>2. RowsOf(b) = batches[b].rows
        BY <3>1 DEF RowsOf
      <3>3. batches'[b].rows = batches[b].rows /\ batches'[b].status # "pending"
        BY <1>6, <3>1, <3>2
      <3> QED BY <1>15, <2>1, <3>1, <3>3
    <2>2. CASE b \notin DOMAIN files
      <3>1. b \in kept /\ files'[b] = RowsOf(b)
        BY <1>15, <2>2
      <3> QED BY <1>3, <1>6, <3>1
    <2> QED BY <2>1, <2>2
  <1>17. ClaimShape'
    <2> SUFFICES ASSUME NEW b \in kept, NEW p \in batches[b].lo..batches[b].hi
                 PROVE  p \in 1..Len(log)
      BY <1>0, <1>1 DEF ClaimShape
    <2> QED BY <1>3, <1>4
  <1>18. Landed'
    <2>1. \A b \in DOMAIN batches : batches'[b].status = "committed" => b \in DOMAIN files'
      BY <1>6, <1>15
    <2> QED BY <1>6, <2>1 DEF Landed
  <1>19. ASSUME Taken' PROVE Held' /\ Covered' /\ Claimed' /\ Stored'
    <2>1. Covered
      BY <1>1, <1>19, TakenBefore DEF KInv
    <2>2. Held'
      BY <1>1, <1>12 DEF Held
    <2>3. \A b \in DOMAIN batches : \A p \in Rows :
              batches[b].lo <= p /\ p <= batches[b].hi /\ Quiet(p) => Committed(p)' /\ Settled(p)'
      BY <1>11, <2>1 DEF Covered
    <2>4. Covered'
      BY <1>6, <1>7, <2>3 DEF Covered
    <2>5. Claimed'
      <3> SUFFICES ASSUME NEW p \in Rows, p \in claims', Quiet(p)
                   PROVE  Committed(p)'
        BY <1>7 DEF Claimed
      <3>1. PICK b \in kept : p \in batches[b].lo..batches[b].hi
        BY <1>0
      <3>2. batches[b].lo <= p /\ p <= batches[b].hi
        BY <1>3, <1>4, <3>1
      <3> QED BY <1>3, <2>3, <3>2
    <2>6. Stored'
      BY <1>1, <1>7, <1>8, <1>12 DEF Stored
    <2> QED BY <2>2, <2>4, <2>5, <2>6
  <1> QED BY <1>13, <1>14, <1>16, <1>17, <1>18, <1>19 DEF KInv, Formed


\* The record absorbed next, if it is a row: what is alive at it is what the store
\* takes for alive.
LEMMA NextRowIsLive ==
  ASSUME IInv, NEW p \in Rows, p = read + 1
  PROVE  LivenessAt(p) = live
  <1>1. log[read + 1].op = "data" /\ read \in Nat
    BY RowsInLog DEF IInv, Within
  <1>2. LivenessAt(read + 1) = [exists |-> LivenessAt(read).exists, epoch |-> LivenessAt(read).epoch]
    BY <1>1, LivenessNext
  <1>3. live = [exists |-> LivenessAt(read).exists, epoch |-> LivenessAt(read).epoch]
    BY DEF IInv, LivenessFollowsLog, LivenessAt
  <1> QED BY <1>2, <1>3

\* What every record absorbed leaves alone; what is in the chunks remains to show.
LEMMA AbsorbAside ==
  ASSUME KInv, DInv', Absorb, ChunkShape', OneOpen', Taken' => Held' /\ Stored'
  PROVE  KInv'
  <1>1. /\ UNCHANGED <<session, server, files, log, batches, claims, flush>>
        /\ Up /\ read < upto
    BY DEF Absorb, Accumulates
  <1>2. trouble \subseteq trouble'
    BY Zenon DEF Absorb, AbsorbData, Observe
  <1>3. /\ Rows' = Rows
        /\ \A p : LivenessAt(p)' = LivenessAt(p)
        /\ \A p : Quiet(p)' <=> Quiet(p)
    BY <1>1, SameLog
  <1>4. \A p : (Settled(p)' <=> Settled(p)) /\ (Committed(p)' <=> Committed(p))
    BY <1>1, SameBatches
  <1>5. Formed /\ read \in Nat /\ upto \in Nat
    BY DEF KInv, DInv, IInv, Within
  <1>6. flush' = NoFlush
    BY <1>1, <1>5 DEF Formed, FlushShape
  <1>7. Down' /\ FlushShape'
    BY <1>1, <1>6 DEF Down, Up, FlushShape, NoFlush
  <1>8. BatchShape'
    BY <1>1, <1>3, <1>5 DEF Formed, BatchShape
  <1>9. FileShape' /\ ClaimShape'
    BY <1>1, <1>5 DEF Formed, FileShape, ClaimShape
  <1>10. Landed'
    BY <1>1, <1>3 DEF KInv, Landed, Up, Dropping, DropRecord
  <1>11. ASSUME Taken' PROVE Covered' /\ Claimed'
    <2>1. Covered /\ Claimed
      BY <1>2, <1>11, TakenBefore DEF KInv
    <2> QED BY <1>1, <1>3, <1>4, <2>1 DEF Covered, Claimed
  <1> QED BY <1>7, <1>8, <1>9, <1>10, <1>11 DEF KInv, Formed

\* A record that goes into no chunk is no row, or none of the present life, or
\* recovery has committed it.
LEMMA AbsorbWithout ==
  ASSUME KInv, DInv', Absorb, chunks' = chunks,
         Taken => \A p \in Rows : p = read + 1 /\ Quiet(p) => Committed(p)
  PROVE  KInv'
  <1>1. UNCHANGED <<log, batches>> /\ read' = read + 1
    BY DEF Absorb, Accumulates
  <1>2. trouble \subseteq trouble'
    BY Zenon DEF Absorb, AbsorbData, Observe
  <1>3. /\ Rows' = Rows
        /\ \A p : LivenessAt(p)' = LivenessAt(p)
        /\ \A p : Quiet(p)' <=> Quiet(p)
    BY <1>1, SameLog
  <1>4. \A p : (Settled(p)' <=> Settled(p)) /\ (Committed(p)' <=> Committed(p))
    BY <1>1, SameBatches
  <1>5. Formed /\ read \in Nat
    BY DEF KInv, DInv, IInv, Within
  <1>6. \A p \in Rows : p \in Nat
    BY RowsInLog DEF KInv, DInv, IInv
  <1>7. ChunkShape' /\ OneOpen'
    BY <1>1, <1>3, <1>5, <1>6 DEF Formed, ChunkShape, OneOpen
  <1>8. ASSUME Taken' PROVE Held' /\ Stored'
    <2>1. /\ Held /\ Stored
          /\ \A p \in Rows : p = read + 1 /\ Quiet(p) => Committed(p) /\ Settled(p)
      <3>1. Taken
        BY <1>2, <1>8, TakenBefore
      <3> QED BY <3>1 DEF KInv, Committed, Settled
    <2>2. \A p \in Rows : p <= read' => p <= read \/ p = read + 1
      BY <1>1, <1>5, <1>6
    <2>3. Held'
      BY <1>3, <1>4, <2>1, <2>2 DEF Held, Reaches
    <2>4. Stored'
      BY <1>3, <1>4, <2>1, <2>2 DEF Stored, InSomeChunk
    <2> QED BY <2>3, <2>4
  <1> QED BY <1>7, <1>8, AbsorbAside

\* A row that begins a chunk seals the one that was open.
LEMMA AbsorbBegins ==
  ASSUME KInv, DInv', Absorb, NEW p0 \in Rows, p0 = read + 1, live.exists,
         chunks' = Put(p0, NextChunk(p0), Sealed(OpenChunk))
  PROVE  KInv'
  <1>1. UNCHANGED <<log, batches>> /\ read' = p0
    BY DEF Absorb, Accumulates
  <1>2. trouble \subseteq trouble'
    BY Zenon DEF Absorb, AbsorbData, Observe
  <1>3. /\ Rows' = Rows
        /\ \A p : LivenessAt(p)' = LivenessAt(p)
        /\ \A p : Quiet(p)' <=> Quiet(p)
    BY <1>1, SameLog
  <1>4. \A p : (Settled(p)' <=> Settled(p)) /\ (Committed(p)' <=> Committed(p))
    BY <1>1, SameBatches
  <1>5. Formed /\ IInv /\ read \in Nat
    BY DEF KInv, DInv, IInv, Within
  <1>6. \A p \in Rows : p \in Nat /\ (p <= read => p <= p0)
    <2>1. \A p \in Rows : p \in Nat
      BY RowsInLog DEF KInv, DInv, IInv
    <2> QED BY <1>5, <2>1
  <1>7. LivenessAt(p0) = live /\ live = [exists |-> TRUE, epoch |-> live.epoch]
    <2>1. LivenessAt(p0) = live
      BY <1>5, NextRowIsLive
    <2>2. live = [exists |-> live.exists, epoch |-> live.epoch] /\ live.exists \in BOOLEAN
      BY <1>5 DEF IInv, LivenessFollowsLog, LivenessAt
    <2> QED BY <2>1, <2>2
  <1>8. p0 \notin DOMAIN chunks
    BY <1>5, <1>6 DEF Formed, ChunkShape
  <1>9. /\ DOMAIN chunks' = {p0} \cup DOMAIN chunks
        /\ chunks'[p0] = NextChunk(p0)
        /\ \A j \in DOMAIN chunks : chunks'[j] = Sealed(OpenChunk)[j]
    BY <1>5, <1>8, SealedChunk DEF Put, Over, Formed
  <1>10. /\ DOMAIN chunks'[p0] = {"epoch", "version", "columns", "rows", "open"}
         /\ chunks'[p0].rows = {p0} /\ chunks'[p0].epoch = live.epoch
    <2>1. /\ DOMAIN NextChunk(p0) = {"epoch", "version", "columns", "rows", "open"}
          /\ NextChunk(p0).rows = {p0} /\ NextChunk(p0).epoch = live.epoch
      BY DEF NextChunk
    <2> QED BY <1>9, <2>1
  <1>11. \A j \in DOMAIN chunks :
            /\ DOMAIN chunks'[j] = DOMAIN chunks[j]
            /\ chunks'[j].rows = chunks[j].rows
            /\ chunks'[j].epoch = chunks[j].epoch
            /\ chunks'[j].open => chunks[j].open /\ chunks[j].epoch # live.epoch
    BY <1>5, <1>9, SealedChunk DEF Formed, OpenChunk
  <1>12. ChunkShape'
    <2> SUFFICES ASSUME NEW j \in DOMAIN chunks'
                 PROVE  /\ {"epoch", "version", "columns", "rows", "open"} \subseteq DOMAIN chunks'[j]
                        /\ j \in chunks'[j].rows
                        /\ \A p \in chunks'[j].rows :
                              p \in Rows /\ p <= p0
                              /\ LivenessAt(p) = [exists |-> TRUE, epoch |-> chunks'[j].epoch]
                        /\ \E m \in chunks'[j].rows : \A p \in chunks'[j].rows : p <= m
      BY <1>1, <1>3 DEF ChunkShape
    <2>1. CASE j = p0
      BY <1>6, <1>7, <1>10, <2>1
    <2>2. CASE j # p0
      <3>1. j \in DOMAIN chunks
        BY <1>9, <2>2
      <3>2. \A p \in chunks[j].rows : p \in Rows /\ p <= p0
        <4>1. \A p \in chunks[j].rows : p \in Rows /\ p <= read
          BY <1>5, <3>1 DEF Formed, ChunkShape
        <4> QED BY <1>6, <4>1
      <3>3. /\ {"epoch", "version", "columns", "rows", "open"} \subseteq DOMAIN chunks[j]
            /\ j \in chunks[j].rows
            /\ \A p \in chunks[j].rows : LivenessAt(p) = [exists |-> TRUE, epoch |-> chunks[j].epoch]
            /\ \E m \in chunks[j].rows : \A p \in chunks[j].rows : p <= m
        BY <1>5, <3>1 DEF Formed, ChunkShape
      <3>4. chunks'[j].rows = chunks[j].rows /\ chunks'[j].epoch = chunks[j].epoch
            /\ DOMAIN chunks'[j] = DOMAIN chunks[j]
        BY <1>11, <3>1
      <3>5. \A p \in chunks'[j].rows : LivenessAt(p) = [exists |-> TRUE, epoch |-> chunks'[j].epoch]
        BY <3>3, <3>4
      <3>6. \E m \in chunks'[j].rows : \A p \in chunks'[j].rows : p <= m
        BY <3>3, <3>4
      <3> QED BY <3>2, <3>3, <3>4, <3>5, <3>6
    <2> QED BY <2>1, <2>2
  <1>13. OneOpen'
    <2> SUFFICES ASSUME NEW j \in DOMAIN chunks', NEW k \in DOMAIN chunks', j # k,
                        chunks'[j].open, chunks'[k].open, chunks'[j].epoch = chunks'[k].epoch
                 PROVE  FALSE
      BY DEF OneOpen
    <2>1. CASE j # p0 /\ k # p0
      BY <1>5, <1>9, <1>11, <2>1 DEF Formed, OneOpen
    <2>2. CASE j = p0 \/ k = p0
      BY <1>9, <1>10, <1>11, <2>2
    <2> QED BY <2>1, <2>2
  <1>14. ASSUME Taken' PROVE Held' /\ Stored'
    <2>1. Held /\ Stored
      BY <1>2, <1>14, TakenBefore DEF KInv
    <2>2. ASSUME NEW j \in DOMAIN chunks', NEW p \in Rows, Quiet(p), Reaches(j, p)'
          PROVE  p \in chunks'[j].rows \/ Settled(p)
      <3>1. /\ j <= p /\ LivenessAt(p).epoch = chunks'[j].epoch
            /\ (\E q \in chunks'[j].rows : p <= q) \/ (chunks'[j].open /\ p <= p0)
        BY <1>1, <1>3, <2>2 DEF Reaches
      <3>2. CASE j = p0
        <4>1. p = p0
          BY <1>6, <1>10, <3>1, <3>2
        <4> QED BY <1>10, <3>2, <4>1
      <3>3. CASE j # p0
        <4>1. j \in DOMAIN chunks
          BY <1>9, <3>3
        <4>2. chunks'[j].open /\ p <= p0 => p <= read
          <5>1. chunks'[j].open => p # p0
            BY <1>7, <1>11, <3>1, <4>1
          <5> QED BY <1>5, <1>6, <5>1
        <4>3. Reaches(j, p)
          BY <1>11, <3>1, <4>1, <4>2 DEF Reaches
        <4> QED BY <1>11, <2>1, <2>2, <4>1, <4>3 DEF Held
      <3> QED BY <3>2, <3>3
    <2>3. Held'
      BY <1>3, <1>4, <2>2 DEF Held
    <2>4. ASSUME NEW p \in Rows, p <= p0, Quiet(p)
          PROVE  InSomeChunk(p)' \/ Committed(p)
      <3>1. CASE p = p0
        BY <1>9, <1>10, <3>1 DEF InSomeChunk
      <3>2. CASE p # p0
        <4>1. p <= read
          BY <1>5, <1>6, <2>4, <3>2
        <4>2. InSomeChunk(p) => InSomeChunk(p)'
          BY <1>9, <1>11 DEF InSomeChunk
        <4> QED BY <2>1, <2>4, <4>1, <4>2 DEF Stored
      <3> QED BY <3>1, <3>2
    <2>5. Stored'
      BY <1>1, <1>3, <1>4, <2>4 DEF Stored
    <2> QED BY <2>3, <2>5
  <1> QED BY <1>12, <1>13, <1>14, AbsorbAside


\* A row that joins the open chunk of its epoch; it is turned away, or takes part.
LEMMA AbsorbJoins ==
  ASSUME KInv, DInv', Absorb, NEW p0 \in Rows, p0 = read + 1, live.exists,
         NEW same, NEW takes, same # {}, takes \subseteq same, same \subseteq OpenChunk,
         Taken' => takes = same,
         chunks' = [k \in DOMAIN chunks |->
                       IF k \in takes THEN [chunks[k] EXCEPT !.rows = @ \cup {p0}] ELSE chunks[k]]
  PROVE  KInv'
  <1>1. UNCHANGED <<log, batches>> /\ read' = p0
    BY DEF Absorb, Accumulates
  <1>2. trouble \subseteq trouble'
    BY Zenon DEF Absorb, AbsorbData, Observe
  <1>3. /\ Rows' = Rows
        /\ \A p : LivenessAt(p)' = LivenessAt(p)
        /\ \A p : Quiet(p)' <=> Quiet(p)
    BY <1>1, SameLog
  <1>4. \A p : (Settled(p)' <=> Settled(p)) /\ (Committed(p)' <=> Committed(p))
    BY <1>1, SameBatches
  <1>5. Formed /\ IInv /\ read \in Nat
    BY DEF KInv, DInv, IInv, Within
  <1>6. \A p \in Rows : p \in Nat /\ (p <= read => p <= p0) /\ (p <= p0 => p <= read \/ p = p0)
    <2>1. \A p \in Rows : p \in Nat
      BY RowsInLog DEF KInv, DInv, IInv
    <2> QED BY <1>5, <2>1
  <1>7. LivenessAt(p0) = [exists |-> TRUE, epoch |-> live.epoch]
    <2>1. LivenessAt(p0) = live
      BY <1>5, NextRowIsLive
    <2>2. live = [exists |-> live.exists, epoch |-> live.epoch] /\ live.exists \in BOOLEAN
      BY <1>5 DEF IInv, LivenessFollowsLog, LivenessAt
    <2> QED BY <2>1, <2>2
  <1>8. \A j \in DOMAIN chunks : {"epoch", "version", "columns", "rows", "open"} \subseteq DOMAIN chunks[j]
    BY <1>5 DEF Formed, ChunkShape
  <1>9. /\ DOMAIN chunks' = DOMAIN chunks
        /\ \A j \in DOMAIN chunks :
               /\ DOMAIN chunks'[j] = DOMAIN chunks[j]
               /\ chunks'[j].rows = IF j \in takes THEN chunks[j].rows \cup {p0} ELSE chunks[j].rows
               /\ chunks'[j].epoch = chunks[j].epoch
               /\ chunks'[j].open = chunks[j].open
    <2> SUFFICES ASSUME NEW j \in DOMAIN chunks
                 PROVE  /\ DOMAIN chunks'[j] = DOMAIN chunks[j]
                        /\ chunks'[j].rows = IF j \in takes THEN chunks[j].rows \cup {p0} ELSE chunks[j].rows
                        /\ chunks'[j].epoch = chunks[j].epoch
                        /\ chunks'[j].open = chunks[j].open
      OBVIOUS
    <2> DEFINE c == [chunks[j] EXCEPT !.rows = chunks[j].rows \cup {p0}]
    <2>1. /\ DOMAIN c = DOMAIN chunks[j] /\ c.rows = chunks[j].rows \cup {p0}
          /\ c.epoch = chunks[j].epoch /\ c.open = chunks[j].open
      BY <1>8
    <2>2. chunks'[j] = IF j \in takes THEN c ELSE chunks[j]
      OBVIOUS
    <2> HIDE DEF c
    <2> QED BY <2>1, <2>2
  <1>10. \A j \in takes : j \in DOMAIN chunks /\ chunks[j].open /\ chunks[j].epoch = live.epoch
    BY DEF OpenChunk
  <1>11. ChunkShape'
    <2> SUFFICES ASSUME NEW j \in DOMAIN chunks
                 PROVE  /\ {"epoch", "version", "columns", "rows", "open"} \subseteq DOMAIN chunks'[j]
                        /\ j \in chunks'[j].rows
                        /\ \A p \in chunks'[j].rows :
                              p \in Rows /\ p <= p0
                              /\ LivenessAt(p) = [exists |-> TRUE, epoch |-> chunks'[j].epoch]
                        /\ \E m \in chunks'[j].rows : \A p \in chunks'[j].rows : p <= m
      BY <1>1, <1>3, <1>9 DEF ChunkShape
    <2>1. /\ j \in chunks[j].rows
          /\ \A p \in chunks[j].rows : p \in Rows /\ p <= p0
          /\ \A p \in chunks[j].rows : LivenessAt(p) = [exists |-> TRUE, epoch |-> chunks[j].epoch]
          /\ \E m \in chunks[j].rows : \A p \in chunks[j].rows : p <= m
      <3>1. \A p \in chunks[j].rows : p \in Rows /\ p <= read
        BY <1>5 DEF Formed, ChunkShape
      <3> QED BY <1>5, <1>6, <3>1 DEF Formed, ChunkShape
    <2>2. {"epoch", "version", "columns", "rows", "open"} \subseteq DOMAIN chunks'[j]
      BY <1>8, <1>9
    <2>3. CASE j \in takes
      <3>1. chunks'[j].rows = chunks[j].rows \cup {p0} /\ chunks'[j].epoch = live.epoch
            /\ chunks[j].epoch = live.epoch
        BY <1>9, <1>10, <2>3
      <3>2. \A p \in chunks'[j].rows : p \in Rows /\ p <= p0
        BY <1>6, <2>1, <3>1
      <3>3. \A p \in chunks'[j].rows : LivenessAt(p) = [exists |-> TRUE, epoch |-> chunks'[j].epoch]
        BY <1>7, <2>1, <3>1
      <3>4. \E m \in chunks'[j].rows : \A p \in chunks'[j].rows : p <= m
        BY <3>1, <3>2
      <3> QED BY <2>1, <2>2, <3>1, <3>2, <3>3, <3>4
    <2>4. CASE j \notin takes
      <3>1. chunks'[j].rows = chunks[j].rows /\ chunks'[j].epoch = chunks[j].epoch
        BY <1>9, <2>4
      <3>2. \A p \in chunks'[j].rows : LivenessAt(p) = [exists |-> TRUE, epoch |-> chunks'[j].epoch]
        BY <2>1, <3>1
      <3>3. \E m \in chunks'[j].rows : \A p \in chunks'[j].rows : p <= m
        BY <2>1, <3>1
      <3> QED BY <2>1, <2>2, <3>1, <3>2, <3>3
    <2> QED BY <2>3, <2>4
  <1>12. OneOpen'
    BY <1>5, <1>9 DEF Formed, OneOpen
  <1>13. ASSUME Taken' PROVE Held' /\ Stored'
    <2>1. Held /\ Stored
      BY <1>2, <1>13, TakenBefore DEF KInv
    <2>2. \A j \in DOMAIN chunks : chunks[j].open /\ chunks[j].epoch = live.epoch => j \in takes
      <3>1. PICK k : k \in same
        OBVIOUS
      <3>2. k \in takes /\ k \in DOMAIN chunks /\ chunks[k].open /\ chunks[k].epoch = live.epoch
        BY <1>10, <1>13, <3>1
      <3> QED BY <1>5, <3>2 DEF Formed, OneOpen
    <2>3. ASSUME NEW j \in DOMAIN chunks, NEW p \in Rows, Quiet(p), Reaches(j, p)'
          PROVE  p \in chunks'[j].rows \/ Settled(p)
      <3>1. /\ j <= p /\ LivenessAt(p).epoch = chunks[j].epoch
            /\ (\E q \in chunks'[j].rows : p <= q) \/ (chunks[j].open /\ p <= p0)
        BY <1>1, <1>3, <1>9, <2>3 DEF Reaches
      <3>2. p \in chunks[j].rows => p \in chunks'[j].rows
        BY <1>9
      <3>3. CASE \E q \in chunks[j].rows : p <= q
        BY <2>1, <2>3, <3>1, <3>2, <3>3 DEF Held, Reaches
      <3>4. CASE chunks[j].open /\ p <= p0
        <4>1. CASE p <= read
          BY <2>1, <2>3, <3>1, <3>2, <3>4, <4>1 DEF Held, Reaches
        <4>2. CASE p = p0
          <5>1. chunks[j].epoch = live.epoch
            BY <1>7, <3>1, <4>2
          <5>2. j \in takes
            BY <2>2, <3>4, <5>1
          <5>3. chunks'[j].rows = chunks[j].rows \cup {p0}
            BY <1>9, <5>2
          <5> QED BY <4>2, <5>3
        <4> QED BY <1>6, <3>4, <4>1, <4>2
      <3>5. (\E q \in chunks'[j].rows : p <= q) =>
                (\E q \in chunks[j].rows : p <= q) \/ (chunks[j].open /\ p <= p0)
        BY <1>9, <1>10
      <3> QED BY <3>1, <3>3, <3>4, <3>5
    <2>4. Held'
      BY <1>3, <1>4, <1>9, <2>3 DEF Held
    <2>5. \A p : InSomeChunk(p) => InSomeChunk(p)'
      BY <1>9 DEF InSomeChunk
    <2>6. InSomeChunk(p0)'
      <3>1. PICK k : k \in takes
        BY <1>13
      <3>2. k \in DOMAIN chunks' /\ p0 \in chunks'[k].rows
        BY <1>9, <1>10, <3>1
      <3> QED BY <3>2 DEF InSomeChunk
    <2>7. ASSUME NEW p \in Rows, p <= p0, Quiet(p)
          PROVE  InSomeChunk(p)' \/ Committed(p)
      <3>1. CASE p = p0
        BY <2>6, <3>1
      <3>2. CASE p <= read
        BY <2>1, <2>5, <2>7, <3>2 DEF Stored
      <3> QED BY <1>6, <2>7, <3>1, <3>2
    <2>8. Stored'
      BY <1>1, <1>3, <1>4, <2>7 DEF Stored
    <2> QED BY <2>4, <2>8
  <1> QED BY <1>11, <1>12, <1>13, AbsorbAside

\* A record absorbed.
LEMMA AbsorbKept ==
  ASSUME KInv, DInv', Absorb
  PROVE  KInv'
  <1> DEFINE p0 == read + 1
             same == {k \in OpenChunk : chunks[k].version = log[p0].version}
             takes == {k \in same : chunks[k].columns = log[p0].columns}
  <1>1. IInv /\ read \in Nat /\ p0 \in 1..Len(log)
    <2>1. IInv /\ read \in Nat /\ read < upto /\ upto <= Len(log) /\ upto \in Nat
      BY DEF Absorb, KInv, DInv, IInv, Within
    <2>2. Len(log) \in Nat
      BY <2>1, LogLength DEF IInv
    <2> QED BY <2>1, <2>2
  <1>2. p0 \in Rows <=> log[p0].op = "data"
    BY <1>1, RowsInLog DEF IInv
  <1>3. CASE log[p0].op # "data"
    <2>1. chunks' = chunks
      BY <1>3, Zenon DEF Absorb, Observe
    <2>2. \A p \in Rows : p # p0
      BY <1>2, <1>3
    <2> QED BY <2>1, <2>2, AbsorbWithout
  <1>4. CASE log[p0].op = "data" /\ Skipped(p0)
    <2>1. chunks' = chunks
      BY <1>4, Zenon DEF Absorb, AbsorbData
    <2>2. ASSUME Taken, Quiet(p0)
          PROVE  Committed(p0)
      <3>1. p0 \in Rows
        BY <1>2, <1>4
      <3>2. LivenessAt(p0) = live
        BY <1>1, <3>1, NextRowIsLive
      <3>3. p0 \in claims
        BY <1>4, <2>2, <3>2 DEF Skipped, Quiet
      <3> QED BY <2>2, <3>1, <3>3 DEF KInv, Claimed
    <2> QED BY <2>1, <2>2, AbsorbWithout
  <1>5. CASE log[p0].op = "data" /\ ~Skipped(p0)
    <2>1. AppendRow(p0) /\ (TurnsAway(p0) => ~Taken')
      BY <1>5, Zenon DEF Absorb, AbsorbData, Taken
    <2>2. p0 \in Rows /\ live.exists
      BY <1>2, <1>5 DEF Skipped
    <2>3. PICK p : p = p0
      OBVIOUS
    <2>4. PICK s : s = same
      OBVIOUS
    <2>5. PICK t : t = takes
      OBVIOUS
    <2>6. /\ t \subseteq s /\ s \subseteq OpenChunk
          /\ Taken' => t = s
      <3>1. ~TurnsAway(p0) => takes = same
        BY DEF TurnsAway
      <3> QED BY <2>1, <2>4, <2>5, <3>1
    <2>7. CASE s = {}
      <3>1. chunks' = Put(p, NextChunk(p), Sealed(OpenChunk))
        BY <2>1, <2>3, <2>4, <2>7 DEF AppendRow
      <3> QED BY <2>2, <2>3, <3>1, AbsorbBegins
    <2>8. CASE s # {}
      <3>1. chunks' = [k \in DOMAIN chunks |->
                          IF k \in t THEN [chunks[k] EXCEPT !.rows = @ \cup {p}] ELSE chunks[k]]
        BY <2>1, <2>3, <2>4, <2>5, <2>8 DEF AppendRow
      <3> HIDE DEF same, takes
      <3> QED BY <2>2, <2>3, <2>6, <2>8, <3>1, AbsorbJoins
    <2> QED BY <2>7, <2>8
  <1> QED BY <1>3, <1>4, <1>5

-----------------------------------------------------------------------------

\* At the beginning there is nothing to keep.
LEMMA InitKept == Init => KInv
  <1> SUFFICES ASSUME Init PROVE KInv
    OBVIOUS
  <1>1. DInv
    BY InitClean
  <1>2. /\ DOMAIN chunks = {} /\ DOMAIN files = {} /\ DOMAIN batches = {}
        /\ claims = {} /\ read = 0 /\ upto = 0 /\ flush = NoFlush
    BY DEF Init, NoColumns
  <1>3. Formed
    BY <1>2 DEF Formed, Down, ChunkShape, OneOpen, BatchShape, FlushShape, FileShape, ClaimShape
  <1>4. \A p \in Rows : p \in Nat \ {0}
    BY <1>1, RowsInLog DEF DInv, IInv
  <1>5. Held /\ Covered /\ Claimed /\ Stored
    BY <1>2, <1>4 DEF Held, Covered, Claimed, Stored
  <1>6. Landed
    BY <1>2 DEF Landed
  <1> QED BY <1>1, <1>3, <1>5, <1>6 DEF KInv

\* And every step keeps it.
LEMMA NextKept == KInv /\ [Next]_vars => KInv'
  <1> SUFFICES ASSUME KInv, [Next]_vars PROVE KInv'
    OBVIOUS
  <1>1. DInv'
    BY NextClean DEF KInv
  <1>2. CASE UNCHANGED vars
    <2>1. UNCHANGED <<session, server, files, log, batches, chunks, claims, read, upto, flush, trouble>>
      BY <1>2 DEF vars, catalogVars, logVars, storeVars
    <2>2. (Up' <=> Up) /\ \A s \in Sessions : Dropping(s) => Dropping(s)'
      BY <2>1 DEF Up, Dropping, DropRecord
    <2> QED BY <1>1, <2>1, <2>2, KeptAside
  <1>3. CASE StoreStep
    BY <1>1, <1>3, ScanKept, AbsorbKept, EndFlushKept, DiscardKept, BeginFlushKept DEF StoreStep
  <1>4. CASE RestartStep
    BY <1>1, <1>4, ReplayKept, ResumeKept DEF RestartStep
  <1>5. CASE Next
    BY <1>1, <1>3, <1>4, <1>5, SessionKept, WriterKept, CrashKept DEF Next
  <1> QED BY <1>2, <1>5

\* The invariant says of a row answered what is promised.
LEMMA KeptSuffices == KInv => AnsweredKept
  <1> SUFFICES ASSUME KInv PROVE AnsweredKept
    OBVIOUS
  <1> SUFFICES ASSUME Up, Taken, NEW p \in Rows, InEra(p), p <= read
               PROVE  InFile(p) \/ InChunk(p)
    <2>1. Taken <=> "turned away" \notin trouble
      BY Zenon DEF Taken
    <2>2. \A p \in Rows : p \in Nat
      BY RowsInLog DEF KInv, DInv, IInv
    <2>3. read \in Nat
      BY DEF KInv, DInv, IInv, Within
    <2>4. \A p \in Rows : ~(p > read) => p <= read
      BY <2>2, <2>3
    <2> QED BY <2>1, <2>4, Zenon DEF AnsweredKept
  <1>1. Quiet(p) /\ \A s \in Sessions : ~Dropping(s)
    BY DEF InEra, Quiet, Dropping
  <1>2. InSomeChunk(p) \/ Committed(p)
    BY <1>1 DEF KInv, Stored
  <1>3. CASE InSomeChunk(p)
    <2>1. PICK k \in DOMAIN chunks : p \in chunks[k].rows
      BY <1>3 DEF InSomeChunk
    <2>2. live = LivenessAt(p) /\ live.exists
      BY <1>1, QuietIsLive DEF KInv, DInv
    <2>3. live.epoch = chunks[k].epoch
      BY <2>1, <2>2 DEF KInv, Formed, ChunkShape
    <2> QED BY <2>1, <2>2, <2>3 DEF InChunk, Stale
  <1>4. CASE Committed(p)
    <2>1. PICK b \in DOMAIN batches : batches[b].status = "committed" /\ p \in batches[b].rows
      BY <1>4 DEF Committed
    <2>2. b \in DOMAIN files
      BY <1>1, <2>1 DEF KInv, Landed
    <2>3. p \in files[b]
      BY <2>1, <2>2 DEF KInv, Formed, FileShape
    <2> QED BY <2>2, <2>3 DEF InFile
  <1> QED BY <1>2, <1>3, <1>4

\* A row answered in the present life of its table is in a file, in a chunk or still
\* to be absorbed (store.rs:339), through flushes, scans, DROPs that wait for the log,
\* crashes and recoveries, unless a chunk has turned a batch away.
THEOREM AnsweredRowsAreKept == Spec => []AnsweredKept
  BY InitKept, NextKept, KeptSuffices, PTL DEF Spec
-----------------------------------------------------------------------------
(* What is found is found whole.  A schema only widens in a life of its     *)
(* table, but for the accidents; and a replay ends with the table that the  *)
(* log makes from nothing, which is the one it had when it went down.       *)

Proper(f) == f = [c \in DOMAIN f |-> f[c]]

\* The catalog after a record, by what it was.
Gone == [here |-> FALSE, schema |-> NoColumns]
Present == [here |-> Exists, schema |-> table.schema]
Effect(r, st) ==
    IF r.op = "alter" \/ (r.op = "create" /\ ~st.here) THEN [here |-> TRUE, schema |-> r.schema]
    ELSE IF r.op = "drop" THEN Gone ELSE st

Pending(s) == session[s].pc = "log"
Orderly == trouble \cap {"evolved", "disordered", "unlogged"} = {}

TableShape ==
    /\ lives \in Nat
    /\ \/ table = NoTable
       \/ \E f, v, l : /\ table = [schema |-> f, version |-> v, life |-> l]
                       /\ Proper(f) /\ v \in Nat \ {0} /\ l \in 1..lives

ServerShape ==
    \E p, a : /\ server = [phase |-> p, at |-> a] /\ p \in Phases
              /\ a \in 0..Len(log)

RecordShape(r) == r.op \in {"create", "alter"} => Proper(r.schema)

StatementShape ==
    /\ ddls \in Nat
    /\ \A s \in Sessions :
           /\ session[s].pc = "evolve" => session[s].change.kind \in {"add", "drop"}
           /\ Pending(s) => RecordShape(session[s].record) /\ session[s].turn \in 0..(ddls - 1)
    /\ \A n \in 1..Len(log) : RecordShape(log[n])

\* What a write goes by is a schema of some life of the table, and of the
\* present life one that has not been narrowed since.
EntryOK(e) ==
    /\ e.life \in 1..lives
    /\ Unharmed /\ e.life = table.life => ReadWhole(table.schema, e.schema)

WriterShape ==
    /\ \E S : writer \in [Writers -> S]
    /\ \A w \in Writers :
           /\ writer[w].pc = "evolve" => writer[w].change.kind \in {"add", "widen"}
           /\ writer[w].pc \in {"log", "update"} => Up /\ EntryOK(writer[w].entry)
    /\ cache # NoTable => Up /\ EntryOK(cache)

Shaped == TableShape /\ ServerShape /\ StatementShape /\ WriterShape

\* No DROP waits for the log.
Alive == \A s \in Sessions : ~Dropping(s)

\* Of a table like this each row of the present life is read whole.
Found(st) ==
    \A p \in Rows : Quiet(p) => st.here /\ ReadWhole(st.schema, log[p].columns)

FoundNow ==
    Unharmed /\ (server.phase \in {"up", "batches"} \/ "evolved" \in trouble) =>
        (Alive => Found(Present))

\* A survivor: the replay of a log that never changes it leaves it as it was.
Plain(m, n) == Ops("drop", m, n) \cup Ops("alter", m, n) = {}
Carried(A, n) == Exists /\ (Plain(n + 1, Len(log)) => Present = A[Len(log)])

\* A[n] is the table the first n records make from nothing.
LogTold(A) ==
    /\ A[0] = Gone
    /\ \A n \in 0..(Len(log) - 1) :
           /\ A[n + 1] = Effect(log[n + 1], A[n])
           /\ log[n + 1].op = "alter" => A[n].here
    /\ \A m, n \in 0..Len(log) : m <= n /\ A[m].here /\ Plain(m + 1, n) => A[n] = A[m]

\* C[t] is the table that statement t found; those from k on wait for the log.
TurnsTold(A, C, k) ==
    /\ k \in 0..ddls
    /\ \A s \in Sessions : Pending(s) =>
           /\ session[s].turn \in k..(ddls - 1)
           /\ C[session[s].turn + 1] = Effect(session[s].record, C[session[s].turn])
           /\ session[s].record.op = "alter" => C[session[s].turn].here
    /\ \A t \in k..(ddls - 1) : \E s \in Sessions : Pending(s) /\ session[s].turn = t
    /\ \A s, z \in Sessions :
           Pending(s) /\ Pending(z) /\ session[s].turn = session[z].turn => s = z
    /\ C[k] = A[Len(log)]

PhaseTold(A, C, k) ==
    /\ Up => C[ddls] = Present
    /\ ~Up => /\ k = ddls
              /\ A[Len(log)].schema = before
              /\ Unharmed => Found(A[Len(log)])
    /\ server.phase = "batches" => Present = A[Len(log)]
    /\ server.phase = "ddl" => Present = A[server.at] \/ Carried(A, server.at)

Told(A, C, k) == LogTold(A) /\ TurnsTold(A, C, k) /\ PhaseTold(A, C, k)

HInv == DInv /\ Shaped /\ FoundNow /\ (Orderly => \E A, C, k : Told(A, C, k))

\* A step from such a state to one that keeps to the log.
Watched == HInv /\ DInv' /\ trouble \subseteq trouble'

-----------------------------------------------------------------------------
(* Schemas. *)

LEMMA ReadsItself == ASSUME NEW f PROVE ReadWhole(f, f)
  BY DEF ReadWhole, Fits

LEMMA FitsOn == ASSUME NEW t, NEW u, NEW v, Fits(t, u), Fits(u, v) PROVE Fits(t, v)
  <1>1. CASE t = u \/ u = v
    BY <1>1
  <1>2. CASE Widens(t, u) /\ Widens(u, v)
    <2>1. {t, u, v} \subseteq DOMAIN Rank /\ Rank[t] < Rank[u] /\ Rank[u] < Rank[v]
      BY <1>2 DEF Widens
    <2>2. Rank[t] \in Nat /\ Rank[u] \in Nat /\ Rank[v] \in Nat
      BY <2>1, RankAssumption
    <2> QED BY <2>1, <2>2 DEF Fits, Widens
  <1> QED BY <1>1, <1>2 DEF Fits

\* Read whole through a schema that is read whole.
LEMMA ReadsOn ==
  ASSUME NEW f, NEW g, NEW h, ReadWhole(g, f), ReadWhole(h, g)
  PROVE  ReadWhole(h, f)
  <1> SUFFICES ASSUME NEW c \in DOMAIN f
               PROVE  c \in DOMAIN h /\ Fits(f[c], h[c])
    BY DEF ReadWhole
  <1>1. c \in DOMAIN g /\ Fits(f[c], g[c])
    BY DEF ReadWhole
  <1>2. c \in DOMAIN h /\ Fits(g[c], h[c])
    BY <1>1 DEF ReadWhole
  <1> QED BY <1>1, <1>2, FitsOn

LEMMA CoveredIsRead == ASSUME NEW f, NEW g, Covers(g, f) PROVE ReadWhole(g, f)
  BY DEF Covers, Uncovered, ReadWhole, Fits

LEMMA ChangedIsProper == ASSUME NEW f, NEW change PROVE Proper(ApplyChange(f, change))
  <1>1. CASE change.kind = "drop"
    BY <1>1 DEF ApplyChange, Proper
  <1>2. CASE change.kind # "drop"
    BY <1>2 DEF ApplyChange, Proper, Put, Over
  <1> QED BY <1>1, <1>2

\* A change that adds or widens keeps what was read.
LEMMA ChangeWidens ==
  ASSUME NEW f, NEW change, change.kind \in {"add", "widen"}, Applicable(f, change)
  PROVE  ReadWhole(ApplyChange(f, change), f)
  <1> DEFINE g == ApplyChange(f, change)
  <1>1. /\ DOMAIN g = {change.column} \cup DOMAIN f
        /\ g[change.column] = change.type
        /\ \A c \in DOMAIN f : c # change.column => g[c] = f[c]
    BY DEF ApplyChange, Put, Over
  <1>2. change.column \in DOMAIN f => Fits(f[change.column], change.type)
    BY DEF Applicable, Fits
  <1> SUFFICES ASSUME NEW c \in DOMAIN f
               PROVE  c \in DOMAIN g /\ Fits(f[c], g[c])
    BY DEF ReadWhole
  <1>3. CASE c = change.column
    BY <1>1, <1>2, <1>3
  <1>4. CASE c # change.column
    BY <1>1, <1>4 DEF Fits
  <1> QED BY <1>3, <1>4

LEMMA KindOfChange ==
  ASSUME NEW f, NEW g, NEW c
  PROVE  ChangeFor(f, g, c).kind \in {"add", "widen"}
  BY DEF ChangeFor, AddColumn, WidenType

\* A step of convergence towards a column that is missing.
LEMMA ConvergingWidens ==
  ASSUME NEW f, NEW g, NEW c \in Uncovered(f, g), ~Incompatible(f, g, c)
  PROVE  ReadWhole(ApplyChange(f, ChangeFor(f, g, c)), f)
  <1>1. Applicable(f, ChangeFor(f, g, c))
    BY DEF Applicable, ChangeFor, AddColumn, WidenType, Incompatible
  <1> QED BY <1>1, KindOfChange, ChangeWidens

\* With nothing missing and nothing extra a schema is its target.
LEMMA Converged ==
  ASSUME NEW f, NEW g, Proper(f), Proper(g), Uncovered(f, g) = {}, DOMAIN f \ DOMAIN g = {}
  PROVE  f = g
  <1>1. DOMAIN f = DOMAIN g /\ \A c \in DOMAIN g : f[c] = g[c]
    BY DEF Uncovered
  <1> QED BY <1>1 DEF Proper

-----------------------------------------------------------------------------
(* How the account of the log moves. *)

FoundNext(st) ==
    \A p \in Rows' : Quiet(p)' => st.here /\ ReadWhole(st.schema, log'[p].columns)

LEMMA TroubleStays == ASSUME Next PROVE trouble \subseteq trouble'
  <1>1. ASSUME NEW s \in Sessions, SessionStep(s)
        PROVE  trouble \subseteq trouble'
    BY <1>1 DEF SessionStep, Create, CreateExisting, Alter, Drop, AlterApply, AlterRefused,
                LogDdl, Blame
  <1>2. ASSUME NEW w \in Writers, WriterStep(w)
        PROVE  trouble \subseteq trouble'
    BY <1>2 DEF WriterStep, BeginWrite, Judge, Evolve, EvolveConflict, Update, LogWrite, Blame
  <1>3. ASSUME StoreStep
        PROVE  trouble \subseteq trouble'
    <2>1. ASSUME Absorb
          PROVE  trouble \subseteq trouble'
      <3>1. CASE log[read + 1].op = "data"
        BY <2>1, <3>1, Zenon DEF Absorb, AbsorbData
      <3>2. CASE log[read + 1].op # "data"
        BY <2>1, <3>2 DEF Absorb, Observe
      <3> QED BY <3>1, <3>2
    <2> QED BY <1>3, <2>1 DEF StoreStep, Scan, EndFlush, Discard, BeginFlush, Blame
  <1>4. ASSUME Crash
        PROVE  trouble \subseteq trouble'
    BY <1>4 DEF Crash
  <1>5. ASSUME RestartStep
        PROVE  trouble \subseteq trouble'
    <2>1. ASSUME ConvergeStep
          PROVE  trouble \subseteq trouble'
      BY <2>1 DEF ConvergeStep, Blame
    <2>2. ASSUME ReplayCreateOrDrop
          PROVE  trouble \subseteq trouble'
      BY <2>2 DEF ReplayCreateOrDrop, Blame
    <2>3. ASSUME ReplayFails \/ ReplayEnds
          PROVE  trouble \subseteq trouble'
      BY <2>3 DEF ReplayFails, ReplayEnds
    <2>4. ASSUME Resume
          PROVE  trouble \subseteq trouble'
      <3>1. UNCHANGED trouble
        BY <2>4, Zenon DEF Resume
      <3> QED BY <3>1
    <2> QED BY <1>5, <2>1, <2>2, <2>3, <2>4 DEF RestartStep
  <1> QED BY <1>1, <1>2, <1>3, <1>4, <1>5 DEF Next

LEMMA Before ==
  ASSUME trouble \subseteq trouble'
  PROVE  /\ Orderly' => Orderly
         /\ Unharmed' => Unharmed
  <1>1. Orderly <=> "evolved" \notin trouble /\ "disordered" \notin trouble /\ "unlogged" \notin trouble
    BY DEF Orderly
  <1>2. Orderly' <=> "evolved" \notin trouble' /\ "disordered" \notin trouble' /\ "unlogged" \notin trouble'
    BY DEF Orderly
  <1>3. Unharmed' => Unharmed
    BY Zenon DEF Unharmed
  <1> QED BY <1>1, <1>2, <1>3

\* The same log, and a schema that reads what the other read.
LEMMA FoundStays ==
  ASSUME NEW st, NEW to, Found(st), UNCHANGED log,
         st.here => to.here /\ ReadWhole(to.schema, st.schema)
  PROVE  FoundNext(to)
  <1> SUFFICES ASSUME NEW p \in Rows', Quiet(p)'
               PROVE  to.here /\ ReadWhole(to.schema, log'[p].columns)
    BY DEF FoundNext
  <1>1. p \in Rows /\ Quiet(p)
    BY SameLog
  <1>2. st.here /\ ReadWhole(st.schema, log[p].columns)
    BY <1>1 DEF Found
  <1> QED BY <1>2, ReadsOn

\* A record that is no row.
LEMMA FoundBefore ==
  ASSUME Within, NEW st, Found(st), NEW r, r.op # "data", Log(r)
  PROVE  FoundNext(st)
  <1>1. PICK S : log \in Seq(S)
    BY DEF Within
  <1>2. log \in Seq(S \cup {r})
    BY <1>1, SMT
  <1>3. log'[Len(log) + 1] = r
    BY <1>2, AppendProperties DEF Log
  <1> SUFFICES ASSUME NEW p \in Rows', Quiet(p)'
               PROVE  st.here /\ ReadWhole(st.schema, log'[p].columns)
    BY DEF FoundNext
  <1>4. p \in 1..Len(log)
    BY <1>3, LogMore DEF Rows
  <1> QED BY <1>4, LogMore DEF Found

LEMMA ToldAside ==
  ASSUME NEW A, LogTold(A), UNCHANGED log
  PROVE  LogTold(A)'
  BY DEF LogTold, Effect, Plain, Ops

LEMMA ToldMore ==
  ASSUME Within, NEW A, LogTold(A), NEW r, Log(r),
         r.op = "alter" => A[Len(log)].here
  PROVE  \E B : /\ LogTold(B)'
                /\ B[Len(log)] = A[Len(log)]
                /\ B[Len(log')] = Effect(r, A[Len(log)])
  <1> DEFINE L == Len(log)
  <1>1. PICK S : log \in Seq(S)
    BY DEF Within
  <1>2. log \in Seq(S \cup {r})
    BY <1>1, SMT
  <1>3. /\ L \in Nat /\ Len(log') = L + 1 /\ log'[L + 1] = r
        /\ \A p \in 1..L : log'[p] = log[p]
    BY <1>2, AppendProperties, LenProperties DEF Log
  <1>a. PICK B : B = [n \in Nat |-> IF n <= L THEN A[n] ELSE Effect(r, A[L])]
    OBVIOUS
  <1>4. /\ \A n \in 0..L : B[n] = A[n]
        /\ B[L + 1] = Effect(r, A[L])
    BY <1>3, <1>a
  <1>5. B[0] = Gone
    BY <1>3, <1>4 DEF LogTold
  <1>6. ASSUME NEW n \in 0..L
        PROVE  /\ B[n + 1] = Effect(log'[n + 1], B[n])
               /\ log'[n + 1].op = "alter" => B[n].here
    <2>1. CASE n = L
      BY <1>3, <1>4, <2>1
    <2>2. CASE n < L
      BY <1>3, <1>4, <2>2 DEF LogTold
    <2> QED BY <1>3, <2>1, <2>2
  <1>7. ASSUME NEW m \in 0..(L + 1), NEW n \in 0..(L + 1), m <= n, B[m].here, Plain(m + 1, n)'
        PROVE  B[n] = B[m]
    <2>1. \A q \in (m + 1)..n : log'[q].op # "drop" /\ log'[q].op # "alter"
      BY <1>7 DEF Plain, Ops
    <2>2. CASE m = L + 1
      BY <1>3, <1>7, <2>2
    <2>3. CASE n <= L
      <3>1. \A q \in (m + 1)..n : log[q].op # "drop" /\ log[q].op # "alter"
        BY <1>3, <2>1, <2>3
      <3>2. Plain(m + 1, n)
        BY <3>1 DEF Plain, Ops
      <3> QED BY <1>3, <1>4, <1>7, <2>3, <3>2 DEF LogTold
    <2>4. CASE m <= L /\ n = L + 1
      <3>1. \A q \in (m + 1)..L : log[q].op # "drop" /\ log[q].op # "alter"
        BY <1>3, <2>1, <2>4
      <3>2. Plain(m + 1, L)
        BY <3>1 DEF Plain, Ops
      <3>3. A[L] = A[m] /\ A[m].here
        BY <1>3, <1>4, <1>7, <2>4, <3>2 DEF LogTold
      <3>4. r.op # "drop" /\ r.op # "alter"
        BY <1>3, <2>1, <2>4
      <3> QED BY <1>3, <1>4, <2>4, <3>3, <3>4 DEF Effect
    <2> QED BY <1>3, <2>2, <2>3, <2>4
  <1>8. LogTold(B)'
    <2>1. 0..(Len(log') - 1) = 0..L /\ 0..Len(log') = 0..(L + 1)
      BY <1>3
    <2>2. \A n \in 0..(Len(log') - 1) :
              /\ B[n + 1] = Effect(log'[n + 1], B[n])
              /\ log'[n + 1].op = "alter" => B[n].here
      BY <1>6, <2>1
    <2>3. \A m, n \in 0..Len(log') : m <= n /\ B[m].here /\ Plain(m + 1, n)' => B[n] = B[m]
      BY <1>7, <2>1
    <2> QED BY <1>5, <2>2, <2>3, Zenon DEF LogTold, Effect, Plain
  <1> QED BY <1>3, <1>4, <1>8

\* Nothing waits, and the log is all there is.
LEMMA NoneWaits ==
  ASSUME NEW A, NEW C, NEW k, TurnsTold(A, C, k), ddls \in Nat, \A s \in Sessions : ~Pending(s)
  PROVE  k = ddls /\ C[ddls] = A[Len(log)]
  BY DEF TurnsTold

\* A step that leaves the statements, the log and the table alone.
LEMMA HeldAside ==
  ASSUME Watched, UNCHANGED <<log, ddls, server, before>>, Present' = Present,
         \A z \in Sessions : /\ Pending(z)' <=> Pending(z)
                             /\ Pending(z) => session'[z] = session[z]
  PROVE  Orderly' => (\E A, C, k : Told(A, C, k))'
  <1> SUFFICES ASSUME Orderly'
               PROVE  (\E A, C, k : Told(A, C, k))'
    OBVIOUS
  <1>1. PICK A, C, k : Told(A, C, k)
    BY Before DEF Watched, HInv
  <1>2. LogTold(A)'
    BY <1>1, ToldAside DEF Told
  <1>3. TurnsTold(A, C, k)'
    <2>1. \A s \in Sessions : Pending(s)' =>
              /\ session'[s].turn \in k..(ddls - 1)
              /\ C[session'[s].turn + 1] = Effect(session'[s].record, C[session'[s].turn])
              /\ session'[s].record.op = "alter" => C[session'[s].turn].here
      BY <1>1 DEF Told, TurnsTold
    <2>2. \A t \in k..(ddls - 1) : \E s \in Sessions : Pending(s)' /\ session'[s].turn = t
      BY <1>1 DEF Told, TurnsTold
    <2>3. \A s, z \in Sessions :
              Pending(s)' /\ Pending(z)' /\ session'[s].turn = session'[z].turn => s = z
      BY <1>1 DEF Told, TurnsTold
    <2> QED BY <1>1, <2>1, <2>2, <2>3 DEF Told, TurnsTold, Pending, Effect
  <1>4. Unharmed' => Unharmed
    BY Before DEF Watched
  <1>5. \A st : Found(st) => FoundNext(st)
    BY FoundStays, ReadsItself
  <1>6. ~Up /\ Unharmed' => FoundNext(A[Len(log)])
    BY <1>1, <1>4, <1>5 DEF Told, PhaseTold
  <1>7. (Up' <=> Up) /\ (Exists' <=> Exists)
    BY DEF Up, Present
  <1>8. \A n : Carried(A, n) => Carried(A, n)'
    BY <1>7 DEF Carried, Plain, Ops
  <1>a. PhaseTold(A, C, k)'
    BY <1>1, <1>6, <1>7, <1>8 DEF Told, PhaseTold, Found, FoundNext
  <1> QED BY <1>2, <1>3, <1>a DEF Told

-----------------------------------------------------------------------------
(* Statements change the catalog, and are logged in that order. *)

\* A statement that has changed the catalog waits for the log.
LEMMA StatementTold ==
  ASSUME Watched, NEW s \in Sessions, NEW r, Up, ~Pending(s),
         session' = [session EXCEPT ![s] = [pc |-> "log", record |-> r, turn |-> ddls]],
         ddls' = ddls + 1, UNCHANGED <<log, server, before>>,
         Present' = Effect(r, Present), r.op = "alter" => Exists
  PROVE  Orderly' => (\E A, C, k : Told(A, C, k))'
  <1> SUFFICES ASSUME Orderly'
               PROVE  (\E A, C, k : Told(A, C, k))'
    OBVIOUS
  <1>1. PICK A, C, k : Told(A, C, k)
    BY Before DEF Watched, HInv
  <1>2. PICK D : D = [t \in Nat |-> IF t <= ddls THEN C[t] ELSE Present']
    OBVIOUS
  <1>3. ddls \in Nat /\ k \in 0..ddls
    BY <1>1 DEF Watched, HInv, Shaped, StatementShape, Told, TurnsTold
  <1>4. /\ \A t \in 0..ddls : D[t] = C[t]
        /\ D[ddls + 1] = Present'
    BY <1>2, <1>3
  <1>5. PICK S : session \in [Sessions -> S]
    BY DEF Watched, HInv, DInv, Shapely, SessionsOK
  <1>6. /\ Pending(s)' /\ session'[s].turn = ddls /\ session'[s].record = r
        /\ \A z \in Sessions \ {s} : session'[z] = session[z] /\ (Pending(z)' <=> Pending(z))
    BY <1>5 DEF Pending
  <1>7. C[ddls] = Present
    BY <1>1 DEF Told, PhaseTold
  <1>8. \A z \in Sessions : Pending(z) => session[z].turn \in k..(ddls - 1)
    BY <1>1 DEF Told, TurnsTold
  <1>9. ASSUME NEW z \in Sessions, Pending(z)'
        PROVE  /\ session'[z].turn \in k..ddls
               /\ D[session'[z].turn + 1] = Effect(session'[z].record, D[session'[z].turn])
               /\ session'[z].record.op = "alter" => D[session'[z].turn].here
    <2>1. CASE z = s
      BY <1>3, <1>4, <1>6, <1>7, <2>1 DEF Present
    <2>2. CASE z # s
      <3>1. Pending(z) /\ session'[z] = session[z]
        BY <1>6, <1>9, <2>2
      <3>2. /\ session[z].turn \in k..(ddls - 1)
            /\ C[session[z].turn + 1] = Effect(session[z].record, C[session[z].turn])
            /\ session[z].record.op = "alter" => C[session[z].turn].here
        BY <1>1, <3>1 DEF Told, TurnsTold
      <3>3. session[z].turn \in 0..ddls /\ session[z].turn + 1 \in 0..ddls
        BY <1>3, <3>2
      <3> QED BY <1>3, <1>4, <3>1, <3>2, <3>3
    <2> QED BY <2>1, <2>2
  <1>10. ASSUME NEW t \in k..ddls
         PROVE  \E z \in Sessions : Pending(z)' /\ session'[z].turn = t
    <2>1. CASE t = ddls
      BY <1>6, <2>1
    <2>2. CASE t # ddls
      <3>1. PICK z \in Sessions : Pending(z) /\ session[z].turn = t
        BY <1>1, <1>3, <2>2 DEF Told, TurnsTold
      <3> QED BY <1>6, <3>1
    <2> QED BY <2>1, <2>2
  <1>11. ASSUME NEW y \in Sessions, NEW z \in Sessions,
                Pending(y)', Pending(z)', session'[y].turn = session'[z].turn
         PROVE  y = z
    <2>1. \A x \in Sessions \ {s} : Pending(x)' => session'[x].turn # ddls
      BY <1>3, <1>6, <1>8
    <2>2. CASE y = s \/ z = s
      BY <1>6, <1>11, <2>1, <2>2
    <2>3. CASE y # s /\ z # s
      BY <1>1, <1>6, <1>11, <2>3 DEF Told, TurnsTold
    <2> QED BY <2>2, <2>3
  <1>12. D[k] = A[Len(log)]
    BY <1>1, <1>3, <1>4 DEF Told, TurnsTold
  <1>13. TurnsTold(A, D, k)'
    <2>1. k..(ddls' - 1) = k..ddls /\ k \in 0..ddls'
      BY <1>3
    <2> QED BY <1>9, <1>10, <1>11, <1>12, <2>1 DEF TurnsTold, Effect, Pending
  <1>14. LogTold(A)'
    BY <1>1, ToldAside DEF Told
  <1>15. PhaseTold(A, D, k)'
    <2>1. server.phase = "up" /\ server' = server
      BY DEF Up
    <2> QED BY <1>4, <2>1 DEF PhaseTold, Up
  <1> QED BY <1>13, <1>14, <1>15 DEF Told

\* In order is what was applied first.
LEMMA FirstIsLogged ==
  ASSUME NEW A, NEW C, NEW k, TurnsTold(A, C, k), ddls \in Nat,
         NEW s \in Sessions, Pending(s),
         ~\E z \in Sessions : session[z].pc = "log" /\ session[z].turn < session[s].turn
  PROVE  session[s].turn = k /\ k < ddls
  <1>1. k \in Nat /\ session[s].turn \in k..(ddls - 1)
    BY DEF TurnsTold
  <1>2. k \in k..(ddls - 1)
    BY <1>1
  <1>3. PICK z \in Sessions : Pending(z) /\ session[z].turn = k
    BY <1>2 DEF TurnsTold
  <1> QED BY <1>1, <1>3 DEF Pending

LEMMA LogDdlTold ==
  ASSUME Watched, NEW s \in Sessions, LogDdl(s)
  PROVE  Orderly' => (\E A, C, k : Told(A, C, k))'
  <1> SUFFICES ASSUME Orderly'
               PROVE  (\E A, C, k : Told(A, C, k))'
    OBVIOUS
  <1>1. PICK A, C, k : Told(A, C, k)
    BY Before DEF Watched, HInv
  <1> DEFINE r == session[s].record
  <1>2. /\ Up /\ Pending(s) /\ Log(r) /\ Within
        /\ session' = [session EXCEPT ![s] = Idle]
        /\ UNCHANGED <<table, server, ddls, before>>
    BY DEF LogDdl, Pending, Log, catalogVars, bounds, Watched, HInv, DInv, IInv
  <1>3. ~\E z \in Sessions : session[z].pc = "log" /\ session[z].turn < session[s].turn
    <2>1. "disordered" \notin trouble'
      BY DEF Orderly
    <2> QED BY <2>1 DEF LogDdl, Blame
  <1>4. ddls \in Nat /\ k \in 0..ddls
    BY <1>1 DEF Watched, HInv, Shaped, StatementShape, Told, TurnsTold
  <1>5. session[s].turn = k /\ k < ddls
    BY <1>1, <1>2, <1>3, <1>4, FirstIsLogged DEF Told
  <1>6. /\ C[k + 1] = Effect(r, C[k]) /\ C[k] = A[Len(log)]
        /\ r.op = "alter" => A[Len(log)].here
    BY <1>1, <1>2, <1>5 DEF Told, TurnsTold
  <1>7. PICK B : LogTold(B)' /\ B[Len(log')] = C[k + 1]
    BY <1>1, <1>2, <1>6, ToldMore DEF Told
  <1>8. PICK S : session \in [Sessions -> S]
    BY DEF Watched, HInv, DInv, Shapely, SessionsOK
  <1>9. /\ ~Pending(s)'
        /\ \A z \in Sessions \ {s} : session'[z] = session[z] /\ (Pending(z)' <=> Pending(z))
    BY <1>2, <1>8 DEF Pending, Idle
  <1>10. \A z \in Sessions : Pending(z)' =>
             /\ z # s /\ Pending(z) /\ session'[z] = session[z]
             /\ session[z].turn \in (k + 1)..(ddls - 1)
    <2>1. \A z \in Sessions : Pending(z) => session[z].turn \in k..(ddls - 1)
      BY <1>1 DEF Told, TurnsTold
    <2>2. \A z \in Sessions : Pending(z) /\ session[z].turn = k => z = s
      BY <1>1, <1>2, <1>5 DEF Told, TurnsTold
    <2> QED BY <1>4, <1>9, <2>1, <2>2
  <1>11. ASSUME NEW t \in (k + 1)..(ddls - 1)
         PROVE  \E z \in Sessions : Pending(z)' /\ session'[z].turn = t
    <2>1. t \in k..(ddls - 1) /\ t # k
      BY <1>4
    <2>2. PICK z \in Sessions : Pending(z) /\ session[z].turn = t
      BY <1>1, <2>1 DEF Told, TurnsTold
    <2> QED BY <1>5, <1>9, <2>1, <2>2
  <1>12. TurnsTold(B, C, k + 1)'
    <2>1. k + 1 \in 0..ddls
      BY <1>4, <1>5
    <2>2. \A z \in Sessions : Pending(z)' =>
              /\ session'[z].turn \in (k + 1)..(ddls - 1)
              /\ C[session'[z].turn + 1] = Effect(session'[z].record, C[session'[z].turn])
              /\ session'[z].record.op = "alter" => C[session'[z].turn].here
      BY <1>1, <1>10 DEF Told, TurnsTold
    <2>3. \A y, z \in Sessions :
              Pending(y)' /\ Pending(z)' /\ session'[y].turn = session'[z].turn => y = z
      BY <1>1, <1>10 DEF Told, TurnsTold
    <2> QED BY <1>2, <1>7, <1>11, <2>1, <2>2, <2>3 DEF TurnsTold, Effect, Pending
  <1>13. PhaseTold(B, C, k + 1)'
    <2>1. server.phase = "up" /\ server' = server /\ Present' = Present
      BY <1>2 DEF Up, Present, Exists
    <2> QED BY <1>1, <1>2, <2>1 DEF Told, PhaseTold, Up
  <1> QED BY <1>7, <1>12, <1>13 DEF Told

\* A row moves nothing.
LEMMA LogWriteTold ==
  ASSUME Watched, NEW w \in Writers, LogWrite(w)
  PROVE  Orderly' => (\E A, C, k : Told(A, C, k))'
  <1> SUFFICES ASSUME Orderly'
               PROVE  (\E A, C, k : Told(A, C, k))'
    OBVIOUS
  <1>1. PICK A, C, k : Told(A, C, k)
    BY Before DEF Watched, HInv
  <1> DEFINE r == DataRecord(writer[w].columns, writer[w].entry.version)
  <1>2. /\ Up /\ Log(r) /\ Within /\ r.op = "data"
        /\ UNCHANGED <<table, server, session, ddls, before>>
    BY DEF LogWrite, WriterAt, InWrite, Log, catalogVars, bounds, DataRecord,
           Watched, HInv, DInv, IInv
  <1>3. PICK B : LogTold(B)' /\ B[Len(log')] = A[Len(log)]
    BY <1>1, <1>2, ToldMore DEF Told, Effect
  <1>4. TurnsTold(B, C, k)'
    BY <1>1, <1>2, <1>3 DEF Told, TurnsTold, Effect, Pending
  <1>5. PhaseTold(B, C, k)'
    <2>1. server.phase = "up" /\ server' = server /\ Present' = Present
      BY <1>2 DEF Up, Present, Exists
    <2> QED BY <1>1, <1>2, <2>1 DEF Told, PhaseTold, Up
  <1> QED BY <1>3, <1>4, <1>5 DEF Told

-----------------------------------------------------------------------------
(* A crash, and the replay that follows. *)

\* A table that is not there is like none.
LEMMA NotThere ==
  ASSUME TableShape, ~Exists
  PROVE  table = NoTable /\ Present = Gone
  <1>1. table = NoTable
    BY DEF TableShape, Exists
  <1>2. Exists = FALSE
    BY <1>1 DEF Exists, NoTable
  <1>3. table.schema = NoColumns
    BY <1>1 DEF NoTable
  <1> QED BY <1>1, <1>2, <1>3 DEF Present, Gone

LEMMA TableGoes ==
  ASSUME table' = NoTable
  PROVE  Present' = Gone
  <1>1. Exists' = FALSE
    BY DEF Exists, NoTable
  <1>2. table'.schema = NoColumns
    BY DEF NoTable
  <1> QED BY <1>1, <1>2 DEF Present, Gone

LEMMA TableComes ==
  ASSUME NEW schema, CreateTable(schema)
  PROVE  Present' = [here |-> TRUE, schema |-> schema]
  <1>1. Exists' = TRUE /\ table'.schema = schema
    BY DEF CreateTable, Exists
  <1> QED BY <1>1 DEF Present

LEMMA CrashTold ==
  ASSUME Watched, Crash
  PROVE  Orderly' => (\E A, C, k : Told(A, C, k))'
  <1> SUFFICES ASSUME Orderly'
               PROVE  (\E A, C, k : Told(A, C, k))'
    OBVIOUS
  <1>1. PICK A, C, k : Told(A, C, k)
    BY Before DEF Watched, HInv
  <1>2. /\ UNCHANGED <<log, ddls>>
        /\ server' = [phase |-> "ddl", at |-> 0]
        /\ session' = [s \in Sessions |-> Idle]
        /\ before' = IF Up THEN table.schema ELSE before
        /\ IF durable THEN UNCHANGED table ELSE table' = NoTable
        /\ server.phase # "refused"
    BY DEF Crash, logVars
  <1>3. \A s \in Sessions : ~Pending(s)
    <2>1. "unlogged" \notin trouble'
      BY DEF Orderly
    <2> QED BY <2>1 DEF Crash, Pending
  <1>4. ddls \in Nat /\ TableShape /\ ServerShape /\ Within
    BY DEF Watched, HInv, Shaped, StatementShape, DInv, IInv
  <1>5. k = ddls /\ C[ddls] = A[Len(log)]
    BY <1>1, <1>3, <1>4, NoneWaits DEF Told
  <1>6. Len(log) \in Nat
    BY <1>4, LogLength
  <1>7. Up => Present = A[Len(log)]
    BY <1>1, <1>5 DEF Told, PhaseTold
  <1>8. before' = A[Len(log)].schema
    <2>1. CASE Up
      BY <1>2, <1>7, <2>1 DEF Present
    <2>2. CASE ~Up
      BY <1>1, <1>2, <2>2 DEF Told, PhaseTold
    <2> QED BY <2>1, <2>2
  <1>9. Unharmed' => FoundNext(A[Len(log)])
    <2> SUFFICES ASSUME Unharmed'
                 PROVE  FoundNext(A[Len(log)])
      OBVIOUS
    <2>1. Unharmed /\ Alive
      BY <1>3, Before DEF Watched, Alive, Dropping, Pending
    <2>2. CASE Up
      <3>1. Found(Present)
        BY <2>1, <2>2 DEF Watched, HInv, FoundNow, Up
      <3> QED BY <1>2, <1>7, <2>2, <3>1, FoundStays, ReadsItself
    <2>3. CASE ~Up
      <3>1. Found(A[Len(log)])
        BY <1>1, <2>1, <2>3 DEF Told, PhaseTold
      <3> QED BY <1>2, <3>1, FoundStays, ReadsItself
    <2> QED BY <2>2, <2>3
  <1>10. Exists /\ Plain(1, Len(log)) => Present = A[Len(log)]
    <2> SUFFICES ASSUME Exists, Plain(1, Len(log))
                 PROVE  Present = A[Len(log)]
      OBVIOUS
    <2>1. CASE server.phase = "ddl"
      <3>1. server.at \in 0..Len(log)
        BY <1>4 DEF ServerShape
      <3>2. Plain(server.at + 1, Len(log))
        BY <1>6, <3>1 DEF Plain, Ops
      <3>3. CASE Present = A[server.at]
        <4>1. A[server.at].here
          BY <3>3 DEF Present
        <4>2. Len(log) \in 0..Len(log) /\ server.at <= Len(log)
          BY <1>6, <3>1
        <4>3. A[Len(log)] = A[server.at]
          BY <1>1, <3>1, <3>2, <4>1, <4>2 DEF Told, LogTold
        <4> QED BY <3>3, <4>3
      <3>4. CASE Carried(A, server.at)
        BY <3>2, <3>4 DEF Carried
      <3> QED BY <1>1, <2>1, <3>3, <3>4 DEF Told, PhaseTold
    <2>2. CASE server.phase = "batches"
      BY <1>1, <2>2 DEF Told, PhaseTold
    <2>3. CASE Up
      BY <1>7, <2>3
    <2> QED BY <1>2, <1>4, <2>1, <2>2, <2>3 DEF ServerShape, Phases, Up
  <1>11. Present' = A[0] \/ Carried(A, 0)'
    <2>1. A[0] = Gone
      BY <1>1 DEF Told, LogTold
    <2>2. CASE ~durable
      BY <1>2, <2>1, <2>2, TableGoes
    <2>3. CASE durable /\ ~Exists
      BY <1>2, <1>4, <2>1, <2>3, NotThere DEF Present, Exists
    <2>4. CASE durable /\ Exists
      <3>1. Present' = Present /\ Exists'
        BY <1>2, <2>4 DEF Present, Exists
      <3>2. Plain(1, Len(log))' => Plain(1, Len(log))
        BY <1>2 DEF Plain, Ops
      <3> QED BY <1>2, <1>10, <2>4, <3>1, <3>2 DEF Carried, Plain
    <2> QED BY <2>2, <2>3, <2>4
  <1>12. LogTold(A)'
    BY <1>1, <1>2, ToldAside DEF Told
  <1>13. TurnsTold(A, C, ddls)'
    <2>1. \A s \in Sessions : ~Pending(s)'
      BY <1>2 DEF Pending, Idle
    <2>2. ddls..(ddls - 1) = {} /\ ddls \in 0..ddls
      BY <1>4
    <2> QED BY <1>2, <1>5, <2>1, <2>2 DEF TurnsTold
  <1>14. PhaseTold(A, C, ddls)'
    BY <1>2, <1>8, <1>9, <1>11 DEF PhaseTold, Up, Found, FoundNext
  <1> QED BY <1>12, <1>13, <1>14 DEF Told

\* While the process is down only the table changes.
LEMMA DownTold ==
  ASSUME Watched, ~Up, NEW A, NEW C, NEW k, Told(A, C, k),
         UNCHANGED <<log, session, ddls, before>>,
         Up' => Present' = A[Len(log)],
         server'.phase = "batches" => Present' = A[Len(log)],
         server'.phase = "ddl" => Present' = A[server'.at] \/ Carried(A, server.at)'
  PROVE  Told(A, C, k)'
  <1>1. LogTold(A)'
    BY ToldAside DEF Told
  <1>2. TurnsTold(A, C, k)'
    BY DEF Told, TurnsTold, Pending, Effect
  <1>3. Up' => C[ddls'] = Present'
    BY DEF Told, TurnsTold, PhaseTold
  <1>4. Unharmed' => FoundNext(A[Len(log)])
    <2>1. Unharmed' => Found(A[Len(log)])
      BY Before DEF Watched, Told, PhaseTold
    <2> QED BY <2>1, FoundStays, ReadsItself
  <1>5. PhaseTold(A, C, k)'
    BY <1>3, <1>4 DEF Told, PhaseTold, Found, FoundNext
  <1> QED BY <1>1, <1>2, <1>5 DEF Told

LEMMA ReplayCreateOrDropTold ==
  ASSUME Watched, ReplayCreateOrDrop
  PROVE  Orderly' => (\E A, C, k : Told(A, C, k))'
  <1> SUFFICES ASSUME Orderly'
               PROVE  (\E A, C, k : Told(A, C, k))'
    OBVIOUS
  <1>1. PICK A, C, k : Told(A, C, k)
    BY Before DEF Watched, HInv
  <1>2. PICK n : n = server.at
    OBVIOUS
  <1> DEFINE r == log[n + 1]
  <1>3. TableShape /\ ServerShape /\ Within
    BY DEF Watched, HInv, Shaped, DInv, IInv
  <1>4. Len(log) \in Nat /\ n \in 0..(Len(log) - 1) /\ server = [phase |-> "ddl", at |-> n]
    BY <1>2, <1>3, LogLength DEF ReplayCreateOrDrop, Replaying, ServerShape
  <1>5. /\ UNCHANGED <<log, session, ddls, before>> /\ ~Up
        /\ server' = [phase |-> "ddl", at |-> n + 1]
        /\ r.op # "alter"
    BY <1>2, <1>4 DEF ReplayCreateOrDrop, Replays, Onward, NextRecord, logVars, bounds, Up
  <1>6. A[n + 1] = Effect(r, A[n])
    BY <1>1, <1>4 DEF Told, LogTold
  <1>7. \/ /\ r.op = "create" /\ ~Exists /\ Present' = [here |-> TRUE, schema |-> r.schema]
        \/ /\ r.op = "create" /\ Exists /\ Present' = Present
        \/ /\ r.op = "drop" /\ Present' = Gone
        \/ /\ r.op \notin {"create", "drop"} /\ Present' = Present
    <2>1. CASE r.op = "create" /\ ~Exists
      BY <1>2, <2>1, TableComes DEF ReplayCreateOrDrop, NextRecord
    <2>2. CASE r.op = "drop" /\ Exists
      BY <1>2, <2>2, TableGoes DEF ReplayCreateOrDrop, NextRecord, DropTable
    <2>3. CASE r.op = "drop" /\ ~Exists
      BY <1>2, <1>3, <2>3, NotThere DEF ReplayCreateOrDrop, NextRecord, Present, Exists, catalogVars
    <2>4. CASE (r.op = "create" /\ Exists) \/ r.op \notin {"create", "drop"}
      BY <1>2, <2>4 DEF ReplayCreateOrDrop, NextRecord, Present, Exists, catalogVars
    <2> QED BY <2>1, <2>2, <2>3, <2>4
  <1>8. Present' = A[n + 1] \/ Carried(A, n + 1)'
    <2>1. CASE Present = A[n]
      BY <1>5, <1>6, <1>7, <2>1 DEF Effect, Present
    <2>2. CASE Carried(A, n) /\ r.op = "drop"
      BY <1>6, <1>7, <2>2 DEF Effect
    <2>3. CASE Carried(A, n) /\ r.op # "drop"
      <3>1. Exists /\ Present' = Present /\ Exists'
        BY <1>7, <2>3 DEF Carried, Present
      <3>2. Plain(n + 2, Len(log)) => Plain(n + 1, Len(log))
        <4> SUFFICES ASSUME Plain(n + 2, Len(log)), NEW q \in (n + 1)..Len(log)
                     PROVE  log[q].op # "drop" /\ log[q].op # "alter"
          BY DEF Plain, Ops
        <4>1. CASE q = n + 1
          BY <1>5, <2>3, <4>1
        <4>2. CASE q # n + 1
          BY <1>4, <4>2 DEF Plain, Ops
        <4> QED BY <4>1, <4>2
      <3>3. Plain(n + 2, Len(log))' <=> Plain(n + 2, Len(log))
        BY <1>5 DEF Plain, Ops
      <3>4. n + 1 + 1 = n + 2
        BY <1>4
      <3> QED BY <1>5, <2>3, <3>1, <3>2, <3>3, <3>4 DEF Carried, Plain
    <2> QED BY <1>1, <1>4, <2>1, <2>2, <2>3 DEF Told, PhaseTold
  <1>9. Told(A, C, k)'
    BY <1>1, <1>5, <1>8, DownTold DEF Up, Carried
  <1> QED BY <1>9

LEMMA ConvergeTold ==
  ASSUME Watched, ConvergeStep
  PROVE  Orderly' => (\E A, C, k : Told(A, C, k))'
  <1> SUFFICES ASSUME Orderly'
               PROVE  (\E A, C, k : Told(A, C, k))'
    OBVIOUS
  <1>1. PICK A, C, k : Told(A, C, k)
    BY Before DEF Watched, HInv
  <1>2. PICK n : n = server.at
    OBVIOUS
  <1> DEFINE r == log[n + 1]
  <1>3. TableShape /\ ServerShape /\ Within /\ StatementShape
    BY DEF Watched, HInv, Shaped, DInv, IInv
  <1>4. Len(log) \in Nat /\ n \in 0..(Len(log) - 1) /\ server = [phase |-> "ddl", at |-> n]
    BY <1>2, <1>3, LogLength DEF ConvergeStep, Replaying, ServerShape
  <1>5. UNCHANGED <<log, session, ddls, before>> /\ ~Up /\ r.op = "alter"
    BY <1>2, <1>4 DEF ConvergeStep, Replays, NextRecord, logVars, bounds, Up
  <1>6. A[n + 1] = Effect(r, A[n]) /\ A[n].here
    BY <1>1, <1>4, <1>5 DEF Told, LogTold
  <1>7. Exists
    <2>1. Present = A[n] \/ Carried(A, n)
      BY <1>1, <1>4 DEF Told, PhaseTold
    <2> QED BY <1>6, <2>1 DEF Present, Carried
  <1>8. CASE Uncovered(table.schema, r.schema) \cup Extra(r.schema) = {}
    <2>1. server' = [phase |-> "ddl", at |-> n + 1] /\ UNCHANGED table
      BY <1>2, <1>4, <1>8 DEF ConvergeStep, NextRecord, Onward, catalogVars
    <2>2. Proper(table.schema)
      BY <1>3, <1>7 DEF TableShape, Exists, NoTable
    <2>3. Proper(r.schema)
      BY <1>3, <1>4, <1>5 DEF StatementShape, RecordShape
    <2>4. table.schema = r.schema
      BY <1>8, <2>2, <2>3, Converged DEF Extra
    <2>5. Present' = A[n + 1]
      BY <1>5, <1>6, <1>7, <2>1, <2>4 DEF Effect, Present, Exists
    <2>6. Told(A, C, k)'
      BY <1>1, <1>5, <2>1, <2>5, DownTold DEF Up
    <2> QED BY <2>6
  <1>9. CASE Uncovered(table.schema, r.schema) \cup Extra(r.schema) # {}
    <2>1. server' = server /\ Exists'
      <3>1. PICK change : server' = server /\ EvolveSchema(change)
        BY <1>2, <1>7, <1>9 DEF ConvergeStep, NextRecord
      <3> QED BY <1>3, <1>7, <3>1 DEF EvolveSchema, Evolved, TableShape, Exists, NoTable
    <2>2. ~Plain(n + 1, Len(log))'
      <3>1. n + 1 \in (n + 1)..Len(log)
        BY <1>4
      <3> QED BY <1>5, <3>1 DEF Plain, Ops
    <2>3. Carried(A, n)'
      BY <2>1, <2>2 DEF Carried, Plain
    <2>4. Told(A, C, k)'
      BY <1>1, <1>4, <1>5, <2>1, <2>3, DownTold DEF Up, Carried
    <2> QED BY <2>4
  <1> QED BY <1>8, <1>9

LEMMA ReplayOverTold ==
  ASSUME Watched, ReplayFails \/ ReplayEnds \/ Resume
  PROVE  Orderly' => (\E A, C, k : Told(A, C, k))'
  <1> SUFFICES ASSUME Orderly'
               PROVE  (\E A, C, k : Told(A, C, k))'
    OBVIOUS
  <1>1. PICK A, C, k : Told(A, C, k)
    BY Before DEF Watched, HInv
  <1>2. TableShape /\ ServerShape /\ Within
    BY DEF Watched, HInv, Shaped, DInv, IInv
  <1>3. CASE ReplayFails
    <2>1. server'.phase = "refused" /\ UNCHANGED <<log, session, ddls, before>> /\ ~Up
      BY <1>2, <1>3 DEF ReplayFails, Replaying, Replays, logVars, bounds, Up, ServerShape
    <2>2. Told(A, C, k)'
      BY <1>1, <2>1, DownTold DEF Up
    <2> QED BY <2>2
  <1>4. CASE ReplayEnds
    <2>1. /\ server'.phase = "batches" /\ server.phase = "ddl" /\ server.at = Len(log) /\ ~Up
          /\ UNCHANGED <<log, session, ddls, before, table>>
      BY <1>2, <1>4 DEF ReplayEnds, Replays, logVars, bounds, Up, ServerShape, catalogVars
    <2>2. Len(log) \in Nat
      BY <1>2, LogLength
    <2>3. Plain(Len(log) + 1, Len(log))
      BY <2>2 DEF Plain, Ops
    <2>4. Present = A[Len(log)]
      BY <1>1, <2>1, <2>3 DEF Told, PhaseTold, Carried
    <2>5. Present' = A[Len(log)]
      BY <2>1, <2>4 DEF Present, Exists
    <2>6. Told(A, C, k)'
      BY <1>1, <2>1, <2>5, DownTold DEF Up
    <2> QED BY <2>6
  <1>5. CASE Resume
    <2>1. /\ server'.phase = "up" /\ server.phase = "batches" /\ ~Up
          /\ UNCHANGED <<log, session, ddls, before, table>>
      BY <1>5, Zenon DEF Resume, bounds, Up
    <2>2. Present' = A[Len(log)]
      BY <1>1, <2>1 DEF Told, PhaseTold, Present, Exists
    <2>3. Told(A, C, k)'
      BY <1>1, <2>1, <2>2, DownTold DEF Up
    <2> QED BY <2>3
  <1> QED BY <1>3, <1>4, <1>5

-----------------------------------------------------------------------------
(* What is found stays whole. *)

LEMMA Harmless ==
  ASSUME Unharmed
  PROVE  /\ "narrowed" \notin trouble /\ "disordered" \notin trouble
         /\ "halfway" \notin trouble /\ "stale" \notin trouble
         /\ "unlogged" \notin trouble /\ "forgotten" \notin trouble
  BY Zenon DEF Unharmed

LEMMA HarmlessNext ==
  ASSUME Unharmed'
  PROVE  /\ "narrowed" \notin trouble' /\ "disordered" \notin trouble'
         /\ "halfway" \notin trouble' /\ "stale" \notin trouble'
         /\ "unlogged" \notin trouble' /\ "forgotten" \notin trouble'
  BY Zenon DEF Unharmed

\* The log stays, and the table reads all that it read.
LEMMA FoundAside ==
  ASSUME Watched, UNCHANGED log,
         (server'.phase \in {"up", "batches"} \/ "evolved" \in trouble') =>
             (server.phase \in {"up", "batches"} \/ "evolved" \in trouble),
         Unharmed' /\ Alive' =>
             Alive /\ (Exists => Exists' /\ ReadWhole(table'.schema, table.schema))
  PROVE  FoundNow'
  <1> SUFFICES ASSUME Unharmed', Alive',
                      server'.phase \in {"up", "batches"} \/ "evolved" \in trouble'
               PROVE  FoundNext(Present')
    BY DEF FoundNow, Found, FoundNext
  <1>1. Found(Present)
    BY Before DEF Watched, HInv, FoundNow
  <1>2. Present.here => Present'.here /\ ReadWhole(Present'.schema, Present.schema)
    BY DEF Present
  <1> QED BY <1>1, <1>2, FoundStays

\* The statement of one session is another now.
LEMMA MovedSession ==
  ASSUME SessionsOK, NEW s \in Sessions, NEW r, session' = [session EXCEPT ![s] = r]
  PROVE  /\ session'[s] = r /\ \A z \in Sessions \ {s} : session'[z] = session[z]
         /\ \A z \in Sessions \ {s} : (Dropping(z)' <=> Dropping(z)) /\ (Pending(z)' <=> Pending(z))
         /\ Dropping(s)' <=> (r.pc = "log" /\ r.record = DropRecord)
         /\ Pending(s)' <=> r.pc = "log"
         /\ Alive' /\ ~Dropping(s) => Alive
  <1>1. PICK S : session \in [Sessions -> S]
    BY DEF SessionsOK
  <1>2. session'[s] = r /\ \A z \in Sessions \ {s} : session'[z] = session[z]
    BY <1>1
  <1>3. \A z \in Sessions \ {s} : (Dropping(z)' <=> Dropping(z)) /\ (Pending(z)' <=> Pending(z))
    BY <1>2 DEF Dropping, DropRecord, Pending
  <1>4. Dropping(s)' <=> (r.pc = "log" /\ r.record = DropRecord)
    BY <1>2 DEF Dropping, DropRecord
  <1>5. Pending(s)' <=> r.pc = "log"
    BY <1>2 DEF Pending
  <1>6. Alive' /\ ~Dropping(s) => Alive
    BY <1>3 DEF Alive
  <1> QED BY <1>2, <1>3, <1>4, <1>5, <1>6

\* The table as a change leaves it.
LEMMA TableEvolves ==
  ASSUME TableShape, Exists, NEW change, EvolveSchema(change)
  PROVE  /\ Exists' /\ Present' = [here |-> TRUE, schema |-> ApplyChange(table.schema, change)]
         /\ table'.schema = ApplyChange(table.schema, change)
         /\ table'.life = table.life /\ lives' = lives /\ TableShape'
         /\ Evolved(change).schema = ApplyChange(table.schema, change)
         /\ Evolved(change).life = table.life
         /\ Evolved(change) = table' /\ Proper(table.schema)
  <1>1. PICK f, v, l : /\ table = [schema |-> f, version |-> v, life |-> l]
                       /\ Proper(f) /\ v \in Nat \ {0} /\ l \in 1..lives
    BY DEF TableShape, Exists, NoTable
  <1>2. Evolved(change) = [schema |-> ApplyChange(f, change), version |-> v + 1, life |-> l]
    <2>1. [table EXCEPT !.schema = ApplyChange(table.schema, change)]
              = [schema |-> ApplyChange(f, change), version |-> v, life |-> l]
      BY <1>1
    <2>2. Evolved(change)
              = [[table EXCEPT !.schema = ApplyChange(table.schema, change)] EXCEPT !.version = @ + 1]
      BY DEF Evolved
    <2> QED BY <2>1, <2>2
  <1>3. table' = Evolved(change) /\ lives' = lives
    BY DEF EvolveSchema
  <1>4. Exists' = TRUE
    BY <1>1, <1>2, <1>3 DEF Exists
  <1>5. Proper(ApplyChange(f, change)) /\ v + 1 \in Nat \ {0}
    BY <1>1, ChangedIsProper
  <1>6. TableShape'
    <2>1. lives' \in Nat
      BY <1>3 DEF TableShape
    <2> QED BY <1>1, <1>2, <1>3, <1>5, <2>1 DEF TableShape, Proper
  <1> QED BY <1>1, <1>2, <1>3, <1>4, <1>6 DEF Present

LEMMA SessionFound ==
  ASSUME Watched, NEW s \in Sessions, SessionStep(s)
  PROVE  FoundNow'
  <1>1. /\ SessionsOK /\ TableShape /\ StatementShape /\ Within
        /\ ReadWhole(table.schema, table.schema)
    BY ReadsItself DEF Watched, HInv, Shaped, DInv, Shapely, IInv
  <1>2. ASSUME NEW schema, Create(s, schema)
        PROVE  FoundNow'
    <2>1. PICK r : session' = [session EXCEPT ![s] = r] /\ session[s].pc = "idle"
      BY <1>2 DEF Create, ToLog, Ready
    <2>2. UNCHANGED <<log, server, trouble>> /\ ~Exists
      BY <1>2 DEF Create, InSession, logVars
    <2>3. Alive' => Alive
      BY <1>1, <2>1, MovedSession DEF Dropping
    <2> QED BY <2>2, <2>3, FoundAside
  <1>3. ASSUME NEW schema, CreateExisting(s, schema)
        PROVE  FoundNow'
    <2>1. PICK r : session' = [session EXCEPT ![s] = r] /\ session[s].pc = "idle"
      BY <1>3 DEF CreateExisting, ToLog, Ready
    <2>2. UNCHANGED <<log, server, trouble, table>> /\ (Exists' <=> Exists)
      BY <1>3 DEF CreateExisting, InSession, logVars, catalogVars, Exists
    <2>3. Alive' => Alive
      BY <1>1, <2>1, MovedSession DEF Dropping
    <2> QED BY <1>1, <2>2, <2>3, FoundAside
  <1>4. ASSUME NEW change, Alter(s, change)
        PROVE  FoundNow'
    <2>1. PICK r : session' = [session EXCEPT ![s] = r] /\ session[s].pc = "idle"
      BY <1>4 DEF Alter, Ready
    <2>2. UNCHANGED <<log, server, trouble, table>> /\ (Exists' <=> Exists)
      BY <1>4 DEF Alter, InSession, logVars, catalogVars, Exists
    <2>3. Alive' => Alive
      BY <1>1, <2>1, MovedSession DEF Dropping
    <2> QED BY <1>1, <2>2, <2>3, FoundAside
  <1>5. ASSUME Drop(s)
        PROVE  FoundNow'
    <2>a. PICK r : r = [pc |-> "log", record |-> DropRecord, turn |-> ddls]
      OBVIOUS
    <2>1. session' = [session EXCEPT ![s] = r] /\ r.pc = "log" /\ r.record = DropRecord
      BY <1>5, <2>a DEF Drop, ToLog
    <2>2. UNCHANGED <<log, server, trouble>>
      BY <1>5 DEF Drop, InSession, logVars
    <2>3. Dropping(s)'
      BY <1>1, <2>1, MovedSession
    <2>4. ~Alive'
      BY <2>3 DEF Alive
    <2> QED BY <2>2, <2>4, FoundAside
  <1>6. ASSUME AlterApply(s)
        PROVE  FoundNow'
    <2> DEFINE change == session[s].change
    <2>1. PICK r : session' = [session EXCEPT ![s] = r] /\ session[s].pc = "evolve"
      BY <1>6 DEF AlterApply, ToLog
    <2>2. /\ UNCHANGED <<log, server>>
          /\ trouble' = trouble \cup (IF change.kind = "drop" THEN {"narrowed"} ELSE {})
          /\ Exists /\ Applicable(table.schema, change) /\ EvolveSchema(change)
      BY <1>6 DEF AlterApply, InSession, logVars, Blame, Evolves
    <2>3. Alive' => Alive
      BY <1>1, <2>1, MovedSession DEF Dropping
    <2>4. Unharmed' => change.kind = "add"
      BY <1>1, <2>1, <2>2, HarmlessNext DEF StatementShape
    <2>5. Unharmed' => ReadWhole(ApplyChange(table.schema, change), table.schema)
      BY <2>2, <2>4, ChangeWidens
    <2>6. Exists' /\ table'.schema = ApplyChange(table.schema, change)
      BY <1>1, <2>2, TableEvolves
    <2>7. "evolved" \in trouble' => "evolved" \in trouble
      BY <2>2
    <2> QED BY <2>2, <2>3, <2>5, <2>6, <2>7, FoundAside
  <1>7. ASSUME AlterRefused(s)
        PROVE  FoundNow'
    <2>1. PICK r : session' = [session EXCEPT ![s] = r] /\ session[s].pc = "evolve"
      BY <1>7 DEF AlterRefused
    <2>2. UNCHANGED <<log, server, trouble, table>> /\ (Exists' <=> Exists)
      BY <1>7 DEF AlterRefused, InSession, logVars, catalogVars, Exists
    <2>3. Alive' => Alive
      BY <1>1, <2>1, MovedSession DEF Dropping
    <2> QED BY <1>1, <2>2, <2>3, FoundAside
  <1>8. ASSUME LogDdl(s)
        PROVE  FoundNow'
    <2> DEFINE r == session[s].record
    <2>1. /\ session' = [session EXCEPT ![s] = Idle] /\ Pending(s) /\ Log(r)
          /\ UNCHANGED <<server, table>> /\ Up
          /\ r = DropRecord \/ r.op \in {"create", "alter"}
      BY <1>1, <1>8 DEF LogDdl, Log, catalogVars, Pending, SessionsOK
    <2> SUFFICES ASSUME Unharmed', Alive'
                 PROVE  FoundNext(Present')
      BY DEF FoundNow, Found, FoundNext
    <2>2. Present' = Present
      BY <2>1 DEF Present, Exists
    <2>3. CASE r = DropRecord
      <3>1. \A p \in 1..Len(log) : ~Quiet(p)'
        BY <1>1, <2>1, <2>3, LogMore DEF DropRecord
      <3>2. \A p \in Rows' : p \in 1..Len(log)
        <4>1. PICK S : log \in Seq(S)
          BY <1>1 DEF Within
        <4>2. log \in Seq(S \cup {r})
          BY <4>1, SMT
        <4>3. log'[Len(log) + 1] = r
          BY <2>1, <4>2, AppendProperties DEF Log
        <4> QED BY <1>1, <2>1, <2>3, <4>3, LogMore DEF Rows, DropRecord
      <3> QED BY <3>1, <3>2 DEF FoundNext
    <2>4. CASE r.op \in {"create", "alter"}
      <3>1. ~Dropping(s)
        BY <2>4 DEF Dropping, DropRecord
      <3>2. Alive
        BY <1>1, <2>1, <3>1, MovedSession
      <3>3. Found(Present)
        BY <2>1, <3>2, Before DEF Watched, HInv, FoundNow, Up
      <3> QED BY <1>1, <2>1, <2>2, <2>4, <3>3, FoundBefore
    <2> QED BY <2>1, <2>3, <2>4
  <1> QED BY <1>2, <1>3, <1>4, <1>5, <1>6, <1>7, <1>8 DEF SessionStep

LEMMA WriterFound ==
  ASSUME Watched, NEW w \in Writers, WriterStep(w)
  PROVE  FoundNow'
  <1>1. /\ SessionsOK /\ TableShape /\ WriterShape /\ Within
        /\ ReadWhole(table.schema, table.schema)
    BY ReadsItself DEF Watched, HInv, Shaped, DInv, Shapely, IInv
  <1>2. UNCHANGED <<session, server>> /\ Up
    BY DEF WriterStep, BeginWrite, Judge, Evolve, EvolveConflict, Update, LogWrite, InWrite, WriterAt
  <1>3. Alive' <=> Alive
    BY <1>2 DEF Alive, Dropping, DropRecord
  <1>4. ASSUME \/ \E columns \in Shapes : BeginWrite(w, columns)
               \/ Judge(w) \/ EvolveConflict(w) \/ Update(w)
        PROVE  FoundNow'
    <2>1. UNCHANGED <<log, table, trouble>>
      BY <1>4 DEF BeginWrite, Judge, EvolveConflict, Update, catalogVars
    <2>2. Exists' <=> Exists
      BY <2>1 DEF Exists
    <2> QED BY <1>1, <1>2, <1>3, <2>1, <2>2, FoundAside
  <1>5. ASSUME Evolve(w)
        PROVE  FoundNow'
    <2> DEFINE change == writer[w].change
    <2>1. /\ UNCHANGED log /\ Exists /\ Applicable(table.schema, change) /\ EvolveSchema(change)
          /\ change.kind \in {"add", "widen"}
      BY <1>1, <1>5 DEF Evolve, Evolves, WriterAt, WriterShape
    <2>2. ReadWhole(ApplyChange(table.schema, change), table.schema)
      BY <2>1, ChangeWidens
    <2>3. Exists' /\ table'.schema = ApplyChange(table.schema, change)
      BY <1>1, <2>1, TableEvolves
    <2> QED BY <1>2, <1>3, <2>1, <2>2, <2>3, FoundAside DEF Up
  <1>6. ASSUME LogWrite(w)
        PROVE  FoundNow'
    <2> DEFINE entry == writer[w].entry
               columns == writer[w].columns
               r == DataRecord(columns, entry.version)
    <2>1. /\ Log(r) /\ UNCHANGED table /\ writer[w].pc = "log"
          /\ trouble' = trouble
                 \cup (IF Covers(entry.schema, columns) THEN {} ELSE {"halfway"})
                 \cup (IF entry.life = table.life THEN {} ELSE {"stale"})
      BY <1>6 DEF LogWrite, Log, catalogVars, WriterAt
    <2> SUFFICES ASSUME Unharmed', Alive'
                 PROVE  FoundNext(Present')
      BY DEF FoundNow, Found, FoundNext
    <2>2. Covers(entry.schema, columns) /\ entry.life = table.life
      BY <2>1, HarmlessNext
    <2>3. Unharmed /\ Found(Present)
      BY <1>2, <1>3, Before DEF Watched, HInv, FoundNow, Up
    <2>4. EntryOK(entry)
      BY <1>1, <2>1 DEF WriterShape
    <2>5. ReadWhole(table.schema, entry.schema) /\ table.life \in 1..lives
      BY <2>2, <2>3, <2>4 DEF EntryOK
    <2>6. ReadWhole(table.schema, columns)
      BY <2>2, <2>5, CoveredIsRead, ReadsOn
    <2>7. Exists
      BY <1>1, <2>5 DEF TableShape, NoTable, Exists
    <2>8. Present' = Present
      BY <2>1 DEF Present, Exists
    <2>9. PICK S : log \in Seq(S)
      BY <1>1 DEF Within
    <2>10. log \in Seq(S \cup {r})
      BY <2>9, SMT
    <2>11. log'[Len(log) + 1] = r
      BY <2>1, <2>10, AppendProperties DEF Log
    <2> SUFFICES ASSUME NEW p \in Rows', Quiet(p)'
                 PROVE  Present.here /\ ReadWhole(Present.schema, log'[p].columns)
      BY <2>8 DEF FoundNext
    <2>12. CASE p \in 1..Len(log)
      <3>1. p \in Rows /\ Quiet(p) /\ log'[p] = log[p]
        BY <1>1, <2>1, <2>12, LogMore
      <3> QED BY <2>3, <3>1 DEF Found
    <2>13. CASE p = Len(log) + 1
      <3>1. log'[p].columns = columns
        BY <2>11, <2>13 DEF DataRecord
      <3> QED BY <2>6, <2>7, <3>1 DEF Present
    <2> QED BY <1>1, <2>1, <2>12, <2>13, LogMore
  <1> QED BY <1>4, <1>5, <1>6 DEF WriterStep

LEMMA StoreFound ==
  ASSUME Watched, UNCHANGED <<session, server, log, table>>,
         "evolved" \in trouble' => "evolved" \in trouble
  PROVE  FoundNow'
  <1>1. Alive' <=> Alive
    BY DEF Alive, Dropping, DropRecord
  <1>2. ReadWhole(table'.schema, table.schema) /\ (Exists' <=> Exists)
    BY ReadsItself DEF Exists
  <1> QED BY <1>1, <1>2, FoundAside

\* The process is down: only of a table that writes have changed is anything said.
LEMMA FoundDown ==
  ASSUME Watched, UNCHANGED log, server'.phase \in {"ddl", "refused"},
         "evolved" \in trouble' => "evolved" \in trouble,
         Unharmed' /\ "evolved" \in trouble =>
             Alive /\ (Exists => Exists' /\ ReadWhole(table'.schema, table.schema))
  PROVE  FoundNow'
  <1> SUFFICES ASSUME Unharmed', Alive', "evolved" \in trouble
               PROVE  FoundNext(Present')
    BY DEF FoundNow, Found, FoundNext
  <1>1. Found(Present)
    BY Before DEF Watched, HInv, FoundNow
  <1>2. Present.here => Present'.here /\ ReadWhole(Present'.schema, Present.schema)
    BY DEF Present
  <1> QED BY <1>1, <1>2, FoundStays

LEMMA CrashFound ==
  ASSUME Watched, Crash
  PROVE  FoundNow'
  <1>1. /\ UNCHANGED log /\ server'.phase = "ddl"
        /\ "evolved" \in trouble' => "evolved" \in trouble
        /\ durable => UNCHANGED table
    BY DEF Crash, logVars
  <1>2. ASSUME Unharmed', "evolved" \in trouble
        PROVE  durable /\ \A s \in Sessions : session[s].pc # "log"
    <2>1. "unlogged" \notin trouble' /\ "forgotten" \notin trouble'
      BY <1>2, HarmlessNext
    <2> QED BY <1>2, <2>1 DEF Crash
  <1>3. ASSUME Unharmed', "evolved" \in trouble
        PROVE  Alive /\ (Exists => Exists' /\ ReadWhole(table'.schema, table.schema))
    <2>1. Alive
      BY <1>2, <1>3 DEF Alive, Dropping
    <2>2. UNCHANGED table
      BY <1>1, <1>2, <1>3
    <2> QED BY <2>1, <2>2, ReadsItself DEF Exists
  <1> QED BY <1>1, <1>3, FoundDown

LEMMA ReplayFound ==
  ASSUME Watched, ReplayCreateOrDrop \/ ConvergeStep \/ ReplayFails
  PROVE  FoundNow'
  <1>1. SessionsOK /\ TableShape /\ ServerShape /\ ReadWhole(table.schema, table.schema)
    BY ReadsItself DEF Watched, HInv, Shaped, DInv, Shapely
  <1>2. UNCHANGED <<log, session>> /\ server.phase = "ddl" /\ server'.phase \in {"ddl", "refused"}
    <2>1. PICK a : server = [phase |-> "ddl", at |-> a]
      BY <1>1 DEF ServerShape, ReplayCreateOrDrop, ConvergeStep, ReplayFails, Replaying
    <2>2. server' \in {server, [phase |-> "ddl", at |-> a + 1], [phase |-> "refused", at |-> a]}
      BY <2>1 DEF ReplayCreateOrDrop, ConvergeStep, ReplayFails, Onward
    <2>3. UNCHANGED <<log, session>>
      BY DEF ReplayCreateOrDrop, ConvergeStep, ReplayFails, Replays, logVars
    <2> QED BY <2>1, <2>2, <2>3
  <1>3. Alive
    BY <1>1, <1>2 DEF SessionsOK, Up, Alive, Dropping
  <1>4. CASE ReplayCreateOrDrop
    <2>1. ASSUME Unharmed', "evolved" \in trouble, Exists
          PROVE  UNCHANGED table
      <3>1. "forgotten" \notin trouble'
        BY <2>1, HarmlessNext
      <3>2. NextRecord.op # "drop"
        BY <1>4, <2>1, <3>1 DEF ReplayCreateOrDrop, Blame
      <3> QED BY <1>4, <2>1, <3>2 DEF ReplayCreateOrDrop, catalogVars
    <2>2. "evolved" \in trouble' => "evolved" \in trouble
      BY <1>4 DEF ReplayCreateOrDrop, Blame
    <2>3. ASSUME Unharmed', "evolved" \in trouble
          PROVE  Exists => Exists' /\ ReadWhole(table'.schema, table.schema)
      BY <1>1, <2>1, <2>3 DEF Exists
    <2> QED BY <1>2, <1>3, <2>2, <2>3, FoundDown
  <1>5. CASE ConvergeStep
    <2>1. CASE UNCHANGED <<table, trouble>>
      <3>1. Exists' <=> Exists
        BY <2>1 DEF Exists
      <3> QED BY <1>1, <1>2, <1>3, <2>1, <3>1, FoundDown
    <2>2. CASE ~UNCHANGED <<table, trouble>>
      <3> DEFINE target == NextRecord.schema
                 missing == Uncovered(table.schema, target)
      <3>1. PICK c : /\ c \in missing => ~Incompatible(table.schema, target, c)
                     /\ EvolveSchema(IF c \in missing THEN ChangeFor(table.schema, target, c)
                                     ELSE DropColumn(c))
                     /\ Blame("narrowed", c \notin missing)
                     /\ Exists
        BY <1>5, <2>2 DEF ConvergeStep, catalogVars
      <3>2. "evolved" \in trouble' => "evolved" \in trouble
        BY <3>1 DEF Blame
      <3>3. ASSUME Unharmed'
            PROVE  Exists' /\ ReadWhole(table'.schema, table.schema)
        <4>1. c \in missing
          <5>1. "narrowed" \notin trouble'
            BY <3>3, HarmlessNext
          <5> QED BY <3>1, <5>1 DEF Blame
        <4>2. EvolveSchema(ChangeFor(table.schema, target, c))
          BY <3>1, <4>1
        <4>3. /\ Exists'
              /\ table'.schema = ApplyChange(table.schema, ChangeFor(table.schema, target, c))
          BY <1>1, <3>1, <4>2, TableEvolves
        <4>4. ~Incompatible(table.schema, target, c)
          BY <3>1, <4>1
        <4> QED BY <4>1, <4>3, <4>4, ConvergingWidens
      <3> QED BY <1>2, <1>3, <3>2, <3>3, FoundDown
    <2> QED BY <2>1, <2>2
  <1>6. CASE ReplayFails
    <2>1. UNCHANGED <<table, trouble>> /\ (Exists' <=> Exists)
      BY <1>6 DEF ReplayFails, catalogVars, Exists
    <2> QED BY <1>1, <1>2, <1>3, <2>1, FoundDown
  <1> QED BY <1>4, <1>5, <1>6

\* The replay is over: either writes have changed the schema, and nothing was taken
\* from it, or the table is what the log makes.
LEMMA ReplayOverFound ==
  ASSUME Watched, ReplayEnds \/ Resume
  PROVE  FoundNow'
  <1>1. CASE ReplayEnds
    <2>1. UNCHANGED <<log, session, table, trouble>> /\ server'.phase = "batches"
      <3>1. ServerShape
        BY DEF Watched, HInv, Shaped
      <3>2. UNCHANGED <<log, session, table, trouble>>
        BY <1>1 DEF ReplayEnds, Replays, logVars, catalogVars
      <3>3. server'.phase = "batches"
        BY <1>1, <3>1 DEF ReplayEnds, ServerShape
      <3> QED BY <3>2, <3>3
    <2>2. CASE "evolved" \in trouble
      <3>1. (Alive' <=> Alive) /\ (Exists' <=> Exists)
        BY <2>1 DEF Alive, Dropping, DropRecord, Exists
      <3> QED BY <2>1, <2>2, <3>1, FoundAside, ReadsItself
    <2>3. CASE "evolved" \notin trouble
      <3> SUFFICES ASSUME Unharmed'
                   PROVE  FoundNext(Present')
        BY DEF FoundNow, Found, FoundNext
      <3>1. Orderly'
        BY <2>1, <2>3, HarmlessNext DEF Orderly
      <3>2. PICK A, C, k : Told(A, C, k)'
        BY <1>1, <3>1, ReplayOverTold
      <3>3. Present' = A[Len(log')] /\ FoundNext(A[Len(log')])
        BY <2>1, <3>2 DEF Told, PhaseTold, Found, FoundNext, Up
      <3> QED BY <3>3
    <2> QED BY <2>2, <2>3
  <1>2. CASE Resume
    <2>1. UNCHANGED <<log, session, table, trouble>> /\ server.phase = "batches"
      BY <1>2, Zenon DEF Resume
    <2>2. (Alive' <=> Alive) /\ (Exists' <=> Exists)
      BY <2>1 DEF Alive, Dropping, DropRecord, Exists
    <2> QED BY <2>1, <2>2, FoundAside, ReadsItself
  <1> QED BY <1>1, <1>2

-----------------------------------------------------------------------------
(* What statements and writes go by. *)

EntryNext(e) ==
    /\ e.life \in 1..lives'
    /\ Unharmed' /\ e.life = table'.life => ReadWhole(table'.schema, e.schema)

LEMMA ShapesAreProper == \A schema \in Shapes : Proper(schema)
  <1> SUFFICES ASSUME NEW schema \in Shapes
               PROVE  Proper(schema)
    OBVIOUS
  <1>1. PICK C \in SUBSET Columns : schema \in [C -> Types]
    BY ShapesAssumption
  <1> QED BY <1>1 DEF Proper

\* The table there is, is one to go by.
LEMMA TableIsEntry ==
  ASSUME TableShape, table # NoTable
  PROVE  EntryOK(table)
  <1>1. table.life \in 1..lives
    BY DEF TableShape
  <1> QED BY <1>1, ReadsItself DEF EntryOK

\* A life that goes on, and whose schema is not narrowed.
LEMMA EntryKept ==
  ASSUME TableShape, lives' = lives, Unharmed' => Unharmed, table'.life = table.life,
         Unharmed' => ReadWhole(table'.schema, table.schema)
  PROVE  \A e : EntryOK(e) => EntryNext(e)
  <1> SUFFICES ASSUME NEW e, EntryOK(e)
               PROVE  EntryNext(e)
    OBVIOUS
  <1>1. Unharmed' /\ e.life = table'.life => ReadWhole(table.schema, e.schema)
    BY DEF EntryOK
  <1> QED BY <1>1, ReadsOn DEF EntryOK, EntryNext

\* Another life, or none.
LEMMA EntryOfOld ==
  ASSUME TableShape, \/ lives' = lives + 1 /\ table'.life = lives + 1
                     \/ lives' = lives /\ table'.life = 0
  PROVE  \A e : EntryOK(e) => EntryNext(e)
  <1> SUFFICES ASSUME NEW e, EntryOK(e)
               PROVE  EntryNext(e)
    OBVIOUS
  <1>1. e.life \in 1..lives /\ lives \in Nat
    BY DEF EntryOK, TableShape
  <1>2. e.life \in 1..lives' /\ e.life # table'.life
    BY <1>1
  <1> QED BY <1>2 DEF EntryNext

LEMMA CreatedShape ==
  ASSUME TableShape, NEW schema, Proper(schema), CreateTable(schema)
  PROVE  TableShape' /\ (\A e : EntryOK(e) => EntryNext(e))
  <1>1. /\ table' = [schema |-> schema, version |-> 1, life |-> lives + 1]
        /\ lives' = lives + 1 /\ lives \in Nat
    BY DEF CreateTable, TableShape
  <1>2. lives + 1 \in 1..(lives + 1) /\ lives + 1 \in Nat
    BY <1>1
  <1>3. TableShape'
    <2>1. PICK l : l = lives + 1
      OBVIOUS
    <2>2. table' = [schema |-> schema, version |-> 1, life |-> l] /\ 1 \in Nat \ {0} /\ l \in 1..lives'
      BY <1>1, <1>2, <2>1
    <2> QED BY <1>1, <1>2, <2>2, Zenon DEF TableShape, Proper
  <1>4. table'.life = lives + 1
    BY <1>1
  <1> QED BY <1>1, <1>3, <1>4, EntryOfOld

LEMMA DroppedShape ==
  ASSUME TableShape, DropTable
  PROVE  TableShape' /\ (\A e : EntryOK(e) => EntryNext(e))
  <1>1. table' = NoTable /\ lives' = lives
    BY DEF DropTable
  <1>2. table'.life = 0
    BY <1>1 DEF NoTable
  <1>3. TableShape'
    BY <1>1 DEF TableShape
  <1> QED BY <1>1, <1>2, <1>3, EntryOfOld

LEMMA SameTableShape ==
  ASSUME TableShape, UNCHANGED <<table, lives>>
  PROVE  TableShape'
  BY DEF TableShape

LEMMA SameEntries ==
  ASSUME TableShape, UNCHANGED <<table, lives>>, trouble \subseteq trouble'
  PROVE  \A e : EntryOK(e) => EntryNext(e)
  BY EntryKept, Before, ReadsItself

LEMMA EvolvedEntries ==
  ASSUME TableShape, Exists, NEW change, EvolveSchema(change), trouble \subseteq trouble',
         Unharmed' => change.kind \in {"add", "widen"} /\ Applicable(table.schema, change)
  PROVE  \A e : EntryOK(e) => EntryNext(e)
  <1>1. table'.life = table.life /\ lives' = lives
        /\ table'.schema = ApplyChange(table.schema, change)
    BY TableEvolves
  <1>2. Unharmed' => ReadWhole(table'.schema, table.schema)
    BY <1>1, ChangeWidens
  <1> QED BY <1>1, <1>2, EntryKept, Before

\* The log only grows.
LEMMA SameServer ==
  ASSUME ServerShape, Within, UNCHANGED server, UNCHANGED log \/ \E r : Log(r)
  PROVE  ServerShape'
  <1>1. Len(log) \in Nat /\ Len(log') \in {Len(log), Len(log) + 1}
    BY LogLength, LogMore
  <1>2. PICK p, a : server = [phase |-> p, at |-> a] /\ p \in Phases /\ a \in 0..Len(log)
    BY DEF ServerShape
  <1>3. server' = [phase |-> p, at |-> a] /\ a \in 0..Len(log')
    BY <1>1, <1>2
  <1> QED BY <1>2, <1>3 DEF ServerShape, Phases

LEMMA SameWriters ==
  ASSUME WriterShape, UNCHANGED <<writer, cache, server>>, \A e : EntryOK(e) => EntryNext(e)
  PROVE  WriterShape'
  <1>1. Up' <=> Up
    BY DEF Up
  <1>2. \A w \in Writers : writer'[w].pc \in {"log", "update"} => Up' /\ EntryNext(writer'[w].entry)
    BY <1>1 DEF WriterShape
  <1>3. cache' # NoTable => Up' /\ EntryNext(cache')
    BY <1>1 DEF WriterShape
  <1>4. \E S : writer' \in [Writers -> S]
    BY DEF WriterShape
  <1>5. \A w \in Writers : writer'[w].pc = "evolve" => writer'[w].change.kind \in {"add", "widen"}
    BY DEF WriterShape
  <1> QED BY <1>2, <1>3, <1>4, <1>5 DEF WriterShape, EntryOK, EntryNext

LEMMA MovedWriter ==
  ASSUME WriterShape, NEW w \in Writers, NEW r, Now(w, r), Up, UNCHANGED server,
         \A e : EntryOK(e) => EntryNext(e),
         r.pc = "evolve" => r.change.kind \in {"add", "widen"},
         r.pc \in {"log", "update"} => EntryNext(r.entry),
         cache' # NoTable => EntryNext(cache')
  PROVE  WriterShape'
  <1>1. PICK S : writer \in [Writers -> S]
    BY DEF WriterShape
  <1>2. writer' \in [Writers -> S \cup {r}]
    BY <1>1 DEF Now
  <1>3. writer'[w] = r /\ \A v \in Writers \ {w} : writer'[v] = writer[v]
    BY <1>1 DEF Now
  <1>4. Up'
    BY DEF Up
  <1>5. \A v \in Writers : writer'[v].pc = "evolve" => writer'[v].change.kind \in {"add", "widen"}
    BY <1>3 DEF WriterShape
  <1>6. \A v \in Writers : writer'[v].pc \in {"log", "update"} => EntryNext(writer'[v].entry)
    BY <1>3 DEF WriterShape
  <1> QED BY <1>2, <1>4, <1>5, <1>6 DEF WriterShape, EntryOK, EntryNext

LEMMA SameStatements ==
  ASSUME StatementShape, UNCHANGED <<session, ddls, log>>
  PROVE  StatementShape'
  BY DEF StatementShape, Pending

\* A record more, of the shape of the others.
LEMMA LoggedShape ==
  ASSUME Within, NEW r, Log(r), RecordShape(r), \A n \in 1..Len(log) : RecordShape(log[n])
  PROVE  \A n \in 1..Len(log') : RecordShape(log'[n])
  <1>1. PICK S : log \in Seq(S)
    BY DEF Within
  <1>2. log \in Seq(S \cup {r})
    BY <1>1, SMT
  <1>3. log'[Len(log) + 1] = r
    BY <1>2, AppendProperties DEF Log
  <1> SUFFICES ASSUME NEW n \in 1..Len(log')
               PROVE  RecordShape(log'[n])
    OBVIOUS
  <1>4. n \in 1..Len(log) \/ n = Len(log) + 1
    BY LogMore
  <1>5. CASE n \in 1..Len(log)
    <2>1. log'[n] = log[n]
      BY <1>5, LogMore
    <2> QED BY <1>5, <2>1
  <1>6. CASE n = Len(log) + 1
    BY <1>3, <1>6
  <1> QED BY <1>4, <1>5, <1>6

LEMMA MovedStatement ==
  ASSUME StatementShape, SessionsOK, NEW s \in Sessions, NEW r,
         session' = [session EXCEPT ![s] = r],
         \A n \in 1..Len(log') : RecordShape(log'[n]),
         ddls' = ddls \/ ddls' = ddls + 1,
         r.pc = "evolve" => r.change.kind \in {"add", "drop"},
         r.pc = "log" => RecordShape(r.record) /\ r.turn = ddls /\ ddls' = ddls + 1
  PROVE  StatementShape'
  <1>1. session'[s] = r /\ \A z \in Sessions \ {s} : session'[z] = session[z]
    BY MovedSession
  <1>2. ddls \in Nat /\ ddls' \in Nat /\ ddls <= ddls'
    BY DEF StatementShape
  <1>3. ASSUME NEW z \in Sessions, session'[z].pc = "log"
        PROVE  RecordShape(session'[z].record) /\ session'[z].turn \in 0..(ddls' - 1)
    <2>1. CASE z = s
      BY <1>1, <1>2, <1>3, <2>1
    <2>2. CASE z # s
      <3>1. RecordShape(session[z].record) /\ session[z].turn \in 0..(ddls - 1)
        BY <1>1, <1>3, <2>2 DEF StatementShape, Pending
      <3> QED BY <1>1, <1>2, <2>2, <3>1
    <2> QED BY <2>1, <2>2
  <1>4. \A z \in Sessions : session'[z].pc = "evolve" => session'[z].change.kind \in {"add", "drop"}
    BY <1>1 DEF StatementShape
  <1> QED BY <1>2, <1>3, <1>4 DEF StatementShape, Pending, RecordShape, Proper

LEMMA SessionShaped ==
  ASSUME Watched, NEW s \in Sessions, SessionStep(s)
  PROVE  Shaped'
  <1>1. /\ SessionsOK /\ Within /\ trouble \subseteq trouble'
        /\ TableShape /\ ServerShape /\ StatementShape /\ WriterShape
    BY DEF Watched, HInv, Shaped, DInv, Shapely, IInv
  <1> SUFFICES TableShape' /\ StatementShape' /\ (\A e : EntryOK(e) => EntryNext(e))
    <2>1. UNCHANGED <<writer, cache, server>>
      BY DEF SessionStep, Create, CreateExisting, Alter, Drop, AlterApply, AlterRefused,
             LogDdl, InSession
    <2>2. UNCHANGED log \/ \E r : Log(r)
      BY DEF SessionStep, Create, CreateExisting, Alter, Drop, AlterApply, AlterRefused,
             LogDdl, InSession, logVars, Log
    <2> QED BY <1>1, <2>1, <2>2, SameServer, SameWriters DEF Shaped
  <1>2. \A n \in 1..Len(log) : RecordShape(log[n])
    BY <1>1 DEF StatementShape
  <1>3. ASSUME NEW schema \in Shapes, Create(s, schema) \/ CreateExisting(s, schema)
        PROVE  TableShape' /\ StatementShape' /\ (\A e : EntryOK(e) => EntryNext(e))
    <2>1. PICK r : r = [pc |-> "log", record |-> CreateRecord(schema), turn |-> ddls]
      OBVIOUS
    <2>2. session' = [session EXCEPT ![s] = r] /\ ddls' = ddls + 1 /\ UNCHANGED log
      BY <1>3, <2>1 DEF Create, CreateExisting, ToLog, InSession, logVars
    <2>3. Proper(schema)
      BY ShapesAreProper
    <2>4. r.pc = "log" /\ RecordShape(r.record) /\ r.turn = ddls
      BY <2>1, <2>3 DEF RecordShape, CreateRecord
    <2>5. StatementShape'
      BY <1>1, <1>2, <2>2, <2>4, MovedStatement
    <2>6. CASE Create(s, schema)
      BY <1>1, <2>3, <2>5, <2>6, CreatedShape DEF Create
    <2>7. CASE CreateExisting(s, schema)
      BY <1>1, <2>5, <2>7, SameTableShape, SameEntries DEF CreateExisting, catalogVars
    <2> QED BY <1>3, <2>6, <2>7
  <1>4. ASSUME NEW change \in Alterations, Alter(s, change)
        PROVE  TableShape' /\ StatementShape' /\ (\A e : EntryOK(e) => EntryNext(e))
    <2>1. PICK r : r = [pc |-> "evolve", change |-> change, expected |-> table.version]
      OBVIOUS
    <2>2. session' = [session EXCEPT ![s] = r] /\ UNCHANGED <<log, ddls, table, lives>>
      BY <1>4, <2>1 DEF Alter, InSession, logVars, catalogVars
    <2>3. r.pc = "evolve" /\ r.change.kind \in {"add", "drop"}
      BY <2>1 DEF Alterations, AddColumn, DropColumn
    <2>4. StatementShape'
      BY <1>1, <1>2, <2>2, <2>3, MovedStatement
    <2> QED BY <1>1, <2>2, <2>4, SameTableShape, SameEntries
  <1>5. ASSUME Drop(s)
        PROVE  TableShape' /\ StatementShape' /\ (\A e : EntryOK(e) => EntryNext(e))
    <2>1. PICK r : r = [pc |-> "log", record |-> DropRecord, turn |-> ddls]
      OBVIOUS
    <2>2. session' = [session EXCEPT ![s] = r] /\ ddls' = ddls + 1 /\ UNCHANGED log
      BY <1>5, <2>1 DEF Drop, ToLog, InSession, logVars
    <2>3. r.pc = "log" /\ RecordShape(r.record) /\ r.turn = ddls
      BY <2>1 DEF RecordShape, DropRecord
    <2>4. StatementShape'
      BY <1>1, <1>2, <2>2, <2>3, MovedStatement
    <2> QED BY <1>1, <1>5, <2>4, DroppedShape DEF Drop
  <1>6. ASSUME AlterApply(s)
        PROVE  TableShape' /\ StatementShape' /\ (\A e : EntryOK(e) => EntryNext(e))
    <2> DEFINE change == session[s].change
    <2>1. /\ Exists /\ Applicable(table.schema, change) /\ EvolveSchema(change)
          /\ trouble' = trouble \cup (IF change.kind = "drop" THEN {"narrowed"} ELSE {})
          /\ change.kind \in {"add", "drop"}
      BY <1>1, <1>6 DEF AlterApply, Blame, Evolves, StatementShape
    <2>2. PICK r : r = [pc |-> "log", record |-> AlterRecord(Evolved(change).schema), turn |-> ddls]
      OBVIOUS
    <2>3. session' = [session EXCEPT ![s] = r] /\ ddls' = ddls + 1 /\ UNCHANGED log
      BY <1>6, <2>2 DEF AlterApply, ToLog, InSession, logVars
    <2>4. Proper(Evolved(change).schema)
      BY <1>1, <2>1, TableEvolves, ChangedIsProper
    <2>5. r.pc = "log" /\ RecordShape(r.record) /\ r.turn = ddls
      BY <2>2, <2>4 DEF RecordShape, AlterRecord
    <2>6. StatementShape'
      BY <1>1, <1>2, <2>3, <2>5, MovedStatement
    <2>7. Unharmed' => change.kind = "add"
      BY <2>1, HarmlessNext
    <2> QED BY <1>1, <2>1, <2>6, <2>7, TableEvolves, EvolvedEntries
  <1>7. ASSUME AlterRefused(s)
        PROVE  TableShape' /\ StatementShape' /\ (\A e : EntryOK(e) => EntryNext(e))
    <2>1. session' = [session EXCEPT ![s] = Idle] /\ UNCHANGED <<log, ddls, table, lives>>
      BY <1>7 DEF AlterRefused, InSession, logVars, catalogVars
    <2>2. StatementShape'
      BY <1>1, <1>2, <2>1, MovedStatement DEF Idle
    <2> QED BY <1>1, <2>1, <2>2, SameTableShape, SameEntries
  <1>8. ASSUME LogDdl(s)
        PROVE  TableShape' /\ StatementShape' /\ (\A e : EntryOK(e) => EntryNext(e))
    <2> DEFINE r == session[s].record
    <2>1. /\ session' = [session EXCEPT ![s] = Idle] /\ UNCHANGED <<ddls, table, lives>>
          /\ Log(r) /\ Pending(s)
      BY <1>8 DEF LogDdl, Log, bounds, catalogVars, Pending
    <2>2. RecordShape(r)
      BY <1>1, <2>1 DEF StatementShape
    <2>3. \A n \in 1..Len(log') : RecordShape(log'[n])
      BY <1>1, <1>2, <2>1, <2>2, LoggedShape
    <2>4. StatementShape'
      BY <1>1, <2>1, <2>3, MovedStatement DEF Idle
    <2> QED BY <1>1, <2>1, <2>4, SameTableShape, SameEntries
  <1> QED BY <1>3, <1>4, <1>5, <1>6, <1>7, <1>8 DEF SessionStep

LEMMA WriterShaped ==
  ASSUME Watched, NEW w \in Writers, WriterStep(w)
  PROVE  Shaped'
  <1>1. /\ Within /\ trouble \subseteq trouble'
        /\ TableShape /\ ServerShape /\ StatementShape /\ WriterShape
    BY DEF Watched, HInv, Shaped, DInv, Shapely, IInv
  <1>2. UNCHANGED <<session, server, ddls>> /\ Up
    BY DEF WriterStep, BeginWrite, Judge, Evolve, EvolveConflict, Update, LogWrite, InWrite,
           WriterAt, bounds
  <1>3. table # NoTable => EntryOK(table)
    BY <1>1, TableIsEntry
  <1>4. cache # NoTable => EntryOK(cache)
    BY <1>1 DEF WriterShape
  <1>5. Exists => table # NoTable
    BY DEF Exists, NoTable
  <1>6. ASSUME UNCHANGED <<log, table, lives>>, WriterShape'
        PROVE  Shaped'
    BY <1>1, <1>2, <1>6, SameTableShape, SameServer, SameStatements DEF Shaped
  <1>7. ASSUME UNCHANGED <<table, lives>>
        PROVE  \A e : EntryOK(e) => EntryNext(e)
    BY <1>1, <1>7, SameEntries
  <1>8. ASSUME NEW columns, BeginWrite(w, columns)
        PROVE  Shaped'
    <2>1. UNCHANGED <<log, table, lives, cache>>
      BY <1>8 DEF BeginWrite, catalogVars
    <2>2. PICK r : r = [pc |-> "judge", columns |-> columns]
      OBVIOUS
    <2>3. Now(w, r) /\ r.pc = "judge"
      BY <1>8, <2>2 DEF BeginWrite
    <2>4. WriterShape'
      BY <1>1, <1>2, <1>4, <1>7, <2>1, <2>3, MovedWriter
    <2> QED BY <1>6, <2>1, <2>4
  <1>9. ASSUME Judge(w)
        PROVE  Shaped'
    <2>1. UNCHANGED <<log, table, lives>> /\ cache' = Entry
      BY <1>9 DEF Judge, catalogVars
    <2>2. Entry # NoTable => EntryOK(Entry)
      BY <1>3, <1>4 DEF Entry
    <2>3. Entry # NoTable => EntryNext(Entry)
      BY <1>7, <2>1, <2>2
    <2>4. CASE Refuse(w)
      <3>1. PICK r : r = [pc |-> "refused"]
        OBVIOUS
      <3>2. Now(w, r) /\ r.pc = "refused"
        BY <2>4, <3>1 DEF Refuse
      <3>3. WriterShape'
        BY <1>1, <1>2, <1>7, <2>1, <2>3, <3>2, MovedWriter
      <3> QED BY <1>6, <2>1, <3>3
    <2>5. CASE Now(w, ToWrite(w, Entry)) /\ Entry # NoTable
      <3>1. PICK r : r = ToWrite(w, Entry)
        OBVIOUS
      <3>2. Now(w, r) /\ r.pc = "log" /\ r.entry = Entry
        BY <2>5, <3>1 DEF ToWrite
      <3>3. WriterShape'
        BY <1>1, <1>2, <1>7, <2>1, <2>3, <2>5, <3>2, MovedWriter
      <3> QED BY <1>6, <2>1, <3>3
    <2>6. ASSUME NEW c, Now(w, [pc |-> "evolve", columns |-> writer[w].columns,
                                change |-> ChangeFor(Entry.schema, writer[w].columns, c),
                                expected |-> Entry.version])
          PROVE  Shaped'
      <3>1. PICK r : r = [pc |-> "evolve", columns |-> writer[w].columns,
                          change |-> ChangeFor(Entry.schema, writer[w].columns, c),
                          expected |-> Entry.version]
        OBVIOUS
      <3>2. Now(w, r) /\ r.pc = "evolve"
            /\ r.change = ChangeFor(Entry.schema, writer[w].columns, c)
        BY <2>6, <3>1
      <3>3. r.change.kind \in {"add", "widen"}
        BY <3>2, KindOfChange
      <3>4. WriterShape'
        BY <1>1, <1>2, <1>7, <2>1, <2>3, <3>2, <3>3, MovedWriter
      <3> QED BY <1>6, <2>1, <3>4
    <2> QED BY <1>9, <2>4, <2>5, <2>6 DEF Judge
  <1>10. ASSUME Evolve(w)
         PROVE  Shaped'
    <2> DEFINE change == writer[w].change
    <2>1. /\ UNCHANGED <<log, cache>> /\ EvolveSchema(change)
          /\ Exists /\ Applicable(table.schema, change) /\ change.kind \in {"add", "widen"}
      BY <1>1, <1>10 DEF Evolve, Evolves, WriterAt, WriterShape
    <2>2. TableShape' /\ Evolved(change) = table' /\ Exists'
      BY <1>1, <2>1, TableEvolves
    <2>3. \A e : EntryOK(e) => EntryNext(e)
      BY <1>1, <2>1, EvolvedEntries
    <2>4. EntryNext(table')
      <3>1. table'.life \in 1..lives'
        BY <2>2 DEF TableShape, Exists, NoTable
      <3> QED BY <3>1, ReadsItself DEF EntryNext
    <2>5. PICK r : r = [pc |-> "update", columns |-> writer[w].columns,
                        entry |-> Evolved(change), next |-> "log"]
      OBVIOUS
    <2>6. Now(w, r) /\ r.pc = "update" /\ r.entry = table'
      BY <1>10, <2>2, <2>5 DEF Evolve, Back
    <2>7. WriterShape'
      BY <1>1, <1>2, <1>4, <2>1, <2>3, <2>4, <2>6, MovedWriter
    <2> QED BY <1>1, <1>2, <2>1, <2>2, <2>7, SameServer, SameStatements DEF Shaped
  <1>11. ASSUME EvolveConflict(w)
         PROVE  Shaped'
    <2>1. UNCHANGED <<log, table, lives, cache>>
      BY <1>11 DEF EvolveConflict, catalogVars
    <2>2. CASE Refuse(w)
      <3>1. PICK r : r = [pc |-> "refused"]
        OBVIOUS
      <3>2. Now(w, r) /\ r.pc = "refused"
        BY <2>2, <3>1 DEF Refuse
      <3>3. WriterShape'
        BY <1>1, <1>2, <1>4, <1>7, <2>1, <3>2, MovedWriter
      <3> QED BY <1>6, <2>1, <3>3
    <2>3. CASE Back(w, table, "judge") /\ Exists
      <3>1. PICK r : r = [pc |-> "update", columns |-> writer[w].columns,
                          entry |-> table, next |-> "judge"]
        OBVIOUS
      <3>2. Now(w, r) /\ r.pc = "update" /\ r.entry = table
        BY <2>3, <3>1 DEF Back
      <3>3. WriterShape'
        BY <1>1, <1>2, <1>3, <1>4, <1>5, <1>7, <2>1, <2>3, <3>2, MovedWriter
      <3> QED BY <1>6, <2>1, <3>3
    <2> QED BY <1>11, <2>2, <2>3 DEF EvolveConflict
  <1>12. ASSUME Update(w)
         PROVE  Shaped'
    <2>1. UNCHANGED <<log, table, lives>> /\ cache' = writer[w].entry /\ writer[w].pc = "update"
      BY <1>12 DEF Update, catalogVars, WriterAt
    <2>2. EntryNext(writer[w].entry)
      BY <1>1, <1>7, <2>1 DEF WriterShape
    <2>3. PICK r : r = IF writer[w].next = "log" THEN ToWrite(w, writer[w].entry)
                       ELSE [pc |-> "judge", columns |-> writer[w].columns]
      OBVIOUS
    <2>4. Now(w, r) /\ (r.pc = "judge" \/ (r.pc = "log" /\ r.entry = writer[w].entry))
      BY <1>12, <2>3 DEF Update, ToWrite
    <2>5. WriterShape'
      BY <1>1, <1>2, <1>7, <2>1, <2>2, <2>4, MovedWriter
    <2> QED BY <1>6, <2>1, <2>5
  <1>13. ASSUME LogWrite(w)
         PROVE  Shaped'
    <2>1. UNCHANGED <<table, lives, cache>>
      BY <1>13 DEF LogWrite, catalogVars
    <2>2. PICK r : r = DataRecord(writer[w].columns, writer[w].entry.version)
      OBVIOUS
    <2>3. Log(r) /\ RecordShape(r)
      BY <1>13, <2>2 DEF LogWrite, Log, RecordShape, DataRecord
    <2>4. PICK q : q = [pc |-> "done"]
      OBVIOUS
    <2>5. Now(w, q) /\ q.pc = "done"
      BY <1>13, <2>4 DEF LogWrite
    <2>6. WriterShape'
      BY <1>1, <1>2, <1>4, <1>7, <2>1, <2>5, MovedWriter
    <2>7. \A n \in 1..Len(log') : RecordShape(log'[n])
      BY <1>1, <2>3, LoggedShape DEF StatementShape
    <2>8. StatementShape'
      BY <1>1, <1>2, <2>7 DEF StatementShape, Pending, RecordShape, Proper
    <2> QED BY <1>1, <1>2, <2>1, <2>3, <2>6, <2>8, SameTableShape, SameServer DEF Shaped
  <1> QED BY <1>8, <1>9, <1>10, <1>11, <1>12, <1>13 DEF WriterStep

LEMMA StoreShaped ==
  ASSUME Watched, UNCHANGED <<table, lives, log, session, writer, cache, server, ddls>>
  PROVE  Shaped'
  <1>1. /\ Within /\ trouble \subseteq trouble'
        /\ TableShape /\ ServerShape /\ StatementShape /\ WriterShape
    BY DEF Watched, HInv, Shaped, DInv, IInv
  <1>2. \A e : EntryOK(e) => EntryNext(e)
    BY <1>1, SameEntries
  <1> QED BY <1>1, <1>2, SameTableShape, SameServer, SameStatements, SameWriters DEF Shaped

LEMMA CrashShaped ==
  ASSUME Watched, Crash
  PROVE  Shaped'
  <1>1. /\ Within /\ TableShape /\ ServerShape /\ StatementShape /\ WriterShape
    BY DEF Watched, HInv, Shaped, DInv, IInv
  <1>2. /\ UNCHANGED <<lives, log, ddls>> /\ (table' = table \/ table' = NoTable)
        /\ server' = [phase |-> "ddl", at |-> 0] /\ cache' = NoTable
        /\ session' = [s \in Sessions |-> Idle]
        /\ writer' = [w \in Writers |->
               IF writer[w].pc \in {"idle", "done"} THEN writer[w] ELSE [pc |-> "refused"]]
    BY DEF Crash, logVars
  <1>3. TableShape'
    BY <1>1, <1>2 DEF TableShape
  <1>4. ServerShape'
    <2>1. 0 \in 0..Len(log')
      BY <1>1, <1>2, LogLength
    <2> QED BY <1>2, <2>1 DEF ServerShape, Phases
  <1>5. StatementShape'
    <2>1. \A s \in Sessions : session'[s].pc = "idle"
      BY <1>2 DEF Idle
    <2> QED BY <1>1, <1>2, <2>1 DEF StatementShape, Pending, RecordShape, Proper
  <1>6. WriterShape'
    <2>1. PICK S : writer \in [Writers -> S]
      BY <1>1 DEF WriterShape
    <2>2. PICK r : r = [pc |-> "refused"]
      OBVIOUS
    <2>3. writer' \in [Writers -> S \cup {r}]
      BY <1>2, <2>1, <2>2
    <2>4. \A w \in Writers : writer'[w].pc \in {"idle", "done", "refused"}
      BY <1>2
    <2>5. \A w \in Writers : writer'[w].pc \notin {"evolve", "log", "update"}
      BY <2>4
    <2> QED BY <1>2, <2>3, <2>5 DEF WriterShape
  <1> QED BY <1>3, <1>4, <1>5, <1>6 DEF Shaped

LEMMA RestartShaped ==
  ASSUME Watched, RestartStep
  PROVE  Shaped'
  <1>1. /\ Within /\ TableShape /\ ServerShape /\ StatementShape /\ WriterShape
    BY DEF Watched, HInv, Shaped, DInv, IInv
  <1>2. UNCHANGED <<log, session, writer, cache, ddls>> /\ ~Up
    <2>1. CASE Resume
      BY <2>1, Zenon DEF Resume, bounds, Up
    <2>2. CASE ReplayCreateOrDrop \/ ConvergeStep \/ ReplayFails \/ ReplayEnds
      BY <2>2 DEF ReplayCreateOrDrop, ConvergeStep, ReplayFails, ReplayEnds, Replaying, Replays,
                  logVars, bounds, Up
    <2> QED BY <2>1, <2>2 DEF RestartStep
  <1>3. StatementShape'
    BY <1>1, <1>2, SameStatements
  <1>4. WriterShape'
    <2>1. cache' = NoTable /\ \A w \in Writers : writer'[w].pc \notin {"log", "update"}
      BY <1>1, <1>2 DEF WriterShape
    <2> QED BY <1>1, <1>2, <2>1 DEF WriterShape
  <1>5. PICK p, a : server = [phase |-> p, at |-> a] /\ p \in Phases /\ a \in 0..Len(log)
    BY <1>1 DEF ServerShape
  <1>6. Len(log) \in Nat
    BY <1>1, LogLength
  <1>7. ServerShape'
    <2>1. \E q \in Phases, b \in 0..Len(log) : server' = [phase |-> q, at |-> b]
      <3>1. CASE Resume
        <4>1. server' = [phase |-> "up", at |-> 0]
          BY <3>1, Zenon DEF Resume
        <4> QED BY <1>6, <4>1 DEF Phases
      <3>2. CASE ReplayFails
        <4>1. server' = [phase |-> "refused", at |-> a]
          BY <1>5, <3>2 DEF ReplayFails
        <4> QED BY <1>5, <4>1 DEF Phases
      <3>3. CASE ReplayEnds
        <4>1. server' = [phase |-> "batches", at |-> a]
          BY <1>5, <3>3 DEF ReplayEnds
        <4> QED BY <1>5, <4>1 DEF Phases
      <3>4. CASE ReplayCreateOrDrop \/ ConvergeStep
        <4>1. a < Len(log)
          BY <1>5, <3>4 DEF ReplayCreateOrDrop, ConvergeStep, Replaying
        <4>2. server' = server \/ server' = [phase |-> p, at |-> a + 1]
          BY <1>5, <3>4 DEF ReplayCreateOrDrop, ConvergeStep, Onward
        <4>3. a + 1 \in 0..Len(log)
          BY <1>5, <1>6, <4>1
        <4> QED BY <1>5, <4>2, <4>3
      <3> QED BY <3>1, <3>2, <3>3, <3>4 DEF RestartStep
    <2> QED BY <1>2, <2>1 DEF ServerShape, Phases
  <1>8. TableShape'
    <2>1. CASE Resume
      <3>1. UNCHANGED <<table, lives>>
        BY <2>1, Zenon DEF Resume
      <3> QED BY <1>1, <3>1, SameTableShape
    <2>2. CASE ReplayFails \/ ReplayEnds
      BY <1>1, <2>2, SameTableShape DEF ReplayFails, ReplayEnds, catalogVars
    <2>3. CASE ReplayCreateOrDrop
      <3>1. CASE NextRecord.op = "create" /\ ~Exists
        <4>1. server.at + 1 \in 1..Len(log)
          BY <1>5, <1>6, <2>3 DEF ReplayCreateOrDrop, Replaying
        <4>2. Proper(NextRecord.schema)
          BY <1>1, <3>1, <4>1 DEF StatementShape, RecordShape, NextRecord
        <4> QED BY <1>1, <2>3, <3>1, <4>2, CreatedShape DEF ReplayCreateOrDrop
      <3>2. CASE NextRecord.op = "drop" /\ Exists
        BY <1>1, <2>3, <3>2, DroppedShape DEF ReplayCreateOrDrop
      <3>3. CASE UNCHANGED catalogVars
        BY <1>1, <3>3, SameTableShape DEF catalogVars
      <3> QED BY <2>3, <3>1, <3>2, <3>3 DEF ReplayCreateOrDrop
    <2>4. CASE ConvergeStep
      <3>1. CASE UNCHANGED catalogVars
        BY <1>1, <3>1, SameTableShape DEF catalogVars
      <3>2. CASE Exists /\ \E change : EvolveSchema(change)
        <4>1. PICK change : EvolveSchema(change)
          BY <3>2
        <4> QED BY <1>1, <3>2, <4>1, TableEvolves
      <3> QED BY <2>4, <3>1, <3>2 DEF ConvergeStep
    <2> QED BY <2>1, <2>2, <2>3, <2>4 DEF RestartStep
  <1> QED BY <1>3, <1>4, <1>7, <1>8 DEF Shaped

-----------------------------------------------------------------------------
(* All steps together. *)

LEMMA SessionTold ==
  ASSUME Watched, NEW s \in Sessions, SessionStep(s)
  PROVE  Orderly' => (\E A, C, k : Told(A, C, k))'
  <1>1. SessionsOK /\ TableShape
    BY DEF Watched, HInv, Shaped, DInv, Shapely
  <1>2. ASSUME NEW schema, Create(s, schema) \/ CreateExisting(s, schema)
        PROVE  Orderly' => (\E A, C, k : Told(A, C, k))'
    <2>1. PICK r : r = CreateRecord(schema)
      OBVIOUS
    <2>2. /\ session' = [session EXCEPT ![s] = [pc |-> "log", record |-> r, turn |-> ddls]]
          /\ ddls' = ddls + 1 /\ UNCHANGED <<log, server, before>> /\ Up /\ ~Pending(s)
      BY <1>2, <2>1 DEF Create, CreateExisting, ToLog, Ready, InSession, logVars, Pending
    <2>3. r.op = "create" /\ r.schema = schema
      BY <2>1 DEF CreateRecord
    <2>4. Present' = Effect(r, Present)
      <3>1. CASE Create(s, schema)
        BY <2>3, <3>1, TableComes DEF Create, Effect, Present
      <3>2. CASE CreateExisting(s, schema)
        BY <2>3, <3>2 DEF CreateExisting, Effect, Present, catalogVars, Exists
      <3> QED BY <1>2, <3>1, <3>2
    <2> QED BY <2>2, <2>3, <2>4, StatementTold
  <1>3. ASSUME Drop(s)
        PROVE  Orderly' => (\E A, C, k : Told(A, C, k))'
    <2>1. PICK r : r = DropRecord
      OBVIOUS
    <2>2. /\ session' = [session EXCEPT ![s] = [pc |-> "log", record |-> r, turn |-> ddls]]
          /\ ddls' = ddls + 1 /\ UNCHANGED <<log, server, before>> /\ Up /\ ~Pending(s)
      BY <1>3, <2>1 DEF Drop, ToLog, Ready, InSession, logVars, Pending
    <2>3. r.op = "drop"
      BY <2>1 DEF DropRecord
    <2>4. Present' = Effect(r, Present)
      BY <1>3, <2>3, TableGoes DEF Drop, DropTable, Effect
    <2> QED BY <2>2, <2>3, <2>4, StatementTold
  <1>4. ASSUME AlterApply(s)
        PROVE  Orderly' => (\E A, C, k : Told(A, C, k))'
    <2> DEFINE change == session[s].change
    <2>1. PICK r : r = AlterRecord(Evolved(change).schema)
      OBVIOUS
    <2>2. /\ session' = [session EXCEPT ![s] = [pc |-> "log", record |-> r, turn |-> ddls]]
          /\ ddls' = ddls + 1 /\ UNCHANGED <<log, server, before>> /\ Up /\ ~Pending(s)
          /\ Exists /\ EvolveSchema(change)
      BY <1>4, <2>1 DEF AlterApply, ToLog, InSession, logVars, Pending, Evolves
    <2>3. r.op = "alter" /\ r.schema = Evolved(change).schema
      BY <2>1 DEF AlterRecord
    <2>4. Present' = Effect(r, Present)
      BY <1>1, <2>2, <2>3, TableEvolves DEF Effect
    <2> QED BY <2>2, <2>3, <2>4, StatementTold
  <1>5. ASSUME NEW r, session' = [session EXCEPT ![s] = r], r.pc # "log", ~Pending(s),
               UNCHANGED <<log, ddls, server, before, table>>
        PROVE  Orderly' => (\E A, C, k : Told(A, C, k))'
    <2>1. \A z \in Sessions : /\ Pending(z)' <=> Pending(z)
                              /\ Pending(z) => session'[z] = session[z]
      BY <1>1, <1>5, MovedSession
    <2>2. Present' = Present
      BY <1>5 DEF Present, Exists
    <2> QED BY <1>5, <2>1, <2>2, HeldAside
  <1>6. ASSUME NEW change, Alter(s, change)
        PROVE  Orderly' => (\E A, C, k : Told(A, C, k))'
    <2>1. PICK r : r = [pc |-> "evolve", change |-> change, expected |-> table.version]
      OBVIOUS
    <2>2. /\ session' = [session EXCEPT ![s] = r] /\ ~Pending(s)
          /\ UNCHANGED <<log, ddls, server, before, table>>
      BY <1>6, <2>1 DEF Alter, Ready, Pending, InSession, logVars, catalogVars
    <2>3. r.pc # "log"
      BY <2>1
    <2> QED BY <1>5, <2>2, <2>3
  <1>7. ASSUME AlterRefused(s)
        PROVE  Orderly' => (\E A, C, k : Told(A, C, k))'
    <2>1. PICK r : r = Idle
      OBVIOUS
    <2>2. /\ session' = [session EXCEPT ![s] = r] /\ ~Pending(s)
          /\ UNCHANGED <<log, ddls, server, before, table>>
      BY <1>7, <2>1 DEF AlterRefused, Pending, InSession, logVars, catalogVars
    <2>3. r.pc # "log"
      BY <2>1 DEF Idle
    <2> QED BY <1>5, <2>2, <2>3
  <1> QED BY <1>2, <1>3, <1>4, <1>6, <1>7, LogDdlTold DEF SessionStep

LEMMA OtherTold ==
  ASSUME Watched, UNCHANGED <<session, log, ddls, server, before, table>>
  PROVE  Orderly' => (\E A, C, k : Told(A, C, k))'
  <1>1. Present' = Present
    BY DEF Present, Exists
  <1>2. \A z \in Sessions : /\ Pending(z)' <=> Pending(z)
                            /\ Pending(z) => session'[z] = session[z]
    BY DEF Pending
  <1> QED BY <1>1, <1>2, HeldAside

LEMMA WriterTold ==
  ASSUME Watched, NEW w \in Writers, WriterStep(w)
  PROVE  Orderly' => (\E A, C, k : Told(A, C, k))'
  <1>1. ASSUME \/ \E columns \in Shapes : BeginWrite(w, columns)
               \/ Judge(w) \/ EvolveConflict(w) \/ Update(w)
        PROVE  Orderly' => (\E A, C, k : Told(A, C, k))'
    <2>1. UNCHANGED <<session, log, ddls, server, before, table>>
      BY <1>1 DEF BeginWrite, Judge, EvolveConflict, Update, InWrite, catalogVars, bounds
    <2> QED BY <2>1, OtherTold
  <1>2. ASSUME Evolve(w)
        PROVE  ~Orderly'
    BY <1>2 DEF Evolve, Blame, Orderly
  <1> QED BY <1>1, <1>2, LogWriteTold DEF WriterStep

\* What holds at the beginning.
LEMMA InitTold == Init => HInv
  <1> SUFFICES ASSUME Init
               PROVE  HInv
    OBVIOUS
  <1>1. DInv
    BY InitClean
  <1>2. /\ table = NoTable /\ lives = 0 /\ ddls = 0 /\ log = << >> /\ cache = NoTable
        /\ server = [phase |-> "up", at |-> 0] /\ trouble = {}
        /\ session = [s \in Sessions |-> Idle]
        /\ writer = [w \in Writers |-> Idle]
    BY DEF Init
  <1>3. Len(log) = 0 /\ Up /\ ~Exists
    BY <1>2 DEF Up, Exists, NoTable
  <1>4. /\ \A s \in Sessions : session[s].pc = "idle"
        /\ \A w \in Writers : writer[w].pc = "idle"
    BY <1>2 DEF Idle
  <1>5. TableShape
    BY <1>2 DEF TableShape
  <1>6. ServerShape
    <2>1. 0 \in 0..Len(log) /\ "up" \in Phases
      BY <1>3 DEF Phases
    <2> QED BY <1>2, <2>1, Zenon DEF ServerShape
  <1>7. StatementShape
    BY <1>2, <1>3, <1>4 DEF StatementShape, Pending
  <1>8. WriterShape
    <2>1. writer \in [Writers -> {Idle}]
      BY <1>2
    <2> QED BY <1>2, <1>4, <2>1 DEF WriterShape
  <1>9. Rows = {}
    BY <1>2 DEF Rows
  <1>10. FoundNow
    BY <1>9 DEF FoundNow, Found
  <1>11. Present = Gone
    BY <1>3, <1>5, NotThere
  <1>12. PICK A : A = [n \in Nat |-> Gone]
    OBVIOUS
  <1>13. A[0] = Gone
    BY <1>12
  <1>14. LogTold(A)
    BY <1>3, <1>13 DEF LogTold
  <1>15. TurnsTold(A, A, 0)
    BY <1>2, <1>3, <1>4, <1>13 DEF TurnsTold, Pending
  <1>16. PhaseTold(A, A, 0)
    BY <1>2, <1>3, <1>11, <1>13 DEF PhaseTold
  <1>17. \E B, C, k : Told(B, C, k)
    BY <1>14, <1>15, <1>16 DEF Told
  <1> QED BY <1>1, <1>5, <1>6, <1>7, <1>8, <1>10, <1>17 DEF HInv, Shaped

\* And every step keeps it.
LEMMA NextTold == HInv /\ [Next]_vars => HInv'
  <1> SUFFICES ASSUME HInv, [Next]_vars
               PROVE  HInv'
    OBVIOUS
  <1>1. DInv'
    BY NextClean DEF HInv
  <1>2. Watched
    <2>1. CASE Next
      BY <1>1, <2>1, TroubleStays DEF Watched
    <2>2. CASE UNCHANGED vars
      BY <1>1, <2>2 DEF Watched, vars
    <2> QED BY <2>1, <2>2
  <1>3. ASSUME UNCHANGED <<table, lives, log, session, writer, cache, server, ddls, before>>,
               "evolved" \in trouble' => "evolved" \in trouble
        PROVE  HInv'
    BY <1>1, <1>2, <1>3, StoreShaped, StoreFound, OtherTold DEF HInv
  <1>4. CASE UNCHANGED vars
    BY <1>3, <1>4 DEF vars, catalogVars, bounds, logVars
  <1>5. ASSUME NEW s \in Sessions, SessionStep(s)
        PROVE  HInv'
    BY <1>1, <1>2, <1>5, SessionShaped, SessionFound, SessionTold DEF HInv
  <1>6. ASSUME NEW w \in Writers, WriterStep(w)
        PROVE  HInv'
    BY <1>1, <1>2, <1>6, WriterShaped, WriterFound, WriterTold DEF HInv
  <1>7. CASE StoreStep
    <2>1. UNCHANGED <<table, lives, log, session, writer, cache, server, ddls, before>>
      BY <1>7 DEF StoreStep, Scan, Absorb, Discard, BeginFlush, EndFlush, Accumulates, bounds
    <2>2. "evolved" \in trouble' => "evolved" \in trouble
      <3>1. CASE Absorb
        <4>1. trouble' \in {trouble, trouble \cup {"turned away"}}
          BY <3>1, Zenon DEF Absorb, AbsorbData, Observe
        <4>2. "evolved" # "turned away"
          BY Zenon
        <4> QED BY <4>1, <4>2, Zenon
      <3>2. CASE EndFlush
        BY <3>2 DEF EndFlush, Blame
      <3>3. CASE Scan
        BY <3>3 DEF Scan
      <3>4. ASSUME NEW k, Discard(k) \/ BeginFlush(k)
            PROVE  UNCHANGED trouble
        BY <3>4 DEF Discard, BeginFlush
      <3> QED BY <1>7, <3>1, <3>2, <3>3, <3>4, Zenon DEF StoreStep
    <2> QED BY <1>3, <2>1, <2>2
  <1>8. CASE Crash
    BY <1>1, <1>2, <1>8, CrashShaped, CrashFound, CrashTold DEF HInv
  <1>9. CASE RestartStep
    <2>1. FoundNow'
      BY <1>2, <1>9, ReplayFound, ReplayOverFound DEF RestartStep
    <2>2. Orderly' => (\E A, C, k : Told(A, C, k))'
      BY <1>2, <1>9, ReplayCreateOrDropTold, ConvergeTold, ReplayOverTold DEF RestartStep
    <2> QED BY <1>1, <1>2, <1>9, <2>1, <2>2, RestartShaped DEF HInv
  <1> QED BY <1>4, <1>5, <1>6, <1>7, <1>8, <1>9 DEF Next

\* What a query finds of a row of the present table, it finds whole: every column
\* with a value the table's type can hold (schema.rs:5), in files, chunks and after
\* a replay (ddl.rs:9), as long as none of the accidents has happened: no column
\* dropped, no statement lost or logged out of its order, no write half evolved or
\* judged by a table that has been dropped.
THEOREM FoundRowsAreWhole == Spec => []FoundWhole
  <1>1. HInv => FoundWhole
    <2> SUFFICES ASSUME HInv, Up, Exists, Unharmed, NEW p \in Rows, InEra(p)
                 PROVE  ReadWhole(table.schema, log[p].columns)
      BY Zenon DEF FoundWhole
    <2>1. Quiet(p) /\ Alive
      BY DEF InEra, Quiet, Alive, Dropping
    <2>2. Found(Present)
      BY <2>1 DEF HInv, FoundNow, Up
    <2> QED BY <2>1, <2>2 DEF Found, Present
  <1> QED BY <1>1, InitTold, NextTold, PTL DEF Spec

LEMMA NoneOfThree ==
  ASSUME "evolved" \notin trouble, "disordered" \notin trouble, "unlogged" \notin trouble
  PROVE  Orderly
  BY DEF Orderly

LEMMA OrderlyEnough == trouble \subseteq {"narrowed", "turned away"} => Orderly
  <1>1. trouble \subseteq {"narrowed", "turned away"} =>
            /\ "evolved" \notin trouble /\ "disordered" \notin trouble
            /\ "unlogged" \notin trouble
    BY Zenon
  <1> QED BY <1>1, NoneOfThree, Zenon

\* A replay brings back the schema the table had when the process went down
\* (ddl.rs:9), whatever the catalog had kept: unless a write has changed it, or a
\* statement was lost or logged out of its order.
THEOREM ReplayRebuildsTheTable == Spec => ReplayRebuilds
  <1>1. ASSUME HInv, [Next]_vars, server.phase = "ddl", server'.phase = "batches", Orderly
        PROVE  table.schema = before
    <2>1. PICK A, C, k : Told(A, C, k)
      BY <1>1 DEF HInv
    <2>2. server.at = Len(log) /\ Within /\ ServerShape
      <3>1. CASE UNCHANGED vars
        BY <1>1, <3>1 DEF vars
      <3>2. CASE Next
        <4>1. ~ \E s \in Sessions : SessionStep(s)
          BY <1>1 DEF SessionStep, Create, CreateExisting, Alter, Drop, AlterApply, AlterRefused,
                      LogDdl, Ready, Up
        <4>2. ~ \E w \in Writers : WriterStep(w)
          BY <1>1 DEF WriterStep, BeginWrite, Judge, Evolve, EvolveConflict, Update, LogWrite,
                      WriterAt, Up
        <4>3. ~StoreStep
          BY <1>1 DEF StoreStep, Scan, Absorb, Discard, BeginFlush, EndFlush, Up
        <4>4. ~Crash
          BY <1>1 DEF Crash
        <4>5. ~Resume
          BY <1>1, Zenon DEF Resume
        <4>6. ServerShape
          BY <1>1 DEF HInv, Shaped
        <4>7. ~ReplayCreateOrDrop /\ ~ConvergeStep /\ ~ReplayFails
          BY <1>1, <4>6 DEF ReplayCreateOrDrop, ConvergeStep, ReplayFails, Onward, ServerShape
        <4>8. ReplayEnds
          BY <3>2, <4>1, <4>2, <4>3, <4>4, <4>5, <4>7 DEF Next, RestartStep
        <4> QED BY <1>1, <4>6, <4>8 DEF ReplayEnds, HInv, DInv, IInv
      <3> QED BY <1>1, <3>1, <3>2
    <2>3. Plain(Len(log) + 1, Len(log))
      BY <2>2, LogLength DEF Plain, Ops
    <2>4. Present = A[Len(log)] /\ A[Len(log)].schema = before
      BY <1>1, <2>1, <2>2, <2>3 DEF Told, PhaseTold, Carried, Up
    <2> QED BY <2>4 DEF Present
  <1>2. HInv /\ [Next]_vars =>
            (server.phase = "ddl" /\ server'.phase = "batches"
                 /\ trouble \subseteq {"narrowed", "turned away"} => table.schema = before)
    BY <1>1, OrderlyEnough, Zenon
  <1> QED BY <1>2, InitTold, NextTold, PTL DEF Spec, ReplayRebuilds
=============================================================================
