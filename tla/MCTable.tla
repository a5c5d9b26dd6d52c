------------------------------ MODULE MCTable ------------------------------
(* Statements alone, with a restart; two that may outlive their lease; merges
   alone; and statements and merges racing, with a compactor that crashes: what
   each of them does to the table the readers see, for TLC. *)
EXTENDS MCMaintenance

VARIABLES
    mix,
    term,         \* statement -> when the lease it was granted runs out
    overtaken     \* whether the catalog took an UPDATE that another was let past

\* Who acts in a mix, on which rows, and how often.
Mixes ==
    [statements |-> [compactors |-> {}, dvs |-> DvIds, begun |-> 3, batches |-> 4,
                     rows |-> {r1, r2}, clock |-> 0, rounds |-> 0, restarts |-> 1, crashes |-> 0],
     overlaps   |-> [compactors |-> {}, dvs |-> {d2, d3}, begun |-> 2, batches |-> 4,
                     rows |-> {r1, r2}, clock |-> 1, rounds |-> 0, restarts |-> 1, crashes |-> 0],
     merges     |-> [compactors |-> Compactors, dvs |-> {}, begun |-> 0, batches |-> 6,
                     rows |-> RowKeys, clock |-> 1, rounds |-> 6, restarts |-> 0, crashes |-> 0],
     races      |-> [compactors |-> Compactors, dvs |-> {d1, d2}, begun |-> 1, batches |-> 4,
                     rows |-> {r1, r2}, clock |-> 1, rounds |-> 2, restarts |-> 0, crashes |-> 1]]

Within(m) ==
    /\ \A c \in Compactors : worker'[c] # Idle => c \in m.compactors
    /\ \A d \in DvIds : stmt'[d] # Idle => d \in m.dvs /\ stmt'[d].row \in m.rows
    /\ Cardinality({d \in DvIds : stmt'[d] # Idle}) <= m.begun
    /\ Cardinality(DOMAIN content') <= m.batches
    /\ \A b \in DOMAIN content' : content'[b] \subseteq m.rows \X Nat
    /\ leases'[TaskLease].epoch <= m.rounds
    /\ clock' <= m.clock
    /\ restarts' <= m.restarts
    /\ crashes' <= m.crashes

Granted(d) == stmt[d].pc = "lock" /\ stmt'[d].pc = "locate"
Taken(d) == \E k \in DOMAIN deletions' \ DOMAIN deletions : k[1] = d

\* Its term is over, and the lease has gone to somebody else since.
Overtaken(d) == term[d] <= clock /\ leases[ShardLease].epoch # stmt[d].epoch

InMix ==
    /\ Within(Mixes[mix])
    /\ term' = [d \in DvIds |-> IF Granted(d) THEN clock + DmlTTL ELSE term[d]]
    /\ overtaken' = (overtaken \/ \E d \in Updates : Taken(d) /\ Overtaken(d))
    /\ UNCHANGED mix

MCInit == Init /\ mix \in DOMAIN Mixes /\ term = [d \in DvIds |-> 0] /\ overtaken = FALSE

MCNext ==
    \/ \E R \in SUBSET RowKeys : Flush(R) /\ InMix
    \/ \E d \in DvIds : StatementStep(d) /\ InMix
    \/ Restart /\ InMix
    \/ Replay /\ InMix
    \/ Serve /\ InMix
    \/ \E c \in Compactors : (CompactorStep(c) \/ CompactorCrash(c)) /\ InMix
    \/ Tick /\ InMix

\* Of Maintenance's fairness, what the merges alone need.
MCFairness == \A c \in Compactors : WF_vars(mix = "merges" /\ CompactorStep(c) /\ InMix)

\* Where compactors run, the shard is merged whenever it is worth it
\* (compaction/src/lib.rs:844): no task stays.
DueShardsGetMerged == mix = "merges" => TasksGetDone

\* Where statements and merges do not race and no statement outlives its lease, what the
\* readers see is the table of RowTable: inserts and statements each happen at one instant
\* (ingest/src/dml.rs:17), and a merge changes nothing (compaction/src/lib.rs:10).
TableApart ==
    /\ Table!Init
    /\ [][mix = "races" \/ mix = "overlaps" \/ Table!Next]_<<VisibleRows, [d \in DvIds |-> RequestOf(d)]>>

\* No row is read twice, whatever restarts, merges and expired terms do, until
\* an UPDATE reaches the catalog after another holder was let past it: the
\* shard's lease keeps the two apart up to its last tick (sql/src/dml.rs:580).
RowOnceUntilOvertaken == overtaken \/ NoRowTwice

allVars == <<vars, mix, term, overtaken>>
MCSpec == MCInit /\ [][MCNext]_allVars /\ MCFairness
=============================================================================
