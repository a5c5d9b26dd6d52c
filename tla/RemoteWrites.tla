---------------------------- MODULE RemoteWrites ----------------------------
(***************************************************************************)
(* A write through the client of RemoteCatalog (remote_catalog.rs, propose *)
(* and what its callers make of the answer).  The proposal goes from one   *)
(* metanode to the next while they answer Unavailable or Unknown; but a    *)
(* metanode says Unavailable, too, when it has waited ten seconds for a    *)
(* proposal that may still be applied.  After the answer the client        *)
(* refreshes its cache as best it can, and tells some results from it.     *)
(***************************************************************************)
EXTENDS RemoteCatalog

CONSTANT MetaNodes      \* how many addresses the client has

ASSUME WritesAssumption == MetaNodes \in Nat \ {0}

VARIABLE write          \* the write, its proposals, and how often it took effect

writeVars == <<vars, write>>

NoWrite == [at |-> "idle"]

\* What a client asks for, by what its cache shows.
CachedFiles == {b \in DOMAIN cache.files : VisibleAt(cache.files[b], cache.snapshot)}
SameShard(O) == \A a, b \in O : ShardOf(cache.files[a]) = ShardOf(cache.files[b])
Unused == {b \in Batches : NeverSeen(b)}
UnusedDvs == DvIds \ {k[1] : k \in DOMAIN deletions}

Structural ==
    [kind : {"create"}, table : Tables \ DOMAIN cache.tables, new : {NoBatch}]
    \cup [kind : {"drop"}, table : DOMAIN cache.tables, new : {NoBatch}]
    \cup UNION {[kind : {"evolve"}, table : {t}, new : {NoBatch}, expected : {cache.tables[t]}] :
                    t \in DOMAIN cache.tables}

Commits == [kind : {"commit"}, table : DOMAIN cache.tables, shard : Shards, new : Unused]

OverFiles ==
    UNION {[kind : {"delete"}, table : {cache.files[b].table}, new : {NoBatch}, dv : UnusedDvs,
            file : {b}] :
               b \in CachedFiles}
    \cup UNION {[kind : {"merge"}, table : {cache.files[b].table}, shard : {cache.files[b].shard},
                 new : Unused, inputs : {O \in SUBSET CachedFiles : b \in O /\ SameShard(O)}] :
               b \in CachedFiles}

-----------------------------------------------------------------------------
(* The machine applies the proposal (op::apply). *)

Effect(op) ==
    \/ op.kind = "create" /\ CreateTable(op.table)
    \/ op.kind = "drop" /\ DropTable(op.table)
    \/ op.kind = "evolve" /\ EvolveSchema(op.table, op.expected)
    \/ op.kind = "commit" /\ CommitFiles(op.new, op.table, op.shard, 1, {}, 0)
    \/ op.kind = "delete" /\ ApplyDeletions(op.dv, op.table, Entry(op.file, 1))
    \/ /\ op.kind = "merge"
       /\ CommitCompaction(op.inputs, op.new, op.table, op.shard,
                           Cardinality(op.inputs), 0, "compaction")

Possible(op) ==
    \/ op.kind = "create" /\ op.table \notin DOMAIN tables
    \/ op.kind = "drop" /\ op.table \in DOMAIN tables
    \/ /\ op.kind = "evolve" /\ op.table \in DOMAIN tables
       /\ tables[op.table] = op.expected
    \/ op.kind = "commit" /\ CommitAccepted(op.new, {})
    \/ /\ op.kind = "delete" /\ DeletionsAccepted(Entry(op.file, 1))
       /\ FreshDeletions(op.dv, Entry(op.file, 1)) # {}
    \/ op.kind = "merge" /\ CompactionAccepted(op.inputs, 0, "compaction")

\* Done before is as good as done, for a batch and for a statement; a table
\* that is there or gone already is an error, and so is a merge whose inputs
\* are retired, be it by its own first proposal.
Satisfied(op) ==
    \/ Possible(op)
    \/ op.kind = "commit" /\ op.new \in DOMAIN files
    \/ op.kind = "delete" /\ DeletionsAccepted(Entry(op.file, 1))

\* Whether and how the proposal changes the machine.
Applies(op) ==
    IF Possible(op)
    THEN /\ Bounded /\ Effect(op) /\ Recorded
         /\ dropped' = IF op.kind = "drop" THEN dropped \cup {op.table} ELSE dropped
    ELSE UNCHANGED vars

TookAfter(w) == IF Possible(w.op) THEN w.took + 1 ELSE w.took

-----------------------------------------------------------------------------
(* The client. *)

\* Two refreshes follow where the result is read from the cache.
Rounds(op) == IF op.kind \in {"create", "evolve"} THEN 2 ELSE 1

Ask(op) ==
    /\ write = NoWrite
    /\ write' = [at |-> "send", op |-> op, left |-> MetaNodes, late |-> 0, took |-> 0,
                 asked |-> IF op.kind = "merge" THEN cache.snapshot ELSE 0, number |-> 0,
                 rounds |-> Rounds(op), heard |-> FALSE]
    /\ UNCHANGED vars

\* Over: what it may still do is land.
Ended(w, at) == [w EXCEPT !.at = at, !.left = 0, !.rounds = 0, !.asked = 0, !.number = 0]

Sending == write.at = "send" /\ write.left > 0

\* The metanode is no leader, or cannot be reached.
TurnedAway ==
    /\ Sending
    /\ write' = [write EXCEPT !.left = @ - 1]
    /\ UNCHANGED vars

\* It answers Unavailable after PROPOSE_TIMEOUT, or the connection breaks:
\* the proposal stays in the log, or reaches it later.
Unheard ==
    /\ Sending /\ faults < MaxFaults
    /\ faults' = faults + 1
    /\ write' = [write EXCEPT !.left = @ - 1, !.late = @ + 1]
    /\ UNCHANGED <<catalogVars, follower, cache, work, past, dropped, holes>>

\* WRITE_TIMEOUT: the caller gets an error.
TimedOut ==
    /\ Sending /\ faults < MaxFaults
    /\ faults' = faults + 1
    /\ write' = [Ended(write, "failed") EXCEPT !.late = @ + 1]
    /\ UNCHANGED <<catalogVars, follower, cache, work, past, dropped, holes>>

\* Applied when nobody waits any more.
Lands ==
    /\ write # NoWrite /\ write.late > 0
    /\ Applies(write.op)
    /\ write' = [write EXCEPT !.late = @ - 1, !.took = TookAfter(write)]

AfterAnswer(op) == IF Satisfied(op) THEN "refresh" ELSE "refused"

Heard ==
    /\ Sending
    /\ Applies(write.op)
    /\ write' = [write EXCEPT !.at = AfterAnswer(write.op), !.took = TookAfter(write),
                              !.left = 0, !.heard = TRUE]

\* Every metanode was tried.  The loop of evolve_schema runs out into the
\* branch meant for a proposal that found its work done.
Exhausted ==
    /\ write.at = "send" /\ write.left = 0
    /\ write' = IF write.op.kind = "evolve" THEN [write EXCEPT !.at = "refresh"]
                                             ELSE Ended(write, "failed")
    /\ UNCHANGED vars

Refreshes(r) ==
    /\ write.at = "refresh"
    /\ Begin(r)
    /\ write' = [write EXCEPT !.at = "wait", !.rounds = @ - 1]

\* Slip: a merge goes by the snapshot it worked from.
NumberAsked(w) == w.asked

\* What a merge is told to be its snapshot: that of the cache, whatever the
\* refresh has brought.
NumberTold(w) == cache.snapshot

TableKnown(op) == op.kind \in {"create", "evolve"} => op.table \in DOMAIN cache.tables

\* A cache older than the commit gives a number older than the commit.
Settled ==
    /\ write.at = "wait"
    /\ \A r \in Refreshers : work[r] = Idle
    /\ IF write.rounds > 0
       THEN write' = [write EXCEPT !.at = "refresh"] /\ holes' = holes
       ELSE IF write.op.kind = "merge"
       THEN /\ write' = [write EXCEPT !.at = "revoke", !.number = NumberTold(write)]
            /\ holes' = IF write.op.new \in DOMAIN files /\
                           cache.snapshot < files[write.op.new].valid_from
                        THEN holes \cup {"rewritten"} ELSE holes
       ELSE /\ write' = Ended(write, IF TableKnown(write.op) THEN "ok" ELSE "failed")
            /\ holes' = holes
    /\ UNCHANGED <<catalogVars, follower, cache, work, faults, past, dropped>>

\* What the snapshots show of a file whose vectors have been revoked.
ShownAnew(b) ==
    [s \in DOMAIN past |->
        {x \in past[s] : x[2] # b} \cup {x \in View(files', deletions', s) : x[2] = b}]

Revokes(b) ==
    /\ write.at = "revoke" /\ b \in write.op.inputs
    /\ schema_ver < MaxSchema
    /\ RevokeDeletions(b, write.number)
    /\ past' = ShownAnew(b)
    /\ UNCHANGED <<follower, cache, work, faults, dropped, holes, write>>

\* A revocation that fails is logged, and the merge has succeeded.
Merged ==
    /\ write.at = "revoke"
    /\ write' = Ended(write, "ok")
    /\ UNCHANGED vars

\* The refresh whose result is the answer must not fail.
FailsIn(r) ==
    /\ Fail(r)
    /\ write' = IF /\ write.at = "wait" /\ write.rounds = 0
                   /\ write.op.kind \in {"create", "evolve"}
                THEN Ended(write, "failed") ELSE write

\* The client restarts: nobody hears the answer.
RestartsIn ==
    /\ Restart
    /\ write' = IF write.at \in {"send", "refresh", "wait", "revoke"}
                THEN Ended(write, "failed") ELSE write

-----------------------------------------------------------------------------

WritesInit == Init /\ write = NoWrite

\* Nobody else uses the ids of this write.
OthersAct ==
    /\ MachineNext
    /\ write # NoWrite =>
           /\ write.op.new \notin DOMAIN files' \ DOMAIN files
           /\ write.op.kind = "delete" =>
                  \A k \in DOMAIN deletions' \ DOMAIN deletions : k[1] # write.op.dv
    /\ UNCHANGED write

RefreshStep(r) == (Begin(r) \/ Answered(r) \/ Apply(r)) /\ UNCHANGED write

AsksFor == \E op \in Structural \cup Commits \cup OverFiles : Ask(op)

WriteStep ==
    \/ TurnedAway \/ Unheard \/ TimedOut \/ Lands \/ Heard \/ Exhausted
    \/ Settled \/ Merged
    \/ \E b \in Batches : Revokes(b)

WritesNext ==
    \/ OthersAct
    \/ Follow /\ UNCHANGED write
    \/ \E r \in Refreshers : RefreshStep(r)
    \/ \E r \in Refreshers : FailsIn(r)
    \/ RestartsIn
    \/ AsksFor
    \/ WriteStep
    \/ \E r \in Refreshers : Refreshes(r)

WritesSpec == WritesInit /\ [][WritesNext]_writeVars /\ Fairness

-----------------------------------------------------------------------------

\* A write has the fields of its kind and no more proposals than addresses.
WritesTypeOK ==
    /\ TypeOK
    /\ write # NoWrite =>
           /\ write.at \in {"send", "refresh", "wait", "revoke", "ok", "refused", "failed"}
           /\ write.left \in 0..MetaNodes /\ write.late \in 0..MetaNodes
           /\ write.took \in 0..MetaNodes /\ write.number \in Nat

\* However often a proposal is repeated, lost, or applied after its caller
\* has gone, a write to a table that stays takes effect at most once, and one
\* answered with success has taken effect; but for an evolution no metanode
\* answered (remote_catalog.rs:152 promises that repeating is safe).
AnsweredOnce ==
    write # NoWrite =>
        /\ (write.op.kind \notin {"create", "drop"} /\ write.op.table \notin dropped) =>
               write.took <= 1
        /\ (write.at = "ok" /\ (write.heard \/ write.op.kind # "evolve")) => write.took >= 1

\* Revoking the vectors a merge has folded in changes nothing of any snapshot
\* taken, unless the merge was told a number older than its commit.
HistoryStands ==
    [][("rewritten" \notin holes') =>
           \A s \in DOMAIN past : past'[s] = past[s]]_writeVars
=============================================================================
