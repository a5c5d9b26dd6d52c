------------------------------ MODULE Pushdown -------------------------------
(***************************************************************************)
(* One query over files and hot rows that stand still (query/src/lib.rs,   *)
(* table.rs, placement.rs, agg_pushdown.rs, cold.rs, model/src/agg.rs): a  *)
(* scan, or an aggregate whose files are shared out among the nodes that   *)
(* can read them, folded there into partial states and merged here.  How   *)
(* rows move while a query runs is module Reads.                           *)
(***************************************************************************)
EXTENDS Pruning, FiniteSets, FiniteSetsExt, SequencesExt

CONSTANTS
    Tables,    \* what a table may hold: files, hot rows, types, readers
    Queries,   \* what may be asked
    Here       \* this node, less than every other in the order of names

\* promotion_rank: the one change of a column's type that reaches another
\* family of bounds.  The files written before it stay as they are.
Widens(old, new) == old = "int" /\ new = "float"

\* What tables and queries hold has the shape of rows, manifests and filters.
Values == Int \cup {Null, NaN}
ASSUME PushdownAssumption ==
    /\ \A t \in Tables : \A f \in t.files :
           /\ f.columns \subseteq DOMAIN t.kinds
           /\ \A c \in f.columns : f.kinds[c] = t.kinds[c] \/ Widens(f.kinds[c], t.kinds[c])
           /\ \A i \in DOMAIN f.rows, c \in f.columns :
                  f.rows[i][c] \in Int \cup {Null} \cup (IF f.kinds[c] = "float" THEN {NaN} ELSE {})
    /\ \A q \in Queries : \A clause \in q.filter : \A test \in clause :
           test.literal \in Values /\ test.flipped \in BOOLEAN

VARIABLES
    table,     \* the table asked
    query,     \* [kind, filter, grouped]
    pc,        \* how far the query is
    pushed,    \* whether it goes the way of the pushdown
    share,     \* node -> the files it reads
    told,      \* node -> partial states, for those that answered
    seen,      \* rows this node read from files
    hot,       \* shard -> rows it has for the query, for those that answered
    lost,      \* shards and nodes without an answer
    answer

vars == <<table, query, pc, pushed, share, told, seen, hot, lost, answer>>

Over(new, old) == [x \in DOMAIN new \cup DOMAIN old |-> IF x \in DOMAIN new THEN new[x] ELSE old[x]]
Entry(k, v) == [x \in {k} |-> v]
None == [x \in {} |-> {}]

-----------------------------------------------------------------------------
(* Partial states: of COUNT rows, COUNT(b), SUM(b), MIN(b) and MAX(b). *)

Empty == [rows |-> 0, count |-> 0, sum |-> Null, low |-> Null, high |-> Null]

One(row) ==
    IF row.b = Null THEN [Empty EXCEPT !.rows = 1]
    ELSE [rows |-> 1, count |-> 1, sum |-> row.b, low |-> row.b, high |-> row.b]

Either(x, y, both) == IF x = Null THEN y ELSE IF y = Null THEN x ELSE both

\* Slip: the second state decides where the first has nothing to say.
MergeFirst(p, q) ==
    [rows |-> p.rows + q.rows, count |-> p.count + q.count,
     sum |-> Either(p.sum, q.sum, p.sum + q.sum),
     low |-> IF p.rows = 0 THEN q.low ELSE p.low, high |-> Either(p.high, q.high, p.high)]

Merge(p, q) ==
    [rows |-> p.rows + q.rows, count |-> p.count + q.count,
     sum |-> Either(p.sum, q.sum, p.sum + q.sum),
     low |-> Either(p.low, q.low, IF p.low > q.low THEN q.low ELSE p.low),
     high |-> Either(p.high, q.high, IF p.high < q.high THEN q.high ELSE p.high)]

\* The states of a set of rows: one, or one for each key, NULL being a key.
KeyIn(row) == IF query.grouped THEN row.g ELSE "all"
Groups(R) == IF query.grouped THEN {row.g : row \in R} ELSE {"all"}

Fold(R) ==
    [k \in Groups(R) |->
        FoldSet(LAMBDA row, acc : Merge(acc, One(row)), Empty, {row \in R : KeyIn(row) = k})]

Of(states, k) == IF k \in DOMAIN states THEN states[k] ELSE Empty
MergeStates(x, y) == [k \in DOMAIN x \cup DOMAIN y |-> Merge(Of(x, k), Of(y, k))]

-----------------------------------------------------------------------------
(* Reading a file. *)

\* The rows of the groups that are not skipped, less those a deletion vector
\* names by their number among the rows read.
Delivered(f, skipped) ==
    LET read == {i \in DOMAIN f.rows : GroupOf(i) \notin skipped}
    IN  {f.rows[i] : i \in {p \in read : Cardinality({q \in read : q <= p}) \notin f.erased}}

Live(f) == Delivered(f, {})
Wanted(R) == {row \in R : Matches(row, query.filter, table.kinds)}

\* prune_visible_files.
Kept(F) == {f \in F : ~CanPrune(f.rows, DOMAIN f.rows, f.columns, f.kinds, query.filter, table.kinds)}

GroupsOf(f) == {GroupOf(i) : i \in DOMAIN f.rows}
Skippable(f) ==
    {k \in GroupsOf(f) : CanPrune(f.rows, Group(f.rows, k), f.columns, f.kinds, query.filter, table.kinds)}
Absent(f) ==
    {k \in GroupsOf(f) : DefinitelyAbsent(f.rows, Group(f.rows, k), f.columns, query.filter, table.kinds)}

\* Slip: a file with a deletion vector has its groups skipped as well.
PlansForAll(f) ==
    IF f.indexed THEN {{}, Skippable(f), Skippable(f) \cup Absent(f)} ELSE {{}}

\* group_plans: without an index, with one that cannot be read in time, and
\* with a deletion vector the file is read whole.
Plans(f) ==
    IF f.indexed /\ f.erased = {} THEN {{}, Skippable(f), Skippable(f) \cup Absent(f)} ELSE {{}}

\* What a scan of F may read here.
Scans(F) ==
    LET kept == Kept(F)
    IN  {UNION {Delivered(f, plan[f]) : f \in kept} :
            plan \in {p \in [kept -> UNION {Plans(f) : f \in kept}] : \A f \in kept : p[f] \in Plans(f)}}

-----------------------------------------------------------------------------
(* placement::assign: the largest file first, to the node with least so far. *)

Weight(f) == IF f.size = 0 THEN 1 ELSE f.size
Load(F) == MapThenSumSet(Weight, F)

Queue(F) == SetToSortSeq(F, LAMBDA f, g : f.size > g.size \/ (f.size = g.size /\ f.path < g.path))

Lightest(shares) ==
    CHOOSE n \in DOMAIN shares : \A m \in DOMAIN shares :
        Load(shares[n]) < Load(shares[m]) \/ (Load(shares[n]) = Load(shares[m]) /\ n <= m)

Give(shares, f) == [shares EXCEPT ![Lightest(shares)] = @ \cup {f}]

Assign(F, nodes) == FoldLeft(Give, [n \in nodes |-> {}], Queue(F))

-----------------------------------------------------------------------------
(* The query. *)

At(where) == pc = where
Asked == UNCHANGED <<table, query>>

\* detect: every test compares an integer column with an integer, or asks
\* for NULL; anything else takes the way of a scan.
Translates(test) ==
    test.op = "null" \/ (test.literal # Null /\ test.kind = "int" /\ table.kinds[test.column] = "int")
Pushable ==
    query.kind = "aggregate" /\ \A clause \in query.filter : \A test \in clause : Translates(test)

Plan ==
    /\ At("asked")
    /\ IF Pushable
       THEN pc' = "local" /\ share' = Assign(table.files, table.readers \cup {Here})
       ELSE pc' = "scan" /\ share' = Entry(Here, table.files)
    /\ pushed' = Pushable
    /\ UNCHANGED <<told, seen, hot, lost, answer>> /\ Asked

Far == DOMAIN share \ {Here}

\* cold_half: the engine's own result for some files.  A grouped result
\* without a group may come as no batch at all, and the query is run as a
\* scan.
ColdHalf(F, then) ==
    \E R \in Scans(F) :
        \/ seen' = R /\ pc' = then /\ UNCHANGED <<share, told, pushed>>
        \/ /\ query.grouped /\ Wanted(R) = {}
           /\ seen' = {} /\ pc' = "scan" /\ pushed' = FALSE
           /\ share' = Entry(Here, table.files) /\ told' = None

ColdLocal ==
    /\ At("local")
    /\ ColdHalf(share[Here], "far")
    /\ UNCHANGED <<hot, lost, answer>> /\ Asked

\* fold_cold_files at another node: files are left out by their bounds, no
\* groups are; the deletion vectors came with the request.
FarFold(n) ==
    /\ At("far") /\ n \in Far \ (DOMAIN told \cup lost)
    /\ told' = Over(Entry(n, Fold(Wanted(UNION {Live(f) : f \in Kept(share[n])}))), told)
    /\ UNCHANGED <<pc, pushed, share, seen, hot, lost, answer>> /\ Asked

FarMissing(n) ==
    /\ At("far") /\ n \in Far \ (DOMAIN told \cup lost)
    /\ lost' = lost \cup {n}
    /\ UNCHANGED <<pc, pushed, share, told, seen, hot, answer>> /\ Asked

\* Slip: the local files are not read again with the missing ones.
FallBackAlone(missing) == UNION {share[n] : n \in missing}

\* What a fallback reads here: the missing shares, and what was read before.
FallBack(missing) == UNION {share[n] : n \in {Here} \cup missing}

\* Once every node has answered or run out of time.
FarDone ==
    /\ At("far") /\ Far = DOMAIN told \cup lost
    /\ lost' = {}
    /\ IF lost = {} THEN pc' = "hot" /\ UNCHANGED <<seen, share, told, pushed>>
       ELSE ColdHalf(FallBack(lost), "hot")
    /\ UNCHANGED <<hot, answer>> /\ Asked

\* The plain way: every file here, in one scan.
Scan ==
    /\ At("scan")
    /\ \E R \in Scans(share[Here]) : seen' = R
    /\ pc' = "hot"
    /\ UNCHANGED <<pushed, share, told, hot, lost, answer>> /\ Asked

HotRead(s) ==
    /\ At("hot") /\ s \in DOMAIN table.hot \ (DOMAIN hot \cup lost)
    /\ hot' = Over(Entry(s, Wanted(table.hot[s])), hot)
    /\ UNCHANGED <<pc, pushed, share, told, seen, lost, answer>> /\ Asked

\* A shard without an answer is named in the result, or fails the query.
HotMissing(s) ==
    /\ At("hot") /\ s \in DOMAIN table.hot \ (DOMAIN hot \cup lost)
    /\ \/ lost' = lost \cup {s} /\ UNCHANGED pc
       \/ pc' = "failed" /\ UNCHANGED lost
    /\ UNCHANGED <<pushed, share, told, seen, hot, answer>> /\ Asked

\* The states of this node, then of the others, then of the shards.
FromFar == FoldLeft(LAMBDA acc, n : MergeStates(acc, told[n]), Fold(Wanted(seen)),
                    SetToSortSeq(DOMAIN told, <))
Merged == FoldLeft(LAMBDA acc, s : MergeStates(acc, Fold(hot[s])), FromFar,
                   SetToSortSeq(DOMAIN hot, <))

\* array_of_many: a column of texts without one text is built as integers,
\* and the batch is refused.
Renders(states) == table.text => \E k \in DOMAIN states : states[k].low # Null

Rows == Wanted(seen) \cup UNION {hot[s] : s \in DOMAIN hot}

Finish ==
    /\ At("hot") /\ DOMAIN table.hot = DOMAIN hot \cup lost
    /\ answer' = IF pushed THEN Merged ELSE IF query.kind = "rows" THEN Rows ELSE Fold(Rows)
    /\ pc' = IF pushed /\ ~Renders(Merged) THEN "failed" ELSE "answered"
    /\ UNCHANGED <<pushed, share, told, seen, hot, lost>> /\ Asked

-----------------------------------------------------------------------------

Init ==
    /\ table \in Tables /\ query \in Queries
    /\ pc = "asked" /\ pushed = FALSE
    /\ share = Entry(Here, {}) /\ told = None /\ seen = {}
    /\ hot = None /\ lost = {} /\ answer = {}

Next ==
    \/ Plan \/ ColdLocal \/ FarDone \/ Scan \/ Finish
    \/ \E n \in Far : FarFold(n) \/ FarMissing(n)
    \/ \E s \in DOMAIN table.hot : HotRead(s) \/ HotMissing(s)

Spec == Init /\ [][Next]_vars

-----------------------------------------------------------------------------
(* Properties. *)

\* In the file, or in one of the row groups it has an index of, a NaN stands
\* behind a number: the bounds are those of the numbers alone.
Blocks(f) == {DOMAIN f.rows} \cup (IF f.indexed THEN {Group(f.rows, k) : k \in GroupsOf(f)} ELSE {})
HidesNaN(f) ==
    \E c \in f.columns, block \in Blocks(f) :
        NaN \in NonNull(f.rows, block, c) /\ ~StartsWithNaN(f.rows, block, c)

\* A column has been widened since the file was written: its bounds are read
\* as those of another type.
Misread(f) == \E c \in f.columns : f.kinds[c] # table.kinds[c]

Keeps(f) ==
    /\ Wanted(Live(f)) # {} => f \in Kept({f})
    /\ \A skipped \in Plans(f) : Wanted(Live(f)) \subseteq Delivered(f, skipped)

\* A file or a row group is left unread only on proof that it has no match
\* (query/src/prune.rs:11): no row that a filter wants goes with it, whatever
\* the filter looks like.  The code keeps this of files whose columns still have
\* the type they were written in (query/src/prune.rs:245 reads the bounds in
\* the table's) and hide no NaN (model/src/meta.rs:547); in others it skips
\* files that match.
PruneKeepsMatches == \A f \in table.files : ~HidesNaN(f) /\ ~Misread(f) => Keeps(f)

\* The aggregate of a set of rows, counted directly.
WithB(R) == {row \in R : row.b # Null}
Whole(R) ==
    [rows |-> Cardinality(R), count |-> Cardinality(WithB(R)),
     sum |-> IF WithB(R) = {} THEN Null ELSE MapThenSumSet(LAMBDA row : row.b, WithB(R)),
     low |-> IF WithB(R) = {} THEN Null ELSE Min({row.b : row \in WithB(R)}),
     high |-> IF WithB(R) = {} THEN Null ELSE Max({row.b : row \in WithB(R)})]

\* Every row the query wants, of the files and of the shards that answered.
Truth == Wanted(UNION {Live(f) : f \in table.files} \cup UNION {table.hot[s] : s \in DOMAIN table.hot \ lost})

\* An answer is that of one pass over all rows, whichever nodes folded which
\* files, whichever of them fell silent, in whatever order they came in, if
\* no file hides a NaN or has a column widened since.
AnswerWhole ==
    (At("answered") /\ ~\E f \in table.files : HidesNaN(f) \/ Misread(f)) =>
        IF query.kind = "rows" THEN answer = Truth
        ELSE /\ DOMAIN answer = Groups(Truth)
             /\ \A k \in DOMAIN answer : answer[k] = Whole({row \in Truth : KeyIn(row) = k})
=============================================================================
