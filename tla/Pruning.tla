------------------------------- MODULE Pruning -------------------------------
(***************************************************************************)
(* What a query may leave unread: whole files by the bounds in their       *)
(* manifest entry (query/src/prune.rs), row groups by the index beside the *)
(* file (query/src/index.rs, model/src/index.rs), both written from the    *)
(* rows (compute_stats_lite, model/src/meta.rs).                           *)
(*                                                                         *)
(* A row is a function from columns to values; a block is a set of         *)
(* positions in the rows of a file: all of them, or those of a row group.  *)
(* A filter is a set of clauses that must all hold, a clause a set of      *)
(* tests of which one must: constraints() walks down ANDs only, so that a  *)
(* clause of one test is all it sees.                                      *)
(***************************************************************************)
EXTENDS Integers

CONSTANTS
    Null,      \* SQL's NULL
    NaN,       \* the float that has no place among the numbers
    GroupRows  \* INDEX_GROUP_ROWS, the rows of a row group

ASSUME PruningAssumption ==
    Null # NaN /\ Null \notin Int /\ NaN \notin Int /\ GroupRows \in Nat \ {0}

\* The families of types, and what one unit of each counts: a time in
\* seconds and one in microseconds are both plain integers in a bound.
Kinds == {"int", "float", "second", "micro"}
Unit(kind) == IF kind = "second" THEN 2 ELSE 1
Measure(v, kind) == IF v = NaN THEN NaN ELSE v * Unit(kind)

-----------------------------------------------------------------------------
(* What a filter means: the engine's comparison, where NULL satisfies none
   and NaN stands after every number. *)

Before(x, y) == x # NaN /\ (y = NaN \/ x < y)

Comparisons == {"<", "<=", ">", ">=", "=", "#"}

Holds(op, x, y) ==
    \/ op = "<" /\ Before(x, y)
    \/ op = "<=" /\ ~Before(y, x)
    \/ op = ">" /\ Before(y, x)
    \/ op = ">=" /\ ~Before(x, y)
    \/ op = "=" /\ x = y
    \/ op = "#" /\ x # y

\* A test compares a column with a literal, or the literal with the column,
\* or asks whether the column is NULL.
Passes(test, row, kinds) ==
    IF test.op = "null" THEN row[test.column] = Null
    ELSE /\ row[test.column] # Null /\ test.literal # Null
         /\ LET x == Measure(row[test.column], kinds[test.column])
                y == Measure(test.literal, test.kind)
            IN  IF test.flipped THEN Holds(test.op, y, x) ELSE Holds(test.op, x, y)

Matches(row, filter, kinds) == \A clause \in filter : \E test \in clause : Passes(test, row, kinds)

-----------------------------------------------------------------------------
(* The constraints a filter yields. *)

Flip(op) ==
    CASE op = "<" -> ">" [] op = "<=" -> ">="
      [] op = ">" -> "<" [] op = ">=" -> "<=" [] OTHER -> op

\* literal_bound and scalar_matches_column: a value, of the column's family.
Usable(test, kinds) ==
    /\ test.op \in Comparisons
    /\ test.literal # Null
    /\ test.kind = kinds[test.column]

Normal(test) ==
    [column |-> test.column, op |-> IF test.flipped THEN Flip(test.op) ELSE test.op,
     value |-> test.literal]

Constraints(filter, kinds) ==
    {Normal(test) : test \in {t \in UNION filter : {t} \in filter /\ Usable(t, kinds)}}

-----------------------------------------------------------------------------
(* Bounds of a column in a block, and what they exclude. *)

GroupOf(i) == (i - 1) \div GroupRows
Group(rows, k) == {i \in DOMAIN rows : GroupOf(i) = k}

NonNull(rows, block, c) == {rows[i][c] : i \in block} \ {Null}

\* A NaN that comes first becomes both bounds and stays; a later one leaves
\* the bounds as they are.
StartsWithNaN(rows, block, c) ==
    \E i \in block : rows[i][c] = NaN /\ \A j \in block : j < i => rows[j][c] = Null
Numbers(rows, block, c) == NonNull(rows, block, c) \ {NaN}

\* compute_stats_lite: the bounds of a column, none if it holds no value.
Bounds(rows, block, c) ==
    IF StartsWithNaN(rows, block, c) THEN {[lo |-> NaN, hi |-> NaN]}
    ELSE {b \in [lo : Numbers(rows, block, c), hi : Numbers(rows, block, c)] :
             \A x \in Numbers(rows, block, c) : b.lo <= x /\ x <= b.hi}

\* encode_bound with the type the file was written in, then decode_bound with
\* the type the table has now, in halves.  Eight bytes of an integer read as
\* those of a float: zero stays, a small positive one becomes a float between
\* 0 and every literal above it, a small negative one is no number.
Decoded(x, written, read) ==
    IF x = NaN \/ (written # read /\ x < 0) THEN NaN
    ELSE IF written = read THEN 2 * x ELSE IF x = 0 THEN 0 ELSE 1

\* partial_cmp: nothing is known of what is no number.
Less(x, y) == x # NaN /\ y # NaN /\ x < y
Same(x, y) == x # NaN /\ y # NaN /\ x = y

\* Slip: a bound that meets the literal excludes ">=" as it does ">".
ViolatesLoosely(lo, hi, op, v) ==
    \/ op \in {">", ">="} /\ (Less(hi, v) \/ Same(hi, v))
    \/ op = "<" /\ (Less(v, lo) \/ Same(lo, v))
    \/ op = "<=" /\ Less(v, lo)
    \/ op = "=" /\ (Less(v, lo) \/ Less(hi, v))
    \/ op = "#" /\ Same(lo, v) /\ Same(hi, v)

\* violates: nothing between the bounds satisfies the comparison.
Violates(lo, hi, op, v) ==
    \/ op = ">" /\ (Less(hi, v) \/ Same(hi, v))
    \/ op = ">=" /\ Less(hi, v)
    \/ op = "<" /\ (Less(v, lo) \/ Same(lo, v))
    \/ op = "<=" /\ Less(v, lo)
    \/ op = "=" /\ (Less(v, lo) \/ Less(hi, v))
    \/ op = "#" /\ Same(lo, v) /\ Same(hi, v)

\* can_prune_with: one constraint on a column with statistics is enough.
\* written and kinds are the types of the columns in the file and in the table.
CanPrune(rows, block, columns, written, filter, kinds) ==
    \E con \in Constraints(filter, kinds) :
        LET c == con.column
            AsRead(x) == Decoded(x, written[c], kinds[c])
            literal == IF con.value = NaN THEN NaN ELSE 2 * con.value
        IN  /\ c \in columns
            /\ \/ block # {} /\ NonNull(rows, block, c) = {}
               \/ \E b \in Bounds(rows, block, c) :
                      Violates(AsRead(b.lo), AsRead(b.hi), con.op, literal)

\* definitely_absent: the filter of a group has every value of the group,
\* and may claim others; columns that are floats now are not asked.
DefinitelyAbsent(rows, block, columns, filter, kinds) ==
    \E con \in Constraints(filter, kinds) :
        /\ con.op = "=" /\ con.column \in columns /\ kinds[con.column] # "float"
        /\ NonNull(rows, block, con.column) # {}
        /\ con.value \notin NonNull(rows, block, con.column)
=============================================================================
