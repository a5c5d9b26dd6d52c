------------------------------ MODULE Schemas ------------------------------
(***************************************************************************)
(* Schemas and their changes: model/src/schema.rs and the promotion order  *)
(* of model/src/meta.rs.  A schema maps its columns to types.  The order   *)
(* of columns is left out: where the code looks at the first column that   *)
(* differs, any of them may be the first.                                  *)
(***************************************************************************)
EXTENDS Integers

CONSTANTS
    Columns, Types,
    Rank           \* promotion_rank, of the types that have one

ASSUME RankAssumption ==
    /\ DOMAIN Rank \subseteq Types
    /\ \A t \in DOMAIN Rank : Rank[t] \in Nat
    /\ \A t, u \in DOMAIN Rank : Rank[t] = Rank[u] => t = u

NoColumns == [c \in {} |-> c]
Over(f, g) == [x \in DOMAIN f \cup DOMAIN g |-> IF x \in DOMAIN f THEN f[x] ELSE g[x]]
Put(x, v, f) == Over([y \in {x} |-> v], f)

AddColumn(c, t) == [kind |-> "add", column |-> c, type |-> t]
WidenType(c, t) == [kind |-> "widen", column |-> c, type |-> t]
DropColumn(c) == [kind |-> "drop", column |-> c]

\* try_widen
Widens(from, to) == {from, to} \subseteq DOMAIN Rank /\ Rank[from] < Rank[to]

\* Slip: a column of another type is taken for covered.
UncoveredNames(schema, incoming) == DOMAIN incoming \ DOMAIN schema

\* classify: the columns of an incoming schema that the table's lacks or types
\* otherwise; with none of them it is compatible.
Uncovered(schema, incoming) ==
    {c \in DOMAIN incoming : c \in DOMAIN schema => schema[c] # incoming[c]}
Covers(schema, incoming) == Uncovered(schema, incoming) = {}

Incompatible(schema, incoming, c) ==
    c \in DOMAIN schema /\ ~Widens(schema[c], incoming[c])

ChangeFor(schema, incoming, c) ==
    IF c \in DOMAIN schema THEN WidenType(c, incoming[c]) ELSE AddColumn(c, incoming[c])

\* apply_change, and when it is no error.
Applicable(schema, change) ==
    /\ change.kind = "add" <=> change.column \notin DOMAIN schema
    /\ change.kind = "widen" => Widens(schema[change.column], change.type)

ApplyChange(schema, change) ==
    IF change.kind = "drop"
    THEN [c \in DOMAIN schema \ {change.column} |-> schema[c]]
    ELSE Put(change.column, change.type, schema)

\* A value of the first type can be read as one of the second.
Fits(t, u) == t = u \/ Widens(t, u)

\* What a reader gets of a row: align_batch keeps the columns of the table's
\* schema, and every one of the row's is among them with its value.
ReadWhole(schema, columns) ==
    \A c \in DOMAIN columns : c \in DOMAIN schema /\ Fits(columns[c], schema[c])
=============================================================================
