----------------------------- MODULE MCPushdown ------------------------------
(* Small tables and queries for TLC: the first kind of table varies what
   bounds and indexes say, the second what partial states carry. *)
EXTENDS Pushdown

Row(id, a, b, g) == [id |-> id, a |-> a, b |-> b, g |-> g]
File(path, rows, kinds, indexed, erased, size) ==
    [path |-> path, rows |-> rows, columns |-> {"a"}, kinds |-> kinds, indexed |-> indexed,
     erased |-> erased, size |-> size]
TypeOf(kind) == [c \in {"a", "b"} |-> IF c = "a" THEN kind ELSE "int"]

\* Two files, one of two row groups, and one shard with a row of its own.
\* The first file was written when the column had the type of old.
Pruned(old, kind, a1, a2, a3, indexed, erased) ==
    [files |-> {File(1, <<Row(1, a1, 1, "x"), Row(2, a2, 2, "x"), Row(3, a3, Null, "x")>>,
                     TypeOf(old), indexed, erased, 2),
                File(2, <<Row(4, a3, 1, "x")>>, TypeOf(kind), FALSE, {}, 1)},
     hot |-> Entry(1, {Row(5, 1, 1, "x")}), kinds |-> TypeOf(kind), text |-> FALSE, readers |-> {1}]

\* Files of floats with a NaN in some place, and files of integers whose
\* column is one of floats by now.
FloatTables ==
    {Pruned("float", "float", a1, a2, a3, indexed, {}) :
        a1 \in {NaN, 1}, a2 \in {NaN, 1}, a3 \in {NaN, 2}, indexed \in BOOLEAN}
WidenedTables ==
    {Pruned("int", "float", a1, a2, 1, indexed, {}) : a1 \in {-1, 0, 2}, a2 \in {-1, 0, 2}, indexed \in BOOLEAN}

PrunedTables ==
    {Pruned(kind, kind, a1, a2, a3, indexed, erased) :
        kind \in {"int", "micro"}, a1 \in {Null, 0, 2}, a2 \in {Null, 0, 2}, a3 \in {Null, 1},
        indexed \in BOOLEAN, erased \in {{}, {1}}}
    \cup FloatTables \cup WidenedTables

\* Three files over two readers and this node, two shards.
Folded(b1, b2, b3, g1, g2, sizes, text) ==
    [files |-> {File(1, <<Row(1, 0, b1, g1), Row(2, 1, 2, g1)>>, TypeOf("int"), FALSE, {2}, sizes[1]),
                File(2, <<Row(3, 1, b2, g2)>>, TypeOf("int"), FALSE, {}, sizes[2]),
                File(3, <<Row(4, 0, Null, Null)>>, TypeOf("int"), FALSE, {}, sizes[3])},
     hot |-> (1 :> {Row(5, 1, b3, g1)}) @@ (2 :> {Row(6, 0, Null, g2)}),
     kinds |-> TypeOf("int"), text |-> text, readers |-> {1, 2}]

FoldedTables ==
    {Folded(b1, b2, b3, g1, g2, sizes, text) :
        b1 \in {Null, 1, 3}, b2 \in {Null, 1, 2}, b3 \in {Null, 2}, g1 \in {"x"}, g2 \in {"x", "y"},
        sizes \in {<<3, 2, 1>>, <<0, 0, 0>>}, text \in BOOLEAN}

Test(op, literal, kind, flipped) ==
    [column |-> "a", op |-> op, literal |-> literal, kind |-> kind, flipped |-> flipped]

Tests ==
    {Test(op, v, kind, flipped) : op \in Comparisons, v \in {0, 1, 2}, kind \in {"int", "micro", "second"},
                                  flipped \in BOOLEAN}
    \cup {Test("null", 0, "int", FALSE), Test("=", Null, "int", FALSE)}
FloatTests == {Test(op, v, "float", FALSE) : op \in Comparisons, v \in {0, 1, NaN}}

OnB == [column |-> "b", op |-> ">", literal |-> 0, kind |-> "int", flipped |-> FALSE]
Filters ==
    {{{t}} : t \in Tests \cup FloatTests} \cup {{}}
    \cup {{{Test("<", 1, "int", FALSE), Test("=", 2, "int", FALSE)}, {OnB}},
          {{Test(">", 0, "int", FALSE)}, {Test("#", 2, "int", FALSE)}}}

MCQueries ==
    [kind : {"rows"}, filter : Filters, grouped : {FALSE}]
    \cup [kind : {"aggregate"}, filter : {{}, {{Test(">", 0, "int", FALSE)}}, {{Test("=", 1, "int", TRUE)}}, {{Test("null", 0, "int", FALSE)}}, {{Test("=", 1, "second", FALSE)}}, {{Test(">=", 2, "int", FALSE)}}},
          grouped : BOOLEAN]

MCTables == PrunedTables \cup FoldedTables

\* The tests of a filter are of the family of their column or of one that
\* could be taken for it.
Sensible ==
    LET kind == table.kinds["a"] IN
    /\ query.kind = "rows" => table \in PrunedTables
    /\ \A clause \in query.filter : \A t \in clause :
           t.column = "a" => (t.kind = "float") = (kind = "float") /\ (t.kind = "int" => kind = "int")

MCInit == Init /\ Sensible
MCSpec == MCInit /\ [][Next]_vars
=============================================================================
