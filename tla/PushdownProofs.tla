---------------------------- MODULE PushdownProofs ----------------------------
(***************************************************************************)
(* No file and no row group a filter wants a row of is left unread, for    *)
(* any filters, size of the groups and tables, in the files whose columns  *)
(* still have the type they were written in and hide no NaN.               *)
(***************************************************************************)
EXTENDS Pushdown, TLAPS

\* Turning a comparison round is what Flip says.
LEMMA FlipTurns ==
    ASSUME NEW op \in Comparisons, NEW x, NEW y
    PROVE  Holds(op, y, x) <=> Holds(Flip(op), x, y)
BY DEF Comparisons, Holds, Flip

\* A test that passes satisfies the constraint that is made of it.
LEMMA ConstraintHolds ==
    ASSUME NEW test, NEW row, NEW kinds, Usable(test, kinds), Passes(test, row, kinds)
    PROVE  LET con == Normal(test) IN
           /\ row[con.column] # Null
           /\ Holds(con.op, Measure(row[con.column], kinds[con.column]),
                            Measure(con.value, kinds[con.column]))
<1>1. test.op \in Comparisons /\ test.op # "null" /\ test.kind = kinds[test.column]
  BY DEF Usable, Comparisons
<1>2. CASE test.flipped
  <2>1. Holds(test.op, Measure(test.literal, test.kind),
              Measure(row[test.column], kinds[test.column])) /\ row[test.column] # Null
    BY <1>1, <1>2 DEF Passes
  <2>2. Holds(Flip(test.op), Measure(row[test.column], kinds[test.column]),
              Measure(test.literal, test.kind))
    BY <1>1, <2>1, FlipTurns
  <2>3. QED
    BY <1>1, <1>2, <2>1, <2>2 DEF Normal
<1>3. CASE ~test.flipped
  BY <1>1, <1>3 DEF Passes, Normal
<1>4. QED
  BY <1>2, <1>3

\* Numbers in one unit compare as they are.
LEMMA SameUnit ==
    ASSUME NEW x \in Int, NEW v \in Int, NEW kind
    PROVE  /\ Measure(x, kind) \in Int /\ Measure(v, kind) \in Int
           /\ Measure(x, kind) # NaN /\ Measure(v, kind) # NaN
           /\ (Measure(x, kind) < Measure(v, kind)) <=> (x < v)
           /\ (Measure(x, kind) = Measure(v, kind)) <=> (x = v)
<1>1. x # NaN /\ v # NaN
  BY PruningAssumption
<1>2. CASE kind = "second"
  <2>1. Measure(x, kind) = x * 2 /\ Measure(v, kind) = v * 2
    BY <1>1, <1>2 DEF Measure, Unit
  <2>2. x * 2 \in Int /\ v * 2 \in Int /\ ((x * 2 < v * 2) <=> (x < v)) /\ ((x * 2 = v * 2) <=> (x = v))
    OBVIOUS
  <2>3. QED
    BY <2>1, <2>2, PruningAssumption
<1>3. CASE kind # "second"
  <2>1. Measure(x, kind) = x * 1 /\ Measure(v, kind) = v * 1
    BY <1>1, <1>3 DEF Measure, Unit
  <2>2. x * 1 = x /\ v * 1 = v
    OBVIOUS
  <2>3. QED
    BY <2>1, <2>2, PruningAssumption
<1>4. QED
  BY <1>2, <1>3

\* A number between bounds that exclude a comparison does not satisfy it.
LEMMA BoundsExclude ==
    ASSUME NEW lo \in Int, NEW hi \in Int, NEW x \in Int, lo <= x, x <= hi,
           NEW v \in Int, NEW op, NEW kind, Violates(2 * lo, 2 * hi, op, 2 * v)
    PROVE  ~Holds(op, Measure(x, kind), Measure(v, kind))
<1> DEFINE m == Measure(x, kind)
           w == Measure(v, kind)
<1>1. m \in Int /\ w \in Int /\ m # NaN /\ w # NaN /\ ((m < w) <=> (x < v)) /\ ((m = w) <=> (x = v))
  BY SameUnit
<1>2. (Before(m, w) <=> m < w) /\ (Before(w, m) <=> w < m)
  BY <1>1 DEF Before
<1>3. \/ op = ">" /\ x <= v
      \/ op = ">=" /\ x < v
      \/ op = "<" /\ x >= v
      \/ op = "<=" /\ x > v
      \/ op = "=" /\ (v < x \/ x < v)
      \/ op = "#" /\ x = v
  <2> DEFINE l == 2 * lo
             h == 2 * hi
             u == 2 * v
  <2>1. /\ (l < u <=> lo < v) /\ (u < l <=> v < lo) /\ (l = u <=> lo = v)
        /\ (h < u <=> hi < v) /\ (h = u <=> hi = v)
    OBVIOUS
  <2>2. Violates(l, h, op, u)
    OBVIOUS
  <2> HIDE DEF l, h, u
  <2>3. \/ op = ">" /\ (h < u \/ h = u)
        \/ op = ">=" /\ h < u
        \/ op = "<" /\ (u < l \/ l = u)
        \/ op = "<=" /\ u < l
        \/ op = "=" /\ (u < l \/ h < u)
        \/ op = "#" /\ l = u /\ h = u
    BY <2>2 DEF Violates, Less, Same
  <2>4. QED
    BY <2>1, <2>3
<1> HIDE DEF m, w
<1>4. ~Holds(op, m, w)
  BY <1>1, <1>2, <1>3 DEF Holds
<1>5. QED
  BY <1>4 DEF m, w

\* A block that hides nothing: in the columns whose bounds are kept, the type
\* is the one the file was written in, and a NaN comes before every number.
Plain(rows, block, columns, written, kinds) ==
    \A c \in columns :
        /\ written[c] = kinds[c]
        /\ \A i \in block : rows[i][c] \in Int \cup {Null} \cup (IF kinds[c] = "float" THEN {NaN} ELSE {})
        /\ NaN \in NonNull(rows, block, c) => StartsWithNaN(rows, block, c)

\* Bounds that are no number exclude nothing.
LEMMA NoNumberExcludesNothing ==
    ASSUME NEW op, NEW v PROVE ~Violates(NaN, NaN, op, v)
BY DEF Violates, Less, Same

\* No row of a block that is pruned, by its bounds or by the index, matches.
LEMMA PrunedBlockHasNoMatch ==
    ASSUME NEW rows, NEW block, NEW columns, NEW written, NEW filter, NEW kinds,
           Plain(rows, block, columns, written, kinds),
           \A clause \in filter : \A test \in clause : test.literal \in Values,
           \/ CanPrune(rows, block, columns, written, filter, kinds)
           \/ DefinitelyAbsent(rows, block, columns, filter, kinds),
           NEW i \in block
    PROVE  ~Matches(rows[i], filter, kinds)
<1> SUFFICES ASSUME Matches(rows[i], filter, kinds) PROVE FALSE
  OBVIOUS
<1> DEFINE AsRead(c, x) == Decoded(x, written[c], kinds[c])
           Literal(v) == IF v = NaN THEN NaN ELSE 2 * v
<1>1. PICK con \in Constraints(filter, kinds) :
        /\ con.column \in columns
        /\ \/ NonNull(rows, block, con.column) = {}
           \/ \E b \in Bounds(rows, block, con.column) :
                 Violates(AsRead(con.column, b.lo), AsRead(con.column, b.hi), con.op, Literal(con.value))
           \/ /\ con.op = "=" /\ kinds[con.column] # "float"
              /\ con.value \notin NonNull(rows, block, con.column)
  <2>1. CASE CanPrune(rows, block, columns, written, filter, kinds)
    BY <2>1 DEF CanPrune
  <2>2. CASE DefinitelyAbsent(rows, block, columns, filter, kinds)
    BY <2>2 DEF DefinitelyAbsent
  <2>3. QED
    BY <2>1, <2>2
<1>2. PICK test \in UNION filter : {test} \in filter /\ Usable(test, kinds) /\ con = Normal(test)
  BY DEF Constraints
<1>3. Passes(test, rows[i], kinds)
  BY <1>2 DEF Matches
<1> DEFINE c == con.column
           x == rows[i][c]
<1>4. x # Null /\ Holds(con.op, Measure(x, kinds[c]), Measure(con.value, kinds[c]))
  BY <1>2, <1>3, ConstraintHolds
<1>5. x \in NonNull(rows, block, c)
  BY <1>4 DEF NonNull
<1>6. con.value \in Int \cup {NaN}
  BY <1>2 DEF Normal, Usable, Values
<1>7. written[c] = kinds[c] /\ x \in Int \cup (IF kinds[c] = "float" THEN {NaN} ELSE {})
  BY <1>1, <1>4 DEF Plain
<1>8. ASSUME NEW b \in Bounds(rows, block, c),
             Violates(AsRead(c, b.lo), AsRead(c, b.hi), con.op, Literal(con.value))
      PROVE  FALSE
  <2>1. CASE StartsWithNaN(rows, block, c)
    <3>1. b.lo = NaN /\ b.hi = NaN
      BY <1>8, <2>1 DEF Bounds
    <3>2. AsRead(c, b.lo) = NaN /\ AsRead(c, b.hi) = NaN
      BY <3>1 DEF Decoded
    <3>3. QED
      BY <1>8, <3>2, NoNumberExcludesNothing
  <2>2. CASE ~StartsWithNaN(rows, block, c)
    <3>1. x \in Int /\ x \in Numbers(rows, block, c) /\ NaN \notin NonNull(rows, block, c)
      BY <1>1, <1>5, <1>7, <2>2, PruningAssumption DEF Plain, Numbers
    <3>2. b.lo \in Numbers(rows, block, c) /\ b.hi \in Numbers(rows, block, c) /\ b.lo <= x /\ x <= b.hi
      BY <1>8, <2>2, <3>1 DEF Bounds
    <3>3. Numbers(rows, block, c) \subseteq Int
      BY <1>1 DEF Numbers, NonNull, Plain
    <3>4. b.lo \in Int /\ b.hi \in Int /\ b.lo # NaN /\ b.hi # NaN
      BY <3>2, <3>3, PruningAssumption
    <3>5. AsRead(c, b.lo) = 2 * b.lo /\ AsRead(c, b.hi) = 2 * b.hi
      BY <1>7, <3>4 DEF Decoded
    <3>6. con.value # NaN
      <4> SUFFICES ASSUME con.value = NaN PROVE FALSE
        OBVIOUS
      <4>1. ~Violates(AsRead(c, b.lo), AsRead(c, b.hi), con.op, NaN)
        BY DEF Violates, Less, Same
      <4>2. QED
        BY <1>8, <4>1
    <3>7. con.value \in Int /\ Violates(2 * b.lo, 2 * b.hi, con.op, 2 * con.value)
      BY <1>6, <1>8, <3>5, <3>6
    <3>8. QED
      BY <1>4, <3>1, <3>2, <3>4, <3>7, BoundsExclude
  <2>3. QED
    BY <2>1, <2>2
<1>9. CASE con.op = "=" /\ kinds[c] # "float" /\ con.value \notin NonNull(rows, block, c)
  <2>1. Measure(x, kinds[c]) = Measure(con.value, kinds[c])
    BY <1>4, <1>9 DEF Holds
  <2>2. x # con.value /\ x \in Int
    BY <1>5, <1>7, <1>9
  <2>3. CASE con.value = NaN
    <3>1. Measure(x, kinds[c]) \in Int /\ Measure(con.value, kinds[c]) = NaN
      BY <2>2, <2>3, SameUnit DEF Measure
    <3>2. QED
      BY <2>1, <3>1, PruningAssumption
  <2>4. CASE con.value \in Int
    BY <2>1, <2>2, <2>4, SameUnit
  <2>5. QED
    BY <1>6, <2>3, <2>4
<1>10. QED
  BY <1>1, <1>5, <1>8, <1>9

\* What is asked of what never changes.
Given == table \in Tables /\ query \in Queries

LEMMA GivenStays == Spec => []Given
<1>1. Init => Given
  BY DEF Init, Given
<1>2. Given /\ [Next]_vars => Given'
  <2> SUFFICES ASSUME Given, [Next]_vars PROVE UNCHANGED <<table, query>>
    BY DEF Given
  <2>1. ASSUME Plan \/ ColdLocal \/ FarDone \/ Scan \/ Finish PROVE UNCHANGED <<table, query>>
    BY <2>1 DEF Plan, ColdLocal, FarDone, Scan, Finish, Asked
  <2>2. ASSUME NEW n \in Far, FarFold(n) \/ FarMissing(n) PROVE UNCHANGED <<table, query>>
    BY <2>2 DEF FarFold, FarMissing, Asked
  <2>3. ASSUME NEW s \in DOMAIN table.hot, HotRead(s) \/ HotMissing(s) PROVE UNCHANGED <<table, query>>
    BY <2>3 DEF HotRead, HotMissing, Asked
  <2>4. CASE UNCHANGED vars
    BY <2>4 DEF vars
  <2>5. QED
    BY <2>1, <2>2, <2>3, <2>4 DEF Next
<1>3. QED
  BY <1>1, <1>2, PTL DEF Spec

\* Files and row groups are left unread only when no row of theirs matches.
LEMMA GivenKeepsMatches == Given => PruneKeepsMatches
<1> SUFFICES ASSUME Given, NEW f \in table.files, ~HidesNaN(f), ~Misread(f)
             PROVE  /\ Wanted(Live(f)) # {} => f \in Kept({f})
                    /\ \A skipped \in Plans(f) : Wanted(Live(f)) \subseteq Delivered(f, skipped)
  BY DEF PruneKeepsMatches, Keeps
<1>1. ASSUME NEW block \in Blocks(f), block \subseteq DOMAIN f.rows
      PROVE  Plain(f.rows, block, f.columns, f.kinds, table.kinds)
  <2>1. \A c \in f.columns : f.kinds[c] = table.kinds[c]
    BY DEF Misread
  <2>2. \A i \in block, c \in f.columns :
            f.rows[i][c] \in Int \cup {Null} \cup (IF table.kinds[c] = "float" THEN {NaN} ELSE {})
    BY <1>1, <2>1, PushdownAssumption DEF Given
  <2>3. \A c \in f.columns : NaN \in NonNull(f.rows, block, c) => StartsWithNaN(f.rows, block, c)
    BY <1>1 DEF HidesNaN
  <2>4. QED
    BY <2>1, <2>2, <2>3 DEF Plain
<1>2. \A clause \in query.filter : \A test \in clause : test.literal \in Values
  BY PushdownAssumption DEF Given
<1>3. Live(f) \subseteq {f.rows[i] : i \in DOMAIN f.rows}
  BY DEF Live, Delivered
<1>4. Wanted(Live(f)) # {} => f \in Kept({f})
  <2> SUFFICES ASSUME NEW row \in Live(f), Matches(row, query.filter, table.kinds)
               PROVE  ~CanPrune(f.rows, DOMAIN f.rows, f.columns, f.kinds, query.filter, table.kinds)
    BY DEF Wanted, Kept
  <2>1. PICK i \in DOMAIN f.rows : row = f.rows[i]
    BY <1>3
  <2>2. Plain(f.rows, DOMAIN f.rows, f.columns, f.kinds, table.kinds)
    BY <1>1 DEF Blocks
  <2>3. QED
    BY <1>2, <2>1, <2>2, PrunedBlockHasNoMatch
<1>5. ASSUME NEW skipped \in Plans(f) PROVE Wanted(Live(f)) \subseteq Delivered(f, skipped)
  <2>1. CASE skipped = {}
    BY <2>1 DEF Live, Wanted
  <2>2. CASE f.indexed /\ f.erased = {} /\ skipped \subseteq Skippable(f) \cup Absent(f)
    <3> SUFFICES ASSUME NEW row \in Live(f), Matches(row, query.filter, table.kinds)
                 PROVE  row \in Delivered(f, skipped)
      BY DEF Wanted
    <3>1. PICK i \in DOMAIN f.rows : row = f.rows[i]
      BY <1>3
    <3>2. GroupOf(i) \notin skipped
      <4> SUFFICES ASSUME GroupOf(i) \in skipped PROVE FALSE
        OBVIOUS
      <4>1. i \in Group(f.rows, GroupOf(i)) /\ Group(f.rows, GroupOf(i)) \subseteq DOMAIN f.rows
        BY DEF Group
      <4>2. \/ CanPrune(f.rows, Group(f.rows, GroupOf(i)), f.columns, f.kinds, query.filter, table.kinds)
            \/ DefinitelyAbsent(f.rows, Group(f.rows, GroupOf(i)), f.columns, query.filter, table.kinds)
        BY <2>2 DEF Skippable, Absent
      <4>3. Plain(f.rows, Group(f.rows, GroupOf(i)), f.columns, f.kinds, table.kinds)
        BY <1>1, <2>2, <4>1 DEF Blocks, GroupsOf
      <4>4. QED
        BY <1>2, <3>1, <4>1, <4>2, <4>3, PrunedBlockHasNoMatch
    <3>3. QED
      BY <2>2, <3>1, <3>2 DEF Delivered
  <2>3. skipped = {} \/ (f.indexed /\ f.erased = {} /\ skipped \subseteq Skippable(f) \cup Absent(f))
    BY DEF Plans
  <2>4. QED
    BY <2>1, <2>2, <2>3
<1>6. QED
  BY <1>4, <1>5

\* Pruning by bounds and by indexes loses no row of a file whose columns have
\* the type it was written in and hide no NaN, whatever the tables, the
\* filters and the size of the row groups (query/src/prune.rs:233).
THEOREM PruningIsSound == Spec => []PruneKeepsMatches
BY GivenStays, GivenKeepsMatches, PTL
=============================================================================
