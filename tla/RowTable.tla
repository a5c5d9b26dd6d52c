------------------------------ MODULE RowTable ------------------------------
(***************************************************************************)
(* What a table promises its readers: a set of rows, each a key and a      *)
(* version, in which an insert happens at one instant, a DELETE or an      *)
(* UPDATE happens at one instant after it was asked for and once at most,  *)
(* and nothing else changes anything.                                      *)
(***************************************************************************)
EXTENDS Naturals

CONSTANTS
    RowKeys,
    Statements,
    Updates        \* the statements that are UPDATEs; the rest are DELETEs

VARIABLES
    rows,
    asked          \* asked[d]: what d was asked to do, until it is settled

NotAsked == [stage |-> "no"]
AskedFor(k) == [stage |-> "asked", key |-> k]
Settled == [stage |-> "settled"]

KeysOf(S) == {row[1] : row \in S}

Insert(K) ==
    /\ K \cap KeysOf(rows) = {}
    /\ rows' = rows \cup (K \X {0})
    /\ asked' = asked

Ask(d, k) ==
    /\ asked[d] = NotAsked
    /\ asked' = [asked EXCEPT ![d] = AskedFor(k)]
    /\ rows' = rows

Asked(d) == asked[d].stage = "asked"

Outcome(d, row) == IF d \in Updates THEN {<<row[1], row[2] + 1>>} ELSE {}

Execute(d) ==
    /\ Asked(d)
    /\ rows' = UNION {IF row[1] = asked[d].key THEN Outcome(d, row) ELSE {row} : row \in rows}
    /\ asked' = [asked EXCEPT ![d] = Settled]

\* Refused, nothing to do, or lost in a crash, several at a time.
GiveUp(D) ==
    /\ \A d \in D : Asked(d)
    /\ asked' = [d \in Statements |-> IF d \in D THEN Settled ELSE asked[d]]
    /\ rows' = rows

Init == rows = {} /\ asked = [d \in Statements |-> NotAsked]

Next ==
    \/ \E K \in SUBSET RowKeys : Insert(K)
    \/ \E d \in Statements : Execute(d) \/ \E k \in RowKeys : Ask(d, k)
    \/ \E D \in SUBSET Statements : GiveUp(D)

Spec == Init /\ [][Next]_<<rows, asked>>
=============================================================================
