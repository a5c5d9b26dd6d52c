------------------------------- MODULE MCWal -------------------------------
(***************************************************************************)
(* Four records; the second is long enough to tear into a piece longer     *)
(* than the others, the last belongs to a table that is not archived.      *)
(***************************************************************************)
EXTENDS Wal

Sizes == [r \in 1..NumRecs |-> IF r = 2 THEN 3 ELSE 1]
Archived == 1..3
=============================================================================
