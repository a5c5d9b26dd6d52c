--------------------------- MODULE MCMaintenance ---------------------------
(* Small instances of maintenance on one shard for TLC. *)
EXTENDS Maintenance, TLC

CONSTANTS b1, b2, b3, b4, b5, b6, r1, r2, r3, d1, d2, d3, c1, c2

OneTable == [t \in Tables |-> "public"]
Everybody == Compactors \cup DvIds
=============================================================================
