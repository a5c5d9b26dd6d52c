------------------------------ MODULE MCIngest ------------------------------
(* Small instances of the write path for TLC.  A behaviour has two writes, of
   every kind of pair: the same key twice, with and without a key, in one
   window and in two; or three, in one window or two. *)
EXTENDS Ingest

CONSTANTS b1, b2, b3, i1, i2, i3, i4, i5, i6, k1, ActiveMixes

VARIABLE active

OneTable == [t \in Tables |-> "public"]

SomeKeyed == [i \in Items |-> IF i \in {i1, i2} THEN k1 ELSE NoKey]
TwoWindows == [i \in Items |-> IF i = i4 THEN "w2" ELSE "w1"]

\* Of one window, without a key, and in the same mixes.
Alike == Permutations({i5, i6})

\* Which writes, in how many batches, what becomes of the catalog at a restart,
\* and how much may go wrong.  Only with three writes does the range of a batch
\* hold one that is not in it: of another group, or of a batch committed before.
Mix(items, batches, catalog, most) ==
    [items |-> items, batches |-> batches, catalog |-> catalog, most |-> most]

Mixes ==
    [retry    |-> Mix({i1, i2}, 2, BOOLEAN, [crashes |-> 1, faults |-> 1]),
     chunk    |-> Mix({i1, i3}, 2, BOOLEAN, [crashes |-> 1, faults |-> 1]),
     windows  |-> Mix({i3, i4}, 3, BOOLEAN, [crashes |-> 1, faults |-> 1]),
     straddle |-> Mix({i4, i5, i6}, 1, {FALSE}, [crashes |-> 1, faults |-> 0]),
     skipped  |-> Mix({i1, i5, i6}, 2, {FALSE}, [crashes |-> 1, faults |-> 0])]

Within(m) ==
    /\ \A i \in Items \ m.items : req'[i] = "idle"
    /\ Cardinality(Used') <= m.batches
    /\ crashes' <= m.most.crashes /\ faults' <= m.most.faults

InMix == Within(Mixes[active]) /\ UNCHANGED active

ASSUME MixAssumption == ActiveMixes \subseteq DOMAIN Mixes

MCInit == Init /\ active \in ActiveMixes /\ durable \in Mixes[active].catalog

MCNext ==
    \/ ClientStep /\ InMix
    \/ AccumulatorStep /\ InMix
    \/ FlushStep /\ InMix
    \/ ReclaimStep /\ InMix
    \/ MonitorStep /\ InMix
    \/ Crash /\ InMix
    \/ RecoveryStep /\ InMix

MCSpec == MCInit /\ [][MCNext]_<<vars, active>>
=============================================================================
