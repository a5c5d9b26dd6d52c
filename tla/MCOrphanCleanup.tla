-------------------------- MODULE MCOrphanCleanup ---------------------------
(* Small instances of the collector and the writers for TLC, in both
   deployments.  Batches are numbers used in order.  One behaviour has flushes
   and merges, perhaps under a query, or flushes and a statement. *)
EXTENDS OrphanCleanup

VARIABLE mix

OneSchema == [t \in Tables |-> DefaultSchema]

Mix(flushes, merges, dvs, news) ==
    [gcs |-> {"g1"}, flushes |-> flushes, merges |-> merges, keys |-> {}, dvs |-> dvs,
     news |-> news, queries |-> {}, faults |-> 0]

InProcess ==
    [query  |-> [Mix({1}, {2}, {}, {}) EXCEPT !.queries = Queries, !.faults = 1],
     delete |-> [Mix({1}, {2}, DvIds, {}) EXCEPT !.queries = Queries],
     update |-> [Mix({1}, {}, DvIds, {2}) EXCEPT !.faults = 1],
     refuse |-> Mix({1}, {2, 3}, {}, {}),
     repeat |-> [Mix({1, 2}, {}, {}, {}) EXCEPT !.keys = Keys]]

AtMetanodes ==
    [merge  |-> [Mix({1}, {2}, {}, {}) EXCEPT !.faults = 1],
     two    |-> [Mix({1}, {}, {}, {}) EXCEPT !.gcs = Collectors],
     delete |-> [Mix({1}, {}, DvIds, {}) EXCEPT !.faults = 1],
     update |-> Mix({1}, {}, DvIds, {2}),
     repeat |-> [Mix({1, 2}, {}, {}, {}) EXCEPT !.keys = Keys]]

Mixes == IF metanode THEN AtMetanodes ELSE InProcess

Begun == {b \in Batches : job[b] # Idle} \cup (NewFiles \ {NoFile})

Within(m) ==
    /\ \A b \in Begun', a \in Batches : a < b => a \in Begun'
    /\ \A b \in Batches : job'[b].at = "pending" =>
           /\ b \in (IF job'[b].inputs = {} THEN m.flushes ELSE m.merges)
           /\ job'[b].keys = m.keys
    /\ \A g \in Collectors : round'[g] # Idle => g \in m.gcs
    /\ Started' \subseteq m.dvs
    /\ NewFiles' \subseteq m.news \cup {NoFile}
    /\ faults' <= m.faults
    /\ \A q \in Queries : query'[q] # Idle => q \in m.queries

InMix == Within(Mixes[mix]) /\ UNCHANGED <<metanode, mix>>

MCInit == Init /\ mix \in DOMAIN Mixes

MCNext ==
    \/ WriterStep /\ InMix
    \/ StatementStep /\ InMix
    \/ Sweep /\ InMix
    \/ \E g \in Collectors : RoundStep(g) /\ InMix
    \/ \E g \in Collectors : RefusedStep(g) /\ InMix
    \/ \E g \in Collectors : AbandonRound(g) /\ InMix
    \/ \E g \in Collectors : RestartCollector(g) /\ InMix
    \/ \E q \in Queries : BeginQuery(q) /\ InMix
    \/ Tick /\ InMix

\* The rounds of the collectors of the mix.
MCFairness ==
    /\ WF_vars(Tick)
    /\ WF_vars(Sweep)
    /\ \A g \in Collectors : WF_vars(g \in Mixes[mix].gcs /\ RoundStep(g))

MCSpec == MCInit /\ [][MCNext]_<<vars, metanode, mix>> /\ MCFairness
=============================================================================
