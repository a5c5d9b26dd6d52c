------------------------------ MODULE MCReads -------------------------------
(* A query, a store and a catalog for TLC.  Batches are numbers used in
   order; each behaviour has the changes of one mix. *)
EXTENDS Reads

VARIABLE mix

OneSchema == [t \in Tables |-> DefaultSchema]

\* arrive: the batches that come in as chunks, of the batches in all; home:
\* their tables; loop: whether the background loop runs besides the query.
OneTable == <<"t", "t", "t">>
Mixes ==
    [tables  |-> [home |-> <<"t", "u">>, arrive |-> 2, batches |-> 2, dvs |-> {}, loop |-> TRUE,
                  kinds |-> {"scan"}, tries |-> 1, faults |-> 0],
     races   |-> [home |-> OneTable, arrive |-> 1, batches |-> 1, dvs |-> {}, loop |-> TRUE,
                  kinds |-> {"scan", "aggregate"}, tries |-> 2, faults |-> 1],
     merges  |-> [home |-> OneTable, arrive |-> 2, batches |-> 3, dvs |-> {}, loop |-> FALSE,
                  kinds |-> {"scan", "aggregate"}, tries |-> 1, faults |-> 0],
     updates |-> [home |-> OneTable, arrive |-> 1, batches |-> 2, dvs |-> DvIds, loop |-> FALSE,
                  kinds |-> {"scan", "aggregate"}, tries |-> 1, faults |-> 0]]

Within(m) ==
    /\ DOMAIN chunks' \subseteq 1..m.arrive
    /\ DOMAIN content' \subseteq 1..m.batches
    /\ \A a \in DOMAIN content' : a > 1 => a - 1 \in DOMAIN content'
    /\ \A b \in DOMAIN chunks' : chunks'[b].table = m.home[b]
    /\ \A k \in DOMAIN deletions' : k[1] \in m.dvs
    /\ query'.pc # "none" =>
           query'.tries <= m.tries /\ query'.kind \in m.kinds /\ query'.table = "t"
    /\ work'["loop"] # AtRest => m.loop
    /\ faults' <= m.faults

InMix == Within(Mixes[mix]) /\ UNCHANGED mix

MCInit == ReadsInit /\ mix \in DOMAIN Mixes

MCNext ==
    \/ \E b \in Batches, t \in Tables : Absorb(b, t) /\ InMix
    \/ \E b \in Batches : ChunkStep(b) /\ InMix
    \/ DataNodeReclaims /\ InMix
    \/ Maintains /\ InMix
    \/ LoopBegins /\ InMix
    \/ \E r \in Refreshers : RefreshStep(r) /\ InMix
    \/ \E r \in Refreshers : RefreshFails(r) /\ InMix
    \/ QueryBegins /\ InMix
    \/ QueryStep /\ InMix

MCFairness ==
    /\ WF_readsVars(LoopBegins)
    /\ \A r \in Refreshers : WF_readsVars(RefreshStep(r))

MCSpec == MCInit /\ [][MCNext]_<<readsVars, mix>> /\ MCFairness
MCSafe == MCInit /\ [][MCNext]_<<readsVars, mix>>
=============================================================================
