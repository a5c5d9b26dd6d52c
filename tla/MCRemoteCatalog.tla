-------------------------- MODULE MCRemoteCatalog ---------------------------
(* A metadata client for TLC.  Batches are numbers used in order, and tables
   are first created in order: names are interchangeable otherwise.  One
   behaviour has one refresh at a time and more changes, or two and fewer, or
   a write of its own with its repetitions. *)
EXTENDS RemoteWrites

VARIABLE mix

TwoTables == 1..2
OneSchema == [t \in Tables |-> DefaultSchema]

Mixes ==
    [again   |-> [refreshers |-> {"r1"}, tables |-> {1}, batches |-> 1..2, dvs |-> {},
                  nodes |-> {}, schema |-> 3, manifest |-> 3, faults |-> 1, kinds |-> {}],
     merges  |-> [refreshers |-> {"r1"}, tables |-> {1}, batches |-> 1..3, dvs |-> {},
                  nodes |-> {}, schema |-> 1, manifest |-> 3, faults |-> 1, kinds |-> {}],
     deletes |-> [refreshers |-> {"r1"}, tables |-> {1}, batches |-> 1..2, dvs |-> DvIds,
                  nodes |-> Nodes, schema |-> 3, manifest |-> 2, faults |-> 0, kinds |-> {}],
     tables  |-> [refreshers |-> {"r1"}, tables |-> 1..2, batches |-> 1..2, dvs |-> {},
                  nodes |-> {}, schema |-> 2, manifest |-> 2, faults |-> 1, kinds |-> {}],
     overlap |-> [refreshers |-> {"r1", "r2"}, tables |-> {1}, batches |-> {1}, dvs |-> {},
                  nodes |-> {}, schema |-> 2, manifest |-> 2, faults |-> 0, kinds |-> {}],
     repeats |-> [refreshers |-> {"r1"}, tables |-> {1}, batches |-> 1..2, dvs |-> {},
                  nodes |-> {}, schema |-> 2, manifest |-> 2, faults |-> 1,
                  kinds |-> {"evolve", "commit"}],
     names   |-> [refreshers |-> {"r1"}, tables |-> {1}, batches |-> {}, dvs |-> {},
                  nodes |-> {}, schema |-> 3, manifest |-> 1, faults |-> 1,
                  kinds |-> {"create", "drop"}],
     folds   |-> [refreshers |-> {"r1"}, tables |-> {1}, batches |-> 1..2, dvs |-> DvIds,
                  nodes |-> {}, schema |-> 3, manifest |-> 2, faults |-> 1,
                  kinds |-> {"delete", "merge"}]]

Used == UNION {{x[2] : x \in past[s]} : s \in DOMAIN past}
            \cup (IF write = NoWrite THEN {} ELSE {write.op.new} \ {NoBatch})
Created == dropped \cup DOMAIN tables

Within(m) ==
    /\ \A r \in Refreshers : r \in m.refreshers \/ work'[r] = Idle
    /\ schema_ver' <= m.schema
    /\ manifest_ver' <= m.manifest
    /\ DOMAIN tables' \subseteq m.tables
    /\ DOMAIN datanodes' \subseteq m.nodes
    /\ \A k \in DOMAIN deletions' : k[1] \in m.dvs
    /\ Used' \subseteq m.batches
    /\ faults' <= m.faults
    /\ write' # NoWrite => write'.op.kind \in m.kinds
    /\ \A b \in Used', a \in Batches : a < b => a \in Used'
    /\ \A t \in Created', a \in Tables : a < t => a \in Created'

MCInit == WritesInit /\ mix \in DOMAIN Mixes
InMix == Within(Mixes[mix]) /\ UNCHANGED mix

MCNext ==
    \/ OthersAct /\ InMix
    \/ Follow /\ UNCHANGED write /\ InMix
    \/ \E r \in Refreshers : RefreshStep(r) /\ InMix
    \/ \E r \in Refreshers : FailsIn(r) /\ InMix
    \/ RestartsIn /\ InMix
    \/ AsksFor /\ InMix
    \/ WriteStep /\ InMix
    \/ \E r \in Refreshers : Refreshes(r) /\ InMix

MCFairness ==
    /\ WF_vars(Follow)
    /\ \A r \in Refreshers :
           WF_vars(r \in Mixes[mix].refreshers /\ Begin(r))
           /\ WF_vars(Answered(r)) /\ WF_vars(Apply(r))

MCSpec == MCInit /\ [][MCNext]_<<writeVars, mix>> /\ MCFairness
=============================================================================
