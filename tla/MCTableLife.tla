---------------------------- MODULE MCTableLife ----------------------------
(* Small instances of the life of a table for TLC: statements that create and
   drop, and schemas that change. *)
EXTENDS TableLife, TLC

CONSTANTS s1, s2, w1, w2, w3

VARIABLE mix

A == "a" :> "int"
Wide == "a" :> "float"
Texts == "a" :> "text"
AB == A @@ ("b" :> "int")

SmallRank == ("int" :> 3) @@ ("float" :> 4)
SmallShapes == {A, Wide, Texts, AB}

\* What may happen in a mix: who acts, with which schemas, and how often.
Mixes ==
    [lives    |-> [sessions |-> {s1, s2}, writers |-> {w1, w2}, shapes |-> {A}, ddls |-> 3,
                   alters |-> {}],
     again    |-> [sessions |-> {s1}, writers |-> {w1}, shapes |-> {A}, ddls |-> 4,
                   alters |-> {}],
     altered  |-> [sessions |-> {s1}, writers |-> {w1}, shapes |-> {A, Wide, AB}, ddls |-> 3,
                   alters |-> Alterations],
     widened  |-> [sessions |-> {s1}, writers |-> {w1, w2}, shapes |-> SmallShapes, ddls |-> 1,
                   alters |-> Alterations],
     chunks   |-> [sessions |-> {s1}, writers |-> {w1, w2, w3}, shapes |-> {A, AB}, ddls |-> 1,
                   alters |-> {}]]

InMix ==
    /\ UNCHANGED mix
    /\ ddls' <= Mixes[mix].ddls

MCInit == Init /\ mix \in DOMAIN Mixes

Session(s) ==
    \/ \E schema \in Mixes[mix].shapes : Create(s, schema) \/ CreateExisting(s, schema)
    \/ \E change \in Mixes[mix].alters : Alter(s, change)
    \/ Drop(s) \/ AlterApply(s) \/ AlterRefused(s) \/ LogDdl(s)

Writer(w) ==
    \/ \E columns \in Mixes[mix].shapes : BeginWrite(w, columns)
    \/ Judge(w) \/ Evolve(w) \/ EvolveConflict(w) \/ Update(w) \/ LogWrite(w)

MCNext ==
    \/ \E s \in Mixes[mix].sessions : Session(s) /\ InMix
    \/ \E w \in Mixes[mix].writers : Writer(w) /\ InMix
    \/ StoreStep /\ InMix
    \/ Crash /\ InMix
    \/ RestartStep /\ InMix

MCSpec == MCInit /\ [][MCNext]_<<vars, mix>>
=============================================================================
