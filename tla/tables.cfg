SPECIFICATION MCSpec
CONSTANTS
    s1 = s1
    s2 = s2
    w1 = w1
    w2 = w2
    w3 = w3
    Sessions = {s1, s2}
    Writers = {w1, w2, w3}
    Columns = {"a", "b"}
    Types = {"int", "float", "text"}
    Rank <- SmallRank
    Shapes <- SmallShapes
    MaxDdl = 4
    MaxCrashes = 1
INVARIANTS LivenessFollowsLog DroppedStaysDropped AnsweredKept FoundWhole
PROPERTIES ReplayRebuilds
CHECK_DEADLOCK FALSE
