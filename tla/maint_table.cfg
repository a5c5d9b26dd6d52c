SPECIFICATION MCSpec
CONSTANTS
    b1 = b1
    b2 = b2
    b3 = b3
    b4 = b4
    b5 = b5
    b6 = b6
    r1 = r1
    r2 = r2
    r3 = r3
    d1 = d1
    d2 = d2
    d3 = d3
    c1 = c1
    c2 = c2
    NoBatch = NoBatch
    NoHolder = NoHolder
    Purposes = {"dml", "task", "compaction"}
    Holders <- Everybody
    Namespaces = {"public"}
    DefaultSchema = "public"
    Tables = {"t"}
    NamespaceOf <- OneTable
    Shards = {"s0"}
    Keys = {}
    PurgeIds = {}
    Nodes = {}
    Addresses = {}
    Compactors = {c1, c2}
    DvIds = {d1, d2, d3}
    Updates = {d2, d3}
    Batches = {b1, b2, b3, b4, b5, b6}
    RowKeys = {r1, r2, r3}
    MinFiles = 2
    DmlTTL = 1
    TaskTTL = 1
    MaxRounds = 6
    MaxBusy = 2
    MaxClock = 1
    MaxRestarts = 1
    MaxCompactorCrashes = 1
    TaskFiles = 2
    DvMinCard = 1
    DvRatioDen = 2
INVARIANTS RowOnceUntilOvertaken UntouchedRowsOnce
PROPERTIES TableApart DueShardsGetMerged AcceptedHides
CHECK_DEADLOCK FALSE
