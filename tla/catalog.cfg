SPECIFICATION MCSpec
CONSTANTS
    b1 = b1
    b2 = b2
    b3 = b3
    d1 = d1
    d2 = d2
    t1 = t1
    t2 = t2
    NoBatch = NoBatch
    NoHolder = NoHolder
    Purposes = {"compaction"}
    Holders = {"h1"}
    Namespaces = {"public", "app"}
    DefaultSchema = "public"
    Tables <- TwoTables
    NamespaceOf <- TwoNamespaces
    Shards = {"s0", "s1"}
    Batches <- ThreeBatches
    DvIds <- TwoStatements
    Keys = {"k1", "k2"}
    PurgeIds = {"p1"}
    Nodes = {"n1"}
    Addresses = {"a1", "a2"}
    TaskFiles = 2
    DvMinCard = 1
    DvRatioDen = 2
    RowCounts = {2}
    Cards = {1}
    Times = {0, 1}
    TTL = 1
    MaxSnapshot = 5
    MaxEpoch = 1
    MaxSchemaVer = 8
SYMMETRY NameSymmetry
INVARIANTS VectorsHideRows WindowsInOrder TasksUpToDate
PROPERTIES SnapshotIsolation ChangesAreAnnounced KeysStayCommitted
CHECK_DEADLOCK FALSE
