SPECIFICATION MCSpec
CONSTANTS
    NoBatch = NoBatch
    NoHolder = NoHolder
    Purposes = {"compaction"}
    Holders = {"h1"}
    Namespaces = {"public"}
    DefaultSchema = "public"
    Tables <- TwoTables
    NamespaceOf <- OneSchema
    Shards = {"s0"}
    Batches = {1, 2, 3}
    DvIds = {"d1"}
    Keys = {}
    PurgeIds = {}
    Nodes = {"n1"}
    Addresses = {"a1"}
    TaskFiles = 2
    DvMinCard = 1
    DvRatioDen = 2
    Refreshers = {"r1", "r2"}
    Retention = 2
    MaxSchema = 3
    MaxManifest = 3
    MaxFaults = 1
    MetaNodes = 2
INVARIANTS CacheFaithful AnsweredOnce
PROPERTIES HistoryStands CatchesUp
CHECK_DEADLOCK FALSE
