SPECIFICATION MCSpec
CONSTANTS
    NoBatch = NoBatch
    NoHolder = NoHolder
    NoFile = NoFile
    Purposes = {"compaction"}
    Holders = {"h1"}
    Namespaces = {"public"}
    DefaultSchema = "public"
    Tables = {"t"}
    NamespaceOf <- OneSchema
    Shards = {"s0"}
    Batches = {1, 2, 3}
    DvIds = {"d1"}
    Keys = {"k1"}
    PurgeIds = {}
    Nodes = {}
    Addresses = {}
    TaskFiles = 9
    DvMinCard = 9
    DvRatioDen = 1
    Collectors = {"g1", "g2"}
    Queries = {"q1"}
    Grace = 2
    TTL = 2
    Table = "t"
    Shard = "s0"
    MaxFaults = 1
INVARIANTS NoDanglingFile ReadersHaveGrace VectorsAreThere
PROPERTIES GarbageGoes
CHECK_DEADLOCK FALSE
