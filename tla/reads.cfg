SPECIFICATION MCSpec
CONSTANTS
    NoBatch = NoBatch
    NoHolder = NoHolder
    Purposes = {"compaction"}
    Holders = {"h1"}
    Namespaces = {"public"}
    DefaultSchema = "public"
    Tables = {"t", "u"}
    NamespaceOf <- OneSchema
    Shards = {"s0"}
    Batches = {1, 2, 3}
    DvIds = {"d1"}
    Keys = {}
    PurgeIds = {}
    Nodes = {}
    Addresses = {}
    TaskFiles = 2
    DvMinCard = 1
    DvRatioDen = 2
    MaxTries = 2
    MaxSchema = 3
    MaxManifest = 4
    MaxFaults = 1
INVARIANTS AnswerExact NothingFallsBetween
PROPERTIES CopyCatchesUp
CHECK_DEADLOCK FALSE
