SPECIFICATION MCSpec
CONSTANTS
    b1 = b1
    b2 = b2
    b3 = b3
    i1 = i1
    i2 = i2
    i3 = i3
    i4 = i4
    i5 = i5
    i6 = i6
    k1 = k1
    NoBatch = NoBatch
    NoHolder = NoHolder
    NoKey = NoKey
    Purposes = {}
    Holders = {}
    Namespaces = {"public"}
    DefaultSchema = "public"
    Tables = {"t"}
    NamespaceOf <- OneTable
    Shards = {"s0"}
    Keys = {k1}
    PurgeIds = {}
    Nodes = {}
    Addresses = {}
    DvIds = {}
    Batches = {b1, b2, b3}
    TaskFiles = 9
    DvMinCard = 1
    DvRatioDen = 2
    Items = {i1, i2, i3, i4, i5, i6}
    KeyOf <- SomeKeyed
    GroupOf <- TwoWindows
    SegmentSize = 2
    MaxCrashes = 1
    MaxFaults = 1
    ActiveMixes = {"retry", "chunk", "windows", "straddle", "skipped"}
SYMMETRY Alike
INVARIANTS KeyedOnce ReadOnce AckedKeptUnlessDropped
CHECK_DEADLOCK FALSE
