SPECIFICATION GateSpec
CONSTANTS
    h1 = h1
    h2 = h2
    h3 = h3
    NoHolder = NoHolder
    Holders <- TwoHolders
    Purposes = {"gc"}
    Job = "gc"
    LeaseTTL = 2
    MaxSkew = 1
    MaxLate = 1
    MaxClock = 4
    MaxLeaseEpoch = 3
SYMMETRY HolderSymmetry
INVARIANTS GrantsUnique LeaseExclusive
CHECK_DEADLOCK FALSE
