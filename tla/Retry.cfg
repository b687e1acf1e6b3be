CONSTANTS
    a = a
    b = b
    c3 = c3
    p = p
    retry = retry
    NoKey = NoKey
    Nobody = Nobody
    Documents = {a, b}
    PassCalls = {p}
    Request <- RetryCalls
    Ledgers <- CleanLedgers
    ImageStorage = "none"
    Workers = 2
    DeviceManyIdentities = 1
    MaxOperations = 0
    MaxCrashes = 1
SPECIFICATION FairSpec
INVARIANTS
    OneVerificationPerKey
PROPERTY
    EveryJobEnds
CHECK_DEADLOCK FALSE
