CONSTANTS
    a = a
    b = b
    c3 = c3
    p = p
    retry = retry
    NoKey = NoKey
    Nobody = Nobody
    Documents = {a, c3}
    PassCalls = {}
    Request <- DuplicateCalls
    Ledgers <- CleanLedgers
    ImageStorage = "review_only"
    Workers = 2
    DeviceManyIdentities = 3
    MaxOperations = 0
    MaxCrashes = 0
SPECIFICATION Spec
INVARIANT
    ConflictFlaggedOnBothSides
CHECK_DEADLOCK FALSE
