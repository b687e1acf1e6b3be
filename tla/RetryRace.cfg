CONSTANTS
    a = a
    b = b
    c3 = c3
    p = p
    retry = retry
    NoKey = NoKey
    Nobody = Nobody
    Documents = {a, b}
    PassCalls = {}
    Request <- RetryCalls
    Ledgers <- CleanLedgers
    ImageStorage = "review_only"
    Workers = 2
    DeviceManyIdentities = 3
    MaxOperations = 0
    MaxCrashes = 0
SPECIFICATION Spec
INVARIANT
    RetryIsSafe
CHECK_DEADLOCK FALSE
