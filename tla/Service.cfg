CONSTANTS
    a = a
    b = b
    c3 = c3
    p = p
    retry = retry
    NoKey = NoKey
    Nobody = Nobody
    Documents = {a, b}
    PassCalls = {p}
    Request <- DuplicateCalls
    Ledgers <- AgedLedgers
    ImageStorage = "review_only"
    Workers = 2
    DeviceManyIdentities = 3
    MaxOperations = 2
    MaxCrashes = 1
SPECIFICATION Spec
INVARIANTS
    TypeOK
    FoundConflictMarksBoth
    FlaggedPassIsDead
    VerifiedIsEarned
    HumanDecisionStands
    KeptImagesAwaitReview
    DecisionAnnounced
    AuditComplete
    ErasedLeavesNothing
PROPERTIES
    PassVerifiesOnlyWhileLive
    KeepsRecord
CHECK_DEADLOCK FALSE
