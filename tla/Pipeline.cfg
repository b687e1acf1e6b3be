CONSTANTS
    None = None
    Submissions <- AllSubmissions
    Policies <- AllPolicies
    Uses <- AllUses
    Today <- Now
    YearsValid = 1
    CertificatesAvailable = TRUE
    FacesAvailable = TRUE
    MaxAttempts = 2
SPECIFICATION PassSpec
INVARIANTS
    HonestNeverRejected
    VerifiedIsOfAge
    BrokenCheckNeverVerifies
    PresentIsLive
    VerifiedDatesAgree
    QrIsAskedForOnce
    StudentOnTheDay
    PassAddsNothing
CHECK_DEADLOCK FALSE
