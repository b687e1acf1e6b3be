CONSTANTS
    None = None
    Submissions <- YearOnly
    Policies <- TwoPolicies
    Uses <- AllUses
    Today <- Now
    YearsValid = 1
    CertificatesAvailable = TRUE
    FacesAvailable = TRUE
    MaxAttempts = 1
SPECIFICATION PassSpec
INVARIANT
    ConfirmedOnHardEvidence
CHECK_DEADLOCK FALSE
