CONSTANTS
    s1 = s1
    s2 = s2
    h1 = h1
    h2 = h2
    None = None
    Sessions = {s1, s2}
    Processes = {h1, h2}
    Residents <- SomeResidents
    Policies <- AllRules
    FirstPolicies <- OnlyMinors
    EventAhead = TRUE
    MaxPresentations = 1
    MaxVerifications = 2
    MaxPublished = 1
SYMMETRY Processes12
SPECIFICATION Spec
INVARIANTS
    AcceptedAnswerStands
    ClosedByItsOwn
    AppVerifiedIsOfAge
    AppRejectsOutOfRange
    SharedMinorIsMarked
CHECK_DEADLOCK FALSE
