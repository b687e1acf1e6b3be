CONSTANTS
    s1 = s1
    s2 = s2
    h1 = h1
    h2 = h2
    None = None
    Sessions = {s1}
    Processes = {h1}
    Residents <- Grandparent
    Policies <- OnlySeniors
    FirstPolicies <- OnlySeniors
    EventAhead = TRUE
    MaxPresentations = 1
    MaxVerifications = 1
    MaxPublished = 0
SPECIFICATION Spec
INVARIANT
    AskedIsEnough
CHECK_DEADLOCK FALSE
