CONSTANTS
    None = None
    ThisYear = 2026
    Fields <- MCFields
    SignatureBytes = 2
    HashBytes = 1
    MinBody = 4
    Photographs <- MCPhotographs
    Certificates <- MCCertificates
    Issued <- MCIssued
    TextractQueries = TRUE
SPECIFICATION ReadingSpec
INVARIANTS
    FieldsHaveEvidence
    SignedQrIsFaithful
CHECK_DEADLOCK FALSE
