SPECIFICATION Spec
CONSTANTS
    p1 = p1  p2 = p2  q1 = q1
    dp = dp  dq = dq
    Attempt = {p1, p2, q1}
    AuditDir = {dp, dq}
    WorkDir <- MCWorkDir
    Authorized = {p1, p2, q1}
    Exact = exact
    Reformatted = {reformatted}
    Malformed = {malformed}
    NoBytes = NoBytes
    MaxEdits = 1
    MaxFaults = 2
INVARIANTS
    EvidenceHasOneAuthor
    ClaimPrecedesArtifact
    ReceiptIsTruthful
    FailureNeverOverclaims
PROPERTIES
    ImplementsOneShot
CHECK_DEADLOCK FALSE
SYMMETRY MCSymmetry
