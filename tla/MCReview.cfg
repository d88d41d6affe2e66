SPECIFICATION ReviewSpec
CONSTANTS
    p1 = p1  q1 = q1  one = one  two = two
    dp = dp  dq = dq
    Attempt = {p1, q1}
    AuditDir = {dp, dq}
    WorkDir <- MCWorkDir
    Authorized = {p1, q1}
    Exact = exact
    Reformatted = {reformatted}
    Malformed = {}
    NoBytes = NoBytes
    MaxEdits = 1
    MaxFaults = 2
    Inspector = {one, two}
    NoDir = NoDir
    MaxBundles = 1
INVARIANTS
    CompletedReportIsSound
    FailedReportIsFinal
    PartialReportIsSound
    ReportsAgree
    ArtifactClosedOnce
    CompletedVerdictIsStable
CONSTRAINT MCFocus
CHECK_DEADLOCK FALSE
SYMMETRY MCSymmetry
