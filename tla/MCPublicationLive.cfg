\* p1 and q1 race for the destination; the authorization of p2 is withheld.
SPECIFICATION FairSpec
CONSTANTS
    p1 = p1  p2 = p2  q1 = q1
    dp = dp  dq = dq
    Attempt = {p1, p2, q1}
    AuditDir = {dp, dq}
    WorkDir <- MCWorkDir
    Authorized = {p1, q1}
    Exact = exact
    Reformatted = {}
    Malformed = {malformed}
    NoBytes = NoBytes
    MaxEdits = 1
    MaxFaults = 1
PROPERTIES
    ConsumedThenConcluded
    SomeAttemptCompletes
CHECK_DEADLOCK FALSE
