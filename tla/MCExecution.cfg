SPECIFICATION ReviewSpec
CONSTANTS
    e1 = e1  e2 = e2  dp = dp  one = one  two = two
    Attempt = {e1, e2}
    StagingDir = {dp}
    WorkDir <- MCWorkDir
    Authorized = {e1, e2}
    Steps = 3
    Readiness = 2
    MaxEdits = 1
    MaxFaults = 2
    Inspector = {one, two}
    NoDir = NoDir
INVARIANTS
    ReceiptTellsTheRun
    AuthorizationConsumedOnce
    AcceptedIsComplete
    CompletionIsNotContradicted
    EndedIsClassified
CHECK_DEADLOCK FALSE
SYMMETRY MCSymmetry
