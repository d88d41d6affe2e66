SPECIFICATION Spec
CONSTANTS
    r1 = r1  r2 = r2  i1 = i1  i2 = i2  a = a  b = b
    RunId = {r1, r2}
    Identity = {i1, i2}
    Payload = {a, b}
    Steps = 2
    NoContext = NoContext
    Relabel = FALSE
    MaxRuns = 3
    MaxKept = 2
INVARIANTS
    RecordsWereExecuted
    CompletedRunValidates
    OwnCheckpointAccepted
CHECK_DEADLOCK FALSE
SYMMETRY MCSymmetry
