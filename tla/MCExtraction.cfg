SPECIFICATION ExtractionSpec
CONSTANTS
    r1 = r1
    r2 = r2
    r3 = r3
    w1 = w1
    w2 = w2
    o1 = o1
    o2 = o2
    b1 = b1
    b2 = b2
    g1 = g1
    g2 = g2
    Worker = {w1, w2}
    Dir = {o1, o2}
    Db = {b1, b2}
    Splits <- MCSplits
    Setup <- MCSetup
    Grade = {g1, g2}
    Machine <- MCMachine
    RequiredDevice = "cuda"
    MaxRuns = 3
    MaxFaults = 2
INVARIANTS
    FreshRunsRecompute
    ReuseKeepsFrozenBatches
    CheckpointIsReproduced
SYMMETRY MCSymmetry
CONSTRAINT MCFocus
CHECK_DEADLOCK FALSE
