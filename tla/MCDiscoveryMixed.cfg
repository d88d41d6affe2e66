SPECIFICATION IterationSpec
CONSTANTS
    r1 = r1
    r2 = r2
    r3 = r3
    r4 = r4
    r5 = r5
    k1 = k1
    k2 = k2
    d1 = d1
    c1 = c1
    c2 = c2
    w1 = w1
    w2 = w2
    Client = {c1, c2}
    Candidate = {k1, k2}
    Discovery = {d1}
    Predecessor <- MCPredecessor
    MaxEntries = 2
    Worker = {w1, w2}
    Partitions <- MCPartitions
    Identities <- MCIdentities
    SourceIdentity = "source"
    BatchSize = 2
    MaxFaults = 2
    Plan = {k1, k2}
    Output = {o1}
INVARIANT CanonicalRunsAreFrozen
SYMMETRY Symmetry
CONSTRAINT MCFocus
CHECK_DEADLOCK FALSE
