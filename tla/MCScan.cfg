SPECIFICATION ScanSpec
CONSTANTS
    Dataset <- MCDataset
    Limits <- MCLimits
    Output = {"first", "second"}
    SimhashBits = 4
    SimhashBands = 2
    RowBatch = 3
    StageSize = 2
    CompareBatch = 2
    MaxCrashes = 2
    MaxEdits = 1
INVARIANTS
    CompleteScanIsExhaustive
    AuditsAgree
    CursorCoversNearPairs
PROPERTIES
    AuditEnds
CHECK_DEADLOCK FALSE
