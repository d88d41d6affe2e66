SPECIFICATION EvaluationSpec
CONSTANTS
    Worker = {w1, w2}
    w1 = w1
    w2 = w2
    Order = {o1, o2}
    o1 = o1
    o2 = o2
    Labels = {l1, l2, l3}
    l1 = l1
    l2 = l2
    l3 = l3
    Scale <- MCScale
    Oracle <- MCOracle
    Selected <- MCSelected
    Unread = Unread
    MaxRuns <- MCMaxRuns
    MaxEdits = 2
    MaxDeaths = 1
SYMMETRY MCSymmetry
CONSTRAINT MCFocus
INVARIANTS
    VerifiedScoresRestOnFrozenInputs
    VerifiedScoresMatchTheirRows
    OutputsAreOfOneRun
CHECK_DEADLOCK FALSE
