SPECIFICATION Spec
CONSTANTS
    p = p  q = q  r = r
    fork = fork  lineage = lineage  src = src
    Repository = {p, q, r}
    Role <- MCRole
    Candidate = {fork, lineage}
    Ends <- MCEnds
    Rule <- MCRule
    Source = {src}
    SourceOf <- MCSourceOf
    Run = {one, two}
    Identity = {old, new}
    Bundle <- MCBundle
    NoPlan = NoPlan
    MaxStops = 2
INVARIANTS
    PhasesHaveTheirRows
    PacketsAgree
    ReplayIsAccepted
    BundleDecides
CHECK_DEADLOCK FALSE
SYMMETRY MCSymmetry
