SPECIFICATION Spec
CONSTANTS
    c1 = c1
    c2 = c2
    MaxAttempts = 3
    RuleLists <- OneRule
    MaxFindings = 1
    MaxEdits = 0
    MaxRaises = 0
    MaxDeaths = 1
    Overlap = FALSE
CHECK_DEADLOCK FALSE
INVARIANTS FindingsAreKept
