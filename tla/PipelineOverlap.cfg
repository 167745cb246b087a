SPECIFICATION Spec
CONSTANTS
    c1 = c1
    c2 = c2
    MaxAttempts = 2
    RuleLists <- EditedRules
    MaxFindings = 1
    MaxEdits = 1
    MaxRaises = 0
    MaxDeaths = 0
    Overlap = TRUE
CHECK_DEADLOCK FALSE
INVARIANTS PlanIsReviewed CountsAreStored
