SPECIFICATION FairSpec
CONSTANTS
    c1 = c1
    c2 = c2
    MaxAttempts = 3
    RuleLists <- EditedRules
    MaxFindings = 1
    MaxEdits = 1
    MaxRaises = 3
    MaxDeaths = 2
    Overlap = FALSE
CHECK_DEADLOCK FALSE
INVARIANTS TypeOK NoDuplicateFindings
PROPERTIES ImplementsReview AnalysisEnds
