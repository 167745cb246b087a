SPECIFICATION Spec
CONSTANTS
    Analyses = {a1, a2}
    Workers = {w1, w2}
    NoWorker = NoWorker
    NoAnalysis = NoAnalysis
    ThePair = ThePair
    Target <- MCTarget
    Faults <- Interruptions
    MaxFaults = 3
CHECK_DEADLOCK FALSE
SYMMETRY Symmetry
INVARIANTS TypeOK DistinctAttempts OneActivePerTarget
PROPERTY ImplementsLifecycle
