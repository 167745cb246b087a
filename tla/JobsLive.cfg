SPECIFICATION FairSpec
CONSTANTS
    Analyses = {a1, a2}
    Workers = {w1, w2}
    NoWorker = NoWorker
    NoAnalysis = NoAnalysis
    ThePair = ThePair
    Target <- MCTarget
    Faults <- LiveFaults
    MaxFaults = 1
CHECK_DEADLOCK FALSE
PROPERTY AnalysesEndOrStrand
