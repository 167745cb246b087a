SPECIFICATION FairSpec
CONSTANTS
    Analyses = {a1}
    Workers = {w1, w2}
    NoWorker = NoWorker
    NoAnalysis = NoAnalysis
    ThePair = ThePair
    Target <- MCTarget
    Faults = {"kill"}
    MaxFaults = 1
CHECK_DEADLOCK FALSE
PROPERTY EveryAnalysisEnds
