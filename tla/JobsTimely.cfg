SPECIFICATION Spec
CONSTANTS
    Analyses = {a1}
    Workers = {w1, w2, w3}
    NoWorker = NoWorker
    NoAnalysis = NoAnalysis
    ThePair = ThePair
    Target <- MCTarget
    Faults <- TimelyFaults
    MaxFaults = 2
CHECK_DEADLOCK FALSE
SYMMETRY Symmetry
INVARIANTS SingleRunner HeldJobIsListed
PROPERTY ResultIsFinal
