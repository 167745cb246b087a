SPECIFICATION Spec
CONSTANTS
    Analyses = {a1}
    Workers = {w1}
    NoWorker = NoWorker
    NoAnalysis = NoAnalysis
    ThePair = ThePair
    Target <- MCTarget
    Faults = {"raise"}
    MaxFaults = 0
CHECK_DEADLOCK FALSE
PROPERTY DroppedJobsAreTaken
