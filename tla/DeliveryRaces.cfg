SPECIFICATION FairSpec
CONSTANTS
    Workers = {w1, w2}
    Requests = {r1, r2}
    Requester = Requester
    Colleague = Colleague
    Visitors = {r2}
    To <- MCTo
    MaxTries = 2
    MaxLost = 1
    MaxStops = 1
CHECK_DEADLOCK FALSE
INVARIANTS TypeOK ReportIsStored OneAutomaticMail SentIsMailed
PROPERTY EverythingSettles
