SPECIFICATION FairSpec
CONSTANTS
    c1 = c1
    a = a
    w1 = w1  w2 = w2
    None = None
    Callers <- OneCaller
    Contents <- OneContent
    Workers <- TwoWorkers
    MaxRequests = 2
    MaxWindow = 2
    MaxLive = 2
INVARIANTS OwnersHold ExecutedOnce AnswersHold
PROPERTIES OpenSettles
CHECK_DEADLOCK FALSE
