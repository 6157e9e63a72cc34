SPECIFICATION FairSpec
CONSTANTS
    t1 = t1  t2 = t2  h1 = h1
    None = None
    Turns <- TwoTurns
    Threads <- OneThread
    ThreadOf <- Shared
    Attributed <- First
    MaxSealed = 1
    MaxDeltas = 2
    MaxFaults = 2
INVARIANTS BrokerSound WholeReply
PROPERTIES TurnSettles
CHECK_DEADLOCK FALSE
