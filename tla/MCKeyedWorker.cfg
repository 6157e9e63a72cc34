SPECIFICATION FairSpec
CONSTANTS
    k1 = k1  k2 = k2
    j1 = j1  j2 = j2  j3 = j3  j4 = j4
    d1 = d1
    NoJob = NoJob
    Keys <- MCKeys
    Jobs <- MCJobs
    KeyOf <- MCKeyOf
    Drains <- MCDrains
    MaxPendingPerKey = 2
    MaxPendingTotal = 3
INVARIANTS TypeOK OneAtATime DrainSeesAll
PROPERTIES ImplementsFifo AcceptedSettles
CHECK_DEADLOCK FALSE
