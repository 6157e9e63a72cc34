SPECIFICATION FairSpec
CONSTANTS
    r1 = r1
    None = None
    Resources <- OneResource
    Types <- AllTypes
    Foreign = 1
    Limit = 2
    MaxIntents = 2
    MaxCrashes = 1
INVARIANTS DrainSound LatestShows
PROPERTIES IntentsSettle
CHECK_DEADLOCK FALSE
