SPECIFICATION FairSpec
CONSTANTS
    q1 = q1
    q2 = q2
    q3 = q3
    q4 = q4
    Nobody = Nobody
    Request <- ThreeRequests
    Route <- KindsOfRoutes
    Threads = 1
    PoolSize = 1
    MaxRedis = 1
INVARIANTS
    TypeOK
    NothingLeaks
    StandsOnlyForDatabase
PROPERTIES
    EveryRequestEnds
    LivezAnsweredUnlessHeldUp
CHECK_DEADLOCK FALSE
