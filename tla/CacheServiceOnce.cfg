SPECIFICATION FairSpec
CONSTANTS
    t1 = t1
    t2 = t2
    t3 = t3
    s1 = s1
    s2 = s2
    NoValue = NoValue
    Task <- ThreeTasks
    Service <- OneService
    Assign <- Shared
    MaxChanges = 2
    NullVersions = {1}
INVARIANTS
    TypeOK
    LoadsJustified
PROPERTIES
    QueueServed
    StaleExpires
