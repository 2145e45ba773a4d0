SPECIFICATION Spec
CONSTANTS
    t1 = t1
    t2 = t2
    t3 = t3
    s1 = s1
    s2 = s2
    NoValue = NoValue
    Task <- TwoTasks
    Service <- TwoServices
    Assign <- PerRequest
    MaxChanges = 0
    NullVersions = {}
INVARIANTS
    OneLoadPerProcess
