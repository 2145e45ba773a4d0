SPECIFICATION Spec
CONSTANTS
    w1 = w1
    w2 = w2
    Worker <- TwoWorkers
    Versions = 2
    MaxCommands = 6
    MaxFaults = 2
INVARIANTS
    TypeOK
    MigratedBeforeServed
PROPERTIES
    DeployFits
    WorkersServe
