SPECIFICATION Spec
CONSTANTS
    w1 = w1
    w2 = w2
    Worker <- TwoWorkers
    Versions = 2
    MaxCommands = 2
    MaxFaults = 0
PROPERTY
    DeployStartsStack
