SPECIFICATION FairSpec
CONSTANTS
    p1 = p1
    p2 = p2
    Probe <- TwoProbes
    Dependency <- TwoChecks
INVARIANTS
    TypeOK
    AnswerJustified
PROPERTIES
    OutageIsReported
    RecoveryIsReported
