SPECIFICATION Spec
CONSTANTS
    u1 = u1
    u2 = u2
    t1 = t1
    t2 = t2
    t3 = t3
    q1 = q1
    q2 = q2
    q3 = q3
    q4 = q4
    NoUser = NoUser
    NoToken = NoToken
    User <- TwoUsers
    Token <- ThreeTokens
    Request <- FourRequests
SYMMETRY Symmetry
INVARIANTS
    TypeOK
    ReplayRefused
    BlockedAccountRefused
    SessionKept
    SessionKeepsUser
PROPERTIES
    TokenNotReborn
    ImplementsLedger
