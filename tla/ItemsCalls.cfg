SPECIFICATION Spec
CONSTANTS
    u1 = u1
    u2 = u2
    i1 = i1
    i2 = i2
    a = a
    b = b
    q1 = q1
    q2 = q2
    q3 = q3
    NoUser = NoUser
    NoItem = NoItem
    NoTitle = NoTitle
    NoCall = NoCall
    User <- TwoUsers
    Item <- TwoItems
    Title <- TwoTitles
    Request <- TwoRequests
    Start <- Starts
    Call <- MixedCalls
SYMMETRY Symmetry
INVARIANTS
    TypeOK
    OwnerExists
    AuthorityHeld
    DeletedStaysDeleted
PROPERTY
    ItemKept
