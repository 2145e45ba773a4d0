SPECIFICATION Spec
CONSTANTS
    u1 = u1
    u2 = u2
    u3 = u3
    u4 = u4
    u5 = u5
    e1 = e1
    e2 = e2
    e3 = e3
    e4 = e4
    p1 = p1
    p2 = p2
    q1 = q1
    q2 = q2
    q3 = q3
    NoUser = NoUser
    NoRow = NoRow
    NoCall = NoCall
    User <- FiveUsers
    Email <- FourEmails
    Password <- TwoPasswords
    Request <- TwoRequests
    Table <- StartTable
    Call <- PasswordCalls
SYMMETRY Symmetry
INVARIANT
    ChosenPasswordHolds
