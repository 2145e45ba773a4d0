----------------------------- MODULE MCAccounts -----------------------------
(* Instances of Accounts for TLC: the tables a run starts with and the      *)
(* calls its clients may make.                                              *)
EXTENDS Accounts, TLC

CONSTANTS u1, u2, u3, u4, u5, e1, e2, e3, e4, p1, p2, q1, q2, q3

FiveUsers == {u1, u2, u3, u4, u5}
FourEmails == {e1, e2, e3, e4}
TwoPasswords == {p1, p2}
TwoRequests == {q1, q2}
ThreeRequests == {q1, q2, q3}

New(p) == [password |-> p, legacy |-> FALSE]
Old(p) == [password |-> p, legacy |-> TRUE]
MakeRow(e, isActive, isSuperuser, hash) ==
    [email |-> e, is_active |-> isActive, is_superuser |-> isSuperuser, hash |-> hash]

\* Two superusers, a user whose hash is of the old algorithm, and room for two
\* more.
Start == (u1 :> MakeRow(e1, TRUE, TRUE, New(p1))) @@ (u2 :> MakeRow(e2, TRUE, TRUE, New(p1)))
         @@ (u3 :> MakeRow(e3, TRUE, FALSE, Old(p1))) @@ [u \in FiveUsers |-> NoRow]

StartTable == {Start}

Make(op, caller, user, email, password, change) ==
    [op |-> op, caller |-> caller, user |-> user, email |-> email,
     password |-> password, change |-> change]

Nothing == [f \in {} |-> f]
ById(op, caller, user, change) == Make(op, caller, user, e1, p1, change)
Own(op, caller, change) == Make(op, caller, NoUser, e1, p1, change)
ByEmail(op, email, change) == Make(op, NoUser, NoUser, email, p1, change)

\* Calls that want e4 or e2, or change u3; superusers that promote, demote,
\* disable and delete each other and the user; and the user's own calls.
MixedCalls == {
    ByEmail("signup", e4, [hash |-> New(p1)]),
    Make("create", u1, NoUser, e4, p1, [hash |-> New(p1), is_active |-> FALSE]),
    Own("update_me", u3, [email |-> e4]),
    Own("update_me", u3, Nothing),
    ById("update_user", u1, u1, [email |-> e2]),
    ById("update_user", u1, u2, [is_superuser |-> FALSE]),
    ById("update_user", u2, u1, [is_active |-> FALSE]),
    ById("update_user", u1, u3, [email |-> e4, is_superuser |-> TRUE]),
    ById("update_user", u2, u3, [hash |-> New(p2), is_active |-> FALSE]),
    ById("delete_user", u1, u2, Nothing),
    ById("delete_user", u2, u2, Nothing),
    ById("delete_user", u2, u3, Nothing),
    Own("delete_me", u2, Nothing),
    Own("delete_me", u3, Nothing),
    Own("password_me", u3, [hash |-> New(p2)]),
    ByEmail("login", e3, Nothing),
    ByEmail("reset", e3, [hash |-> New(p2)]),
    ByEmail("create_superuser", e4, [hash |-> New(p1), is_active |-> TRUE, is_superuser |-> TRUE])}

\* The owner of an old hash logs in and changes the password.
PasswordCalls == {
    Own("password_me", u3, [hash |-> New(p2)]),
    ByEmail("login", e3, Nothing)}

\* Requests are interchangeable.
Symmetry == Permutations(Request)
=============================================================================
