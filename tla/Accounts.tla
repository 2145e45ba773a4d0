------------------------------ MODULE Accounts ------------------------------
(***************************************************************************)
(* The user table and everything that writes it: UserService, AuthService, *)
(* UserRepository and the dependencies that authenticate a caller          *)
(* (modules/auth/src/fast_auth), and apps/api/scripts/create_superuser.py. *)
(*                                                                         *)
(* Each element of Request is one call, with a Session of its own.  The    *)
(* handlers run in threads of several processes at READ COMMITTED, so a    *)
(* call is split at its queries: the caller's row is read, then the target *)
(* row, then the owner of an email, then the change is flushed and         *)
(* committed, and the row is read again.  A flush and its COMMIT are one   *)
(* step: until then nobody else sees the change, and who meets its locks   *)
(* waits.                                                                  *)
(*                                                                         *)
(* A row is its columns email, is_active, is_superuser and                 *)
(* hashed_password; a hash is the password it verifies and whether it is   *)
(* of the old algorithm (bcrypt).  full_name decides nothing.              *)
(***************************************************************************)
EXTENDS FiniteSets

CONSTANTS
    User,           \* the ids of users, past and to come
    Email, Password,
    Request,
    Table,          \* the tables a deployment may start with
    Call,           \* the calls clients may make
    NoUser, NoRow, NoCall

Hash == [password : Password, legacy : BOOLEAN]
Row == [email : Email, is_active : BOOLEAN, is_superuser : BOOLEAN, hash : Hash]
Column == {"email", "is_active", "is_superuser", "hash"}

Insertion == {"signup", "create"}
Deletion == {"delete_me", "delete_user"}
Patch == {"update_me", "update_user"}
SuperuserOnly == {"create", "update_user", "delete_user"}
Anonymous == {"signup", "create_superuser", "login", "reset"}
Endpoint == Insertion \cup Deletion \cup Patch \cup Anonymous \cup {"password_me"}

\* New values for some columns; get_password_hash knows one algorithm only.
ChangeSets(g) ==
    /\ DOMAIN g \subseteq Column
    /\ "email" \in DOMAIN g => g.email \in Email
    /\ "is_active" \in DOMAIN g => g.is_active \in BOOLEAN
    /\ "is_superuser" \in DOMAIN g => g.is_superuser \in BOOLEAN
    /\ "hash" \in DOMAIN g => g.hash \in Hash /\ ~g.hash.legacy

\* A call has a caller unless it is anonymous; the user id in its path; the
\* email it looks up; the password it shows; and the columns its body sets.
WellFormed(c) ==
    /\ c.op \in Endpoint
    /\ IF c.op \in Anonymous THEN c.caller = NoUser ELSE c.caller \in User
    /\ IF c.op \in {"update_user", "delete_user"} THEN c.user \in User ELSE c.user = NoUser
    /\ c.op \in Insertion \cup {"create_superuser", "login", "reset"} => c.email \in Email
    /\ c.op \in {"login", "password_me"} => c.password \in Password
    /\ c.op \in Insertion \cup {"create_superuser", "password_me", "reset"} =>
            "hash" \in DOMAIN c.change
    /\ c.op \in Deletion \cup {"login"} => DOMAIN c.change = {}
    /\ "email" \in DOMAIN c.change => c.op \in Patch
    /\ ChangeSets(c.change)

ASSUME TableAssumption ==
    \A t \in Table :
        /\ t \in [User -> Row \cup {NoRow}]
        /\ \A u, v \in User :
            t[u] # NoRow /\ t[v] # NoRow /\ t[u].email = t[v].email => u = v
ASSUME NullAssumption == NoRow \notin Row /\ NoUser \notin User /\ NoCall \notin Call
ASSUME CallAssumption == \A c \in Call : WellFormed(c)

VARIABLES
    row,        \* the user table: the row of an id, or NoRow
    born,       \* the ids that were ever inserted
    pc,         \* the next query of each request
    call,       \* the call each request serves
    target,     \* the row a request is about to write, NoUser for a new one
    seen,       \* that row as the request's Session read it
    answer,     \* HTTP status
    entitled,   \* history: at some moment of the call its caller had the right to it
    chosen      \* history: the password last chosen for each user

vars == <<row, born, pc, call, target, seen, answer, entitled, chosen>>

Step == {"idle", "auth", "find", "check", "write", "refresh", "done"}
Status == {"none", "200", "400", "403", "404", "409", "500"}

TypeOK ==
    /\ row \in [User -> Row \cup {NoRow}]
    /\ born \in SUBSET User
    /\ pc \in [Request -> Step]
    /\ call \in [Request -> Call \cup {NoCall}]
    /\ target \in [Request -> User \cup {NoUser}]
    /\ seen \in [Request -> Row \cup {NoRow}]
    /\ answer \in [Request -> Status]
    /\ entitled \in [Request -> BOOLEAN]
    /\ chosen \in [User -> Password \cup {NoRow}]

Exists(u) == row[u] # NoRow
OwnersIn(table, e) == {u \in User : table[u] # NoRow /\ table[u].email = e}
Owners(e) == OwnersIn(row, e)

Init ==
    /\ row \in Table
    /\ born = {u \in User : Exists(u)}
    /\ pc = [r \in Request |-> "idle"]
    /\ call = [r \in Request |-> NoCall]
    /\ target = [r \in Request |-> NoUser]
    /\ seen = [r \in Request |-> NoRow]
    /\ answer = [r \in Request |-> "none"]
    /\ entitled = [r \in Request |-> FALSE]
    /\ chosen = [u \in User |-> IF Exists(u) THEN row[u].hash.password ELSE NoRow]

InFlight(r) == pc[r] \notin {"idle", "done"}

Goto(r, step) ==
    /\ pc' = [pc EXCEPT ![r] = step]
    /\ UNCHANGED answer

Respond(r, status) ==
    /\ pc' = [pc EXCEPT ![r] = "done"]
    /\ answer' = [answer EXCEPT ![r] = status]

\* What gives the right to a call, in the user table as it is at some moment.
Entitled(table, c) ==
    LET me == table[c.caller]
        isActive == c.caller \in User /\ me # NoRow /\ me.is_active IN
    /\ c.op \notin Anonymous => isActive
    /\ c.op \in SuperuserOnly => me.is_superuser
    /\ c.op = "delete_me" => ~me.is_superuser
    /\ c.op = "password_me" => me.hash.password = c.password
    /\ c.op = "login" => \E u \in OwnersIn(table, c.email) : table[u].hash.password = c.password

\* History kept by every step that writes the table.
Observe ==
    entitled' = [r \in Request |->
                    entitled[r] \/ (InFlight(r) /\ Entitled(row', call[r]))]

-----------------------------------------------------------------------------
Receive(r, c) ==
    /\ pc[r] = "idle"
    /\ Goto(r, IF c.op \in Anonymous THEN "check" ELSE "auth")
    /\ call' = [call EXCEPT ![r] = c]
    /\ entitled' = [entitled EXCEPT ![r] = Entitled(row, c)]
    /\ UNCHANGED <<row, born, target, seen, chosen>>

(* get_current_user, get_current_active_superuser and what the handler     *)
(* checks on the row they read before its next query.                      *)

\* Faulty variant: the route forgets its dependency on a superuser.
RoleIgnored(c, me) == c.op = "delete_me" => ~me.is_superuser

\* The caller's role, if the call asks for one, lets it through.
RoleAllows(c, me) ==
    /\ c.op \in SuperuserOnly => me.is_superuser
    /\ c.op = "delete_me" => ~me.is_superuser

\* update_my_password on the row as it was read.
PasswordAllows(c, me) ==
    c.op = "password_me" =>
        c.password = me.hash.password /\ c.change.hash.password # c.password

AuthRefused(r) ==
    /\ pc[r] = "auth"
    /\ LET me == row[call[r].caller] IN
        \/ me = NoRow /\ Respond(r, "404")
        \/ me # NoRow /\ ~me.is_active /\ Respond(r, "400")
        \/ me # NoRow /\ me.is_active /\ ~RoleAllows(call[r], me) /\ Respond(r, "403")
        \/ me # NoRow /\ me.is_active /\ ~PasswordAllows(call[r], me) /\ Respond(r, "400")
    /\ UNCHANGED <<row, born, call, target, seen, entitled, chosen>>

\* A body that sets no email, or null, is not checked for a conflict.
AfterAuth(c) ==
    IF c.op \in {"update_user", "delete_user"} THEN "find"
    ELSE IF c.op = "create" \/ "email" \in DOMAIN c.change THEN "check" ELSE "write"

AuthPassed(r) ==
    /\ pc[r] = "auth"
    /\ LET c == call[r]
           me == row[c.caller] IN
        /\ me # NoRow /\ me.is_active
        /\ RoleAllows(c, me) /\ PasswordAllows(c, me)
        /\ Goto(r, AfterAuth(c))
        /\ seen' = [seen EXCEPT ![r] = me]
        /\ target' = [target EXCEPT ![r] =
                CASE c.op = "create" -> NoUser
                  [] c.op \in {"update_user", "delete_user"} -> c.user
                  [] OTHER -> c.caller]
    /\ UNCHANGED <<row, born, call, entitled, chosen>>

-----------------------------------------------------------------------------
(* update_user_by_id, delete_user_by_id: the row of the id in the path.    *)

FindRefused(r) ==
    /\ pc[r] = "find"
    /\ \/ ~Exists(target[r]) /\ target[r] # call[r].caller /\ Respond(r, "404")
       \/ call[r].op = "delete_user" /\ target[r] = call[r].caller /\ Respond(r, "403")
    /\ UNCHANGED <<row, born, call, target, seen, entitled, chosen>>

\* The Session has the caller's row already and does not read it again.
FindPassed(r) ==
    /\ pc[r] = "find"
    /\ IF target[r] = call[r].caller
       THEN call[r].op # "delete_user" /\ UNCHANGED seen
       ELSE Exists(target[r]) /\ seen' = [seen EXCEPT ![r] = row[target[r]]]
    /\ Goto(r, IF "email" \in DOMAIN call[r].change THEN "check" ELSE "write")
    /\ UNCHANGED <<row, born, call, target, entitled, chosen>>

-----------------------------------------------------------------------------
(* get_by_email and what the callers make of its answer. *)

\* create_user, register_user: 400 when there is one already.
CheckInsertion(r) ==
    /\ pc[r] = "check" /\ call[r].op \in Insertion
    /\ IF Owners(call[r].email) = {} THEN Goto(r, "write") ELSE Respond(r, "400")
    /\ UNCHANGED <<row, born, call, target, seen, entitled, chosen>>

\* update_me, update_user: 409 when it is somebody else's.
CheckPatch(r) ==
    /\ pc[r] = "check" /\ call[r].op \in Patch
    /\ IF Owners(call[r].change.email) \subseteq {target[r]}
       THEN Goto(r, "write") ELSE Respond(r, "409")
    /\ UNCHANGED <<row, born, call, target, seen, entitled, chosen>>

\* authenticate, reset_password: no such user, a wrong password, an inactive
\* user.  A login by a hash of the old algorithm goes on to write a new one.
CheckRefused(r) ==
    /\ pc[r] = "check"
    /\ \/ call[r].op \in {"login", "reset"} /\ Owners(call[r].email) = {}
       \/ \E u \in Owners(call[r].email) :
            \/ call[r].op = "login" /\ row[u].hash.password # call[r].password
            \/ call[r].op = "login" /\ ~row[u].hash.legacy /\ ~row[u].is_active
            \/ call[r].op = "reset" /\ ~row[u].is_active
    /\ Respond(r, "400")
    /\ UNCHANGED <<row, born, call, target, seen, entitled, chosen>>

CheckLogin(r) ==
    /\ pc[r] = "check" /\ call[r].op = "login"
    /\ \E u \in Owners(call[r].email) :
        /\ row[u].hash.password = call[r].password
        /\ IF row[u].hash.legacy THEN Goto(r, "write") ELSE row[u].is_active /\ Respond(r, "200")
        /\ target' = [target EXCEPT ![r] = u]
        /\ seen' = [seen EXCEPT ![r] = row[u]]
    /\ UNCHANGED <<row, born, call, entitled, chosen>>

CheckReset(r) ==
    /\ pc[r] = "check" /\ call[r].op = "reset"
    /\ \E u \in Owners(call[r].email) :
        /\ row[u].is_active
        /\ target' = [target EXCEPT ![r] = u]
        /\ seen' = [seen EXCEPT ![r] = row[u]]
    /\ Goto(r, "write")
    /\ UNCHANGED <<row, born, call, entitled, chosen>>

\* create_or_update_superuser
CheckSuperuser(r) ==
    /\ pc[r] = "check" /\ call[r].op = "create_superuser"
    /\ IF Owners(call[r].email) = {}
       THEN UNCHANGED <<target, seen>>
       ELSE \E u \in Owners(call[r].email) :
            /\ target' = [target EXCEPT ![r] = u]
            /\ seen' = [seen EXCEPT ![r] = row[u]]
    /\ Goto(r, "write")
    /\ UNCHANGED <<row, born, call, entitled, chosen>>

-----------------------------------------------------------------------------
(* What a flush writes. *)

\* The hash a login writes is of the password it was shown.
Body(c) ==
    IF c.op = "login" THEN [hash |-> [password |-> c.password, legacy |-> FALSE]] ELSE c.change

\* SQLAlchemy updates the columns whose value differs from the one it read; a
\* hash has a new salt and always differs.
Dirty(r) ==
    LET b == Body(call[r]) IN {f \in DOMAIN b : f = "hash" \/ b[f] # seen[r][f]}

\* A new row, with the defaults of the model.
Columns(isActive, isSuperuser, c) ==
    [email |-> c.email,
     is_active |-> IF "is_active" \in DOMAIN c.change THEN c.change.is_active ELSE isActive,
     is_superuser |-> IF "is_superuser" \in DOMAIN c.change THEN c.change.is_superuser ELSE isSuperuser,
     hash |-> c.change.hash]

(* Faulty variants, which the properties must tell apart from the code. *)

\* No default for a column that must have a value.
NewRowNull(c) == Columns(NoRow, FALSE, c)

\* email has an index that is not unique.
IndexIgnored(e, u) == Owners(e) \subseteq User

\* Every column is written, those of the stale row too.
PatchedWhole(r, old) ==
    [f \in Column |-> IF f \in DOMAIN Body(call[r]) THEN Body(call[r])[f] ELSE seen[r][f]]

(* The code. *)

NewRow(c) == Columns(TRUE, FALSE, c)

Patched(r, old) ==
    [f \in Column |-> IF f \in Dirty(r) THEN Body(call[r])[f] ELSE old[f]]

\* The unique index lets u have the email e.
IndexAllows(e, u) == Owners(e) \subseteq {u}

IndexAllowsUpdate(r) == "email" \in Dirty(r) => IndexAllows(Body(call[r]).email, target[r])

-----------------------------------------------------------------------------
(* Flush and commit. *)

\* INSERT; the unique index turns a second row with the email into a 500.
InsertRow(r) ==
    /\ pc[r] = "write" /\ target[r] = NoUser
    /\ IF ~IndexAllows(call[r].email, NoUser)
       THEN /\ Respond(r, "500")
            /\ UNCHANGED <<row, born, target, chosen, entitled>>
       ELSE \E u \in User \ born :
            /\ row' = [row EXCEPT ![u] = NewRow(call[r])]
            /\ born' = born \cup {u}
            /\ target' = [target EXCEPT ![r] = u]
            /\ chosen' = [chosen EXCEPT ![u] = call[r].change.hash.password]
            /\ Observe
            /\ Goto(r, "refresh")
    /\ UNCHANGED <<call, seen>>

\* UPDATE of a row that is gone, or of an email somebody else took, is a 500.
UpdateFails(r) ==
    /\ pc[r] = "write" /\ target[r] # NoUser /\ call[r].op \notin Deletion
    /\ Dirty(r) # {}
    /\ ~Exists(target[r]) \/ ~IndexAllowsUpdate(r)
    /\ Respond(r, "500")
    /\ UNCHANGED <<row, born, call, target, seen, entitled, chosen>>

\* update_my_password does not read the row again.
AfterUpdate(r) ==
    IF call[r].op = "password_me"
    THEN \E status \in {"200", "500"} : Respond(r, status)
    ELSE Goto(r, "refresh")

\* Faulty variant: the row is merged, which inserts it again when it is gone.
UpdateMerged(r) ==
    /\ pc[r] = "write" /\ target[r] # NoUser /\ call[r].op \notin Deletion
    /\ IndexAllowsUpdate(r)
    /\ row' = [row EXCEPT ![target[r]] =
            IF Exists(target[r]) THEN Patched(r, @) ELSE Patched(r, seen[r])]
    /\ Observe
    /\ AfterUpdate(r)
    /\ UNCHANGED <<born, call, target, seen, chosen>>

UpdateRow(r) ==
    /\ pc[r] = "write" /\ target[r] # NoUser /\ call[r].op \notin Deletion
    /\ Exists(target[r])
    /\ IndexAllowsUpdate(r)
    /\ row' = [row EXCEPT ![target[r]] = Patched(r, @)]
    /\ chosen' = IF call[r].op # "login" /\ "hash" \in Dirty(r)
                 THEN [chosen EXCEPT ![target[r]] = Body(call[r]).hash.password]
                 ELSE chosen
    /\ Observe
    /\ AfterUpdate(r)
    /\ UNCHANGED <<born, call, target, seen>>

\* Nothing differs from what was read: COMMIT has nothing to do.
UpdateNothing(r) ==
    /\ pc[r] = "write" /\ target[r] # NoUser /\ call[r].op \notin Deletion
    /\ Dirty(r) = {} /\ ~Exists(target[r])
    /\ Goto(r, "refresh")
    /\ UNCHANGED <<row, born, call, target, seen, entitled, chosen>>

\* DELETE of a row that is gone already is not an error.
DeleteRow(r) ==
    /\ pc[r] = "write" /\ call[r].op \in Deletion
    /\ row' = [row EXCEPT ![target[r]] = NoRow]
    /\ Observe
    /\ \E status \in {"200", "500"} : Respond(r, status)
    /\ UNCHANGED <<born, call, target, seen, chosen>>

(* session.refresh after the commit; a login looks at is_active only now.  *)

Refresh(r) ==
    /\ pc[r] = "refresh"
    /\ \/ ~Exists(target[r]) /\ Respond(r, "500")
       \/ Exists(target[r]) /\ (call[r].op = "login" => row[target[r]].is_active) /\ Respond(r, "200")
       \/ Exists(target[r]) /\ call[r].op = "login" /\ ~row[target[r]].is_active /\ Respond(r, "400")
    /\ UNCHANGED <<row, born, call, target, seen, entitled, chosen>>

\* The database is unreachable, a column may not be null, the mail of a new
\* account cannot be sent, or the process dies: 500, and a rollback of what is
\* not committed.
Fail(r) ==
    /\ InFlight(r)
    /\ Respond(r, "500")
    /\ UNCHANGED <<row, born, call, target, seen, entitled, chosen>>

-----------------------------------------------------------------------------
Handle(r) ==
    \/ AuthRefused(r) \/ AuthPassed(r) \/ FindRefused(r) \/ FindPassed(r)
    \/ CheckInsertion(r) \/ CheckPatch(r) \/ CheckRefused(r)
    \/ CheckLogin(r) \/ CheckReset(r) \/ CheckSuperuser(r)
    \/ InsertRow(r) \/ UpdateFails(r) \/ UpdateRow(r) \/ UpdateNothing(r)
    \/ DeleteRow(r) \/ Refresh(r) \/ Fail(r)

Quiescent == (\A r \in Request : pc[r] = "done") /\ UNCHANGED vars

Next ==
    \/ \E r \in Request : Handle(r) \/ \E c \in Call : Receive(r, c)
    \/ Quiescent

Spec == Init /\ [][Next]_vars

-----------------------------------------------------------------------------
(* Properties *)

\* Two users never have one email, although every handler that sets an email
\* looks for its owner first and writes later, and two of them may look before
\* either writes.
UniqueEmail ==
    \A u, v \in User : Exists(u) /\ Exists(v) /\ row[u].email = row[v].email => u = v

\* A call that succeeds had a caller with the right to it at some moment between
\* its arrival and its answer: an active account, a superuser's where the route
\* asks for one, and the password where the call shows one.  The check may be out
\* of date when the call takes effect, and never was out of thin air.
AuthorityHeld == \A r \in Request : answer[r] = "200" => entitled[r]

\* A step that is one request's update of a row and is not answered by an error.
Saves(r) ==
    /\ pc[r] = "write" /\ target[r] # NoUser /\ call[r].op \notin Deletion
    /\ pc'[r] # "write" /\ answer'[r] # "500"

\* However old the row is that its Session has read, an update changes no column
\* its body does not set, so that two updates of different columns both survive;
\* and an update that is not refused leaves the row with what its body sets in
\* every column that differed in the row it read.  Of a column that had the value
\* already nothing is promised: SQLAlchemy does not write it, so what somebody
\* else has put there since survives an update that was answered by 200.
ColumnsKept ==
    [][/\ \A u \in User, f \in Column :
            (Exists(u) /\ Exists(u)' /\ row'[u][f] # row[u][f]) =>
                \E r \in Request :
                    /\ pc[r] = "write" /\ target[r] = u
                    /\ f \in DOMAIN Body(call[r]) /\ row'[u][f] = Body(call[r])[f]
       /\ \A r \in Request : Saves(r) =>
            \A f \in DOMAIN Body(call[r]) :
                \/ f # "hash" /\ seen[r][f] = Body(call[r])[f]
                \/ row'[target[r]] # NoRow /\ row'[target[r]][f] = Body(call[r])[f]]_vars

\* An account whose deletion was acknowledged is gone for good: no update that
\* read its row before brings it back.
DeletedStaysDeleted ==
    \A r \in Request :
        call[r] # NoCall /\ call[r].op \in Deletion /\ answer[r] = "200" => ~Exists(target[r])

\* The password of an account is the one that was last chosen for it: by whoever
\* made the account, by its owner, by a superuser or through a reset link.  (The
\* code breaks it: a login writes the password it was shown.)
ChosenPasswordHolds == \A u \in User : Exists(u) => row[u].hash.password = chosen[u]

-----------------------------------------------------------------------------
(* The abstract specification this component implements. *)

Stages ==
    [u \in User |->
        IF Exists(u)
        THEN IF ~row[u].is_active THEN "inactive"
             ELSE IF row[u].is_superuser THEN "superuser" ELSE "user"
        ELSE IF u \in born THEN "deleted" ELSE "unborn"]

Life == INSTANCE AccountLife WITH life <- Stages

\* What the other components assume of an account holds, whatever calls overlap:
\* nothing that writes the table touches two accounts at once or revives one.
ImplementsLife == Life!LifeSpec

-----------------------------------------------------------------------------
(* The inductive invariant behind the safety properties. *)

TableInv == UniqueEmail /\ \A u \in User : Exists(u) => u \in born

\* The steps of a call, and which row it has at each of them.
StepInv(r) ==
    /\ call[r] = NoCall <=> pc[r] = "idle"
    /\ answer[r] # "none" => pc[r] = "done"
    /\ pc[r] = "auth" => call[r].op \notin Anonymous
    /\ pc[r] = "find" =>
            call[r].op \in {"update_user", "delete_user"} /\ target[r] = call[r].user
    /\ pc[r] \in {"check", "refresh"} => call[r].op \notin Deletion
    /\ pc[r] = "check" /\ call[r].op \in Patch => target[r] \in User
    /\ pc[r] = "write" /\ target[r] = NoUser =>
            call[r].op \in Insertion \cup {"create_superuser"}

\* The right to a call is noted while it lasts, and a request that is past the
\* check of its caller has had it.
AuthorityInv(r) ==
    /\ InFlight(r) /\ Entitled(row, call[r]) => entitled[r]
    /\ pc[r] \in {"find", "check", "write", "refresh"} /\ call[r].op \notin Anonymous =>
            entitled[r]
    /\ pc[r] \in {"write", "refresh"} /\ call[r].op = "login" => entitled[r]
    /\ answer[r] = "200" => entitled[r]

\* What is to be deleted was inserted once, and is not inserted again.
DeletionInv(r) ==
    call[r] # NoCall /\ call[r].op \in Deletion =>
        /\ pc[r] = "write" => target[r] \in born
        /\ answer[r] = "200" => target[r] \in born /\ ~Exists(target[r])

RequestInv(r) == StepInv(r) /\ AuthorityInv(r) /\ DeletionInv(r)

IInv == TypeOK /\ TableInv /\ \A r \in Request : RequestInv(r)
=============================================================================
