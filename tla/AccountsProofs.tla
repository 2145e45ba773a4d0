--------------------------- MODULE AccountsProofs ---------------------------
(***************************************************************************)
(* Proofs about Accounts, for any users, emails, passwords, tables, calls  *)
(* and number of requests.                                                 *)
(***************************************************************************)
EXTENDS Tables, TLAPS

-----------------------------------------------------------------------------
(* What a flush writes is a row. *)

LEMMA CallShape ==
    ASSUME NEW c \in Call
    PROVE  WellFormed(c) /\ c # NoCall /\ ChangeSets(Body(c))
<1>1. WellFormed(c)
  BY CallAssumption
<1>2. c # NoCall
  BY NullAssumption
<1>3. CASE c.op = "login"
  <2>1. [password |-> c.password, legacy |-> FALSE] \in Hash
    BY <1>1, <1>3 DEF WellFormed, Hash
  <2>2. Body(c) = [hash |-> [password |-> c.password, legacy |-> FALSE]]
    BY <1>3 DEF Body
  <2> QED
    BY <1>1, <1>2, <2>1, <2>2 DEF ChangeSets, Column
<1>4. CASE c.op # "login"
  BY <1>1, <1>2, <1>4 DEF WellFormed, Body
<1> QED
  BY <1>3, <1>4

\* An update makes a row of a row.
LEMMA PatchedRow ==
    ASSUME NEW r \in Request, NEW old \in Row, call[r] \in Call
    PROVE  /\ Patched(r, old) \in Row
           /\ Patched(r, old).email =
                IF "email" \in Dirty(r) THEN Body(call[r]).email ELSE old.email
           /\ "hash" \in Dirty(r) => Body(call[r]).hash.password \in Password
<1> DEFINE b == Body(call[r])
           g == [f \in Column |-> IF f \in Dirty(r) THEN b[f] ELSE old[f]]
<1>1. ChangeSets(b)
  BY CallShape
<1>2. Dirty(r) \subseteq DOMAIN b
  BY DEF Dirty
<1> HIDE DEF b
<1>3. DOMAIN g = {"email", "is_active", "is_superuser", "hash"}
  BY DEF Column
<1>4. g["email"] \in Email
  BY <1>1, <1>2 DEF Column, Row, ChangeSets
<1>5. g["is_active"] \in BOOLEAN
  BY <1>1, <1>2 DEF Column, Row, ChangeSets
<1>6. g["is_superuser"] \in BOOLEAN
  BY <1>1, <1>2 DEF Column, Row, ChangeSets
<1>7. g["hash"] \in Hash
  BY <1>1, <1>2 DEF Column, Row, ChangeSets
<1>8. g = [email |-> g["email"], is_active |-> g["is_active"],
           is_superuser |-> g["is_superuser"], hash |-> g["hash"]]
  BY <1>3
<1>9. g \in Row
  BY <1>4, <1>5, <1>6, <1>7, <1>8 DEF Row
<1>10. Patched(r, old) = g
  BY DEF Patched, b
<1>11. g["email"] = IF "email" \in Dirty(r) THEN b["email"] ELSE old["email"]
  BY DEF Column
<1>12. "hash" \in Dirty(r) => b.hash.password \in Password
  BY <1>1, <1>2 DEF ChangeSets, Hash
<1> QED
  BY <1>9, <1>10, <1>11, <1>12 DEF b

\* A creation makes a row.
LEMMA NewRowRow ==
    ASSUME NEW c \in Call, c.op \in Insertion \cup {"create_superuser"}
    PROVE  /\ NewRow(c) \in Row
           /\ NewRow(c).email = c.email
           /\ c.change.hash.password \in Password
<1>1. c.email \in Email /\ ChangeSets(c.change) /\ "hash" \in DOMAIN c.change
  BY CallShape DEF WellFormed
<1>2. c.change.hash \in Hash
  BY <1>1 DEF ChangeSets
<1>3. NewRow(c) = [email |-> c.email, is_active |-> NewRow(c).is_active,
                   is_superuser |-> NewRow(c).is_superuser, hash |-> c.change.hash]
  BY DEF NewRow, Columns
<1>4. NewRow(c).is_active \in BOOLEAN /\ NewRow(c).is_superuser \in BOOLEAN
  BY <1>1 DEF NewRow, Columns, ChangeSets
<1> QED
  BY <1>1, <1>2, <1>3, <1>4 DEF Row, Hash

-----------------------------------------------------------------------------
(* Requests a step does not touch. *)

\* What every conjunct of RequestInv(q) looks at in the request itself.
Same(q) ==
    /\ pc'[q] = pc[q] /\ call'[q] = call[q]
    /\ target'[q] = target[q] /\ answer'[q] = answer[q]

LEMMA QuietFrame ==
    ASSUME NEW q \in Request, RequestInv(q), Same(q), UNCHANGED <<row, born, entitled>>
    PROVE  RequestInv(q)'
<1>1. StepInv(q)'
  BY DEF RequestInv, StepInv, Same
<1>2. AuthorityInv(q)'
  BY DEF RequestInv, AuthorityInv, Same, InFlight
<1>3. DeletionInv(q)'
  BY DEF RequestInv, DeletionInv, Same, Exists
<1> QED
  BY <1>1, <1>2, <1>3 DEF RequestInv

\* A row that was inserted once and is gone stays so.
NoRebirth == born \subseteq born' /\ \A u \in born : ~Exists(u) => ~Exists(u)'

LEMMA WriteFrame ==
    ASSUME NEW q \in Request, RequestInv(q), Same(q), Observe, NoRebirth
    PROVE  RequestInv(q)'
<1>1. StepInv(q)'
  BY DEF RequestInv, StepInv, Same
<1>2. entitled'[q] = (entitled[q] \/ (InFlight(q) /\ Entitled(row', call[q])))
  BY DEF Observe
<1>3. AuthorityInv(q)'
  BY <1>2 DEF RequestInv, AuthorityInv, Same, InFlight
<1>4. DeletionInv(q)'
  BY DEF RequestInv, DeletionInv, Same, NoRebirth
<1> QED
  BY <1>1, <1>3, <1>4 DEF RequestInv

-----------------------------------------------------------------------------
(* Steps that leave the table alone. *)

LEMMA QuietStep ==
    ASSUME IInv, TypeOK', NEW r \in Request, RequestInv(r)',
           \A q \in Request \ {r} : Same(q),
           UNCHANGED <<row, born, entitled>>
    PROVE  IInv'
<1>1. TableInv'
  BY DEF IInv, TableInv, UniqueEmail, Exists
<1>2. ASSUME NEW q \in Request, q # r
      PROVE  RequestInv(q)'
  BY <1>2, QuietFrame DEF IInv
<1> QED
  BY <1>1, <1>2 DEF IInv

\* A request ends: with a 200 only if its caller had the right to it, and a
\* deletion does not end so here.
LEMMA RespondStep ==
    ASSUME IInv, NEW r \in Request, InFlight(r), NEW status \in Status \ {"none"},
           Respond(r, status),
           status = "200" => entitled[r] /\ call[r].op \notin Deletion,
           UNCHANGED <<row, born, call, target, seen, entitled, chosen>>
    PROVE  IInv'
<1>1. TypeOK'
  BY DEF IInv, TypeOK, Respond, Step
<1>2. pc'[r] = "done" /\ answer'[r] = status
  BY DEF IInv, TypeOK, Respond
<1>3. \A q \in Request \ {r} : Same(q)
  BY DEF IInv, TypeOK, Respond, Same
<1>4. RequestInv(r)
  BY DEF IInv
<1>5. StepInv(r)'
  BY <1>2, <1>4 DEF RequestInv, StepInv, InFlight
<1>6. AuthorityInv(r)'
  BY <1>2, <1>4 DEF RequestInv, AuthorityInv, InFlight
<1>7. DeletionInv(r)'
  BY <1>2, <1>4 DEF RequestInv, DeletionInv
<1> QED
  BY <1>1, <1>3, <1>5, <1>6, <1>7, QuietStep DEF RequestInv

\* What has to hold for request r to go on to a step with t as its target.
MayGo(r, step, t) ==
    /\ step = "find" => call[r].op \in {"update_user", "delete_user"} /\ t = call[r].user
    /\ step \in {"check", "refresh"} => call[r].op \notin Deletion
    /\ step = "check" /\ call[r].op \in Patch => t \in User
    /\ step = "write" /\ t = NoUser => call[r].op \in Insertion \cup {"create_superuser"}
    /\ step = "write" /\ call[r].op \in Deletion => t \in born
    /\ call[r].op \notin Anonymous \/ call[r].op = "login" => entitled[r]

LEMMA GotoStep ==
    ASSUME IInv, NEW r \in Request, InFlight(r),
           NEW step \in {"find", "check", "write", "refresh"}, Goto(r, step),
           NEW t \in User \cup {NoUser}, target' = [target EXCEPT ![r] = t],
           seen' \in [Request -> Row \cup {NoRow}],
           MayGo(r, step, t),
           UNCHANGED <<row, born, call, entitled, chosen>>
    PROVE  IInv'
<1>1. TypeOK'
  BY DEF IInv, TypeOK, Goto, Step
<1>2. pc'[r] = step /\ answer'[r] = answer[r] /\ target'[r] = t
  BY DEF IInv, TypeOK, Goto
<1>3. \A q \in Request \ {r} : Same(q)
  BY DEF IInv, TypeOK, Goto, Same
<1>4. RequestInv(r)
  BY DEF IInv
<1>5. answer[r] = "none"
  BY <1>4 DEF RequestInv, StepInv, InFlight, IInv, TypeOK
<1>6. StepInv(r)'
  BY <1>2, <1>4, <1>5 DEF RequestInv, StepInv, InFlight, MayGo
<1>7. AuthorityInv(r)'
  BY <1>2, <1>4, <1>5 DEF RequestInv, AuthorityInv, InFlight, MayGo
<1>8. DeletionInv(r)'
  BY <1>2, <1>4, <1>5 DEF RequestInv, DeletionInv, MayGo
<1> QED
  BY <1>1, <1>3, <1>6, <1>7, <1>8, QuietStep DEF RequestInv

\* A request past the check of its caller has had the right to its call, and a
\* stranger's call that is not a login needs none.
LEMMA HadRight ==
    ASSUME IInv, NEW r \in Request, pc[r] \in {"find", "check", "write", "refresh"},
           pc[r] = "check" => call[r].op # "login"
    PROVE  entitled[r]
<1>1. AuthorityInv(r) /\ InFlight(r) /\ (pc[r] = "find" => call[r].op \notin Anonymous)
  BY DEF IInv, RequestInv, InFlight, StepInv, Anonymous
<1>2. CASE call[r].op \notin Anonymous \/ call[r].op = "login"
  BY <1>1, <1>2 DEF AuthorityInv, Anonymous
<1>3. CASE call[r].op \in Anonymous \ {"login"}
  <2>1. Entitled(row, call[r])
    BY <1>3 DEF Entitled, Anonymous, SuperuserOnly
  <2> QED
    BY <1>1, <2>1 DEF AuthorityInv
<1> QED
  BY <1>2, <1>3

LEMMA InCall ==
    ASSUME IInv, NEW r \in Request, pc[r] # "idle"
    PROVE  call[r] \in Call /\ WellFormed(call[r])
BY CallShape DEF IInv, TypeOK, RequestInv, StepInv

-----------------------------------------------------------------------------
(* The steps up to the write. *)

LEMMA ReceiveStep ==
    ASSUME IInv, NEW r \in Request, NEW c \in Call, Receive(r, c)
    PROVE  IInv'
<1> DEFINE step == IF c.op \in Anonymous THEN "check" ELSE "auth"
<1>1. TypeOK'
  <2>1. Entitled(row, c) \in BOOLEAN
    BY DEF Entitled
  <2> QED
    BY <2>1 DEF IInv, TypeOK, Receive, Goto, Step
<1>2. /\ pc[r] = "idle" /\ pc'[r] = step /\ answer'[r] = answer[r]
      /\ call'[r] = c /\ target'[r] = target[r] /\ entitled'[r] = Entitled(row, c)
  BY DEF IInv, TypeOK, Receive, Goto
<1>3. c # NoCall
  BY CallShape
<1>4. RequestInv(r) /\ answer[r] = "none"
  BY <1>2 DEF IInv, TypeOK, RequestInv, StepInv
<1>5. StepInv(r)'
  BY <1>2, <1>3, <1>4 DEF StepInv, Anonymous, Deletion, Patch
<1>6. AuthorityInv(r)'
  <2>1. UNCHANGED row
    BY DEF Receive
  <2> QED
    BY <1>2, <1>4, <2>1 DEF AuthorityInv
<1>7. DeletionInv(r)'
  BY <1>2, <1>4 DEF DeletionInv
<1>8. ASSUME NEW q \in Request, q # r
      PROVE  RequestInv(q)'
  <2>1. Same(q) /\ UNCHANGED <<row, born>> /\ entitled'[q] = entitled[q]
    BY <1>8 DEF IInv, TypeOK, Receive, Goto, Same
  <2>2. RequestInv(q)
    BY DEF IInv
  <2>3. StepInv(q)'
    BY <2>1, <2>2 DEF RequestInv, StepInv, Same
  <2>4. AuthorityInv(q)'
    BY <2>1, <2>2 DEF RequestInv, AuthorityInv, Same, InFlight
  <2>5. DeletionInv(q)'
    BY <2>1, <2>2 DEF RequestInv, DeletionInv, Same, Exists
  <2> QED
    BY <2>3, <2>4, <2>5 DEF RequestInv
<1>9. TableInv'
  BY DEF IInv, TableInv, UniqueEmail, Exists, Receive
<1> QED
  BY <1>1, <1>5, <1>6, <1>7, <1>8, <1>9 DEF IInv, RequestInv

LEMMA AuthStep ==
    ASSUME IInv, NEW r \in Request, AuthRefused(r) \/ AuthPassed(r)
    PROVE  IInv'
<1>1. CASE AuthRefused(r)
  <2>1. PICK status \in {"400", "403", "404"} : Respond(r, status)
    BY <1>1 DEF AuthRefused
  <2> QED
    BY <1>1, <2>1, RespondStep DEF AuthRefused, InFlight, Status
<1>2. CASE AuthPassed(r)
  <2> DEFINE c == call[r]
             me == row[c.caller]
             t == CASE c.op = "create" -> NoUser
                    [] c.op \in {"update_user", "delete_user"} -> c.user
                    [] OTHER -> c.caller
  <2>1. /\ pc[r] = "auth" /\ me # NoRow /\ me.is_active
        /\ RoleAllows(c, me) /\ PasswordAllows(c, me)
        /\ Goto(r, AfterAuth(c))
        /\ seen' = [seen EXCEPT ![r] = me]
        /\ target' = [target EXCEPT ![r] = t]
        /\ UNCHANGED <<row, born, call, entitled, chosen>>
    BY <1>2 DEF AuthPassed
  <2>2. c \in Call /\ WellFormed(c) /\ c.op \notin Anonymous /\ c.caller \in User
    BY <2>1, InCall DEF IInv, RequestInv, StepInv, WellFormed
  <2>3. Entitled(row, c)
    <3>1. c.op \in SuperuserOnly => me.is_superuser
      BY <2>1 DEF RoleAllows
    <3>2. c.op = "delete_me" => ~me.is_superuser
      BY <2>1 DEF RoleAllows
    <3>3. c.op = "password_me" => me.hash.password = c.password
      BY <2>1 DEF PasswordAllows
    <3>4. c.op # "login"
      BY <2>2 DEF Anonymous
    <3> QED
      BY <2>1, <2>2, <3>1, <3>2, <3>3, <3>4 DEF Entitled
  <2>4. entitled[r]
    BY <2>1, <2>3 DEF IInv, RequestInv, AuthorityInv, InFlight
  <2>5. me \in Row /\ Exists(c.caller) /\ c.caller \in born
    BY <2>1, <2>2 DEF IInv, TypeOK, TableInv, Exists
  <2>6. t \in User \cup {NoUser}
    BY <2>2 DEF WellFormed
  <2>7. AfterAuth(c) \in {"find", "check", "write", "refresh"}
    BY DEF AfterAuth
  <2>8. NoUser \notin User
    BY NullAssumption
  <2>9. MayGo(r, AfterAuth(c), t)
    <3>1. c.op \in Deletion => DOMAIN c.change = {}
      BY <2>2 DEF WellFormed
    <3>2. "email" \in DOMAIN c.change => c.op \in Patch
      BY <2>2 DEF WellFormed
    <3>3. AfterAuth(c) = "find" => c.op \in {"update_user", "delete_user"} /\ t = c.user
      BY DEF AfterAuth
    <3>4. AfterAuth(c) # "refresh" /\ (AfterAuth(c) = "check" => c.op \notin Deletion)
      BY <3>1 DEF AfterAuth, Deletion
    <3>5. AfterAuth(c) = "check" /\ c.op \in Patch => t \in User
      BY <2>2 DEF AfterAuth, Patch
    <3>6. AfterAuth(c) = "write" => t \in User /\ t = c.caller
      BY <2>2 DEF AfterAuth
    <3> QED
      BY <2>4, <2>5, <2>8, <3>3, <3>4, <3>5, <3>6 DEF MayGo
  <2>10. seen' \in [Request -> Row \cup {NoRow}]
    BY <2>1, <2>5 DEF IInv, TypeOK
  <2>11. InFlight(r)
    BY <2>1 DEF InFlight
  <2> HIDE DEF t, c, me
  <2> QED
    BY <2>1, <2>6, <2>7, <2>9, <2>10, <2>11, GotoStep
<1> QED
  BY <1>1, <1>2

LEMMA FindStep ==
    ASSUME IInv, NEW r \in Request, FindRefused(r) \/ FindPassed(r)
    PROVE  IInv'
<1>1. CASE FindRefused(r)
  <2>1. PICK status \in {"403", "404"} : Respond(r, status)
    BY <1>1 DEF FindRefused
  <2> QED
    BY <1>1, <2>1, RespondStep DEF FindRefused, InFlight, Status
<1>2. CASE FindPassed(r)
  <2> DEFINE c == call[r]
             step == IF "email" \in DOMAIN c.change THEN "check" ELSE "write"
             t == target[r]
  <2>1. /\ pc[r] = "find" /\ Goto(r, step)
        /\ UNCHANGED <<row, born, call, target, entitled, chosen>>
    BY <1>2 DEF FindPassed
  <2>2. /\ c \in Call /\ WellFormed(c) /\ InFlight(r)
        /\ c.op \in {"update_user", "delete_user"} /\ t = c.user
    BY <2>1, InCall DEF IInv, RequestInv, StepInv, InFlight
  <2>3. t \in User
    BY <2>2 DEF WellFormed
  <2>4. c.op = "delete_user" => Exists(t) /\ step = "write"
    BY <1>2, <2>2 DEF FindPassed, WellFormed, Deletion
  <2>5. Exists(t) => row[t] \in Row /\ t \in born
    BY <2>3 DEF IInv, TypeOK, TableInv, Exists
  <2>6. seen' \in [Request -> Row \cup {NoRow}]
    <3>1. seen' = seen \/ (Exists(t) /\ seen' = [seen EXCEPT ![r] = row[t]])
      BY <1>2 DEF FindPassed
    <3> QED
      BY <2>5, <3>1 DEF IInv, TypeOK
  <2>7. target' = [target EXCEPT ![r] = t]
    BY <2>1 DEF IInv, TypeOK
  <2>8. entitled[r]
    BY <2>1, HadRight
  <2>9. MayGo(r, step, t)
    BY <2>2, <2>3, <2>4, <2>5, <2>8, NullAssumption DEF MayGo, Deletion
  <2>10. step \in {"find", "check", "write", "refresh"}
    OBVIOUS
  <2> HIDE DEF t, step, c
  <2> QED
    BY <2>1, <2>2, <2>3, <2>6, <2>7, <2>9, <2>10, GotoStep
<1> QED
  BY <1>1, <1>2

\* The lookups by email, which end the call or go on to the write.
LEMMA CheckStep ==
    ASSUME IInv, NEW r \in Request,
           CheckInsertion(r) \/ CheckPatch(r) \/ CheckRefused(r)
    PROVE  IInv'
<1>1. pc[r] = "check" /\ InFlight(r)
  BY DEF CheckInsertion, CheckPatch, CheckRefused, InFlight
<1>2. call[r] \in Call /\ WellFormed(call[r])
  BY <1>1, InCall
<1>3. target' = [target EXCEPT ![r] = target[r]] /\ target[r] \in User \cup {NoUser}
  BY DEF IInv, TypeOK, CheckInsertion, CheckPatch, CheckRefused
<1>4. seen' \in [Request -> Row \cup {NoRow}]
  BY DEF IInv, TypeOK, CheckInsertion, CheckPatch, CheckRefused
<1>5. UNCHANGED <<row, born, call, target, seen, entitled, chosen>>
  BY DEF CheckInsertion, CheckPatch, CheckRefused
<1>6. ASSUME NEW status \in {"400", "409"}, Respond(r, status)
      PROVE  IInv'
  BY <1>1, <1>5, <1>6, RespondStep DEF Status
<1>7. ASSUME Goto(r, "write"), call[r].op \in Insertion \cup Patch
      PROVE  IInv'
  <2>1. entitled[r]
    BY <1>1, <1>7, HadRight DEF Insertion, Patch
  <2>2. call[r].op \in Patch => target[r] \in User
    BY <1>1 DEF IInv, RequestInv, StepInv
  <2>3. MayGo(r, "write", target[r])
    BY <1>7, <2>1, <2>2, NullAssumption DEF MayGo, Insertion, Patch, Deletion
  <2> QED
    BY <1>1, <1>3, <1>4, <1>5, <1>7, <2>3, GotoStep
<1>8. CASE CheckInsertion(r)
  BY <1>6, <1>7, <1>8 DEF CheckInsertion
<1>9. CASE CheckPatch(r)
  BY <1>6, <1>7, <1>9 DEF CheckPatch
<1>10. CASE CheckRefused(r)
  BY <1>6, <1>10 DEF CheckRefused
<1> QED
  BY <1>8, <1>9, <1>10

\* The lookups by email that find the row to write.
LEMMA OwnerStep ==
    ASSUME IInv, NEW r \in Request, NEW u \in User, Exists(u), pc[r] = "check",
           target' = [target EXCEPT ![r] = u], seen' = [seen EXCEPT ![r] = row[u]],
           Goto(r, "write"), call[r].op \notin Deletion,
           call[r].op = "login" => entitled[r],
           UNCHANGED <<row, born, call, entitled, chosen>>
    PROVE  IInv'
<1>1. row[u] \in Row
  BY DEF IInv, TypeOK, Exists
<1>2. seen' \in [Request -> Row \cup {NoRow}]
  BY <1>1 DEF IInv, TypeOK
<1>3. entitled[r]
  BY HadRight
<1>4. MayGo(r, "write", u)
  BY <1>3, NullAssumption DEF MayGo
<1>5. InFlight(r)
  BY DEF InFlight
<1> QED
  BY <1>2, <1>4, <1>5, GotoStep

LEMMA CheckResetStep ==
    ASSUME IInv, NEW r \in Request, CheckReset(r) \/ CheckSuperuser(r)
    PROVE  IInv'
<1>1. call[r].op \in {"reset", "create_superuser"} /\ pc[r] = "check" /\ InFlight(r)
  BY DEF CheckReset, CheckSuperuser, InFlight
<1>2. call[r].op \notin Deletion /\ call[r].op # "login"
  BY <1>1 DEF Deletion
<1>3. Goto(r, "write") /\ UNCHANGED <<row, born, call, entitled, chosen>>
  BY DEF CheckReset, CheckSuperuser
<1>4. CASE \E u \in Owners(call[r].email) :
            target' = [target EXCEPT ![r] = u] /\ seen' = [seen EXCEPT ![r] = row[u]]
  <2>1. PICK u \in Owners(call[r].email) :
            target' = [target EXCEPT ![r] = u] /\ seen' = [seen EXCEPT ![r] = row[u]]
    BY <1>4
  <2>2. u \in User /\ Exists(u)
    BY DEF Owners, OwnersIn, Exists
  <2> QED
    BY <1>1, <1>2, <1>3, <2>1, <2>2, OwnerStep
<1>5. CASE UNCHANGED <<target, seen>> /\ call[r].op = "create_superuser"
  <2>1. entitled[r]
    BY <1>1, <1>2, HadRight
  <2>2. MayGo(r, "write", target[r])
    BY <1>2, <1>5, <2>1 DEF MayGo
  <2>3. /\ target' = [target EXCEPT ![r] = target[r]] /\ target[r] \in User \cup {NoUser}
        /\ seen' \in [Request -> Row \cup {NoRow}]
    BY <1>5 DEF IInv, TypeOK
  <2> QED
    BY <1>1, <1>3, <2>2, <2>3, GotoStep
<1> QED
  BY <1>4, <1>5 DEF CheckReset, CheckSuperuser

LEMMA CheckLoginStep ==
    ASSUME IInv, NEW r \in Request, CheckLogin(r)
    PROVE  IInv'
<1> DEFINE c == call[r]
<1>1. PICK u \in Owners(c.email) :
        /\ row[u].hash.password = c.password
        /\ IF row[u].hash.legacy THEN Goto(r, "write") ELSE Respond(r, "200")
        /\ target' = [target EXCEPT ![r] = u]
        /\ seen' = [seen EXCEPT ![r] = row[u]]
  BY DEF CheckLogin
<1>2. /\ pc[r] = "check" /\ c.op = "login" /\ InFlight(r) /\ c.op \notin Deletion
      /\ UNCHANGED <<row, born, call, entitled, chosen>>
  BY DEF CheckLogin, InFlight, Deletion
<1>3. u \in User /\ Exists(u) /\ u \in OwnersIn(row, c.email)
  BY DEF Owners, OwnersIn, Exists
<1>4. entitled[r]
  <2>1. Entitled(row, c)
    BY <1>1, <1>2, <1>3 DEF Entitled, Anonymous, SuperuserOnly
  <2> QED
    BY <1>2, <2>1 DEF IInv, RequestInv, AuthorityInv
<1>5. CASE row[u].hash.legacy
  BY <1>1, <1>2, <1>3, <1>4, <1>5, OwnerStep
<1>6. CASE ~row[u].hash.legacy
  <2>1. Respond(r, "200")
    BY <1>1, <1>6
  <2>2. row[u] \in Row
    BY <1>3 DEF IInv, TypeOK, Exists
  <2>3. TypeOK'
    BY <1>1, <1>2, <1>3, <2>1, <2>2 DEF IInv, TypeOK, Respond, Step, Status
  <2>4. pc'[r] = "done" /\ answer'[r] = "200"
    BY <2>1 DEF IInv, TypeOK, Respond
  <2>5. \A q \in Request \ {r} : Same(q)
    BY <1>1, <1>2, <2>1 DEF IInv, TypeOK, Respond, Same
  <2>6. RequestInv(r)
    BY DEF IInv
  <2>7. StepInv(r)'
    BY <1>2, <2>4, <2>6 DEF RequestInv, StepInv
  <2>8. AuthorityInv(r)'
    BY <1>2, <1>4, <2>4 DEF AuthorityInv, InFlight
  <2>9. DeletionInv(r)'
    BY <1>2, <2>4 DEF DeletionInv
  <2> QED
    BY <1>2, <2>3, <2>5, <2>7, <2>8, <2>9, QuietStep DEF RequestInv
<1> QED
  BY <1>5, <1>6

-----------------------------------------------------------------------------
(* The steps that write the table. *)

LEMMA WriteStep ==
    ASSUME IInv, TypeOK', TableInv', NEW r \in Request, RequestInv(r)',
           \A q \in Request \ {r} : Same(q), Observe, NoRebirth
    PROVE  IInv'
<1>1. ASSUME NEW q \in Request, q # r
      PROVE  RequestInv(q)'
  BY <1>1, WriteFrame DEF IInv
<1> QED
  BY <1>1 DEF IInv

LEMMA InsertStep ==
    ASSUME IInv, NEW r \in Request, InsertRow(r)
    PROVE  IInv'
<1> DEFINE c == call[r]
<1>1. /\ pc[r] = "write" /\ target[r] = NoUser /\ InFlight(r)
      /\ UNCHANGED <<call, seen>>
  BY DEF InsertRow, InFlight
<1>2. c \in Call /\ WellFormed(c) /\ c.op \in Insertion \cup {"create_superuser"}
  BY <1>1, InCall DEF IInv, RequestInv, StepInv
<1>3. c.op \notin Deletion
  BY <1>2 DEF Insertion, Deletion
<1>4. CASE ~IndexAllows(c.email, NoUser)
  BY <1>1, <1>4, RespondStep DEF InsertRow, Status
<1>5. CASE IndexAllows(c.email, NoUser)
  <2>1. PICK u \in User \ born :
            /\ row' = [row EXCEPT ![u] = NewRow(c)]
            /\ born' = born \cup {u}
            /\ target' = [target EXCEPT ![r] = u]
            /\ chosen' = [chosen EXCEPT ![u] = c.change.hash.password]
            /\ Observe
            /\ Goto(r, "refresh")
    BY <1>5 DEF InsertRow
  <2>2. NewRow(c) \in Row /\ NewRow(c).email = c.email /\ c.change.hash.password \in Password
    BY <1>2, NewRowRow
  <2>3. TypeOK'
    BY <1>1, <2>1, <2>2 DEF IInv, TypeOK, Observe, Goto, Step
  <2>4. row \in [User -> Row \cup {NoRow}] /\ \A v \in User : Exists(v) => v \in born
    BY DEF IInv, TypeOK, TableInv
  <2>5. ~Exists(u) /\ row'[u] = NewRow(c) /\ \A v \in User \ {u} : row'[v] = row[v]
    BY <2>1, <2>4
  <2>6. \A v \in User : Exists(v) => row[v].email # c.email
    BY <1>5, NullAssumption DEF IndexAllows, Owners, OwnersIn, Exists
  <2>7. TableInv'
    <3>1. UniqueEmail'
      BY <2>2, <2>5, <2>6 DEF IInv, TableInv, UniqueEmail, Exists
    <3>2. \A v \in User : Exists(v)' => v \in born'
      BY <2>1, <2>4, <2>5 DEF Exists
    <3> QED
      BY <3>1, <3>2 DEF TableInv
  <2>8. NoRebirth
    <3>1. born \subseteq User
      BY DEF IInv, TypeOK
    <3> QED
      BY <2>1, <2>5, <3>1 DEF NoRebirth, Exists
  <2>9. pc'[r] = "refresh" /\ answer' = answer /\ \A q \in Request \ {r} : Same(q)
    BY <1>1, <2>1 DEF IInv, TypeOK, Goto, Same
  <2>10. RequestInv(r) /\ answer[r] = "none"
    BY <1>1 DEF IInv, TypeOK, RequestInv, StepInv
  <2>11. entitled[r]
    BY <1>1, HadRight
  <2>12. entitled'[r]
    BY <2>1, <2>11 DEF Observe
  <2>13. StepInv(r)'
    BY <1>1, <1>2, <1>3, <2>9, <2>10 DEF RequestInv, StepInv
  <2>14. AuthorityInv(r)'
    BY <2>12 DEF AuthorityInv
  <2>15. DeletionInv(r)'
    BY <1>1, <1>3 DEF DeletionInv
  <2> QED
    BY <2>1, <2>3, <2>7, <2>8, <2>9, <2>13, <2>14, <2>15, WriteStep DEF RequestInv
<1> QED
  BY <1>4, <1>5

LEMMA UpdateStep ==
    ASSUME IInv, NEW r \in Request, UpdateRow(r)
    PROVE  IInv'
<1> DEFINE c == call[r]
           u == target[r]
           new == Patched(r, row[u])
<1>1. /\ pc[r] = "write" /\ u # NoUser /\ InFlight(r) /\ c.op \notin Deletion
      /\ Exists(u) /\ IndexAllowsUpdate(r)
      /\ Observe /\ AfterUpdate(r)
      /\ UNCHANGED <<born, call, target, seen>>
  BY DEF UpdateRow, InFlight
<1>2. row' = [row EXCEPT ![u] = new]
  BY DEF UpdateRow
<1>3. c \in Call /\ WellFormed(c)
  BY <1>1, InCall
<1>4. u \in User /\ row[u] \in Row /\ u \in born
  BY <1>1 DEF IInv, TypeOK, TableInv, Exists
<1>5. /\ new \in Row
      /\ new.email = IF "email" \in Dirty(r) THEN Body(c).email ELSE row[u].email
      /\ "hash" \in Dirty(r) => Body(c).hash.password \in Password
  BY <1>3, <1>4, PatchedRow
<1>6. \/ \E status \in {"200", "500"} : c.op = "password_me" /\ Respond(r, status)
      \/ Goto(r, "refresh")
  BY <1>1 DEF AfterUpdate
<1>7. TypeOK'
  <2>1. row' \in [User -> Row \cup {NoRow}]
    BY <1>2, <1>4, <1>5 DEF IInv, TypeOK
  <2>2. chosen' \in [User -> Password \cup {NoRow}]
    <3>1. \/ chosen' = chosen
          \/ "hash" \in Dirty(r) /\ chosen' = [chosen EXCEPT ![u] = Body(c).hash.password]
      BY DEF UpdateRow
    <3> QED
      BY <1>5, <3>1 DEF IInv, TypeOK
  <2>3. pc' \in [Request -> Step] /\ answer' \in [Request -> Status]
    BY <1>6 DEF IInv, TypeOK, Respond, Goto, Step, Status
  <2>4. entitled' \in [Request -> BOOLEAN]
    BY <1>1 DEF IInv, TypeOK, Observe
  <2> QED
    BY <1>1, <2>1, <2>2, <2>3, <2>4 DEF IInv, TypeOK
<1>8. row'[u] = new /\ new # NoRow /\ \A v \in User \ {u} : row'[v] = row[v]
  BY <1>2, <1>4, <1>5, NullAssumption DEF IInv, TypeOK
<1>9. TableInv'
  <2>1. \A v \in User \ {u} : Exists(v) => row[v].email # new.email
    <3>1. CASE "email" \in Dirty(r)
      BY <1>1, <1>5, <3>1 DEF IndexAllowsUpdate, IndexAllows, Owners, OwnersIn, Exists
    <3>2. CASE "email" \notin Dirty(r)
      BY <1>1, <1>4, <1>5, <3>2 DEF IInv, TableInv, UniqueEmail
    <3> QED
      BY <3>1, <3>2
  <2>2. UniqueEmail'
    BY <1>8, <2>1 DEF IInv, TableInv, UniqueEmail, Exists
  <2>3. \A v \in User : Exists(v)' => v \in born'
    BY <1>1, <1>4, <1>8 DEF IInv, TableInv, Exists
  <2> QED
    BY <2>2, <2>3 DEF TableInv
<1>10. NoRebirth
  BY <1>1, <1>8 DEF IInv, TypeOK, NoRebirth, Exists
<1>11. \A q \in Request \ {r} : Same(q)
  BY <1>1, <1>6 DEF IInv, TypeOK, Respond, Goto, Same
<1>12. RequestInv(r) /\ answer[r] = "none"
  BY <1>1 DEF IInv, TypeOK, RequestInv, StepInv
<1>13. entitled'[r]
  <2>1. entitled[r]
    BY <1>1, HadRight
  <2> QED
    BY <1>1, <2>1 DEF Observe
<1>14. \/ pc'[r] = "done" /\ answer'[r] \in {"200", "500"}
       \/ pc'[r] = "refresh" /\ answer'[r] = "none"
  BY <1>6, <1>12 DEF IInv, TypeOK, Respond, Goto
<1>15. StepInv(r)'
  BY <1>1, <1>12, <1>14 DEF RequestInv, StepInv
<1>16. AuthorityInv(r)'
  BY <1>13 DEF AuthorityInv
<1>17. DeletionInv(r)'
  BY <1>1 DEF DeletionInv
<1> QED
  BY <1>1, <1>7, <1>9, <1>10, <1>11, <1>15, <1>16, <1>17, WriteStep DEF RequestInv

LEMMA DeleteStep ==
    ASSUME IInv, NEW r \in Request, DeleteRow(r)
    PROVE  IInv'
<1> DEFINE u == target[r]
<1>1. /\ pc[r] = "write" /\ InFlight(r) /\ call[r].op \in Deletion /\ Observe
      /\ row' = [row EXCEPT ![u] = NoRow]
      /\ UNCHANGED <<born, call, target, seen, chosen>>
  BY DEF DeleteRow, InFlight
<1>2. PICK status \in {"200", "500"} : Respond(r, status)
  BY DEF DeleteRow
<1>3. TypeOK'
  BY <1>1, <1>2 DEF IInv, TypeOK, Observe, Respond, Step, Status
<1>4. call[r] # NoCall /\ u \in born /\ u \in User
  BY <1>1, InCall, NullAssumption DEF IInv, TypeOK, RequestInv, DeletionInv
<1>5. row'[u] = NoRow /\ \A v \in User \ {u} : row'[v] = row[v]
  BY <1>1, <1>4 DEF IInv, TypeOK
<1>6. TableInv'
  BY <1>1, <1>5 DEF IInv, TableInv, UniqueEmail, Exists
<1>7. NoRebirth
  BY <1>1, <1>5 DEF IInv, TypeOK, NoRebirth, Exists
<1>8. \A q \in Request \ {r} : Same(q)
  BY <1>1, <1>2 DEF IInv, TypeOK, Respond, Same
<1>9. pc'[r] = "done" /\ answer'[r] = status
  BY <1>2 DEF IInv, TypeOK, Respond
<1>10. StepInv(r)'
  BY <1>1, <1>4, <1>9 DEF StepInv
<1>11. entitled'[r]
  <2>1. entitled[r]
    BY <1>1, HadRight
  <2> QED
    BY <1>1, <2>1 DEF Observe
<1>12. AuthorityInv(r)'
  BY <1>11 DEF AuthorityInv
<1>13. DeletionInv(r)'
  BY <1>1, <1>4, <1>5, <1>9 DEF DeletionInv, Exists
<1> QED
  BY <1>1, <1>3, <1>6, <1>7, <1>8, <1>10, <1>12, <1>13, WriteStep DEF RequestInv

-----------------------------------------------------------------------------
(* The steps after the write, and failures. *)

LEMMA RefreshStep ==
    ASSUME IInv, NEW r \in Request, Refresh(r)
    PROVE  IInv'
<1>1. pc[r] = "refresh" /\ InFlight(r)
      /\ UNCHANGED <<row, born, call, target, seen, entitled, chosen>>
  BY DEF Refresh, InFlight
<1>2. PICK status \in {"200", "400", "500"} : Respond(r, status)
  BY DEF Refresh
<1>3. entitled[r]
  BY <1>1, HadRight
<1>4. call[r].op \notin Deletion
  BY <1>1 DEF IInv, RequestInv, StepInv
<1> QED
  BY <1>1, <1>2, <1>3, <1>4, RespondStep DEF Status

LEMMA FailStep ==
    ASSUME IInv, NEW r \in Request, UpdateFails(r) \/ UpdateNothing(r) \/ Fail(r)
    PROVE  IInv'
<1>1. CASE UpdateFails(r)
  BY <1>1, RespondStep DEF UpdateFails, InFlight, Status
<1>2. CASE Fail(r)
  BY <1>2, RespondStep DEF Fail, Status
<1>3. CASE UpdateNothing(r)
  <2>1. /\ pc[r] = "write" /\ InFlight(r) /\ call[r].op \notin Deletion /\ Goto(r, "refresh")
        /\ UNCHANGED <<row, born, call, target, seen, entitled, chosen>>
    BY <1>3 DEF UpdateNothing, InFlight
  <2>2. entitled[r]
    BY <2>1, HadRight
  <2>3. MayGo(r, "refresh", target[r])
    BY <2>1, <2>2 DEF MayGo
  <2>4. /\ target' = [target EXCEPT ![r] = target[r]] /\ target[r] \in User \cup {NoUser}
        /\ seen' \in [Request -> Row \cup {NoRow}]
    BY <2>1 DEF IInv, TypeOK
  <2> QED
    BY <2>1, <2>3, <2>4, GotoStep
<1> QED
  BY <1>1, <1>2, <1>3

-----------------------------------------------------------------------------
LEMMA Start == Init => IInv
<1> SUFFICES ASSUME Init
             PROVE  IInv
  OBVIOUS
<1>1. row \in [User -> Row \cup {NoRow}] /\ UniqueEmail
  BY TableAssumption DEF Init, UniqueEmail, Exists
<1>2. chosen \in [User -> Password \cup {NoRow}]
  <2>1. ASSUME NEW u \in User, Exists(u)
        PROVE  row[u].hash.password \in Password
    BY <1>1, <2>1 DEF Exists, Row, Hash
  <2> QED
    BY <2>1 DEF Init
<1>3. TypeOK
  BY <1>1, <1>2 DEF Init, TypeOK, Step, Status
<1>4. TableInv
  BY <1>1 DEF Init, TableInv
<1>5. ASSUME NEW r \in Request
      PROVE  RequestInv(r)
  BY DEF Init, RequestInv, StepInv, AuthorityInv, DeletionInv, InFlight
<1> QED
  BY <1>3, <1>4, <1>5 DEF IInv

LEMMA Stutter == IInv /\ UNCHANGED vars => IInv'
<1> SUFFICES ASSUME IInv, UNCHANGED vars
             PROVE  IInv'
  OBVIOUS
<1>1. TypeOK' /\ TableInv'
  BY DEF IInv, TypeOK, TableInv, UniqueEmail, Exists, vars
<1>2. ASSUME NEW q \in Request
      PROVE  RequestInv(q)'
  BY QuietFrame DEF IInv, Same, vars
<1> QED
  BY <1>1, <1>2 DEF IInv

THEOREM Invariance == Spec => []IInv
<1>1. IInv /\ [Next]_vars => IInv'
  <2> SUFFICES ASSUME IInv, [Next]_vars
               PROVE  IInv'
    OBVIOUS
  <2>1. ASSUME NEW r \in Request, NEW c \in Call, Receive(r, c)
        PROVE  IInv'
    BY <2>1, ReceiveStep
  <2>2. ASSUME NEW r \in Request, Handle(r)
        PROVE  IInv'
    BY <2>2, AuthStep, FindStep, CheckStep, CheckResetStep, CheckLoginStep, InsertStep,
       UpdateStep, DeleteStep, RefreshStep, FailStep DEF Handle
  <2>3. CASE UNCHANGED vars
    BY <2>3, Stutter
  <2> QED
    BY <2>1, <2>2, <2>3 DEF Next, Quiescent
<1> QED
  BY <1>1, Start, PTL DEF Spec

\* Every column keeps a value of its type, whatever the bodies set.
THEOREM TypeCorrect == Spec => []TypeOK
<1>1. IInv => TypeOK
  BY DEF IInv
<1> QED
  BY <1>1, Invariance, PTL

\* The handlers that look for an email first and write it later never give it to
\* two users.
THEOREM EmailsUnique == Spec => []UniqueEmail
<1>1. IInv => UniqueEmail
  BY DEF IInv, TableInv
<1> QED
  BY <1>1, Invariance, PTL

\* A 200 of any of the endpoints is for a caller that had the right to it at some
\* moment of the call.
THEOREM AuthorityKept == Spec => []AuthorityHeld
<1>1. IInv => AuthorityHeld
  BY DEF IInv, RequestInv, AuthorityInv, AuthorityHeld
<1> QED
  BY <1>1, Invariance, PTL

\* delete_me and delete_user: what they have acknowledged stays deleted.
THEOREM DeletionsLast == Spec => []DeletedStaysDeleted
<1>1. IInv => DeletedStaysDeleted
  BY DEF IInv, RequestInv, DeletionInv, DeletedStaysDeleted
<1> QED
  BY <1>1, Invariance, PTL

\* Who leaves the write without an error has written its row, or had nothing to
\* write and found no row.
LEMMA SavingStep ==
    ASSUME IInv, Next, NEW r \in Request, Saves(r)
    PROVE  UpdateRow(r) \/ UpdateNothing(r)
<1>1. pc[r] = "write" /\ target[r] # NoUser /\ call[r].op \notin Deletion
      /\ pc'[r] # "write" /\ answer'[r] # "500"
  BY DEF Saves
<1>2. ~UNCHANGED vars
  BY <1>1 DEF vars
<1>3. ASSUME NEW q \in Request, NEW c \in Call
      PROVE  ~Receive(q, c)
  BY <1>1 DEF Receive, Goto, IInv, TypeOK
<1>4. ASSUME NEW q \in Request \ {r}
      PROVE  ~Handle(q)
  <2>1. Handle(q) => \E step : pc' = [pc EXCEPT ![q] = step]
    BY DEF Handle, AuthRefused, AuthPassed, FindRefused, FindPassed, CheckInsertion, CheckPatch,
           CheckRefused, CheckLogin, CheckReset, CheckSuperuser, InsertRow, UpdateFails, UpdateRow,
           UpdateNothing, DeleteRow, Refresh, Fail, AfterUpdate, Goto, Respond
  <2> QED
    BY <1>1, <1>4, <2>1 DEF IInv, TypeOK
<1>5. Handle(r)
  BY <1>2, <1>3, <1>4 DEF Next, Quiescent
<1>6. ~AuthRefused(r) /\ ~AuthPassed(r) /\ ~FindRefused(r) /\ ~FindPassed(r)
      /\ ~CheckInsertion(r) /\ ~CheckPatch(r) /\ ~CheckRefused(r) /\ ~CheckLogin(r)
      /\ ~CheckReset(r) /\ ~CheckSuperuser(r) /\ ~InsertRow(r) /\ ~DeleteRow(r) /\ ~Refresh(r)
  BY <1>1 DEF AuthRefused, AuthPassed, FindRefused, FindPassed, CheckInsertion, CheckPatch,
              CheckRefused, CheckLogin, CheckReset, CheckSuperuser, InsertRow, DeleteRow, Refresh
<1>7. ~UpdateFails(r) /\ ~Fail(r)
  BY <1>1 DEF UpdateFails, Fail, Respond, IInv, TypeOK
<1> QED
  BY <1>5, <1>6, <1>7 DEF Handle

\* And then its row has what the body sets in the columns that differed.
LEMMA SavedColumns ==
    ASSUME IInv, Next, NEW r \in Request, Saves(r), NEW f \in DOMAIN Body(call[r])
    PROVE  \/ f # "hash" /\ seen[r][f] = Body(call[r])[f]
           \/ row'[target[r]] # NoRow /\ row'[target[r]][f] = Body(call[r])[f]
<1>1. CASE UpdateNothing(r)
  BY <1>1 DEF UpdateNothing, Dirty
<1>2. CASE UpdateRow(r)
  <2> DEFINE u == target[r]
  <2>1. /\ pc[r] = "write" /\ u # NoUser /\ Exists(u)
        /\ row' = [row EXCEPT ![u] = Patched(r, row[u])]
    BY <1>2 DEF UpdateRow
  <2>2. u \in User /\ row[u] \in Row
    BY <2>1 DEF IInv, TypeOK, Exists
  <2>3. row'[u] = Patched(r, row[u])
    BY <2>1, <2>2 DEF IInv, TypeOK
  <2>4. call[r] \in Call
    BY <2>1, InCall
  <2>5. Patched(r, row[u]) \in Row
    BY <2>2, <2>4, PatchedRow
  <2>6. f \in Column
    BY <2>4, CallShape DEF ChangeSets
  <2>7. f \in Dirty(r) => Patched(r, row[u])[f] = Body(call[r])[f]
    BY <2>6 DEF Patched
  <2> QED
    BY <2>3, <2>5, <2>7, NullAssumption DEF Dirty
<1> QED
  BY <1>1, <1>2, SavingStep

\* A stale row that a Session has read costs nobody a column: an UPDATE writes of
\* the columns the body sets those that differ from it, and writes them all.
THEOREM ColumnsAreKept == Spec => ColumnsKept
<1> DEFINE Changed(u, f) == Exists(u) /\ Exists(u)' /\ row'[u][f] # row[u][f]
           Wanted(u, f) == \E r \in Request :
                /\ pc[r] = "write" /\ target[r] = u
                /\ f \in DOMAIN Body(call[r]) /\ row'[u][f] = Body(call[r])[f]
           Kept == \A u \in User, f \in Column : Changed(u, f) => Wanted(u, f)
           Took == \A r \in Request : Saves(r) =>
                \A f \in DOMAIN Body(call[r]) :
                    \/ f # "hash" /\ seen[r][f] = Body(call[r])[f]
                    \/ row'[target[r]] # NoRow /\ row'[target[r]][f] = Body(call[r])[f]
<1>1. IInv /\ [Next]_vars => [Kept]_vars
  <2> SUFFICES ASSUME IInv, Next, NEW u \in User, NEW f \in Column, Changed(u, f)
               PROVE  Wanted(u, f)
    OBVIOUS
  <2>1. row' # row /\ row \in [User -> Row \cup {NoRow}]
    BY DEF IInv, TypeOK
  <2>2. PICK r \in Request : InsertRow(r) \/ UpdateRow(r) \/ DeleteRow(r)
    BY <2>1 DEF Next, Quiescent, vars, Handle, Receive, AuthRefused, AuthPassed, FindRefused, FindPassed,
           CheckInsertion, CheckPatch, CheckRefused, CheckLogin, CheckReset, CheckSuperuser,
           UpdateFails, UpdateNothing, Refresh, Fail
  <2>3. CASE InsertRow(r)
    <3>1. PICK v \in User \ born : row' = [row EXCEPT ![v] = NewRow(call[r])]
      BY <2>1, <2>3 DEF InsertRow
    <3>2. u # v
      BY DEF IInv, TableInv
    <3> QED
      BY <2>1, <3>1, <3>2
  <2>4. CASE UpdateRow(r)
    <3>1. row' = [row EXCEPT ![target[r]] = Patched(r, @)] /\ pc[r] = "write"
      BY <2>4 DEF UpdateRow
    <3>2. u = target[r] /\ row'[u] = Patched(r, row[u])
      BY <2>1, <3>1
    <3>3. row'[u][f] = IF f \in Dirty(r) THEN Body(call[r])[f] ELSE row[u][f]
      BY <3>2 DEF Patched
    <3>4. f \in DOMAIN Body(call[r]) /\ row'[u][f] = Body(call[r])[f]
      BY <3>3 DEF Dirty
    <3> QED
      BY <3>1, <3>2, <3>4
  <2>5. CASE DeleteRow(r)
    <3>1. row' = [row EXCEPT ![target[r]] = NoRow]
      BY <2>5 DEF DeleteRow
    <3> QED
      BY <2>1, <3>1 DEF Exists
  <2> QED
    BY <2>2, <2>3, <2>4, <2>5
<1>2. IInv /\ [Next]_vars => [Took]_vars
  BY SavedColumns
<1>3. IInv /\ [Next]_vars => [Kept /\ Took]_vars
  BY <1>1, <1>2
<1> QED
  BY <1>3, Invariance, PTL DEF Spec, ColumnsKept
-----------------------------------------------------------------------------
(* The password of an account. *)

\* No row that can be read has a hash of the old algorithm, so a login writes
\* nothing, and every other hash that is written is noted as chosen.
HashInv ==
    /\ ChosenPasswordHolds
    /\ \A u \in User : Exists(u) => ~row[u].hash.legacy
    /\ \A r \in Request : pc[r] = "write" => call[r].op # "login"

LEMMA NewHashStep ==
    ASSUME IInv, HashInv, NEW r \in Request, InsertRow(r)
    PROVE  ChosenPasswordHolds' /\ \A v \in User : Exists(v)' => ~row'[v].hash.legacy
<1>1. call[r] \in Call /\ call[r].op \in Insertion \cup {"create_superuser"}
  BY InCall DEF InsertRow, IInv, RequestInv, StepInv
<1>2. NewRow(call[r]).hash = call[r].change.hash /\ ~call[r].change.hash.legacy
  BY <1>1, CallShape DEF WellFormed, ChangeSets, NewRow, Columns
<1>3. CASE UNCHANGED <<row, chosen>>
  BY <1>3 DEF HashInv, ChosenPasswordHolds, Exists
<1>4. CASE \E u \in User :
            /\ row' = [row EXCEPT ![u] = NewRow(call[r])]
            /\ chosen' = [chosen EXCEPT ![u] = call[r].change.hash.password]
  <2>1. PICK u \in User :
            /\ row' = [row EXCEPT ![u] = NewRow(call[r])]
            /\ chosen' = [chosen EXCEPT ![u] = call[r].change.hash.password]
    BY <1>4
  <2>2. /\ row'[u] = NewRow(call[r]) /\ chosen'[u] = call[r].change.hash.password
        /\ \A v \in User \ {u} : row'[v] = row[v] /\ chosen'[v] = chosen[v]
    BY <2>1 DEF IInv, TypeOK
  <2> QED
    BY <1>2, <2>2 DEF HashInv, ChosenPasswordHolds, Exists
<1> QED
  BY <1>3, <1>4 DEF InsertRow

LEMMA PatchedHashStep ==
    ASSUME IInv, HashInv, NEW r \in Request, UpdateRow(r)
    PROVE  ChosenPasswordHolds' /\ \A v \in User : Exists(v)' => ~row'[v].hash.legacy
<1> DEFINE b == Body(call[r])
           u == target[r]
           new == Patched(r, row[u])
<1>1. /\ pc[r] = "write" /\ u \in User /\ Exists(u)
      /\ row' = [row EXCEPT ![u] = new]
  BY DEF UpdateRow, IInv, TypeOK
<1>2. call[r].op # "login" /\ call[r] \in Call
  BY <1>1, InCall DEF HashInv
<1>3. chosen' = IF "hash" \in Dirty(r) THEN [chosen EXCEPT ![u] = b.hash.password] ELSE chosen
  BY <1>2 DEF UpdateRow
<1>4. ChangeSets(b)
  BY <1>2, CallShape
<1>5. "hash" \in Dirty(r) => "hash" \in DOMAIN b
  BY DEF Dirty
<1>6. new.hash = IF "hash" \in Dirty(r) THEN b.hash ELSE row[u].hash
  BY DEF Patched, Column
<1> HIDE DEF b, new
<1>7. ~new.hash.legacy
  BY <1>1, <1>4, <1>5, <1>6 DEF HashInv, ChangeSets
<1>8. row'[u] = new /\ \A v \in User \ {u} : row'[v] = row[v]
  BY <1>1 DEF IInv, TypeOK
<1>9. chosen'[u] = new.hash.password /\ \A v \in User \ {u} : chosen'[v] = chosen[v]
  BY <1>1, <1>3, <1>6 DEF IInv, TypeOK, HashInv, ChosenPasswordHolds
<1> QED
  BY <1>7, <1>8, <1>9 DEF HashInv, ChosenPasswordHolds, Exists

\* A step that writes no hash: rows are kept or deleted.
LEMMA NoHashStep ==
    ASSUME IInv, HashInv, Next, \A r \in Request : ~InsertRow(r) /\ ~UpdateRow(r)
    PROVE  ChosenPasswordHolds' /\ \A v \in User : Exists(v)' => ~row'[v].hash.legacy
<1>1. UNCHANGED chosen
  BY DEF Next, Quiescent, vars, Handle, Receive, AuthRefused, AuthPassed, FindRefused, FindPassed,
         CheckInsertion, CheckPatch, CheckRefused, CheckLogin, CheckReset, CheckSuperuser,
         UpdateFails, UpdateNothing, DeleteRow, Refresh, Fail
<1>2. UNCHANGED row \/ \E r \in Request : DeleteRow(r)
  BY DEF Next, Quiescent, vars, Handle, Receive, AuthRefused, AuthPassed, FindRefused, FindPassed,
         CheckInsertion, CheckPatch, CheckRefused, CheckLogin, CheckReset, CheckSuperuser,
         UpdateFails, UpdateNothing, Refresh, Fail
<1>3. \A v \in User : row'[v] \in {row[v], NoRow}
  BY <1>2 DEF DeleteRow, IInv, TypeOK
<1> QED
  BY <1>1, <1>3 DEF HashInv, ChosenPasswordHolds, Exists

\* Only a login goes on to write a hash that its caller did not choose, and it
\* does so only for a row of the old algorithm.
LEMMA LoginWritesNothing ==
    ASSUME IInv, HashInv, Next
    PROVE  \A r \in Request : pc'[r] = "write" => call'[r].op # "login"
<1> SUFFICES ASSUME NEW q \in Request, pc'[q] = "write"
             PROVE  call'[q].op # "login"
  OBVIOUS
<1>1. ASSUME NEW r \in Request, r # q, Handle(r) \/ \E c \in Call : Receive(r, c)
      PROVE  pc'[q] = pc[q] /\ call'[q] = call[q]
  <2>1. \E step \in Step : pc' = [pc EXCEPT ![r] = step]
    BY <1>1 DEF Handle, Receive, AuthRefused, AuthPassed, FindRefused, FindPassed, CheckInsertion,
       CheckPatch, CheckRefused, CheckLogin, CheckReset, CheckSuperuser, InsertRow,
       UpdateFails, UpdateRow, UpdateNothing, DeleteRow, Refresh, Fail, Goto, Respond,
       AfterAuth, AfterUpdate, Step
  <2>2. call' = call \/ \E c \in Call : call' = [call EXCEPT ![r] = c]
    BY <1>1 DEF Handle, Receive, AuthRefused, AuthPassed, FindRefused, FindPassed, CheckInsertion,
       CheckPatch, CheckRefused, CheckLogin, CheckReset, CheckSuperuser, InsertRow,
       UpdateFails, UpdateRow, UpdateNothing, DeleteRow, Refresh, Fail
  <2> QED
    BY <1>1, <2>1, <2>2 DEF IInv, TypeOK
<1>2. ASSUME NEW c \in Call, Receive(q, c)
      PROVE  FALSE
  BY <1>2 DEF Receive, Goto, IInv, TypeOK
<1>3. ASSUME Handle(q)
      PROVE  call'[q].op # "login"
  <2>1. pc'[q] # "done"
    OBVIOUS
  <2>2. \A status : ~Respond(q, status)
    BY <2>1 DEF Respond, IInv, TypeOK
  <2>3. AuthPassed(q) => call[q].op # "login" /\ call' = call
    BY DEF AuthPassed, IInv, RequestInv, StepInv, Anonymous
  <2>4. FindPassed(q) => call[q].op # "login" /\ call' = call
    BY DEF FindPassed, IInv, RequestInv, StepInv
  <2>5. CheckInsertion(q) \/ CheckPatch(q) \/ CheckReset(q) \/ CheckSuperuser(q) =>
            call[q].op # "login" /\ call' = call
    BY DEF CheckInsertion, CheckPatch, CheckReset, CheckSuperuser, Insertion, Patch
  <2>6. ~CheckLogin(q)
    BY <2>2 DEF CheckLogin, HashInv, Owners, OwnersIn, Exists
  <2>7. ~InsertRow(q) /\ ~UpdateRow(q) /\ ~UpdateNothing(q)
    BY <2>2 DEF InsertRow, UpdateRow, UpdateNothing, AfterUpdate, Goto, IInv, TypeOK
  <2>8. ~AuthRefused(q) /\ ~FindRefused(q) /\ ~CheckRefused(q) /\ ~UpdateFails(q)
        /\ ~DeleteRow(q) /\ ~Refresh(q) /\ ~Fail(q)
    BY <2>2 DEF AuthRefused, FindRefused, CheckRefused, UpdateFails, DeleteRow, Refresh, Fail
  <2> QED
    BY <1>3, <2>3, <2>4, <2>5, <2>6, <2>7, <2>8 DEF Handle
<1>4. CASE Quiescent
  BY <1>4 DEF Quiescent, vars, HashInv
<1> QED
  BY <1>1, <1>2, <1>3, <1>4 DEF Next, HashInv

\* The upgrade of old hashes is the only thing that ever loses a chosen password:
\* where the table starts without a hash of the old algorithm there never is one,
\* and the password of an account is the one last chosen for it.
THEOREM ChosenPasswordKept ==
    ASSUME \A t \in Table, u \in User : t[u] # NoRow => ~t[u].hash.legacy
    PROVE  Spec => []ChosenPasswordHolds
<1>1. Init => HashInv
  BY DEF Init, HashInv, ChosenPasswordHolds, Exists
<1>2. IInv /\ HashInv /\ [Next]_vars => HashInv'
  <2> SUFFICES ASSUME IInv, HashInv, [Next]_vars
               PROVE  HashInv'
    OBVIOUS
  <2>1. CASE Next
    <3>1. ChosenPasswordHolds' /\ \A v \in User : Exists(v)' => ~row'[v].hash.legacy
      BY <2>1, NewHashStep, PatchedHashStep, NoHashStep
    <3> QED
      BY <2>1, <3>1, LoginWritesNothing DEF HashInv
  <2>2. CASE UNCHANGED vars
    BY <2>2 DEF vars, HashInv, ChosenPasswordHolds, Exists
  <2> QED
    BY <2>1, <2>2
<1>3. HashInv => ChosenPasswordHolds
  BY DEF HashInv
<1> QED
  BY <1>1, <1>2, <1>3, Invariance, PTL DEF Spec

-----------------------------------------------------------------------------
(* The life of an account. *)

\* A step that changes one row changes one stage.
LEMMA OneAccount ==
    ASSUME NEW u \in User, NEW stage, Stages'[u] = stage,
           \A v \in User \ {u} : row'[v] = row[v] /\ (v \in born' <=> v \in born)
    PROVE  Stages' = [Stages EXCEPT ![u] = stage]
<1>1. \A v \in User \ {u} : Stages'[v] = Stages[v]
  BY DEF Stages, Exists
<1>2. Stages' = [v \in User |-> Stages'[v]] /\ Stages = [v \in User |-> Stages[v]]
  BY DEF Stages
<1> QED
  BY <1>1, <1>2

\* A row is an account with some rights.
LEMMA RowStage ==
    ASSUME NEW u \in User
    PROVE  /\ Stages[u] \in Life!Rights <=> Exists(u)
           /\ ~Exists(u) => Stages[u] = IF u \in born THEN "deleted" ELSE "unborn"
BY DEF Stages, Life!Rights

LEMMA LifeStep ==
    ASSUME IInv, Next
    PROVE  Life!LifeNext \/ UNCHANGED Stages
<1>1. ASSUME UNCHANGED <<row, born>> PROVE UNCHANGED Stages
  BY <1>1 DEF Stages, Exists
<1>2. ASSUME NEW r \in Request, InsertRow(r)
      PROVE  Life!LifeNext \/ UNCHANGED Stages
  <2>1. CASE ~IndexAllows(call[r].email, NoUser)
    BY <1>1, <1>2, <2>1 DEF InsertRow
  <2>2. CASE IndexAllows(call[r].email, NoUser)
    <3>1. PICK u \in User \ born :
            row' = [row EXCEPT ![u] = NewRow(call[r])] /\ born' = born \cup {u}
      BY <1>2, <2>2 DEF InsertRow
    <3>2. row'[u] \in Row /\ row'[u] # NoRow
      <4>1. call[r] \in Call /\ call[r].op \in Insertion \cup {"create_superuser"}
        BY <1>2, InCall DEF InsertRow, IInv, RequestInv, StepInv
      <4>2. NewRow(call[r]) \in Row
        BY <4>1, NewRowRow
      <4> QED
        BY <3>1, <4>2, NullAssumption DEF IInv, TypeOK
    <3>3. \A v \in User \ {u} : row'[v] = row[v] /\ (v \in born' <=> v \in born)
      BY <3>1 DEF IInv, TypeOK
    <3>4. Stages[u] = "unborn"
      BY <3>1, RowStage DEF IInv, TableInv
    <3>5. Stages'[u] \in Life!Rights
      BY <3>2 DEF Stages, Exists, Life!Rights
    <3>6. Stages' = [Stages EXCEPT ![u] = Stages'[u]]
      BY <3>3, OneAccount
    <3>7. Life!Join(u) /\ Stages'[u] # Stages[u]
      BY <3>4, <3>5, <3>6 DEF Life!Join, Life!Rights
    <3> QED
      BY <3>7 DEF Life!LifeNext
  <2> QED
    BY <2>1, <2>2
<1>3. ASSUME NEW r \in Request, UpdateRow(r)
      PROVE  Life!LifeNext \/ UNCHANGED Stages
  <2> DEFINE u == target[r]
  <2>1. /\ u \in User /\ Exists(u) /\ born' = born
        /\ row' = [row EXCEPT ![u] = Patched(r, row[u])]
    BY <1>3 DEF UpdateRow, IInv, TypeOK
  <2>2. row'[u] \in Row /\ row'[u] # NoRow
    <3>1. call[r] \in Call /\ row[u] \in Row
      BY <1>3, <2>1, InCall DEF UpdateRow, IInv, TypeOK, Exists
    <3>2. Patched(r, row[u]) \in Row
      BY <3>1, PatchedRow
    <3> QED
      BY <2>1, <3>2, NullAssumption DEF IInv, TypeOK
  <2>3. \A v \in User \ {u} : row'[v] = row[v] /\ (v \in born' <=> v \in born)
    BY <2>1 DEF IInv, TypeOK
  <2> HIDE DEF u
  <2>4. Stages[u] \in Life!Rights
    BY <2>1, RowStage
  <2>5. Stages'[u] \in Life!Rights
    BY <2>1, <2>2 DEF Stages, Exists, Life!Rights
  <2>6. Stages' = [Stages EXCEPT ![u] = Stages'[u]]
    BY <2>1, <2>3, OneAccount
  <2>7. CASE Stages'[u] = Stages[u]
    <3>1. Stages = [v \in User |-> Stages[v]]
      BY DEF Stages
    <3> QED
      BY <2>6, <2>7, <3>1
  <2>8. CASE Stages'[u] # Stages[u]
    <3>1. Life!Alter(u)
      BY <2>4, <2>5, <2>6, <2>8 DEF Life!Alter
    <3> QED
      BY <2>1, <2>8, <3>1 DEF Life!LifeNext
  <2> QED
    BY <2>7, <2>8
<1>4. ASSUME NEW r \in Request, DeleteRow(r)
      PROVE  Life!LifeNext \/ UNCHANGED Stages
  <2> DEFINE u == target[r]
  <2>1. u \in born /\ born' = born /\ row' = [row EXCEPT ![u] = NoRow]
    <3>1. pc[r] = "write" /\ call[r] # NoCall /\ call[r].op \in Deletion
      BY <1>4 DEF DeleteRow, IInv, RequestInv, StepInv
    <3> QED
      BY <1>4, <3>1 DEF DeleteRow, IInv, RequestInv, DeletionInv
  <2>2. u \in User
    BY <2>1 DEF IInv, TypeOK
  <2> HIDE DEF u
  <2>3. CASE ~Exists(u)
    <3>1. row' = row
      BY <2>1, <2>2, <2>3 DEF Exists, IInv, TypeOK
    <3> QED
      BY <1>1, <2>1, <3>1
  <2>4. CASE Exists(u)
    <3>1. \A v \in User \ {u} : row'[v] = row[v] /\ (v \in born' <=> v \in born)
      BY <2>1 DEF IInv, TypeOK
    <3>2. Stages'[u] = "deleted"
      BY <2>1, <2>2 DEF Stages, Exists, IInv, TypeOK
    <3>3. Stages[u] \in Life!Rights
      BY <2>2, <2>4, RowStage
    <3>4. Stages' = [Stages EXCEPT ![u] = "deleted"]
      BY <2>2, <3>1, <3>2, OneAccount
    <3>5. Life!Leave(u) /\ Stages'[u] # Stages[u]
      BY <3>2, <3>3, <3>4 DEF Life!Leave, Life!Rights
    <3> QED
      BY <2>2, <3>5 DEF Life!LifeNext
  <2> QED
    BY <2>3, <2>4
<1>5. CASE Quiescent
  BY <1>1, <1>5 DEF Quiescent, vars
<1>6. ASSUME NEW r \in Request, NEW c \in Call, Receive(r, c)
      PROVE  UNCHANGED Stages
  BY <1>1, <1>6 DEF Receive
<1>7. ASSUME NEW r \in Request, Handle(r), ~InsertRow(r), ~UpdateRow(r), ~DeleteRow(r)
      PROVE  UNCHANGED Stages
  <2>1. UNCHANGED <<row, born>>
    BY <1>7 DEF Handle, AuthRefused, AuthPassed, FindRefused, FindPassed, CheckInsertion,
       CheckPatch, CheckRefused, CheckLogin, CheckReset, CheckSuperuser, UpdateFails,
       UpdateNothing, Refresh, Fail
  <2> QED
    BY <1>1, <2>1
<1> QED
  BY <1>2, <1>3, <1>4, <1>5, <1>6, <1>7 DEF Next

\* The writers of the user table together implement the life of an account.
THEOREM LifeImplemented == Spec => ImplementsLife
<1>1. Init => Life!LifeInit
  <2> SUFFICES ASSUME Init PROVE Life!LifeInit
    OBVIOUS
  <2>1. \A u \in User : Exists(u) <=> u \in born
    BY DEF Init
  <2>2. \A u \in User : Stages[u] \in Life!Rights \cup {"unborn"}
    BY <2>1, RowStage
  <2>3. Stages = [u \in User |-> Stages[u]]
    BY DEF Stages
  <2> QED
    BY <2>2, <2>3 DEF Life!LifeInit
<1>2. IInv /\ [Next]_vars => [Life!LifeNext]_Stages
  <2>1. UNCHANGED vars => UNCHANGED Stages
    BY DEF vars, Stages, Exists
  <2> QED
    BY <2>1, LifeStep
<1> QED
  BY <1>1, <1>2, Invariance, PTL DEF Spec, ImplementsLife, Life!LifeSpec

-----------------------------------------------------------------------------
(* The items over the user table. *)

\* After a step, too, a row is an account with some rights.
LEMMA RowStageNext ==
    ASSUME NEW u \in User
    PROVE  Stages'[u] \in Life!Rights <=> row'[u] # NoRow
BY DEF Stages, Exists, Life!Rights

LEMMA ItemsInitial ==
    ASSUME ItemsAssumptions, I!Init
    PROVE  I!IInv
BY I!Initial DEF ItemsAssumptions

LEMMA ItemsInductive ==
    ASSUME ItemsAssumptions, I!IInv, [I!Next]_(I!vars)
    PROVE  I!IInv'
BY I!Inductive DEF ItemsAssumptions

\* Where no account is deleted the cascade takes no item.
LEMMA CascadeIdle ==
    ASSUME I!IInv, Cascade, \A u \in User : Stages[u] \in Life!Rights => Stages'[u] \in Life!Rights
    PROVE  UNCHANGED itemTable
<1>1. owner \in [Item -> User \cup {NoUser}] /\ title \in [Item -> Title \cup {NoTitle}]
  BY DEF I!IInv, I!TypeOK
<1>2. \A i \in Item : owner[i] # NoUser => Stages[owner[i]] \in Life!Rights
  BY DEF I!IInv, I!TableInv, I!OwnerExists, I!Exists, I!Life!Rights, Life!Rights
<1>3. ASSUME NEW i \in Item, owner[i] \in User
      PROVE  row'[owner[i]] # NoRow
  BY <1>2, <1>3, NullAssumption, RowStageNext
<1>4. owner' = [i \in Item |-> owner[i]] /\ title' = [i \in Item |-> title[i]]
  BY <1>3 DEF Cascade
<1> QED
  BY <1>1, <1>4 DEF itemTable

\* The rights of callers whose accounts keep their stage, or are deleted, are noted.
LEMMA RolesIdle ==
    ASSUME ItemsAssumptions, I!IInv, I!Observe,
           \A u \in User : Stages'[u] \in {Stages[u], "deleted"}
    PROVE  UNCHANGED roles
<1>1. roles \in [ItemRequest -> SUBSET {"user", "superuser"}]
  BY DEF I!IInv, I!TypeOK
<1>2. ASSUME NEW r \in ItemRequest, I!InFlight(r)
      PROVE  I!RightsOf(Stages'[itemCall[r].caller]) \subseteq roles[r]
  <2>1. I!RightsOf(Stages[itemCall[r].caller]) \subseteq roles[r]
    BY <1>2 DEF I!IInv, I!RequestInv, I!AuthorityInv
  <2>2. itemCall[r].caller \in User
    BY <1>2, I!InCall DEF ItemsAssumptions, I!InFlight
  <2>3. Stages'[itemCall[r].caller] \in {Stages[itemCall[r].caller], "deleted"}
    BY <2>2
  <2> QED
    BY <2>1, <2>3 DEF I!RightsOf
<1>3. roles' = [r \in ItemRequest |-> roles[r]]
  BY <1>2 DEF I!Observe
<1> QED
  BY <1>1, <1>3

\* A step of Accounts is to Items a change of one account, its deletion, or nothing.
LEMMA AccountsStepFollowed ==
    ASSUME ItemsAssumptions, IInv, I!IInv, AccountsStep
    PROVE  [I!Next]_(I!vars)
<1>1. Next /\ Cascade /\ I!Observe /\ UNCHANGED itemRequests
  BY DEF AccountsStep
<1>2. Life!LifeNext \/ UNCHANGED Stages
  BY <1>1, LifeStep
<1>3. CASE UNCHANGED Stages
  <2>1. UNCHANGED itemTable
    BY <1>1, <1>3, CascadeIdle
  <2>2. UNCHANGED roles
    BY <1>1, <1>3, RolesIdle
  <2> QED
    BY <1>1, <1>3, <2>1, <2>2 DEF itemTable, itemRequests, I!vars, I!table
<1>4. ASSUME NEW u \in User, Life!Join(u) \/ Life!Alter(u)
      PROVE  I!Next
  <2>1. Stages \in [User -> Life!Stage]
    BY DEF Stages, Life!Stage, Life!Rights
  <2>2. \A v \in User : Stages[v] \in Life!Rights => Stages'[v] \in Life!Rights
    BY <1>4, <2>1 DEF Life!Join, Life!Alter
  <2>3. UNCHANGED itemTable
    BY <1>1, <2>2, CascadeIdle
  <2>4. I!Life!Join(u) \/ I!Life!Alter(u)
    BY <1>4 DEF Life!Join, Life!Alter, Life!Rights, I!Life!Join, I!Life!Alter, I!Life!Rights
  <2>5. I!AccountChanges
    BY <1>1, <2>3, <2>4 DEF I!AccountChanges, itemTable, itemRequests, I!table
  <2> QED
    BY <2>5 DEF I!Next
<1>5. ASSUME NEW u \in User, Life!Leave(u)
      PROVE  I!Next
  <2>1. Stages \in [User -> Life!Stage]
    BY DEF Stages, Life!Stage, Life!Rights
  <2>2. Stages[u] \in Life!Rights /\ Stages' = [Stages EXCEPT ![u] = "deleted"]
    BY <1>5 DEF Life!Leave
  <2>3. UNCHANGED roles
    <3>1. \A v \in User : Stages'[v] \in {Stages[v], "deleted"}
      BY <2>1, <2>2
    <3> QED
      BY <1>1, <3>1, RolesIdle
  <2>4. \A i \in Item : owner[i] \in User /\ row'[owner[i]] = NoRow <=> owner[i] = u
    <3> SUFFICES ASSUME NEW i \in Item
                 PROVE  owner[i] \in User /\ row'[owner[i]] = NoRow <=> owner[i] = u
      OBVIOUS
    <3>1. row'[u] = NoRow
      BY <2>1, <2>2, RowStageNext DEF Life!Rights
    <3>2. ASSUME owner[i] \in User, owner[i] # u
          PROVE  row'[owner[i]] # NoRow
      <4>1. Stages[owner[i]] \in Life!Rights
        BY <3>2, NullAssumption
           DEF I!IInv, I!TableInv, I!OwnerExists, I!Exists, I!Life!Rights, Life!Rights
      <4>2. Stages'[owner[i]] = Stages[owner[i]]
        BY <2>1, <2>2, <3>2
      <4> QED
        BY <3>2, <4>1, <4>2, RowStageNext
    <3> QED
      BY <3>1, <3>2
  <2>5. /\ owner' = [i \in Item |-> IF i \in I!Owned(u) THEN NoUser ELSE owner[i]]
        /\ title' = [i \in Item |-> IF i \in I!Owned(u) THEN NoTitle ELSE title[i]]
    BY <1>1, <2>4 DEF Cascade, I!Owned
  <2>6. I!Life!Leave(u)
    BY <2>2 DEF Life!Rights, I!Life!Leave, I!Life!Rights
  <2>7. I!AccountDeleted(u)
    BY <1>1, <2>3, <2>5, <2>6 DEF I!AccountDeleted, itemRequests
  <2> QED
    BY <2>7 DEF I!Next
<1> QED
  BY <1>2, <1>3, <1>4, <1>5 DEF Life!LifeNext

\* The items change nothing of what was proved of the user table.
THEOREM AccountsImplemented == TablesSpec => Spec
<1>1. TablesInit => Init
  BY DEF TablesInit
<1>2. [TablesNext]_tables => [Next]_vars
  BY DEF TablesNext, AccountsStep, ItemsStep, tables
<1> QED
  BY <1>1, <1>2, PTL DEF TablesSpec, Spec

LEMMA ItemsFollow ==
    ASSUME ItemsAssumptions, IInv, I!IInv, [TablesNext]_tables
    PROVE  [I!Next]_(I!vars)
<1>1. CASE AccountsStep
  BY <1>1, AccountsStepFollowed
<1>2. CASE ItemsStep
  BY <1>2 DEF ItemsStep, I!Next
<1>3. CASE UNCHANGED tables
  <2>1. UNCHANGED Stages
    BY <1>3 DEF tables, vars, Stages, Exists
  <2> QED
    BY <1>3, <2>1 DEF tables, itemTable, itemRequests, I!vars, I!table
<1> QED
  BY <1>1, <1>2, <1>3 DEF TablesNext

LEMMA TablesInvariance ==
    ASSUME ItemsAssumptions
    PROVE  TablesSpec => []IInv /\ []I!IInv
<1>1. TablesInit => I!IInv
  BY ItemsInitial DEF TablesInit
<1>2. IInv /\ I!IInv /\ [TablesNext]_tables => I!IInv'
  BY ItemsFollow, ItemsInductive
<1> QED
  BY <1>1, <1>2, AccountsImplemented, Invariance, PTL DEF TablesSpec

\* The accounts of fast_auth are accounts as the endpoints of the items expect
\* them: over the user table and its cascade Items does what it does alone, so that
\* all that is proved of it there holds.
THEOREM ItemsImplemented ==
    ASSUME ItemsAssumptions
    PROVE  TablesSpec => I!Spec
<1>1. TablesInit => I!Init
  BY DEF TablesInit
<1>2. IInv /\ I!IInv /\ [TablesNext]_tables => [I!Next]_(I!vars)
  BY ItemsFollow
<1> QED
  BY <1>1, <1>2, TablesInvariance, PTL DEF TablesSpec, I!Spec

\* item.owner_id always refers to a row of the user table.
THEOREM OwnersAlwaysHaveRows ==
    ASSUME ItemsAssumptions
    PROVE  TablesSpec => []OwnersHaveRows
<1>1. I!IInv => OwnersHaveRows
  <2> SUFFICES ASSUME I!IInv, NEW i \in Item, owner[i] # NoUser
               PROVE  owner[i] \in User /\ Exists(owner[i])
    BY DEF OwnersHaveRows
  <2>1. owner[i] \in User
    BY DEF I!IInv, I!TypeOK
  <2>2. Stages[owner[i]] \in Life!Rights
    BY DEF I!IInv, I!TableInv, I!OwnerExists, I!Exists, I!Life!Rights, Life!Rights
  <2> QED
    BY <2>1, <2>2, RowStage
<1> QED
  BY <1>1, TablesInvariance, PTL

\* Deleting an account leaves nothing of it: when delete_me or delete_user_by_id
\* has answered, no item belongs to the account, and none ever will.
THEOREM NothingIsLeft ==
    ASSUME ItemsAssumptions
    PROVE  TablesSpec => []ItemsGoWithAccounts
<1>1. IInv /\ OwnersHaveRows => ItemsGoWithAccounts
  <2> SUFFICES ASSUME IInv, OwnersHaveRows, NEW r \in Request,
                      call[r] # NoCall, call[r].op \in Deletion, answer[r] = "200",
                      NEW i \in Item
               PROVE  owner[i] # target[r]
    BY DEF ItemsGoWithAccounts
  <2>1. target[r] \in User /\ ~Exists(target[r])
    BY DEF IInv, TypeOK, RequestInv, DeletionInv
  <2> QED
    BY <2>1, NullAssumption DEF OwnersHaveRows
<1> QED
  BY <1>1, TablesInvariance, OwnersAlwaysHaveRows, PTL
=============================================================================
