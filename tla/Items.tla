-------------------------------- MODULE Items --------------------------------
(***************************************************************************)
(* The item table and its endpoints (modules/items): ItemService and       *)
(* ItemRepository behind get_current_user of fast_auth.                    *)
(*                                                                         *)
(* Each element of Request is one call with a Session of its own, split at *)
(* its queries at READ COMMITTED; a flush and its COMMIT are one step.     *)
(* The accounts of the callers live as AccountLife says; a deleted one     *)
(* takes its items with it.  An item is its owner and its title.           *)
(* description is written like the title, and the order of a page decides  *)
(* nothing here.                                                           *)
(***************************************************************************)
EXTENDS Naturals, FiniteSets

CONSTANTS
    User,
    Item,           \* the uuids of items
    Title,
    Request,
    Start,          \* the accounts and items a deployment may start with
    Call,           \* the calls clients may make
    NoUser, NoItem, NoTitle, NoCall

Endpoint == {"create", "update", "delete", "read", "list"}
ById == {"update", "delete", "read"}

\* A call has a caller; the item in its path; the title its body sets, or the
\* one a list is filtered by; and the page a list asks for.
WellFormed(c) ==
    /\ c.op \in Endpoint /\ c.caller \in User
    /\ IF c.op \in ById THEN c.item \in Item ELSE c.item = NoItem
    /\ c.title \in Title \cup {NoTitle}
    /\ c.op = "create" => c.title # NoTitle
    /\ c.op = "list" => c.skip \in Nat /\ c.limit \in Nat /\ c.sortable \in BOOLEAN

ASSUME CallAssumption == \A c \in Call : WellFormed(c)
ASSUME ItemAssumption == IsFiniteSet(Item)
ASSUME StartAssumption ==
    \A start \in Start :
        /\ start.account \in [User -> {"unborn", "inactive", "user", "superuser"}]
        /\ start.owner \in [Item -> User \cup {NoUser}]
        /\ start.title \in [Item -> Title \cup {NoTitle}]
        /\ \A i \in Item :
            /\ start.owner[i] = NoUser <=> start.title[i] = NoTitle
            /\ start.owner[i] # NoUser => start.account[start.owner[i]] # "unborn"
ASSUME NullAssumption ==
    NoUser \notin User /\ NoItem \notin Item /\ NoTitle \notin Title /\ NoCall \notin Call

VARIABLES
    account,    \* where each account is in its life
    owner,      \* the item table: owner_id, NoUser for no row
    title,      \* the item table: title, NoTitle for no row
    pc,         \* the next query of each request
    call,       \* the call each request serves
    superuser,  \* is_superuser of its caller, as its Session has read it
    seen,       \* the title of its item, as its Session has read it
    made,       \* the item a request inserted
    count,      \* what the first query of a list counted
    page,       \* what the second returned
    answer,     \* HTTP status
    maker,      \* history: who each item was inserted for, NoUser for none
    roles       \* history: the rights the caller had at some moment of the call

table == <<owner, title>>
vars == <<account, table, pc, call, superuser, seen, made, count, page, answer, maker, roles>>

Life == INSTANCE AccountLife WITH life <- account

Step == {"idle", "auth", "get", "write", "refresh", "page", "done"}
Status == {"none", "200", "400", "403", "404", "500"}

TypeOK ==
    /\ account \in [User -> Life!Stage]
    /\ owner \in [Item -> User \cup {NoUser}]
    /\ title \in [Item -> Title \cup {NoTitle}]
    /\ \A i \in Item : owner[i] = NoUser <=> title[i] = NoTitle
    /\ pc \in [Request -> Step]
    /\ call \in [Request -> Call \cup {NoCall}]
    /\ superuser \in [Request -> BOOLEAN]
    /\ seen \in [Request -> Title \cup {NoTitle}]
    /\ made \in [Request -> Item \cup {NoItem}]
    /\ count \in [Request -> 0 .. Cardinality(Item)]
    /\ page \in [Request -> SUBSET Item]
    /\ answer \in [Request -> Status]
    /\ maker \in [Item -> User \cup {NoUser}]
    /\ roles \in [Request -> SUBSET {"user", "superuser"}]

Exists(i) == owner[i] # NoUser

\* The rights that go with a stage of an account.
RightsOf(stage) == {right \in {"user", "superuser"} : right = stage}

Init ==
    /\ \E start \in Start :
        /\ account = start.account
        /\ owner = start.owner
        /\ title = start.title
    /\ pc = [r \in Request |-> "idle"]
    /\ call = [r \in Request |-> NoCall]
    /\ superuser = [r \in Request |-> FALSE]
    /\ seen = [r \in Request |-> NoTitle]
    /\ made = [r \in Request |-> NoItem]
    /\ count = [r \in Request |-> 0]
    /\ page = [r \in Request |-> {}]
    /\ answer = [r \in Request |-> "none"]
    /\ maker = owner
    /\ roles = [r \in Request |-> {}]

InFlight(r) == pc[r] \notin {"idle", "done"}

Goto(r, step) ==
    /\ pc' = [pc EXCEPT ![r] = step]
    /\ UNCHANGED answer

Respond(r, status) ==
    /\ pc' = [pc EXCEPT ![r] = "done"]
    /\ answer' = [answer EXCEPT ![r] = status]

-----------------------------------------------------------------------------
(* Faulty variants, which the properties must tell apart from the code. *)

\* The owner is not compared with the caller.
MayAccessAll(r, u) == TRUE

\* owner_id without a foreign key.
MayOwnAnybody(u) == TRUE

\* A title the body does not set is written as null.
WrittenUnset(r, old) == call[r].title

\* Every column is written, those of the stale row too.
WrittenWhole(r, old) == IF call[r].title = NoTitle THEN seen[r] ELSE call[r].title

-----------------------------------------------------------------------------
Receive(r, c) ==
    /\ pc[r] = "idle"
    /\ c.op \in ById => maker[c.item] # NoUser
    /\ Goto(r, "auth")
    /\ call' = [call EXCEPT ![r] = c]
    /\ roles' = [roles EXCEPT ![r] = RightsOf(account[c.caller])]
    /\ UNCHANGED <<account, table, superuser, seen, made, count, page, maker>>

(* get_current_user *)

AuthRefused(r) ==
    /\ pc[r] = "auth"
    /\ \/ account[call[r].caller] \in {"unborn", "deleted"} /\ Respond(r, "404")
       \/ account[call[r].caller] = "inactive" /\ Respond(r, "400")
    /\ UNCHANGED <<account, table, call, superuser, seen, made, count, page, maker, roles>>

\* parse_sort_param refuses a field it does not know before the first query.
AuthPassed(r) ==
    /\ pc[r] = "auth"
    /\ account[call[r].caller] \in {"user", "superuser"}
    /\ superuser' = [superuser EXCEPT ![r] = account[call[r].caller] = "superuser"]
    /\ IF call[r].op = "list" /\ ~call[r].sortable
       THEN Respond(r, "400")
       ELSE Goto(r, IF call[r].op = "create" THEN "write" ELSE "get")
    /\ UNCHANGED <<account, table, call, seen, made, count, page, maker, roles>>

-----------------------------------------------------------------------------
(* get_item *)

\* can_access_item
MayAccess(r, u) == superuser[r] \/ u = call[r].caller

GetRefused(r) ==
    /\ pc[r] = "get" /\ call[r].op \in ById
    /\ \/ ~Exists(call[r].item) /\ Respond(r, "404")
       \/ Exists(call[r].item) /\ ~MayAccess(r, owner[call[r].item]) /\ Respond(r, "403")
    /\ UNCHANGED <<account, table, call, superuser, seen, made, count, page, maker, roles>>

GetPassed(r) ==
    /\ pc[r] = "get" /\ call[r].op \in ById
    /\ Exists(call[r].item) /\ MayAccess(r, owner[call[r].item])
    /\ IF call[r].op = "read" THEN Respond(r, "200") ELSE Goto(r, "write")
    /\ seen' = [seen EXCEPT ![r] = title[call[r].item]]
    /\ UNCHANGED <<account, table, call, superuser, made, count, page, maker, roles>>

(* list_for_user: two queries with one filter, each of a moment of its own. *)

Listed(r) ==
    {i \in Item :
        /\ Exists(i) /\ MayAccess(r, owner[i])
        /\ call[r].title # NoTitle => title[i] = call[r].title}

Count(r) ==
    /\ pc[r] = "get" /\ call[r].op = "list"
    /\ count' = [count EXCEPT ![r] = Cardinality(Listed(r))]
    /\ Goto(r, "page")
    /\ UNCHANGED <<account, table, call, superuser, seen, made, page, maker, roles>>

\* OFFSET and LIMIT cut a page of this size.
PageSize(rows, skip, limit) ==
    IF rows <= skip THEN 0 ELSE IF rows - skip <= limit THEN rows - skip ELSE limit

Page(r) ==
    /\ pc[r] = "page"
    /\ \E p \in SUBSET Listed(r) :
        /\ Cardinality(p) = PageSize(Cardinality(Listed(r)), call[r].skip, call[r].limit)
        /\ page' = [page EXCEPT ![r] = p]
    /\ Respond(r, "200")
    /\ UNCHANGED <<account, table, call, superuser, seen, made, count, maker, roles>>

-----------------------------------------------------------------------------
(* What a flush writes. *)

\* The foreign key: there is a row for the owner.
MayOwn(u) == account[u] \in Life!Rights

\* ItemRepository.create, flushed and committed; a violated key is a 500.
InsertItem(r) ==
    /\ pc[r] = "write" /\ call[r].op = "create"
    /\ IF ~MayOwn(call[r].caller)
       THEN Respond(r, "500") /\ UNCHANGED <<table, made, maker>>
       ELSE \E i \in {j \in Item : maker[j] = NoUser} :
            /\ owner' = [owner EXCEPT ![i] = call[r].caller]
            /\ title' = [title EXCEPT ![i] = call[r].title]
            /\ maker' = [maker EXCEPT ![i] = call[r].caller]
            /\ made' = [made EXCEPT ![r] = i]
            /\ Goto(r, "refresh")
    /\ UNCHANGED <<account, call, superuser, seen, count, page, roles>>

\* SQLAlchemy sends no UPDATE when nothing differs from what it read.
Dirty(r) == call[r].title \notin {NoTitle, seen[r]}

Written(r, old) == IF Dirty(r) THEN call[r].title ELSE old

\* Faulty variant: the row is merged, which inserts it again when it is gone.
UpdateMerged(r) ==
    LET i == call[r].item IN
    /\ pc[r] = "write" /\ call[r].op = "update"
    /\ MayOwn(maker[i])
    /\ owner' = [owner EXCEPT ![i] = maker[i]]
    /\ title' = [title EXCEPT ![i] = Written(r, IF Exists(i) THEN @ ELSE seen[r])]
    /\ Goto(r, "refresh")
    /\ UNCHANGED <<account, call, superuser, seen, made, count, page, maker, roles>>

UpdateItem(r) ==
    /\ pc[r] = "write" /\ call[r].op = "update"
    /\ Exists(call[r].item)
    /\ title' = [title EXCEPT ![call[r].item] = Written(r, @)]
    /\ Goto(r, "refresh")
    /\ UNCHANGED <<account, owner, call, superuser, seen, made, count, page, maker, roles>>

\* The row is gone: the UPDATE matches nothing, or the refresh that follows the
\* flush finds nothing.
UpdateFails(r) ==
    /\ pc[r] = "write" /\ call[r].op = "update"
    /\ ~Exists(call[r].item)
    /\ Respond(r, "500")
    /\ UNCHANGED <<account, table, call, superuser, seen, made, count, page, maker, roles>>

\* DELETE of a row that is gone already is not an error.
DeleteItem(r) ==
    /\ pc[r] = "write" /\ call[r].op = "delete"
    /\ owner' = [owner EXCEPT ![call[r].item] = NoUser]
    /\ title' = [title EXCEPT ![call[r].item] = NoTitle]
    /\ \E status \in {"200", "500"} : Respond(r, status)
    /\ UNCHANGED <<account, call, superuser, seen, made, count, page, maker, roles>>

\* session.refresh after the commit.
Refresh(r) ==
    /\ pc[r] = "refresh"
    /\ LET i == IF call[r].op = "create" THEN made[r] ELSE call[r].item IN
        Respond(r, IF Exists(i) THEN "200" ELSE "500")
    /\ UNCHANGED <<account, table, call, superuser, seen, made, count, page, maker, roles>>

\* The database is unreachable, a column may not be null or the process dies.
Fail(r) ==
    /\ InFlight(r)
    /\ Respond(r, "500")
    /\ UNCHANGED <<account, table, call, superuser, seen, made, count, page, maker, roles>>

-----------------------------------------------------------------------------
(* The accounts. *)

Observe ==
    roles' = [r \in Request |->
        IF InFlight(r)
        THEN roles[r] \cup RightsOf(account'[call[r].caller])
        ELSE roles[r]]

AccountChanges ==
    /\ \E u \in User : Life!Join(u) \/ Life!Alter(u)
    /\ Observe
    /\ UNCHANGED <<table, pc, call, superuser, seen, made, count, page, answer, maker>>

\* What ON DELETE CASCADE removes with a user.
Owned(u) == {i \in Item : owner[i] = u}

AccountDeleted(u) ==
    /\ Life!Leave(u)
    /\ owner' = [i \in Item |-> IF i \in Owned(u) THEN NoUser ELSE owner[i]]
    /\ title' = [i \in Item |-> IF i \in Owned(u) THEN NoTitle ELSE title[i]]
    /\ UNCHANGED <<pc, call, superuser, seen, made, count, page, answer, maker, roles>>

-----------------------------------------------------------------------------
Handle(r) ==
    \/ AuthRefused(r) \/ AuthPassed(r) \/ GetRefused(r) \/ GetPassed(r)
    \/ Count(r) \/ Page(r) \/ InsertItem(r) \/ UpdateItem(r) \/ UpdateFails(r)
    \/ DeleteItem(r) \/ Refresh(r) \/ Fail(r)

Quiescent == (\A r \in Request : pc[r] = "done") /\ UNCHANGED vars

Next ==
    \/ \E r \in Request : Handle(r) \/ \E c \in Call : Receive(r, c)
    \/ AccountChanges
    \/ \E u \in User : AccountDeleted(u)
    \/ Quiescent

Spec == Init /\ [][Next]_vars

-----------------------------------------------------------------------------
(* Properties *)

\* An item always has an owner with an account, although the owner is read by one
\* query, the item is inserted by another, and the account may be deleted between
\* the two or while anything else goes on.
OwnerExists == \A i \in Item : Exists(i) => account[owner[i]] \in Life!Rights

\* Who gets an item, in an answer or by a change of it, was its owner, or was a
\* superuser at some moment of the call; and no call is served for an account that
\* was not active at any.
AuthorityHeld ==
    \A r \in Request : answer[r] = "200" =>
        /\ roles[r] # {}
        /\ \A i \in page[r] \cup ({call[r].item} \cap Item) :
            maker[i] = call[r].caller \/ "superuser" \in roles[r]

\* An item keeps its owner, and its title changes only to what the body of an
\* update in flight asks for: two updates through stale Sessions do not undo each
\* other where they set nothing.  It is removed only by a call to delete it, or
\* with its owner.
ItemKept ==
    [][\A i \in Item : Exists(i) =>
        \/ /\ owner'[i] = owner[i]
           /\ \/ title'[i] = title[i]
              \/ \E r \in Request :
                    /\ pc[r] = "write" /\ call[r].op = "update"
                    /\ call[r].item = i /\ title'[i] = call[r].title
        \/ /\ ~Exists(i)'
           /\ \/ account'[owner[i]] = "deleted"
              \/ \E r \in Request : pc[r] = "write" /\ call[r].op = "delete" /\ call[r].item = i]_vars

\* An item whose deletion was acknowledged is gone for good: no update that read
\* it before brings it back.
DeletedStaysDeleted ==
    \A r \in Request :
        call[r] # NoCall /\ call[r].op = "delete" /\ answer[r] = "200" => ~Exists(call[r].item)
-----------------------------------------------------------------------------
(* The inductive invariant *)

\* A row belongs to whom it was inserted for, who has an account.
TableInv == OwnerExists /\ \A i \in Item : Exists(i) => maker[i] = owner[i]

\* The steps of a call; what it names was inserted once.
StepInv(r) ==
    /\ call[r] = NoCall <=> pc[r] = "idle"
    /\ answer[r] # "none" => pc[r] = "done"
    /\ pc[r] = "get" => call[r].op # "create"
    /\ pc[r] = "write" => call[r].op \in {"create", "update", "delete"}
    /\ pc[r] = "refresh" => call[r].op \in {"create", "update"}
    /\ pc[r] = "page" => call[r].op = "list"
    /\ page[r] # {} => pc[r] = "done"
    /\ call[r] # NoCall /\ call[r].op \in ById => maker[call[r].item] # NoUser

\* The caller of r has had the right to item i.
HadRight(r, i) == maker[i] = call[r].caller \/ "superuser" \in roles[r]

\* The rights of a caller are noted while its call lasts, and a request past each
\* check has had what is checked.
AuthorityInv(r) ==
    /\ InFlight(r) => RightsOf(account[call[r].caller]) \subseteq roles[r]
    /\ pc[r] \in {"get", "write", "refresh", "page"} =>
            /\ roles[r] # {}
            /\ superuser[r] => "superuser" \in roles[r]
    /\ pc[r] \in {"write", "refresh"} /\ call[r].op \in ById => HadRight(r, call[r].item)
    /\ \A i \in page[r] : HadRight(r, i)
    /\ answer[r] = "200" =>
            /\ roles[r] # {}
            /\ call[r].op \in ById => HadRight(r, call[r].item)

DeletionInv(r) ==
    call[r] # NoCall /\ call[r].op = "delete" /\ answer[r] = "200" => ~Exists(call[r].item)

RequestInv(r) == StepInv(r) /\ AuthorityInv(r) /\ DeletionInv(r)

IInv == TypeOK /\ TableInv /\ \A r \in Request : RequestInv(r)
=============================================================================
