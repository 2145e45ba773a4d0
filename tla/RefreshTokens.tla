---------------------------- MODULE RefreshTokens ----------------------------
(***************************************************************************)
(* The life of refresh tokens in AuthService (fast_auth/services/          *)
(* auth_service.py): POST /login/access-token, /login/refresh-token and    *)
(* /logout.  The handlers are coroutines served by several worker          *)
(* processes that share one Redis and one database, so a handler is split  *)
(* at every command it sends: what it read before a command may be stale   *)
(* when the next one runs.                                                 *)
(*                                                                         *)
(* Each element of Request is one HTTP request.  A token is a uuid4 whose  *)
(* digest is a Redis key; digests do not collide, so the token itself      *)
(* stands for the key.  A token string nobody minted is served like one    *)
(* that has expired.  Access tokens are never stored and are left out.     *)
(***************************************************************************)
EXTENDS FiniteSets

CONSTANTS
    User,       \* user ids
    Token,      \* the uuids that uuid4() may return
    Request,    \* HTTP requests
    NoUser, NoToken

ASSUME NullAssumption == NoUser \notin User /\ NoToken \notin Token

VARIABLES
    account,    \* the row of each user, committed by the other endpoints
    live,       \* Redis: the user id stored under a token's key, or NoUser
    pc,         \* the next command of each request
    op,         \* the endpoint a request called
    presented,  \* the refresh token in a request's body
    subject,    \* the user a request works for, once it knows it
    minted,     \* the token a request stored
    answer,     \* the response of a request
    caller,     \* history: the user behind a request, known or not
    owner,      \* history: the user a token was minted for
    expired,    \* history: tokens whose time to live ran out
    late,       \* history: the token had ended when the request came
    blocked     \* history: the account was never active during the request

requestVars == <<pc, op, presented, subject, minted, answer>>
vars == <<account, live, requestVars, caller, owner, expired, late, blocked>>

AccountState == {"active", "inactive", "deleted"}
Endpoint == {"none", "login", "refresh", "logout"}
Step == {"idle", "authenticate", "get", "lookup", "purge", "consume", "store",
         "revoke", "done"}
Answer == {"none", "pair", "ok", "400", "401", "500"}

TypeOK ==
    /\ account \in [User -> AccountState]
    /\ live \in [Token -> User \cup {NoUser}]
    /\ pc \in [Request -> Step]
    /\ op \in [Request -> Endpoint]
    /\ presented \in [Request -> Token \cup {NoToken}]
    /\ subject \in [Request -> User \cup {NoUser}]
    /\ minted \in [Request -> Token \cup {NoToken}]
    /\ answer \in [Request -> Answer]
    /\ caller \in [Request -> User \cup {NoUser}]
    /\ owner \in [Token -> User \cup {NoUser}]
    /\ expired \in SUBSET Token
    /\ late \in [Request -> BOOLEAN]
    /\ blocked \in [Request -> BOOLEAN]

Init ==
    /\ account \in [User -> {"active", "inactive"}]
    /\ live = [t \in Token |-> NoUser]
    /\ pc = [r \in Request |-> "idle"]
    /\ op = [r \in Request |-> "none"]
    /\ presented = [r \in Request |-> NoToken]
    /\ subject = [r \in Request |-> NoUser]
    /\ minted = [r \in Request |-> NoToken]
    /\ answer = [r \in Request |-> "none"]
    /\ caller = [r \in Request |-> NoUser]
    /\ owner = [t \in Token |-> NoUser]
    /\ expired = {}
    /\ late = [r \in Request |-> FALSE]
    /\ blocked = [r \in Request |-> FALSE]

Live(t) == live[t] # NoUser

\* The tokens clients hold: those in the body of a 200 response.
Handed == {minted[r] : r \in {q \in Request : answer[q] = "pair"}}

\* uuid4() never returns a value twice.
Fresh == {t \in Token : owner[t] = NoUser}

\* What a client can know to have ended a token: a pair it got for it, a logout
\* that was confirmed, or its age.
Ended(t) ==
    \/ t \in expired
    \/ \E r \in Request : presented[r] = t /\ answer[r] \in {"pair", "ok"}

InFlight(r) == pc[r] \notin {"idle", "done"}

Goto(r, step) == pc' = [pc EXCEPT ![r] = step]

Respond(r, code) ==
    /\ Goto(r, "done")
    /\ answer' = [answer EXCEPT ![r] = code]

\* CacheClient.delete: DEL of the key of token t.
Delete(t) == live' = [live EXCEPT ![t] = NoUser]

-----------------------------------------------------------------------------
(* Faulty variants of the actions below, which the properties must tell    *)
(* apart from the code.                                                    *)

\* set_text with key and value swapped.
StoreSwapped(r) ==
    /\ pc[r] = "store"
    /\ \E t \in Fresh :
        /\ live' = [live EXCEPT ![t] = t]
        /\ owner' = [owner EXCEPT ![t] = subject[r]]
        /\ minted' = [minted EXCEPT ![r] = t]
    /\ \E code \in {"pair", "500"} : Respond(r, code)
    /\ UNCHANGED <<account, op, presented, subject, caller, expired, late, blocked>>

\* A refresh that extends the token it was given rather than rotate it.
StoreAgain(r) ==
    /\ pc[r] = "store"
    /\ \E t \in IF op[r] = "refresh" THEN {presented[r]} ELSE Fresh :
        /\ live' = [live EXCEPT ![t] = subject[r]]
        /\ owner' = [owner EXCEPT ![t] = subject[r]]
        /\ minted' = [minted EXCEPT ![r] = t]
    /\ \E code \in {"pair", "500"} : Respond(r, code)
    /\ UNCHANGED <<account, op, presented, subject, caller, expired, late, blocked>>

\* SET is tried again, with another uuid, when its reply is lost.
StoreRetried(r) ==
    /\ pc[r] = "store"
    /\ \E t \in Fresh :
        /\ live' = [live EXCEPT ![t] = subject[r]]
        /\ owner' = [owner EXCEPT ![t] = subject[r]]
        /\ minted' = [minted EXCEPT ![r] = t]
    /\ Respond(r, "pair") \/ UNCHANGED <<pc, answer>>
    /\ UNCHANGED <<account, op, presented, subject, caller, expired, late, blocked>>

\* The new pair is issued without deleting the old token.
ConsumeNothing(r) ==
    /\ pc[r] = "consume"
    /\ Goto(r, "store")
    /\ UNCHANGED <<account, live, op, presented, subject, minted, answer,
                   caller, owner, expired, late, blocked>>

\* is_active is not looked at.
LookupAnyone(r) ==
    /\ pc[r] = "lookup"
    /\ account[subject[r]] # "deleted"
    /\ Goto(r, "consume")
    /\ UNCHANGED <<account, live, op, presented, subject, minted, answer,
                   caller, owner, expired, late, blocked>>

\* The token is deleted before is_active is checked.
LookupInactiveDeletes(r) ==
    /\ pc[r] = "lookup"
    /\ account[subject[r]] = "inactive"
    /\ Delete(presented[r])
    /\ Respond(r, "400")
    /\ UNCHANGED <<account, op, presented, subject, minted, caller, owner,
                   expired, late, blocked>>

\* The user is kept on a service object that all requests share.
GetHitShared(r) ==
    /\ pc[r] = "get"
    /\ Live(presented[r])
    /\ Goto(r, "lookup")
    /\ subject' = [q \in Request |->
                        IF q = r \/ InFlight(q) THEN live[presented[r]] ELSE subject[q]]
    /\ UNCHANGED <<account, live, op, presented, minted, answer, caller, owner,
                   expired, late, blocked>>

-----------------------------------------------------------------------------
(* Requests arrive. *)

ReceiveLogin(r, u) ==
    /\ pc[r] = "idle"
    /\ Goto(r, "authenticate")
    /\ op' = [op EXCEPT ![r] = "login"]
    /\ subject' = [subject EXCEPT ![r] = u]
    /\ caller' = [caller EXCEPT ![r] = u]
    /\ blocked' = [blocked EXCEPT ![r] = account[u] # "active"]
    /\ UNCHANGED <<account, live, presented, minted, answer, owner, expired, late>>

ReceiveRefresh(r, t) ==
    /\ pc[r] = "idle"
    /\ Goto(r, "get")
    /\ op' = [op EXCEPT ![r] = "refresh"]
    /\ presented' = [presented EXCEPT ![r] = t]
    /\ caller' = [caller EXCEPT ![r] = owner[t]]
    /\ late' = [late EXCEPT ![r] = Ended(t)]
    /\ blocked' = [blocked EXCEPT ![r] = account[owner[t]] # "active"]
    /\ UNCHANGED <<account, live, subject, minted, answer, owner, expired>>

ReceiveLogout(r, t) ==
    /\ pc[r] = "idle"
    /\ Goto(r, "revoke")
    /\ op' = [op EXCEPT ![r] = "logout"]
    /\ presented' = [presented EXCEPT ![r] = t]
    /\ UNCHANGED <<account, live, subject, minted, answer, caller, owner,
                   expired, late, blocked>>

-----------------------------------------------------------------------------
(* AuthService.create_token_for_login up to its first await.  The password *)
(* may be wrong whatever the account is; the password hash authenticate    *)
(* may upgrade is no part of this state.                                   *)

LoginRefused(r) ==
    /\ pc[r] = "authenticate"
    /\ Respond(r, "400")
    /\ UNCHANGED <<account, live, op, presented, subject, minted, caller, owner,
                   expired, late, blocked>>

LoginAccepted(r) ==
    /\ pc[r] = "authenticate"
    /\ account[subject[r]] = "active"
    /\ Goto(r, "store")
    /\ UNCHANGED <<account, live, op, presented, subject, minted, answer,
                   caller, owner, expired, late, blocked>>

-----------------------------------------------------------------------------
(* AuthService.refresh_access_token, one action for each command. *)

\* GET finds no key: 401.
GetMiss(r) ==
    /\ pc[r] = "get"
    /\ ~Live(presented[r])
    /\ Respond(r, "401")
    /\ UNCHANGED <<account, live, op, presented, subject, minted, caller, owner,
                   expired, late, blocked>>

\* GET returns the user id.
GetHit(r) ==
    /\ pc[r] = "get"
    /\ Live(presented[r])
    /\ Goto(r, "lookup")
    /\ subject' = [subject EXCEPT ![r] = live[presented[r]]]
    /\ UNCHANGED <<account, live, op, presented, minted, answer, caller, owner,
                   expired, late, blocked>>

\* users.get finds no row: the token is useless and goes.
LookupGone(r) ==
    /\ pc[r] = "lookup"
    /\ account[subject[r]] = "deleted"
    /\ Goto(r, "purge")
    /\ UNCHANGED <<account, live, op, presented, subject, minted, answer,
                   caller, owner, expired, late, blocked>>

\* The user is inactive: 400, and the token stays for when it is active again.
LookupInactive(r) ==
    /\ pc[r] = "lookup"
    /\ account[subject[r]] = "inactive"
    /\ Respond(r, "400")
    /\ UNCHANGED <<account, live, op, presented, subject, minted, caller, owner,
                   expired, late, blocked>>

LookupActive(r) ==
    /\ pc[r] = "lookup"
    /\ account[subject[r]] = "active"
    /\ Goto(r, "consume")
    /\ UNCHANGED <<account, live, op, presented, subject, minted, answer,
                   caller, owner, expired, late, blocked>>

\* A reply that Redis sent and the worker never read leaves the command done
\* and the request failed, here and in Store and Revoke.
Purge(r) ==
    /\ pc[r] = "purge"
    /\ Delete(presented[r])
    /\ \E code \in {"401", "500"} : Respond(r, code)
    /\ UNCHANGED <<account, op, presented, subject, minted, caller, owner,
                   expired, late, blocked>>

\* DEL of the token that is being exchanged: the number of keys it removed
\* is not looked at.
Consume(r) ==
    /\ pc[r] = "consume"
    /\ Delete(presented[r])
    /\ Goto(r, "store")
    /\ UNCHANGED <<account, op, presented, subject, minted, answer, caller,
                   owner, expired, late, blocked>>

-----------------------------------------------------------------------------
(* AuthService._issue_token_pair: a new token and SET with its TTL. *)

Store(r) ==
    /\ pc[r] = "store"
    /\ \E t \in Fresh :
        /\ live' = [live EXCEPT ![t] = subject[r]]
        /\ owner' = [owner EXCEPT ![t] = subject[r]]
        /\ minted' = [minted EXCEPT ![r] = t]
    /\ \E code \in {"pair", "500"} : Respond(r, code)
    /\ UNCHANGED <<account, op, presented, subject, caller, expired, late, blocked>>

\* SET gives every key its TTL, REFRESH_TOKEN_TTL_SECONDS.
Timed(t) == Live(t)

(* AuthService.logout *)

Revoke(r) ==
    /\ pc[r] = "revoke"
    /\ Delete(presented[r])
    /\ \E code \in {"ok", "500"} : Respond(r, code)
    /\ UNCHANGED <<account, op, presented, subject, minted, caller, owner,
                   expired, late, blocked>>

\* Redis or the database is unreachable, a pool is exhausted or the worker
\* dies before the request's next command takes effect.
Fail(r) ==
    /\ InFlight(r)
    /\ Respond(r, "500")
    /\ UNCHANGED <<account, live, op, presented, subject, minted, caller, owner,
                   expired, late, blocked>>

-----------------------------------------------------------------------------
(* The rest of the system. *)

\* The key's TTL runs out.
Expire(t) ==
    /\ Timed(t)
    /\ Delete(t)
    /\ expired' = expired \cup {t}
    /\ UNCHANGED <<account, requestVars, caller, owner, late, blocked>>

\* PATCH /users/{id} with is_active, which only touches a row that exists.
SetActive(u, state) ==
    /\ account[u] \notin {"deleted", state}
    /\ account' = [account EXCEPT ![u] = state]
    /\ blocked' = [r \in Request |->
            blocked[r] /\ ~(state = "active" /\ InFlight(r) /\ caller[r] = u)]
    /\ UNCHANGED <<live, requestVars, caller, owner, expired, late>>

\* DELETE /users/{id} or /users/me: Redis is not touched.
DeleteUser(u) ==
    /\ account[u] # "deleted"
    /\ account' = [account EXCEPT ![u] = "deleted"]
    /\ UNCHANGED <<live, requestVars, caller, owner, expired, late, blocked>>

-----------------------------------------------------------------------------
Receive(r) ==
    \/ \E u \in User : ReceiveLogin(r, u)
    \/ \E t \in Handed : ReceiveRefresh(r, t) \/ ReceiveLogout(r, t)

Handle(r) ==
    \/ LoginRefused(r) \/ LoginAccepted(r)
    \/ GetMiss(r) \/ GetHit(r)
    \/ LookupGone(r) \/ LookupInactive(r) \/ LookupActive(r)
    \/ Purge(r) \/ Consume(r) \/ Store(r) \/ Revoke(r)
    \/ Fail(r)

Environment ==
    \/ \E t \in Token : Expire(t)
    \/ \E u \in User : DeleteUser(u) \/ \E s \in {"active", "inactive"} : SetActive(u, s)

\* Every request was answered and nothing is stored any more.  In every other state
\* something can go on: a token that is left, an orphan's too, can expire.
Quiescent ==
    /\ \A r \in Request : pc[r] = "done"
    /\ \A t \in Token : ~Live(t)
    /\ UNCHANGED vars

Next == (\E r \in Request : Receive(r) \/ Handle(r)) \/ Environment \/ Quiescent

Spec == Init /\ [][Next]_vars

-----------------------------------------------------------------------------
(* Properties *)

Paired(r) == answer[r] = "pair"

\* A refresh request that arrives after its token was exchanged for a pair,
\* revoked by a logout that was confirmed, or expired, never gets a pair,
\* whatever other requests are doing: only requests that overlap can exchange
\* one token twice.
ReplayRefused == \A r \in Request : Paired(r) => ~late[r]

\* A pair is only given for an account that was active at some moment between
\* the request's arrival and its answer: a request that arrives after the
\* account was deactivated or deleted gets none.
BlockedAccountRefused == \A r \in Request : Paired(r) => ~blocked[r]

\* The pair a client gets belongs to the user of the token it presented, or to
\* the user it logged in as; nobody is handed another user's session although
\* the user id goes through Redis and a stale lookup.
SessionKeepsUser ==
    \A r \in Request : Paired(r) => owner[minted[r]] = caller[r]

\* Why a token that a client holds may have left Redis before its time.
Spent(t) ==
    \E r \in Request :
        /\ presented[r] = t
        /\ \/ op[r] = "logout"
           \/ op[r] = "refresh" /\ (pc[r] = "store" \/ answer[r] \in {"pair", "500"})

\* A client that never logged out and was refused every exchange with a 400
\* keeps its session: the token is there until it expires, unless its account
\* was deleted.  Only an exchange that succeeds or breaks down costs a token.
SessionKept ==
    \A t \in Handed :
        Live(t) \/ t \in expired \/ account[owner[t]] = "deleted" \/ Spent(t)

\* What a token is exchanged for does not depend on its value ever coming back:
\* a key that left Redis is not set again, and never changes hands while there.
TokenNotReborn ==
    [][\A t \in Token : owner[t] # NoUser => live'[t] \in {live[t], NoUser}]_vars

\* "Refresh access token and rotate refresh token": one token in, one token
\* out, so no two requests get a pair for the same token.
ExchangedOnce ==
    \A q, r \in Request :
        /\ Paired(q) /\ Paired(r)
        /\ op[q] = "refresh" /\ op[r] = "refresh"
        /\ presented[q] = presented[r]
        => q = r

-----------------------------------------------------------------------------
(* The abstract specification this component implements. *)

OpenTokens == {t \in Token : Live(t)}

\* A request holds a claim from the moment its password or its token was found
\* good to the SET that stores the new token.
Claims ==
    [r \in Request |->
        IF pc[r] \in {"lookup", "consume", "store"} THEN subject[r] ELSE NoUser]

Ledger == INSTANCE TokenLedger WITH holder <- owner, open <- OpenTokens, claim <- Claims

\* Every behaviour of the handlers is one the ledger allows, whatever
\* fails and however requests overlap.
ImplementsLedger == Ledger!LedgerSpec

-----------------------------------------------------------------------------
(* The inductive invariant behind the safety properties. *)

\* A token in Redis names the user it was minted for, and one that is gone has
\* a reason to be.
TokenInv(t) ==
    /\ live[t] \in {NoUser, owner[t]}
    /\ t \in expired => ~Live(t) /\ owner[t] # NoUser
    /\ \/ owner[t] = NoUser \/ Live(t)
       \/ t \in expired \/ account[owner[t]] = "deleted" \/ Spent(t)

\* Which commands an endpoint sends, and what it knows when it does.
StepInv(r) ==
    /\ op[r] = "none" <=> pc[r] = "idle"
    /\ op[r] = "login" => subject[r] \in User /\ caller[r] = subject[r]
                          /\ pc[r] \in {"authenticate", "store", "done"}
    /\ op[r] = "logout" => pc[r] \in {"revoke", "done"}
    /\ op[r] = "refresh" => pc[r] \in {"get", "lookup", "purge", "consume", "store", "done"}
    /\ presented[r] \in Token <=> op[r] \in {"refresh", "logout"}
    /\ answer[r] # "none" => pc[r] = "done"
    /\ Paired(r) => minted[r] \in Token

\* A token in a request's body was minted; once the request exchanged or
\* revoked it, it is gone.
EndInv(r) ==
    presented[r] # NoToken =>
        /\ owner[presented[r]] # NoUser
        /\ \/ answer[r] \in {"pair", "ok"}
           \/ op[r] = "refresh" /\ pc[r] = "store"
           => ~Live(presented[r])

\* A refresh request that got past the GET is on time, and knows the user of
\* its token; a late one finds nothing.
RefreshInv(r) ==
    IF op[r] = "refresh"
    THEN /\ late[r] => ~Live(presented[r])
         /\ caller[r] = owner[presented[r]]
         /\ pc[r] \in {"lookup", "purge", "consume", "store"} =>
                ~late[r] /\ subject[r] = caller[r]
         /\ pc[r] = "purge" => account[subject[r]] = "deleted"
    ELSE ~late[r]

\* While blocked, the account is not active, and the request is not past the
\* check of is_active.
BlockedInv(r) ==
    blocked[r] =>
        /\ op[r] \in {"login", "refresh"}
        /\ InFlight(r) => account[caller[r]] # "active"
        /\ pc[r] \notin {"consume", "store"}

PairInv(r) ==
    Paired(r) =>
        /\ op[r] \in {"login", "refresh"}
        /\ ~late[r] /\ ~blocked[r]
        /\ owner[minted[r]] # NoUser
        /\ owner[minted[r]] = caller[r]

IInv ==
    /\ \A t \in Token : TokenInv(t)
    /\ \A r \in Request :
        StepInv(r) /\ EndInv(r) /\ RefreshInv(r) /\ BlockedInv(r) /\ PairInv(r)
=============================================================================
