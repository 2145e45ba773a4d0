----------------------------- MODULE TokenLedger -----------------------------
(***************************************************************************)
(* What the refresh-token endpoints promise, with no Redis commands, no    *)
(* failures and no program counters: who holds which session token, and    *)
(* what a token is worth.  A request earns a claim, either by a login or   *)
(* by showing a token at a moment when the token is open.  A claim is      *)
(* worth one new token for the same user, whenever the request gets round  *)
(* to taking it.  A token that is closed earns nothing, and never opens    *)
(* again.                                                                  *)
(***************************************************************************)
CONSTANTS User, Token, Request, NoUser

VARIABLES
    holder,     \* the user each token was given to, or NoUser
    open,       \* the tokens that earn a claim
    claim       \* the user each request may get a token for, or NoUser

ledgerVars == <<holder, open, claim>>

LedgerInit ==
    /\ holder = [t \in Token |-> NoUser]
    /\ open = {}
    /\ claim = [r \in Request |-> NoUser]

Login(r) ==
    /\ claim[r] = NoUser
    /\ \E u \in User : claim' = [claim EXCEPT ![r] = u]
    /\ UNCHANGED <<holder, open>>

Show(r) ==
    /\ claim[r] = NoUser
    /\ \E t \in open : claim' = [claim EXCEPT ![r] = holder[t]]
    /\ UNCHANGED <<holder, open>>

\* The claim is used up.
Take(r) ==
    /\ claim[r] # NoUser
    /\ \E t \in Token :
        /\ holder[t] = NoUser
        /\ holder' = [holder EXCEPT ![t] = claim[r]]
        /\ open' = open \cup {t}
    /\ claim' = [claim EXCEPT ![r] = NoUser]

Withdraw(r) ==
    /\ claim' = [claim EXCEPT ![r] = NoUser]
    /\ UNCHANGED <<holder, open>>

\* Exchanged, revoked or expired.
Close(t) ==
    /\ open' = open \ {t}
    /\ UNCHANGED <<holder, claim>>

LedgerNext ==
    \/ \E r \in Request : Login(r) \/ Show(r) \/ Take(r) \/ Withdraw(r)
    \/ \E t \in Token : Close(t)

LedgerSpec == LedgerInit /\ [][LedgerNext]_ledgerVars
=============================================================================
