----------------------------- MODULE AccountLife -----------------------------
(***************************************************************************)
(* What the rest of the system may assume of the user table: an account is *)
(* made once, its rights change while it lasts, and it is deleted for      *)
(* good, one account at a time.  Accounts implements it; Items is built    *)
(* on it.                                                                  *)
(***************************************************************************)
CONSTANT User

VARIABLE life   \* where each user id is in its life

Rights == {"inactive", "user", "superuser"}
Stage == Rights \cup {"unborn", "deleted"}

LifeInit == life \in [User -> Rights \cup {"unborn"}]

Join(u) ==
    /\ life[u] = "unborn"
    /\ \E rights \in Rights : life' = [life EXCEPT ![u] = rights]

Alter(u) ==
    /\ life[u] \in Rights
    /\ \E rights \in Rights \ {life[u]} : life' = [life EXCEPT ![u] = rights]

Leave(u) ==
    /\ life[u] \in Rights
    /\ life' = [life EXCEPT ![u] = "deleted"]

LifeNext == \E u \in User : life'[u] # life[u] /\ (Join(u) \/ Alter(u) \/ Leave(u))

LifeSpec == LifeInit /\ [][LifeNext]_life
=============================================================================
