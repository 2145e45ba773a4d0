------------------------------- MODULE Tables -------------------------------
(***************************************************************************)
(* The two tables of the database with all their writers: Accounts and     *)
(* Items over one user table.                                              *)
(*                                                                         *)
(* Items alone has accounts of its own, which live as AccountLife says.    *)
(* Here they are the rows of Accounts, and what deletes a row is a call of *)
(* Accounts; the statement that does takes the row's items with it.        *)
(***************************************************************************)
EXTENDS Accounts

CONSTANTS Item, Title, ItemRequest, ItemStart, ItemCall, NoItem, NoTitle, NoItemCall

VARIABLES
    owner, title,                                   \* the item table
    itemPc, itemCall, superuser, itemSeen, made,    \* the requests of Items
    count, page, itemAnswer,
    maker, roles                                    \* history of Items

itemTable == <<owner, title>>
itemRequests ==
    <<itemPc, itemCall, superuser, itemSeen, made, count, page, itemAnswer, maker>>
tables == <<vars, itemTable, itemRequests, roles>>

\* Items with its theorems, over the accounts as the user table has them.
I == INSTANCE ItemsProofs WITH
        account <- Stages,
        Request <- ItemRequest, Start <- ItemStart, Call <- ItemCall, NoCall <- NoItemCall,
        pc <- itemPc, call <- itemCall, seen <- itemSeen, answer <- itemAnswer

\* What Items assumes of its constants.
ItemsAssumptions ==
    /\ \A c \in ItemCall : I!WellFormed(c)
    /\ I!IsFiniteSet(Item)
    /\ \A start \in ItemStart :
        /\ start.account \in [User -> {"unborn", "inactive", "user", "superuser"}]
        /\ start.owner \in [Item -> User \cup {NoUser}]
        /\ start.title \in [Item -> Title \cup {NoTitle}]
        /\ \A i \in Item :
            /\ start.owner[i] = NoUser <=> start.title[i] = NoTitle
            /\ start.owner[i] # NoUser => start.account[start.owner[i]] # "unborn"
    /\ NoUser \notin User /\ NoItem \notin Item /\ NoTitle \notin Title /\ NoItemCall \notin ItemCall

TablesInit == Init /\ I!Init

-----------------------------------------------------------------------------
\* ON DELETE CASCADE: an item goes in the statement that deletes its owner's row.
\* The handlers add nothing to it: nobody sets delete_user_related_data.
Cascade ==
    LET gone == {i \in Item : owner[i] \in User /\ row'[owner[i]] = NoRow} IN
    /\ owner' = [i \in Item |-> IF i \in gone THEN NoUser ELSE owner[i]]
    /\ title' = [i \in Item |-> IF i \in gone THEN NoTitle ELSE title[i]]

AccountsStep ==
    /\ Next
    /\ Cascade
    /\ I!Observe
    /\ UNCHANGED itemRequests

ItemsStep ==
    /\ UNCHANGED vars
    /\ \E r \in ItemRequest : I!Handle(r) \/ \E c \in ItemCall : I!Receive(r, c)

TablesNext == AccountsStep \/ ItemsStep

TablesSpec == TablesInit /\ [][TablesNext]_tables

-----------------------------------------------------------------------------
(* Properties *)

\* An item's owner has a row: the foreign key, of which each component keeps the
\* part that is its own.
OwnersHaveRows == \A i \in Item : owner[i] # NoUser => owner[i] \in User /\ Exists(owner[i])

\* Once the deletion of an account was acknowledged, no item is its: none is left,
\* and no request that has authenticated its caller before makes another.
ItemsGoWithAccounts ==
    \A r \in Request :
        call[r] # NoCall /\ call[r].op \in Deletion /\ answer[r] = "200" =>
            \A i \in Item : owner[i] # target[r]
=============================================================================
