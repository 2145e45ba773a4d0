------------------------------- MODULE MCItems -------------------------------
(* Instances of Items for TLC: the calls its clients may make. *)
EXTENDS Items, TLC

CONSTANTS u1, u2, i1, i2, a, b, q1, q2, q3

TwoUsers == {u1, u2}
TwoItems == {i1, i2}
TwoTitles == {a, b}
TwoRequests == {q1, q2}
ThreeRequests == {q1, q2, q3}

\* A user with an item and a superuser; a user with an item and nobody else.
Starts == {
    [account |-> (u1 :> "user") @@ (u2 :> "superuser"),
     owner |-> (i1 :> u1) @@ (i2 :> NoUser), title |-> (i1 :> a) @@ (i2 :> NoTitle)],
    [account |-> (u1 :> "unborn") @@ (u2 :> "user"),
     owner |-> (i1 :> u2) @@ (i2 :> NoUser), title |-> (i1 :> b) @@ (i2 :> NoTitle)]}

Make(op, caller, item, newTitle) ==
    [op |-> op, caller |-> caller, item |-> item, title |-> newTitle]
List(caller, filter, skip, limit, sortable) ==
    [op |-> "list", caller |-> caller, item |-> NoItem, title |-> filter,
     skip |-> skip, limit |-> limit, sortable |-> sortable]

\* Two users create, change and delete one item, each with every right in turn,
\* and list them.
MixedCalls == {
    Make("create", u1, NoItem, a),
    Make("update", u1, i1, b), Make("update", u2, i1, a), Make("update", u2, i1, NoTitle),
    Make("delete", u1, i1, NoTitle), Make("delete", u2, i1, NoTitle),
    Make("read", u2, i1, NoTitle),
    List(u2, NoTitle, 0, 1, TRUE), List(u2, b, 1, 2, TRUE), List(u1, NoTitle, 0, 2, FALSE)}

\* Requests are interchangeable.
Symmetry == Permutations(Request)
=============================================================================
