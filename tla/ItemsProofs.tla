----------------------------- MODULE ItemsProofs -----------------------------
(***************************************************************************)
(* Proofs about Items, for any users, items, titles, calls and number of   *)
(* requests.                                                               *)
(***************************************************************************)
EXTENDS Items, FiniteSetTheorems, TLAPS

LEMMA InCall ==
    ASSUME IInv, NEW r \in Request, pc[r] # "idle"
    PROVE  /\ call[r] \in Call /\ call[r] # NoCall
           /\ WellFormed(call[r]) /\ call[r].caller \in User
<1>1. call[r] \in Call /\ call[r] # NoCall
  BY DEF IInv, TypeOK, RequestInv, StepInv
<1> QED
  BY <1>1, CallAssumption DEF WellFormed

-----------------------------------------------------------------------------
(* Requests a step does not touch. *)

\* What RequestInv(q) looks at in the request itself.
Same(q) ==
    /\ pc'[q] = pc[q] /\ call'[q] = call[q] /\ answer'[q] = answer[q]
    /\ superuser'[q] = superuser[q] /\ page'[q] = page[q]

\* An item that was inserted keeps its history, and is not inserted again.
NoRebirth ==
    \A i \in Item : maker[i] # NoUser =>
        maker'[i] = maker[i] /\ (~Exists(i) => ~Exists(i)')

\* The rights of q's caller stay noted.
Noted(q) ==
    /\ roles[q] \subseteq roles'[q]
    /\ InFlight(q) => RightsOf(account'[call[q].caller]) \subseteq roles'[q]

\* The right of q's caller to i is still noted.
StillHad(q, i) == maker'[i] = call[q].caller \/ "superuser" \in roles'[q]

LEMMA Frame ==
    ASSUME IInv, NEW q \in Request, Same(q), NoRebirth, Noted(q)
    PROVE  RequestInv(q)'
<1>1. RequestInv(q)
  BY DEF IInv
<1>2. pc[q] # "idle" => WellFormed(call[q]) /\ call[q] # NoCall /\ call[q].caller \in User
  BY InCall
<1>3. call[q] # NoCall /\ call[q].op \in ById => call[q].item \in Item
  BY <1>1, <1>2 DEF RequestInv, StepInv, WellFormed
<1>4. StepInv(q)'
  BY <1>1, <1>3 DEF RequestInv, StepInv, Same, NoRebirth
<1>5. ASSUME NEW i \in Item, HadRight(q, i), pc[q] # "idle"
      PROVE  StillHad(q, i)
  BY <1>2, <1>5, NullAssumption DEF HadRight, StillHad, NoRebirth, Noted
<1>6. AuthorityInv(q)'
  <2>1. (InFlight(q) => RightsOf(account[call[q].caller]) \subseteq roles[q])'
    BY DEF Same, Noted, InFlight
  <2>2. (pc[q] \in {"get", "write", "refresh", "page"} =>
            roles[q] # {} /\ (superuser[q] => "superuser" \in roles[q]))'
    BY <1>1 DEF RequestInv, AuthorityInv, Same, Noted
  <2>3. (pc[q] \in {"write", "refresh"} /\ call[q].op \in ById => HadRight(q, call[q].item))'
    <3>1. pc[q] \in {"write", "refresh"} /\ call[q].op \in ById => StillHad(q, call[q].item)
      BY <1>1, <1>2, <1>3, <1>5 DEF RequestInv, AuthorityInv
    <3> QED
      BY <3>1 DEF Same, HadRight, StillHad
  <2>4. (\A i \in page[q] : HadRight(q, i))'
    <3>1. ASSUME NEW i \in page[q]
          PROVE  StillHad(q, i)
      BY <1>1, <1>5 DEF RequestInv, AuthorityInv, StepInv, IInv, TypeOK
    <3> QED
      BY <3>1 DEF Same, HadRight, StillHad
  <2>5. (answer[q] = "200" =>
            roles[q] # {} /\ (call[q].op \in ById => HadRight(q, call[q].item)))'
    <3>1. answer[q] = "200" =>
            roles'[q] # {} /\ (call[q].op \in ById => StillHad(q, call[q].item))
      BY <1>1, <1>2, <1>3, <1>5 DEF RequestInv, AuthorityInv, StepInv, Noted
    <3> QED
      BY <3>1 DEF Same, HadRight, StillHad
  <2> QED
    BY <2>1, <2>2, <2>3, <2>4, <2>5 DEF AuthorityInv
<1>7. DeletionInv(q)'
  BY <1>1, <1>3 DEF RequestInv, DeletionInv, StepInv, Same, NoRebirth, Exists, ById
<1> QED
  BY <1>4, <1>6, <1>7 DEF RequestInv

\* A step of r that leaves accounts and items alone.
LEMMA QuietStep ==
    ASSUME IInv, TypeOK', NEW r \in Request, RequestInv(r)',
           \A q \in Request \ {r} : Same(q) /\ roles'[q] = roles[q],
           UNCHANGED <<account, table, maker>>
    PROVE  IInv'
<1>1. TableInv'
  BY DEF IInv, TableInv, OwnerExists, Exists, table
<1>2. NoRebirth
  BY DEF NoRebirth, Exists, table
<1>3. ASSUME NEW q \in Request, q # r
      PROVE  RequestInv(q)'
  <2>1. RequestInv(q)
    BY DEF IInv
  <2>2. Noted(q)
    BY <1>3, <2>1 DEF Noted, RequestInv, AuthorityInv
  <2> QED
    BY <1>2, <1>3, <2>2, Frame
<1> QED
  BY <1>1, <1>3 DEF IInv

LEMMA RespondStep ==
    ASSUME IInv, NEW r \in Request, InFlight(r), NEW status \in Status \ {"none"},
           Respond(r, status),
           status = "200" =>
                /\ roles[r] # {} /\ call[r].op # "delete"
                /\ call[r].op \in ById => HadRight(r, call[r].item),
           superuser' \in [Request -> BOOLEAN],
           \A q \in Request \ {r} : superuser'[q] = superuser[q],
           seen' \in [Request -> Title \cup {NoTitle}],
           UNCHANGED <<account, table, call, made, count, page, maker, roles>>
    PROVE  IInv'
<1>1. TypeOK'
  BY DEF IInv, TypeOK, Respond, Step, table
<1>2. /\ pc'[r] = "done" /\ answer'[r] = status
      /\ \A q \in Request \ {r} : pc'[q] = pc[q] /\ answer'[q] = answer[q]
  BY DEF IInv, TypeOK, Respond
<1>3. RequestInv(r)
  BY DEF IInv
<1>4. StepInv(r)'
  BY <1>2, <1>3 DEF RequestInv, StepInv, InFlight
<1>5. AuthorityInv(r)'
  BY <1>2, <1>3 DEF RequestInv, AuthorityInv, InFlight, HadRight
<1>6. DeletionInv(r)'
  BY <1>2 DEF DeletionInv
<1>7. \A q \in Request \ {r} : Same(q) /\ roles'[q] = roles[q]
  BY <1>2 DEF Same
<1> QED
  BY <1>1, <1>4, <1>5, <1>6, <1>7, QuietStep DEF RequestInv

\* What has to hold for request r to go on to a step.
MayGo(r, step) ==
    /\ step = "get" => call[r].op # "create"
    /\ step = "write" => call[r].op \in {"create", "update", "delete"}
    /\ step = "refresh" => call[r].op \in {"create", "update"}
    /\ step = "page" => call[r].op = "list"
    /\ roles[r] # {}
    /\ step \in {"write", "refresh"} /\ call[r].op \in ById => HadRight(r, call[r].item)

\* What RequestInv(r) asks after r has gone on, of a table that has no rebirths.
LEMMA GoneOn ==
    ASSUME IInv, NEW r \in Request, InFlight(r),
           NEW step \in {"get", "write", "refresh", "page"}, Goto(r, step), MayGo(r, step),
           superuser'[r] => "superuser" \in roles[r],
           NoRebirth, UNCHANGED <<account, call, page, roles>>
    PROVE  RequestInv(r)'
<1>1. pc'[r] = step /\ answer'[r] = answer[r]
  BY DEF IInv, TypeOK, Goto
<1>2. RequestInv(r)
  BY DEF IInv
<1>3. call[r] # NoCall /\ WellFormed(call[r]) /\ call[r].caller \in User
  BY InCall DEF InFlight
<1>4. answer[r] = "none" /\ page[r] = {}
  BY <1>2 DEF RequestInv, StepInv, InFlight, IInv, TypeOK
<1>5. call[r].op \in ById => call[r].item \in Item /\ maker'[call[r].item] # NoUser
  BY <1>2, <1>3 DEF RequestInv, StepInv, WellFormed, NoRebirth
<1>6. call[r].op \in ById /\ HadRight(r, call[r].item) => HadRight(r, call[r].item)'
  BY <1>3, <1>5, NullAssumption DEF HadRight, NoRebirth, WellFormed
<1>7. StepInv(r)'
  BY <1>1, <1>3, <1>4, <1>5 DEF StepInv, MayGo
<1>8. AuthorityInv(r)'
  BY <1>1, <1>2, <1>4, <1>6 DEF RequestInv, AuthorityInv, InFlight, MayGo
<1>9. DeletionInv(r)'
  BY <1>1, <1>4 DEF DeletionInv
<1> QED
  BY <1>7, <1>8, <1>9 DEF RequestInv

LEMMA GotoStep ==
    ASSUME IInv, NEW r \in Request, InFlight(r),
           NEW step \in {"get", "write", "refresh", "page"}, Goto(r, step), MayGo(r, step),
           superuser' \in [Request -> BOOLEAN], superuser'[r] => "superuser" \in roles[r],
           \A q \in Request \ {r} : superuser'[q] = superuser[q],
           seen' \in [Request -> Title \cup {NoTitle}],
           count' \in [Request -> 0 .. Cardinality(Item)],
           UNCHANGED <<account, table, call, made, page, maker, roles>>
    PROVE  IInv'
<1>1. TypeOK'
  BY DEF IInv, TypeOK, Goto, Step, table
<1>2. NoRebirth
  BY DEF NoRebirth, Exists, table
<1>3. RequestInv(r)'
  BY <1>2, GoneOn
<1>4. \A q \in Request \ {r} : Same(q) /\ roles'[q] = roles[q]
  BY DEF Same, IInv, TypeOK, Goto
<1> QED
  BY <1>1, <1>3, <1>4, QuietStep
-----------------------------------------------------------------------------
(* The steps that only read. *)

LEMMA ReceiveStep ==
    ASSUME IInv, NEW r \in Request, NEW c \in Call, Receive(r, c)
    PROVE  IInv'
<1>1. TypeOK'
  BY DEF IInv, TypeOK, Receive, Goto, Step, table, RightsOf
<1>2. /\ pc[r] = "idle" /\ pc'[r] = "auth" /\ answer'[r] = answer[r] /\ call'[r] = c
      /\ roles'[r] = RightsOf(account[c.caller])
      /\ c.op \in ById => maker[c.item] # NoUser
  BY DEF IInv, TypeOK, Receive, Goto
<1>3. c # NoCall
  BY NullAssumption
<1>4. answer[r] = "none" /\ page[r] = {}
  BY <1>2 DEF IInv, TypeOK, RequestInv, StepInv
<1>5. page' = page /\ maker' = maker /\ account' = account
  BY DEF Receive
<1>6. StepInv(r)'
  BY <1>2, <1>3, <1>4, <1>5 DEF StepInv
<1>7. AuthorityInv(r)'
  BY <1>2, <1>4, <1>5 DEF AuthorityInv
<1>8. DeletionInv(r)'
  BY <1>2, <1>4 DEF DeletionInv
<1>9. \A q \in Request \ {r} : Same(q) /\ roles'[q] = roles[q]
  BY DEF IInv, TypeOK, Receive, Goto, Same
<1>10. UNCHANGED <<account, table, maker>>
  BY DEF Receive
<1> QED
  BY <1>1, <1>6, <1>7, <1>8, <1>9, <1>10, QuietStep DEF RequestInv

LEMMA AuthStep ==
    ASSUME IInv, NEW r \in Request, AuthRefused(r) \/ AuthPassed(r)
    PROVE  IInv'
<1>1. InFlight(r)
  BY DEF AuthRefused, AuthPassed, InFlight
<1>2. superuser' \in [Request -> BOOLEAN] /\ \A q \in Request \ {r} : superuser'[q] = superuser[q]
  BY DEF IInv, TypeOK, AuthRefused, AuthPassed
<1>3. /\ seen' \in [Request -> Title \cup {NoTitle}] /\ count' \in [Request -> 0 .. Cardinality(Item)]
      /\ UNCHANGED <<account, table, call, made, count, page, maker, roles>>
  BY DEF IInv, TypeOK, AuthRefused, AuthPassed
<1>4. ASSUME NEW status \in {"400", "404"}, Respond(r, status)
      PROVE  IInv'
  BY <1>1, <1>2, <1>3, <1>4, RespondStep DEF Status
<1>5. CASE AuthRefused(r)
  BY <1>4, <1>5 DEF AuthRefused
<1>6. CASE AuthPassed(r)
  <2>1. account[call[r].caller] \in roles[r] /\ superuser'[r] = (account[call[r].caller] = "superuser")
    BY <1>1, <1>6 DEF IInv, TypeOK, RequestInv, AuthorityInv, AuthPassed, RightsOf
  <2>2. WellFormed(call[r])
    BY <1>1, InCall DEF InFlight
  <2>3. CASE call[r].op = "list" /\ ~call[r].sortable
    BY <1>4, <1>6, <2>3 DEF AuthPassed
  <2>4. CASE ~(call[r].op = "list" /\ ~call[r].sortable)
    <3> DEFINE step == IF call[r].op = "create" THEN "write" ELSE "get"
    <3>1. Goto(r, step)
      BY <1>6, <2>4 DEF AuthPassed
    <3>2. MayGo(r, step)
      BY <2>1 DEF MayGo, ById
    <3>3. superuser'[r] => "superuser" \in roles[r]
      BY <2>1
    <3>4. step \in {"get", "write", "refresh", "page"}
      OBVIOUS
    <3> HIDE DEF step
    <3> QED
      BY <1>1, <1>2, <1>3, <3>1, <3>2, <3>3, <3>4, GotoStep
  <2> QED
    BY <2>3, <2>4
<1> QED
  BY <1>5, <1>6

LEMMA GetStep ==
    ASSUME IInv, NEW r \in Request, GetRefused(r) \/ GetPassed(r)
    PROVE  IInv'
<1>1. InFlight(r) /\ pc[r] = "get" /\ call[r].op \in ById
  BY DEF GetRefused, GetPassed, InFlight
<1>2. WellFormed(call[r]) /\ call[r].item \in Item
  BY <1>1, InCall DEF WellFormed
<1>3. /\ superuser' \in [Request -> BOOLEAN] /\ superuser' = superuser
      /\ count' \in [Request -> 0 .. Cardinality(Item)]
      /\ UNCHANGED <<account, table, call, made, count, page, maker, roles>>
  BY DEF IInv, TypeOK, GetRefused, GetPassed
<1>4. seen' \in [Request -> Title \cup {NoTitle}]
  BY <1>2 DEF IInv, TypeOK, GetRefused, GetPassed
<1>5. CASE GetRefused(r)
  <2>1. PICK status \in {"403", "404"} : Respond(r, status)
    BY <1>5 DEF GetRefused
  <2> QED
    BY <1>1, <1>3, <1>4, <2>1, RespondStep DEF Status
<1>6. CASE GetPassed(r)
  <2>1. roles[r] # {} /\ (superuser[r] => "superuser" \in roles[r])
    BY <1>1 DEF IInv, RequestInv, AuthorityInv
  <2>2. HadRight(r, call[r].item)
    BY <1>2, <1>6, <2>1 DEF GetPassed, MayAccess, HadRight, IInv, TableInv
  <2>3. CASE call[r].op = "read"
    <3>1. Respond(r, "200")
      BY <1>6, <2>3 DEF GetPassed
    <3> QED
      BY <1>1, <1>3, <1>4, <2>1, <2>2, <2>3, <3>1, RespondStep DEF Status
  <2>4. CASE call[r].op # "read"
    <3>1. Goto(r, "write")
      BY <1>6, <2>4 DEF GetPassed
    <3>2. MayGo(r, "write")
      BY <1>1, <2>1, <2>2, <2>4 DEF MayGo, ById
    <3> QED
      BY <1>1, <1>3, <1>4, <2>1, <3>1, <3>2, GotoStep
  <2> QED
    BY <2>3, <2>4
<1> QED
  BY <1>5, <1>6

\* What a list returns, its caller had the right to.
LEMMA ListStep ==
    ASSUME IInv, NEW r \in Request, Count(r) \/ Page(r)
    PROVE  IInv'
<1>1. Listed(r) \subseteq Item /\ Cardinality(Listed(r)) \in 0 .. Cardinality(Item)
  <2>1. Listed(r) \subseteq Item
    BY DEF Listed
  <2>2. Cardinality(Listed(r)) <= Cardinality(Item) /\ IsFiniteSet(Listed(r))
    BY <2>1, ItemAssumption, FS_Subset
  <2>3. Cardinality(Listed(r)) \in Nat /\ Cardinality(Item) \in Nat
    BY <2>2, ItemAssumption, FS_CardinalityType
  <2> QED
    BY <2>1, <2>2, <2>3
<1>2. InFlight(r)
  BY DEF Count, Page, InFlight
<1>3. roles[r] # {} /\ (superuser[r] => "superuser" \in roles[r]) /\ page[r] = {}
  BY <1>2 DEF Count, Page, IInv, RequestInv, AuthorityInv, StepInv, InFlight
<1>4. CASE Count(r)
  <2>1. Goto(r, "page") /\ call[r].op = "list"
    BY <1>4 DEF Count
  <2>2. MayGo(r, "page")
    BY <1>3, <2>1 DEF MayGo
  <2>3. count' \in [Request -> 0 .. Cardinality(Item)]
    BY <1>1, <1>4 DEF Count, IInv, TypeOK
  <2>4. /\ superuser' \in [Request -> BOOLEAN] /\ superuser' = superuser
        /\ seen' \in [Request -> Title \cup {NoTitle}]
        /\ UNCHANGED <<account, table, call, made, page, maker, roles>>
    BY <1>4 DEF Count, IInv, TypeOK
  <2> QED
    BY <1>2, <1>3, <2>1, <2>2, <2>3, <2>4, GotoStep
<1>5. CASE Page(r)
  <2>1. PICK p \in SUBSET Listed(r) : page' = [page EXCEPT ![r] = p]
    BY <1>5 DEF Page
  <2>2. /\ pc[r] = "page" /\ Respond(r, "200")
        /\ UNCHANGED <<account, table, call, superuser, seen, made, count, maker, roles>>
    BY <1>5 DEF Page
  <2>3. TypeOK'
    BY <1>1, <2>1, <2>2 DEF IInv, TypeOK, Respond, Step, Status, table
  <2>4. /\ pc'[r] = "done" /\ answer'[r] = "200" /\ page'[r] = p
        /\ \A q \in Request \ {r} : pc'[q] = pc[q] /\ answer'[q] = answer[q] /\ page'[q] = page[q]
    BY <2>1, <2>2 DEF IInv, TypeOK, Respond
  <2>5. call[r].op = "list" /\ call[r] # NoCall
    BY <2>2 DEF IInv, RequestInv, StepInv
  <2>6. \A i \in p : HadRight(r, i)
    BY <1>3 DEF Listed, MayAccess, HadRight, IInv, TableInv
  <2>7. StepInv(r)'
    BY <2>2, <2>4, <2>5 DEF StepInv, ById
  <2>8. AuthorityInv(r)'
    BY <1>3, <2>2, <2>4, <2>5, <2>6 DEF AuthorityInv, InFlight, ById, HadRight
  <2>9. DeletionInv(r)'
    BY <2>2, <2>5 DEF DeletionInv
  <2>10. \A q \in Request \ {r} : Same(q) /\ roles'[q] = roles[q]
    BY <2>2, <2>4 DEF Same
  <2> QED
    BY <2>2, <2>3, <2>7, <2>8, <2>9, <2>10, QuietStep DEF RequestInv
<1> QED
  BY <1>4, <1>5

LEMMA RefreshStep ==
    ASSUME IInv, NEW r \in Request, Refresh(r)
    PROVE  IInv'
<1>1. /\ pc[r] = "refresh" /\ InFlight(r)
      /\ UNCHANGED <<account, table, call, superuser, seen, made, count, page, maker, roles>>
  BY DEF Refresh, InFlight
<1>2. PICK status \in {"200", "500"} : Respond(r, status)
  BY DEF Refresh
<1>3. /\ roles[r] # {} /\ call[r].op # "delete"
      /\ call[r].op \in ById => HadRight(r, call[r].item)
  BY <1>1 DEF IInv, RequestInv, StepInv, AuthorityInv
<1> QED
  BY <1>1, <1>2, <1>3, RespondStep DEF Status, IInv, TypeOK

LEMMA FailStep ==
    ASSUME IInv, NEW r \in Request, Fail(r) \/ UpdateFails(r)
    PROVE  IInv'
<1>1. /\ InFlight(r) /\ Respond(r, "500")
      /\ UNCHANGED <<account, table, call, superuser, seen, made, count, page, maker, roles>>
  BY DEF Fail, UpdateFails, InFlight
<1> QED
  BY <1>1, RespondStep DEF Status, IInv, TypeOK

-----------------------------------------------------------------------------
(* The steps that write. *)

LEMMA InsertStep ==
    ASSUME IInv, NEW r \in Request, InsertItem(r)
    PROVE  IInv'
<1>1. /\ pc[r] = "write" /\ call[r].op = "create" /\ InFlight(r)
      /\ UNCHANGED <<account, call, superuser, seen, count, page, roles>>
  BY DEF InsertItem, InFlight
<1>2. CASE ~MayOwn(call[r].caller)
  BY <1>1, <1>2, RespondStep DEF InsertItem, Status, IInv, TypeOK
<1>3. CASE MayOwn(call[r].caller)
  <2>1. PICK i \in {j \in Item : maker[j] = NoUser} :
            /\ owner' = [owner EXCEPT ![i] = call[r].caller]
            /\ title' = [title EXCEPT ![i] = call[r].title]
            /\ maker' = [maker EXCEPT ![i] = call[r].caller]
            /\ made' = [made EXCEPT ![r] = i]
            /\ Goto(r, "refresh")
    BY <1>3 DEF InsertItem
  <2>2. WellFormed(call[r]) /\ call[r].caller \in User /\ call[r].title \in Title
    <3>1. WellFormed(call[r]) /\ call[r].caller \in User
      BY <1>1, InCall
    <3> QED
      BY <1>1, <3>1 DEF WellFormed
  <2>3. call[r].caller # NoUser /\ call[r].title # NoTitle
    BY <2>2, NullAssumption
  <2>4. TypeOK'
    <3>1. (\A j \in Item : owner[j] = NoUser <=> title[j] = NoTitle)'
      BY <2>1, <2>3 DEF IInv, TypeOK
    <3> QED
      BY <1>1, <2>1, <2>2, <3>1 DEF IInv, TypeOK, Goto, Step
  <2>5. TableInv'
    <3>1. account[call[r].caller] \in Life!Rights
      BY <1>3 DEF MayOwn
    <3> QED
      BY <1>1, <2>1, <2>2, <3>1 DEF IInv, TypeOK, TableInv, OwnerExists, Exists
  <2>6. NoRebirth
    BY <2>1 DEF NoRebirth, Exists, IInv, TypeOK
  <2>7. /\ roles[r] # {} /\ (superuser[r] => "superuser" \in roles[r])
    BY <1>1 DEF IInv, RequestInv, AuthorityInv
  <2>8. MayGo(r, "refresh")
    BY <1>1, <2>7 DEF MayGo, ById
  <2>9. RequestInv(r)'
    BY <1>1, <2>1, <2>6, <2>7, <2>8, GoneOn
  <2>10. ASSUME NEW q \in Request, q # r
         PROVE  RequestInv(q)'
    <3>1. Same(q) /\ Noted(q)
      BY <1>1, <2>1, <2>10 DEF Same, Noted, Goto, IInv, TypeOK, RequestInv, AuthorityInv
    <3> QED
      BY <2>6, <3>1, Frame
  <2> QED
    BY <2>4, <2>5, <2>9, <2>10 DEF IInv
<1> QED
  BY <1>2, <1>3

LEMMA UpdateStep ==
    ASSUME IInv, NEW r \in Request, UpdateItem(r)
    PROVE  IInv'
<1>1. /\ pc[r] = "write" /\ call[r].op = "update" /\ InFlight(r) /\ Goto(r, "refresh")
      /\ Exists(call[r].item)
      /\ UNCHANGED <<account, owner, call, superuser, seen, made, count, page, maker, roles>>
  BY DEF UpdateItem, InFlight
<1>2. call[r].item \in Item /\ call[r].title \in Title \cup {NoTitle}
  BY <1>1, InCall DEF WellFormed, ById
<1>3. title[call[r].item] \in Title
  BY <1>1, <1>2 DEF IInv, TypeOK, Exists
<1>4. Written(r, title[call[r].item]) \in Title
  BY <1>2, <1>3 DEF Written, Dirty
<1>5. title' = [title EXCEPT ![call[r].item] = Written(r, title[call[r].item])]
  BY DEF UpdateItem
<1>6. TypeOK'
  <2>1. title' \in [Item -> Title \cup {NoTitle}]
    BY <1>4, <1>5 DEF IInv, TypeOK
  <2>2. (\A i \in Item : owner[i] = NoUser <=> title[i] = NoTitle)'
    BY <1>1, <1>2, <1>4, <1>5, NullAssumption DEF IInv, TypeOK, Exists
  <2> QED
    BY <1>1, <2>1, <2>2 DEF IInv, TypeOK, Goto, Step
<1>7. TableInv'
  BY <1>1 DEF IInv, TableInv, OwnerExists, Exists
<1>8. NoRebirth
  BY <1>1 DEF NoRebirth, Exists
<1>9. /\ roles[r] # {} /\ (superuser[r] => "superuser" \in roles[r])
      /\ HadRight(r, call[r].item)
  BY <1>1 DEF IInv, RequestInv, AuthorityInv, ById
<1>10. MayGo(r, "refresh")
  BY <1>1, <1>9 DEF MayGo
<1>11. RequestInv(r)'
  BY <1>1, <1>8, <1>9, <1>10, GoneOn
<1>12. ASSUME NEW q \in Request, q # r
       PROVE  RequestInv(q)'
  <2>1. Same(q) /\ Noted(q)
    BY <1>1, <1>12 DEF Same, Noted, Goto, IInv, TypeOK, RequestInv, AuthorityInv
  <2> QED
    BY <1>8, <2>1, Frame
<1> QED
  BY <1>6, <1>7, <1>11, <1>12 DEF IInv

LEMMA DeleteStep ==
    ASSUME IInv, NEW r \in Request, DeleteItem(r)
    PROVE  IInv'
<1>1. /\ pc[r] = "write" /\ call[r].op = "delete" /\ InFlight(r)
      /\ owner' = [owner EXCEPT ![call[r].item] = NoUser]
      /\ title' = [title EXCEPT ![call[r].item] = NoTitle]
      /\ UNCHANGED <<account, call, superuser, seen, made, count, page, maker, roles>>
  BY DEF DeleteItem, InFlight
<1>2. PICK status \in {"200", "500"} : Respond(r, status)
  BY DEF DeleteItem
<1>3. call[r].item \in Item /\ call[r] # NoCall
  BY <1>1, InCall DEF WellFormed, ById
<1>4. TypeOK'
  <2>1. (\A i \in Item : owner[i] = NoUser <=> title[i] = NoTitle)'
    BY <1>1 DEF IInv, TypeOK
  <2> QED
    BY <1>1, <1>2, <2>1 DEF IInv, TypeOK, Respond, Step, Status
<1>5. TableInv'
  BY <1>1 DEF IInv, TypeOK, TableInv, OwnerExists, Exists
<1>6. NoRebirth
  BY <1>1 DEF NoRebirth, Exists, IInv, TypeOK
<1>7. /\ pc'[r] = "done" /\ answer'[r] = status
      /\ \A q \in Request \ {r} : pc'[q] = pc[q] /\ answer'[q] = answer[q]
  BY <1>2 DEF IInv, TypeOK, Respond
<1>8. /\ roles[r] # {} /\ HadRight(r, call[r].item) /\ StepInv(r)
      /\ \A i \in page[r] : HadRight(r, i)
  BY <1>1 DEF IInv, RequestInv, AuthorityInv, ById
<1>9. StepInv(r)'
  BY <1>1, <1>7, <1>8 DEF StepInv, InFlight
<1>10. AuthorityInv(r)'
  BY <1>1, <1>7, <1>8 DEF AuthorityInv, InFlight, HadRight
<1>11. DeletionInv(r)'
  BY <1>1, <1>3 DEF DeletionInv, Exists, IInv, TypeOK
<1>12. ASSUME NEW q \in Request, q # r
       PROVE  RequestInv(q)'
  <2>1. Same(q) /\ Noted(q)
    BY <1>1, <1>7, <1>12 DEF Same, Noted, IInv, RequestInv, AuthorityInv
  <2> QED
    BY <1>6, <2>1, Frame
<1> QED
  BY <1>4, <1>5, <1>9, <1>10, <1>11, <1>12 DEF IInv, RequestInv

-----------------------------------------------------------------------------
(* The steps of the accounts. *)

LEMMA AccountStep ==
    ASSUME IInv, NEW u \in User, Life!Join(u) \/ Life!Alter(u), Observe,
           UNCHANGED <<table, pc, call, superuser, seen, made, count, page, answer, maker>>
    PROVE  IInv'
<1>1. PICK rights \in Life!Rights : account' = [account EXCEPT ![u] = rights]
  BY DEF Life!Join, Life!Alter
<1>2. TypeOK'
  <2>1. account' \in [User -> Life!Stage]
    BY <1>1 DEF IInv, TypeOK, Life!Stage
  <2>2. roles' \in [Request -> SUBSET {"user", "superuser"}]
    BY DEF IInv, TypeOK, Observe, RightsOf
  <2> QED
    BY <2>1, <2>2 DEF IInv, TypeOK, table
<1>3. TableInv'
  BY <1>1 DEF IInv, TypeOK, TableInv, OwnerExists, Exists, table
<1>4. NoRebirth
  BY DEF NoRebirth, Exists, table
<1>5. ASSUME NEW q \in Request
      PROVE  RequestInv(q)'
  <2>1. roles'[q] = IF InFlight(q)
                    THEN roles[q] \cup RightsOf(account'[call[q].caller])
                    ELSE roles[q]
    BY DEF Observe
  <2>2. Same(q) /\ Noted(q)
    BY <2>1 DEF Same, Noted
  <2> QED
    BY <1>4, <2>2, Frame
<1> QED
  BY <1>2, <1>3, <1>5 DEF IInv

LEMMA CascadeStep ==
    ASSUME IInv, NEW u \in User, AccountDeleted(u)
    PROVE  IInv'
<1>1. /\ account' = [account EXCEPT ![u] = "deleted"]
      /\ owner' = [i \in Item |-> IF i \in Owned(u) THEN NoUser ELSE owner[i]]
      /\ title' = [i \in Item |-> IF i \in Owned(u) THEN NoTitle ELSE title[i]]
      /\ UNCHANGED <<pc, call, superuser, seen, made, count, page, answer, maker, roles>>
  BY DEF AccountDeleted, Life!Leave
<1>2. TypeOK'
  <2>1. account' \in [User -> Life!Stage]
    BY <1>1 DEF IInv, TypeOK, Life!Stage
  <2>2. (\A i \in Item : owner[i] = NoUser <=> title[i] = NoTitle)'
    BY <1>1 DEF IInv, TypeOK
  <2>3. owner' \in [Item -> User \cup {NoUser}] /\ title' \in [Item -> Title \cup {NoTitle}]
    BY <1>1 DEF IInv, TypeOK
  <2> QED
    BY <1>1, <2>1, <2>2, <2>3 DEF IInv, TypeOK
<1>3. TableInv'
  <2>1. ASSUME NEW i \in Item, Exists(i)'
        PROVE  Exists(i) /\ owner'[i] = owner[i] /\ owner[i] # u
    BY <1>1, <2>1 DEF Exists, Owned
  <2>2. ASSUME NEW i \in Item, Exists(i)'
        PROVE  account'[owner'[i]] \in Life!Rights
    BY <1>1, <2>1, <2>2 DEF IInv, TypeOK, TableInv, OwnerExists, Exists
  <2> QED
    BY <1>1, <2>1, <2>2 DEF IInv, TableInv, OwnerExists
<1>4. NoRebirth
  BY <1>1 DEF NoRebirth, Exists
<1>5. ASSUME NEW q \in Request
      PROVE  RequestInv(q)'
  <2>1. RequestInv(q) /\ Same(q)
    BY <1>1 DEF IInv, Same
  <2>2. Noted(q)
    <3>1. roles'[q] = roles[q]
      BY <1>1
    <3>2. account'[call[q].caller] \in {"user", "superuser"} /\ InFlight(q) =>
            account'[call[q].caller] = account[call[q].caller]
      <4>1. InFlight(q) => call[q].caller \in User
        BY InCall DEF InFlight
      <4> QED
        BY <1>1, <4>1 DEF IInv, TypeOK
    <3> QED
      BY <2>1, <3>1, <3>2 DEF Noted, RequestInv, AuthorityInv, RightsOf
  <2> QED
    BY <1>4, <2>1, <2>2, Frame
<1> QED
  BY <1>2, <1>3, <1>5 DEF IInv

-----------------------------------------------------------------------------
(* Every step *)

LEMMA Initial == Init => IInv
<1> SUFFICES ASSUME Init PROVE IInv
  OBVIOUS
<1>1. PICK start \in Start :
        account = start.account /\ owner = start.owner /\ title = start.title
  BY DEF Init
<1>2. /\ account \in [User -> {"unborn", "inactive", "user", "superuser"}]
      /\ owner \in [Item -> User \cup {NoUser}]
      /\ title \in [Item -> Title \cup {NoTitle}]
      /\ \A i \in Item : owner[i] = NoUser <=> title[i] = NoTitle
      /\ \A i \in Item : owner[i] # NoUser => account[owner[i]] # "unborn"
  BY <1>1, StartAssumption
<1>3. TypeOK
  <2>1. Cardinality(Item) \in Nat
    BY ItemAssumption, FS_CardinalityType
  <2>2. count \in [Request -> 0 .. Cardinality(Item)]
    BY <2>1 DEF Init
  <2>3. account \in [User -> Life!Stage]
    BY <1>2 DEF Life!Stage, Life!Rights
  <2>4. maker \in [Item -> User \cup {NoUser}]
    BY <1>2 DEF Init
  <2> QED
    BY <1>2, <2>2, <2>3, <2>4 DEF Init, TypeOK, Step, Status
<1>4. TableInv
  <2>1. \A i \in Item : Exists(i) => account[owner[i]] \in Life!Rights
    BY <1>2 DEF Exists, Life!Rights
  <2> QED
    BY <2>1 DEF TableInv, OwnerExists, Exists, Init
<1>5. ASSUME NEW r \in Request PROVE RequestInv(r)
  BY DEF Init, RequestInv, StepInv, AuthorityInv, DeletionInv, InFlight
<1> QED
  BY <1>3, <1>4, <1>5 DEF IInv

LEMMA Inductive == IInv /\ [Next]_vars => IInv'
<1> SUFFICES ASSUME IInv, [Next]_vars PROVE IInv'
  OBVIOUS
<1>1. ASSUME NEW r \in Request, NEW c \in Call, Receive(r, c) PROVE IInv'
  BY <1>1, ReceiveStep
<1>2. ASSUME NEW r \in Request, Handle(r) PROVE IInv'
  BY <1>2, AuthStep, GetStep, ListStep, InsertStep, UpdateStep, FailStep, DeleteStep,
     RefreshStep DEF Handle
<1>3. CASE AccountChanges
  BY <1>3, AccountStep DEF AccountChanges
<1>4. ASSUME NEW u \in User, AccountDeleted(u) PROVE IInv'
  BY <1>4, CascadeStep
<1>5. CASE UNCHANGED vars
  BY <1>5 DEF vars, table, IInv, TypeOK, TableInv, OwnerExists, Exists, RequestInv, StepInv,
     AuthorityInv, DeletionInv, InFlight, HadRight
<1> QED
  BY <1>1, <1>2, <1>3, <1>4, <1>5 DEF Next, Quiescent

LEMMA Invariance == Spec => []IInv
BY Initial, Inductive, PTL DEF Spec

-----------------------------------------------------------------------------
(* The theorems *)

\* Every variable keeps its type, and no item has an owner without a title.
THEOREM TypeCorrect == Spec => []TypeOK
<1>1. IInv => TypeOK
  BY DEF IInv
<1> QED
  BY <1>1, Invariance, PTL

\* An item always has an owner with an account (item.owner_id and its cascade).
THEOREM OwnersExist == Spec => []OwnerExists
<1>1. IInv => OwnerExists
  BY DEF IInv, TableInv
<1> QED
  BY <1>1, Invariance, PTL

\* Nobody reads or changes an item without having had the right to it during the
\* call (can_access_item and get_current_user).
THEOREM AuthorityKept == Spec => []AuthorityHeld
<1>1. IInv => AuthorityHeld
  <2> SUFFICES ASSUME IInv, NEW r \in Request, answer[r] = "200"
               PROVE  /\ roles[r] # {}
                      /\ \A i \in page[r] \cup ({call[r].item} \cap Item) : HadRight(r, i)
    BY DEF AuthorityHeld, HadRight
  <2>1. AuthorityInv(r) /\ WellFormed(call[r]) /\ call[r] # NoCall
    BY InCall DEF IInv, RequestInv, StepInv
  <2>2. call[r].op \notin ById => call[r].item = NoItem
    BY <2>1 DEF WellFormed
  <2>3. ASSUME NEW i \in {call[r].item} \cap Item PROVE HadRight(r, i)
    BY <2>1, <2>2, NullAssumption DEF AuthorityInv
  <2> QED
    BY <2>1, <2>3 DEF AuthorityInv
<1> QED
  BY <1>1, Invariance, PTL

\* An item whose deletion was acknowledged does not come back (delete_item).
THEOREM DeletionsLast == Spec => []DeletedStaysDeleted
<1>1. IInv => DeletedStaysDeleted
  BY DEF IInv, RequestInv, DeletionInv, DeletedStaysDeleted
<1> QED
  BY <1>1, Invariance, PTL

\* Items keep their owners, change as an update asks, and go as a deletion asks or
\* with their owner (update_item, delete_item, ON DELETE CASCADE).
THEOREM ItemsAreKept == Spec => ItemKept
<1> DEFINE Kept(i) ==
        \/ /\ owner'[i] = owner[i]
           /\ \/ title'[i] = title[i]
              \/ \E r \in Request :
                    /\ pc[r] = "write" /\ call[r].op = "update"
                    /\ call[r].item = i /\ title'[i] = call[r].title
        \/ /\ ~Exists(i)'
           /\ \/ account'[owner[i]] = "deleted"
              \/ \E r \in Request : pc[r] = "write" /\ call[r].op = "delete" /\ call[r].item = i
           A == \A i \in Item : Exists(i) => Kept(i)
<1>1. ASSUME IInv, Next
      PROVE  A
  <2> SUFFICES ASSUME NEW i \in Item, Exists(i) PROVE Kept(i)
    OBVIOUS
  <2>1. ASSUME UNCHANGED table PROVE Kept(i)
    BY <2>1 DEF table
  <2>2. ASSUME NEW r \in Request, InsertItem(r) PROVE Kept(i)
    <3>1. maker[i] # NoUser
      BY <1>1 DEF IInv, TableInv, Exists
    <3> QED
      BY <1>1, <2>2, <3>1 DEF InsertItem, IInv, TypeOK, table
  <2>3. ASSUME NEW r \in Request, UpdateItem(r) PROVE Kept(i)
    BY <1>1, <2>3 DEF UpdateItem, Written, Dirty, IInv, TypeOK
  <2>4. ASSUME NEW r \in Request, DeleteItem(r) PROVE Kept(i)
    BY <1>1, <2>4 DEF DeleteItem, Exists, IInv, TypeOK
  <2>5. ASSUME NEW u \in User, AccountDeleted(u) PROVE Kept(i)
    <3>1. CASE i \in Owned(u)
      BY <1>1, <2>5, <3>1 DEF AccountDeleted, Life!Leave, Owned, Exists, IInv, TypeOK
    <3>2. CASE i \notin Owned(u)
      BY <2>5, <3>2 DEF AccountDeleted
    <3> QED
      BY <3>1, <3>2
  <2>6. ASSUME NEW r \in Request, NEW c \in Call, Receive(r, c) PROVE UNCHANGED table
    BY <2>6 DEF Receive
  <2>7. ASSUME NEW r \in Request, Handle(r) PROVE Kept(i)
    <3>1. CASE AuthRefused(r) \/ AuthPassed(r) \/ GetRefused(r) \/ GetPassed(r)
      BY <2>1, <3>1 DEF AuthRefused, AuthPassed, GetRefused, GetPassed
    <3>2. CASE Count(r) \/ Page(r) \/ UpdateFails(r) \/ Refresh(r) \/ Fail(r)
      BY <2>1, <3>2 DEF Count, Page, UpdateFails, Refresh, Fail
    <3> HIDE DEF Kept
    <3> QED
      BY <2>2, <2>3, <2>4, <2>7, <3>1, <3>2 DEF Handle
  <2>8. AccountChanges => UNCHANGED table
    BY DEF AccountChanges
  <2>9. Quiescent => UNCHANGED table
    BY DEF Quiescent, vars
  <2> HIDE DEF Kept
  <2> QED
    BY <1>1, <2>1, <2>5, <2>6, <2>7, <2>8, <2>9 DEF Next
<1>2. IInv /\ [Next]_vars => [A]_vars
  BY <1>1
<1> QED
  BY <1>2, Invariance, PTL DEF Spec, ItemKept
=============================================================================
