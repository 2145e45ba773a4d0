------------------------- MODULE RefreshTokensProofs -------------------------
(***************************************************************************)
(* Proofs about RefreshTokens for any number of users, tokens and          *)
(* requests.                                                               *)
(***************************************************************************)
EXTENDS RefreshTokens, TLAPS

Shape == TypeOK /\ \A r \in Request : StepInv(r)

LEMMA ShapeInit == Init => Shape
BY NullAssumption
   DEF Init, Shape, TypeOK, StepInv, Paired, AccountState, Endpoint, Step, Answer

LEMMA ShapeStep == Shape /\ [Next]_vars => Shape'
<1> USE NullAssumption
<1> SUFFICES ASSUME Shape, [Next]_vars PROVE Shape'
  OBVIOUS
<1> USE DEF Shape, TypeOK, StepInv, Paired, AccountState, Endpoint, Step, Answer,
            Goto, Respond, Delete, requestVars
<1>1. ASSUME NEW r \in Request, NEW u \in User, ReceiveLogin(r, u) PROVE Shape'
  BY <1>1 DEF ReceiveLogin
<1>2. ASSUME NEW r \in Request, NEW t \in Handed, ReceiveRefresh(r, t) PROVE Shape'
  BY <1>2 DEF ReceiveRefresh, Handed, Ended
<1>3. ASSUME NEW r \in Request, NEW t \in Handed, ReceiveLogout(r, t) PROVE Shape'
  BY <1>3 DEF ReceiveLogout, Handed
<1>4. ASSUME NEW r \in Request, LoginRefused(r) PROVE Shape'
  BY <1>4 DEF LoginRefused
<1>5. ASSUME NEW r \in Request, LoginAccepted(r) PROVE Shape'
  BY <1>5 DEF LoginAccepted
<1>6. ASSUME NEW r \in Request, GetMiss(r) PROVE Shape'
  BY <1>6 DEF GetMiss, Live
<1>7. ASSUME NEW r \in Request, GetHit(r) PROVE Shape'
  BY <1>7 DEF GetHit, Live
<1>8. ASSUME NEW r \in Request, LookupGone(r) PROVE Shape'
  BY <1>8 DEF LookupGone
<1>9. ASSUME NEW r \in Request, LookupInactive(r) PROVE Shape'
  BY <1>9 DEF LookupInactive
<1>10. ASSUME NEW r \in Request, LookupActive(r) PROVE Shape'
  BY <1>10 DEF LookupActive
<1>11. ASSUME NEW r \in Request, Purge(r) PROVE Shape'
  BY <1>11 DEF Purge
<1>12. ASSUME NEW r \in Request, Consume(r) PROVE Shape'
  BY <1>12 DEF Consume
<1>13. ASSUME NEW r \in Request, Store(r) PROVE Shape'
  BY <1>13 DEF Store, Fresh
<1>14. ASSUME NEW r \in Request, Revoke(r) PROVE Shape'
  BY <1>14 DEF Revoke
<1>15. ASSUME NEW r \in Request, Fail(r) PROVE Shape'
  BY <1>15 DEF Fail, InFlight
<1>16. ASSUME NEW t \in Token, Expire(t) PROVE Shape'
  BY <1>16 DEF Expire, Timed
<1>17. ASSUME NEW u \in User, NEW s \in {"active", "inactive"}, SetActive(u, s) PROVE Shape'
  BY <1>17 DEF SetActive
<1>18. ASSUME NEW u \in User, DeleteUser(u) PROVE Shape'
  BY <1>18 DEF DeleteUser
<1>19. ASSUME UNCHANGED vars PROVE Shape'
  BY <1>19 DEF vars
<1>20. QED
  BY <1>1, <1>2, <1>3, <1>4, <1>5, <1>6, <1>7, <1>8, <1>9, <1>10, <1>11, <1>12, <1>13, <1>14, <1>15, <1>16, <1>17, <1>18, <1>19
     DEF Next, Receive, Handle, Environment, Quiescent

\* Every variable keeps its type: in particular Redis holds nothing but user
\* ids, and a request that is past authenticate or GET has a user.
LEMMA TypeCorrect == Spec => []TypeOK
<1>1. Spec => []Shape
  BY ShapeInit, ShapeStep, PTL DEF Spec
<1>2. Shape => TypeOK
  BY DEF Shape
<1>3. QED
  BY <1>1, <1>2, PTL
\* A cause for a token's end stays one: an exchange past its DEL answers with
\* a pair or with a 500, and endpoints and tokens of requests do not change.
LEMMA SpentStable ==
    ASSUME TypeOK, \A r \in Request : StepInv(r), [Next]_vars,
           NEW t \in Token, Spent(t)
    PROVE  Spent(t)'
<1> USE DEF TypeOK, StepInv, Goto, Respond, requestVars
<1> PICK q \in Request :
        /\ presented[q] = t
        /\ \/ op[q] = "logout"
           \/ op[q] = "refresh" /\ (pc[q] = "store" \/ answer[q] \in {"pair", "500"})
  BY DEF Spent
<1>1. ASSUME NEW r \in Request, Receive(r) PROVE Spent(t)'
  BY <1>1 DEF Receive, ReceiveLogin, ReceiveRefresh, ReceiveLogout, Spent
<1>2. ASSUME NEW r \in Request, Handle(r) PROVE Spent(t)'
  BY <1>2
     DEF Handle, Spent, InFlight, LoginRefused, LoginAccepted, GetMiss, GetHit, LookupGone, LookupInactive, LookupActive, Purge, Consume, Store, Revoke, Fail
<1>3. ASSUME Environment PROVE Spent(t)'
  BY <1>3 DEF Environment, Expire, Timed, SetActive, DeleteUser, Spent
<1>4. ASSUME UNCHANGED vars PROVE Spent(t)'
  BY <1>4 DEF vars, Spent
<1>5. QED
  BY <1>1, <1>2, <1>3, <1>4 DEF Next, Quiescent

LEMMA InvInit == Init => IInv
BY NullAssumption
   DEF Init, IInv, TokenInv, StepInv, EndInv, RefreshInv, BlockedInv, PairInv, Paired

LEMMA InvStep == TypeOK /\ TypeOK' /\ IInv /\ [Next]_vars => IInv'
<1> USE NullAssumption
<1> SUFFICES ASSUME TypeOK, TypeOK', IInv, [Next]_vars PROVE IInv'
  OBVIOUS
<1>steps. \A r \in Request : StepInv(r)'
  BY ShapeStep DEF Shape, IInv
<1>spent. \A t \in Token : Spent(t) => Spent(t)'
  BY SpentStable DEF IInv
<1> USE DEF TypeOK, Goto, Respond, Delete, requestVars, Live, InFlight, Paired
<1>1. ASSUME NEW r \in Request, NEW u \in User, ReceiveLogin(r, u) PROVE IInv'
  <2>1. ASSUME NEW tk \in Token PROVE TokenInv(tk)'
    BY <1>spent, <1>1 DEF ReceiveLogin, IInv, TokenInv, StepInv, RefreshInv
  <2>2. ASSUME NEW q \in Request PROVE EndInv(q)'
    BY <1>1 DEF ReceiveLogin, IInv, EndInv, StepInv
  <2>3. ASSUME NEW q \in Request PROVE RefreshInv(q)'
    BY <1>1 DEF ReceiveLogin, IInv, RefreshInv, StepInv, TokenInv, EndInv
  <2>4. ASSUME NEW q \in Request PROVE BlockedInv(q)'
    BY <1>1 DEF ReceiveLogin, IInv, BlockedInv, StepInv, RefreshInv
  <2>5. ASSUME NEW q \in Request PROVE PairInv(q)'
    BY <1>1 DEF ReceiveLogin, IInv, PairInv, StepInv, RefreshInv, BlockedInv
  <2>6. QED
    BY <1>steps, <2>1, <2>2, <2>3, <2>4, <2>5 DEF IInv
<1>2. ASSUME NEW r \in Request, NEW t \in Handed, ReceiveRefresh(r, t) PROVE IInv'
  <2>1. ASSUME NEW tk \in Token PROVE TokenInv(tk)'
    BY <1>spent, <1>2
       DEF ReceiveRefresh, Handed, IInv, TokenInv, StepInv, RefreshInv
  <2>2. ASSUME NEW q \in Request PROVE EndInv(q)'
    BY <1>2 DEF ReceiveRefresh, Handed, PairInv, IInv, EndInv, StepInv
  <2>3. ASSUME NEW q \in Request PROVE RefreshInv(q)'
    <3>1. CASE q = r
      <4>1. t \in Token /\ (Ended(t) => ~Live(t))
        BY <1>2 DEF Handed, IInv, StepInv, EndInv, TokenInv, Ended
      <4>2. QED
        BY <1>2, <3>1, <4>1 DEF ReceiveRefresh, RefreshInv
    <3>2. CASE q # r
      BY <1>2, <3>2 DEF ReceiveRefresh, IInv, RefreshInv
    <3>3. QED
      BY <3>1, <3>2
  <2>4. ASSUME NEW q \in Request PROVE BlockedInv(q)'
    BY <1>2 DEF ReceiveRefresh, Handed, IInv, BlockedInv, StepInv, RefreshInv
  <2>5. ASSUME NEW q \in Request PROVE PairInv(q)'
    BY <1>2
       DEF ReceiveRefresh, Handed, IInv, PairInv, StepInv, RefreshInv, BlockedInv
  <2>6. QED
    BY <1>steps, <2>1, <2>2, <2>3, <2>4, <2>5 DEF IInv
<1>3. ASSUME NEW r \in Request, NEW t \in Handed, ReceiveLogout(r, t) PROVE IInv'
  <2>1. ASSUME NEW tk \in Token PROVE TokenInv(tk)'
    BY <1>spent, <1>3 DEF ReceiveLogout, Handed, IInv, TokenInv, StepInv, RefreshInv
  <2>2. ASSUME NEW q \in Request PROVE EndInv(q)'
    BY <1>3 DEF ReceiveLogout, Handed, PairInv, IInv, EndInv, StepInv
  <2>3. ASSUME NEW q \in Request PROVE RefreshInv(q)'
    BY <1>3 DEF ReceiveLogout, Handed, IInv, RefreshInv, StepInv, TokenInv, EndInv
  <2>4. ASSUME NEW q \in Request PROVE BlockedInv(q)'
    BY <1>3 DEF ReceiveLogout, Handed, IInv, BlockedInv, StepInv, RefreshInv
  <2>5. ASSUME NEW q \in Request PROVE PairInv(q)'
    BY <1>3
       DEF ReceiveLogout, Handed, IInv, PairInv, StepInv, RefreshInv, BlockedInv
  <2>6. QED
    BY <1>steps, <2>1, <2>2, <2>3, <2>4, <2>5 DEF IInv
<1>4. ASSUME NEW r \in Request, LoginRefused(r) PROVE IInv'
  <2>1. ASSUME NEW tk \in Token PROVE TokenInv(tk)'
    BY <1>spent, <1>4 DEF LoginRefused, IInv, TokenInv, StepInv, RefreshInv
  <2>2. ASSUME NEW q \in Request PROVE EndInv(q)'
    BY <1>4 DEF LoginRefused, IInv, EndInv, StepInv
  <2>3. ASSUME NEW q \in Request PROVE RefreshInv(q)'
    BY <1>4 DEF LoginRefused, IInv, RefreshInv, StepInv, TokenInv, EndInv
  <2>4. ASSUME NEW q \in Request PROVE BlockedInv(q)'
    BY <1>4 DEF LoginRefused, IInv, BlockedInv, StepInv, RefreshInv
  <2>5. ASSUME NEW q \in Request PROVE PairInv(q)'
    BY <1>4 DEF LoginRefused, IInv, PairInv, StepInv, RefreshInv, BlockedInv
  <2>6. QED
    BY <1>steps, <2>1, <2>2, <2>3, <2>4, <2>5 DEF IInv
<1>5. ASSUME NEW r \in Request, LoginAccepted(r) PROVE IInv'
  <2>1. ASSUME NEW tk \in Token PROVE TokenInv(tk)'
    BY <1>spent, <1>5 DEF LoginAccepted, IInv, TokenInv, StepInv, RefreshInv
  <2>2. ASSUME NEW q \in Request PROVE EndInv(q)'
    BY <1>5 DEF LoginAccepted, IInv, EndInv, StepInv
  <2>3. ASSUME NEW q \in Request PROVE RefreshInv(q)'
    BY <1>5 DEF LoginAccepted, IInv, RefreshInv, StepInv, TokenInv, EndInv
  <2>4. ASSUME NEW q \in Request PROVE BlockedInv(q)'
    BY <1>5 DEF LoginAccepted, IInv, BlockedInv, StepInv, RefreshInv
  <2>5. ASSUME NEW q \in Request PROVE PairInv(q)'
    BY <1>5 DEF LoginAccepted, IInv, PairInv, StepInv, RefreshInv, BlockedInv
  <2>6. QED
    BY <1>steps, <2>1, <2>2, <2>3, <2>4, <2>5 DEF IInv
<1>6. ASSUME NEW r \in Request, GetMiss(r) PROVE IInv'
  <2>1. ASSUME NEW tk \in Token PROVE TokenInv(tk)'
    BY <1>spent, <1>6 DEF GetMiss, IInv, TokenInv, StepInv, RefreshInv
  <2>2. ASSUME NEW q \in Request PROVE EndInv(q)'
    BY <1>6 DEF GetMiss, IInv, EndInv, StepInv
  <2>3. ASSUME NEW q \in Request PROVE RefreshInv(q)'
    BY <1>6 DEF GetMiss, IInv, RefreshInv, StepInv, TokenInv, EndInv
  <2>4. ASSUME NEW q \in Request PROVE BlockedInv(q)'
    BY <1>6 DEF GetMiss, IInv, BlockedInv, StepInv, RefreshInv
  <2>5. ASSUME NEW q \in Request PROVE PairInv(q)'
    BY <1>6 DEF GetMiss, IInv, PairInv, StepInv, RefreshInv, BlockedInv
  <2>6. QED
    BY <1>steps, <2>1, <2>2, <2>3, <2>4, <2>5 DEF IInv
<1>7. ASSUME NEW r \in Request, GetHit(r) PROVE IInv'
  <2>1. ASSUME NEW tk \in Token PROVE TokenInv(tk)'
    BY <1>spent, <1>7 DEF GetHit, IInv, TokenInv, StepInv, RefreshInv
  <2>2. ASSUME NEW q \in Request PROVE EndInv(q)'
    BY <1>7 DEF GetHit, IInv, EndInv, StepInv
  <2>3. ASSUME NEW q \in Request PROVE RefreshInv(q)'
    BY <1>7 DEF GetHit, IInv, RefreshInv, StepInv, TokenInv, EndInv
  <2>4. ASSUME NEW q \in Request PROVE BlockedInv(q)'
    BY <1>7 DEF GetHit, IInv, BlockedInv, StepInv, RefreshInv
  <2>5. ASSUME NEW q \in Request PROVE PairInv(q)'
    BY <1>7 DEF GetHit, IInv, PairInv, StepInv, RefreshInv, BlockedInv
  <2>6. QED
    BY <1>steps, <2>1, <2>2, <2>3, <2>4, <2>5 DEF IInv
<1>8. ASSUME NEW r \in Request, LookupGone(r) PROVE IInv'
  <2>1. ASSUME NEW tk \in Token PROVE TokenInv(tk)'
    BY <1>spent, <1>8 DEF LookupGone, IInv, TokenInv, StepInv, RefreshInv
  <2>2. ASSUME NEW q \in Request PROVE EndInv(q)'
    BY <1>8 DEF LookupGone, IInv, EndInv, StepInv
  <2>3. ASSUME NEW q \in Request PROVE RefreshInv(q)'
    BY <1>8 DEF LookupGone, IInv, RefreshInv, StepInv, TokenInv, EndInv
  <2>4. ASSUME NEW q \in Request PROVE BlockedInv(q)'
    BY <1>8 DEF LookupGone, IInv, BlockedInv, StepInv, RefreshInv
  <2>5. ASSUME NEW q \in Request PROVE PairInv(q)'
    BY <1>8 DEF LookupGone, IInv, PairInv, StepInv, RefreshInv, BlockedInv
  <2>6. QED
    BY <1>steps, <2>1, <2>2, <2>3, <2>4, <2>5 DEF IInv
<1>9. ASSUME NEW r \in Request, LookupInactive(r) PROVE IInv'
  <2>1. ASSUME NEW tk \in Token PROVE TokenInv(tk)'
    BY <1>spent, <1>9 DEF LookupInactive, IInv, TokenInv, StepInv, RefreshInv
  <2>2. ASSUME NEW q \in Request PROVE EndInv(q)'
    BY <1>9 DEF LookupInactive, IInv, EndInv, StepInv
  <2>3. ASSUME NEW q \in Request PROVE RefreshInv(q)'
    BY <1>9 DEF LookupInactive, IInv, RefreshInv, StepInv, TokenInv, EndInv
  <2>4. ASSUME NEW q \in Request PROVE BlockedInv(q)'
    BY <1>9 DEF LookupInactive, IInv, BlockedInv, StepInv, RefreshInv
  <2>5. ASSUME NEW q \in Request PROVE PairInv(q)'
    BY <1>9 DEF LookupInactive, IInv, PairInv, StepInv, RefreshInv, BlockedInv
  <2>6. QED
    BY <1>steps, <2>1, <2>2, <2>3, <2>4, <2>5 DEF IInv
<1>10. ASSUME NEW r \in Request, LookupActive(r) PROVE IInv'
  <2>1. ASSUME NEW tk \in Token PROVE TokenInv(tk)'
    BY <1>spent, <1>10 DEF LookupActive, IInv, TokenInv, StepInv, RefreshInv
  <2>2. ASSUME NEW q \in Request PROVE EndInv(q)'
    BY <1>10 DEF LookupActive, IInv, EndInv, StepInv
  <2>3. ASSUME NEW q \in Request PROVE RefreshInv(q)'
    BY <1>10 DEF LookupActive, IInv, RefreshInv, StepInv, TokenInv, EndInv
  <2>4. ASSUME NEW q \in Request PROVE BlockedInv(q)'
    BY <1>10 DEF LookupActive, IInv, BlockedInv, StepInv, RefreshInv
  <2>5. ASSUME NEW q \in Request PROVE PairInv(q)'
    BY <1>10 DEF LookupActive, IInv, PairInv, StepInv, RefreshInv, BlockedInv
  <2>6. QED
    BY <1>steps, <2>1, <2>2, <2>3, <2>4, <2>5 DEF IInv
<1>11. ASSUME NEW r \in Request, Purge(r) PROVE IInv'
  <2>1. ASSUME NEW tk \in Token PROVE TokenInv(tk)'
    <3>1. CASE tk = presented[r]
      <4>1. op[r] = "refresh"
        BY <1>11 DEF Purge, IInv, StepInv, Endpoint
      <4>2. account'[owner'[tk]] = "deleted" /\ live'[tk] = NoUser
        BY <1>11, <3>1, <4>1 DEF Purge, IInv, RefreshInv
      <4>3. QED
        BY <1>11, <4>2 DEF Purge, IInv, TokenInv
    <3>2. CASE tk # presented[r]
      BY <1>spent, <1>11, <3>2 DEF Purge, IInv, TokenInv
    <3>3. QED
      BY <3>1, <3>2
  <2>2. ASSUME NEW q \in Request PROVE EndInv(q)'
    BY <1>11 DEF Purge, IInv, EndInv, StepInv
  <2>3. ASSUME NEW q \in Request PROVE RefreshInv(q)'
    BY <1>11 DEF Purge, IInv, RefreshInv, StepInv, TokenInv, EndInv
  <2>4. ASSUME NEW q \in Request PROVE BlockedInv(q)'
    BY <1>11 DEF Purge, IInv, BlockedInv, StepInv, RefreshInv
  <2>5. ASSUME NEW q \in Request PROVE PairInv(q)'
    BY <1>11 DEF Purge, IInv, PairInv, StepInv, RefreshInv, BlockedInv
  <2>6. QED
    BY <1>steps, <2>1, <2>2, <2>3, <2>4, <2>5 DEF IInv
<1>12. ASSUME NEW r \in Request, Consume(r) PROVE IInv'
  <2>1. ASSUME NEW tk \in Token PROVE TokenInv(tk)'
    <3>1. CASE tk = presented[r]
      <4>1. op[r] = "refresh"
        BY <1>12 DEF Consume, IInv, StepInv, Endpoint
      <4>2. presented'[r] = tk /\ op'[r] = "refresh" /\ pc'[r] = "store"
        BY <1>12, <3>1, <4>1 DEF Consume
      <4>3. Spent(tk)'
        BY <4>2 DEF Spent
      <4>4. live'[tk] = NoUser
        BY <1>12, <3>1 DEF Consume
      <4>5. QED
        BY <1>12, <4>3, <4>4 DEF Consume, IInv, TokenInv, Live
    <3>2. CASE tk # presented[r]
      BY <1>spent, <1>12, <3>2 DEF Consume, IInv, TokenInv
    <3>3. QED
      BY <3>1, <3>2
  <2>2. ASSUME NEW q \in Request PROVE EndInv(q)'
    BY <1>12 DEF Consume, IInv, EndInv, StepInv
  <2>3. ASSUME NEW q \in Request PROVE RefreshInv(q)'
    BY <1>12 DEF Consume, IInv, RefreshInv, StepInv, TokenInv, EndInv
  <2>4. ASSUME NEW q \in Request PROVE BlockedInv(q)'
    BY <1>12 DEF Consume, IInv, BlockedInv, StepInv, RefreshInv
  <2>5. ASSUME NEW q \in Request PROVE PairInv(q)'
    BY <1>12 DEF Consume, IInv, PairInv, StepInv, RefreshInv, BlockedInv
  <2>6. QED
    BY <1>steps, <2>1, <2>2, <2>3, <2>4, <2>5 DEF IInv
<1>13. ASSUME NEW r \in Request, Store(r) PROVE IInv'
  <2>1. ASSUME NEW tk \in Token PROVE TokenInv(tk)'
    BY <1>spent, <1>13 DEF Store, Fresh, IInv, TokenInv, StepInv, RefreshInv
  <2>2. ASSUME NEW q \in Request PROVE EndInv(q)'
    <3>1. PICK t \in Fresh : /\ live' = [live EXCEPT ![t] = subject[r]]
                            /\ owner' = [owner EXCEPT ![t] = subject[r]]
      BY <1>13 DEF Store
    <3>2. EndInv(q) /\ StepInv(q) /\ EndInv(r) /\ StepInv(r)
      BY DEF IInv
    <3>3. presented[q] # NoToken => presented[q] \in Token /\ presented[q] # t
      BY <3>2 DEF Fresh, EndInv
    <3>4. QED
      BY <1>13, <3>1, <3>2, <3>3 DEF Store, EndInv, StepInv, Endpoint
  <2>3. ASSUME NEW q \in Request PROVE RefreshInv(q)'
    BY <1>13 DEF Store, Fresh, IInv, RefreshInv, StepInv, TokenInv, EndInv
  <2>4. ASSUME NEW q \in Request PROVE BlockedInv(q)'
    <3>1. PICK t \in Fresh : owner' = [owner EXCEPT ![t] = subject[r]]
      BY <1>13 DEF Store
    <3>2. EndInv(q) /\ StepInv(q) /\ BlockedInv(q)
      BY DEF IInv
    <3>3. op[q] = "refresh" => presented[q] \in Token /\ presented[q] # t
      BY <3>1, <3>2 DEF Fresh, EndInv, StepInv
    <3>4. QED
      BY <1>13, <3>1, <3>2, <3>3 DEF Store, BlockedInv
  <2>5. ASSUME NEW q \in Request PROVE PairInv(q)'
    <3> SUFFICES ASSUME Paired(q)' PROVE PairInv(q)'
      BY DEF PairInv
    <3>1. PICK t \in Fresh : owner' = [owner EXCEPT ![t] = subject[r]]
                            /\ minted' = [minted EXCEPT ![r] = t]
      BY <1>13 DEF Store
    <3>2. CASE q = r
      <4>1. op[r] \in {"login", "refresh"} /\ ~late[r] /\ ~blocked[r]
        BY <1>13 DEF Store, IInv, StepInv, RefreshInv, BlockedInv, Endpoint
      <4>2. subject[r] \in User /\ owner'[t] = subject[r]
        BY <1>13, <3>1, <4>1 DEF Store, Fresh, IInv, StepInv, EndInv, RefreshInv
      <4>3. caller'[r] = subject[r]
        BY <1>13, <3>1, <4>1 DEF Store, Fresh, IInv, StepInv, EndInv, RefreshInv
      <4>4. QED
        BY <1>13, <3>1, <3>2, <4>1, <4>2, <4>3 DEF Store, Fresh, PairInv
    <3>3. CASE q # r
      <4>1. Paired(q) /\ PairInv(q) /\ StepInv(q) /\ EndInv(q)
        BY <1>13, <3>3 DEF Store, IInv
      <4>2. minted[q] # t /\ (op[q] = "refresh" => presented[q] # t)
        BY <3>1, <4>1 DEF Fresh, PairInv, StepInv, EndInv
      <4>3. QED
        BY <1>13, <3>1, <3>3, <4>1, <4>2 DEF Store, Fresh, PairInv, StepInv
    <3>4. QED
      BY <3>2, <3>3
  <2>6. QED
    BY <1>steps, <2>1, <2>2, <2>3, <2>4, <2>5 DEF IInv
<1>14. ASSUME NEW r \in Request, Revoke(r) PROVE IInv'
  <2>1. ASSUME NEW tk \in Token PROVE TokenInv(tk)'
    <3>1. CASE tk = presented[r]
      <4>1. op[r] = "logout"
        BY <1>14 DEF Revoke, IInv, StepInv, Endpoint
      <4>2. presented'[r] = tk /\ op'[r] = "logout"
        BY <1>14, <3>1, <4>1 DEF Revoke
      <4>3. Spent(tk)'
        BY <4>2 DEF Spent
      <4>4. live'[tk] = NoUser
        BY <1>14, <3>1 DEF Revoke
      <4>5. QED
        BY <1>14, <4>3, <4>4 DEF Revoke, IInv, TokenInv, Live
    <3>2. CASE tk # presented[r]
      BY <1>spent, <1>14, <3>2 DEF Revoke, IInv, TokenInv
    <3>3. QED
      BY <3>1, <3>2
  <2>2. ASSUME NEW q \in Request PROVE EndInv(q)'
    BY <1>14 DEF Revoke, IInv, EndInv, StepInv
  <2>3. ASSUME NEW q \in Request PROVE RefreshInv(q)'
    BY <1>14 DEF Revoke, IInv, RefreshInv, StepInv, TokenInv, EndInv
  <2>4. ASSUME NEW q \in Request PROVE BlockedInv(q)'
    BY <1>14 DEF Revoke, IInv, BlockedInv, StepInv, RefreshInv
  <2>5. ASSUME NEW q \in Request PROVE PairInv(q)'
    BY <1>14 DEF Revoke, IInv, PairInv, StepInv, RefreshInv, BlockedInv
  <2>6. QED
    BY <1>steps, <2>1, <2>2, <2>3, <2>4, <2>5 DEF IInv
<1>15. ASSUME NEW r \in Request, Fail(r) PROVE IInv'
  <2>1. ASSUME NEW tk \in Token PROVE TokenInv(tk)'
    BY <1>spent, <1>15 DEF Fail, IInv, TokenInv, StepInv, RefreshInv
  <2>2. ASSUME NEW q \in Request PROVE EndInv(q)'
    BY <1>15 DEF Fail, IInv, EndInv, StepInv
  <2>3. ASSUME NEW q \in Request PROVE RefreshInv(q)'
    BY <1>15 DEF Fail, IInv, RefreshInv, StepInv, TokenInv, EndInv
  <2>4. ASSUME NEW q \in Request PROVE BlockedInv(q)'
    BY <1>15 DEF Fail, IInv, BlockedInv, StepInv, RefreshInv
  <2>5. ASSUME NEW q \in Request PROVE PairInv(q)'
    BY <1>15 DEF Fail, IInv, PairInv, StepInv, RefreshInv, BlockedInv
  <2>6. QED
    BY <1>steps, <2>1, <2>2, <2>3, <2>4, <2>5 DEF IInv
<1>16. ASSUME NEW t \in Token, Expire(t) PROVE IInv'
  <2>1. ASSUME NEW tk \in Token PROVE TokenInv(tk)'
    BY <1>spent, <1>16 DEF Expire, Timed, IInv, TokenInv, StepInv, RefreshInv
  <2>2. ASSUME NEW q \in Request PROVE EndInv(q)'
    BY <1>16 DEF Expire, Timed, IInv, EndInv, StepInv
  <2>3. ASSUME NEW q \in Request PROVE RefreshInv(q)'
    BY <1>16 DEF Expire, Timed, IInv, RefreshInv, StepInv, TokenInv, EndInv
  <2>4. ASSUME NEW q \in Request PROVE BlockedInv(q)'
    BY <1>16 DEF Expire, Timed, IInv, BlockedInv, StepInv, RefreshInv
  <2>5. ASSUME NEW q \in Request PROVE PairInv(q)'
    BY <1>16 DEF Expire, Timed, IInv, PairInv, StepInv, RefreshInv, BlockedInv
  <2>6. QED
    BY <1>steps, <2>1, <2>2, <2>3, <2>4, <2>5 DEF IInv
<1>17. ASSUME NEW u \in User, NEW s \in {"active", "inactive"}, SetActive(u, s) PROVE IInv'
  <2>1. ASSUME NEW tk \in Token PROVE TokenInv(tk)'
    BY <1>spent, <1>17 DEF SetActive, IInv, TokenInv, StepInv, RefreshInv
  <2>2. ASSUME NEW q \in Request PROVE EndInv(q)'
    BY <1>17 DEF SetActive, IInv, EndInv, StepInv
  <2>3. ASSUME NEW q \in Request PROVE RefreshInv(q)'
    BY <1>17 DEF SetActive, IInv, RefreshInv, StepInv, TokenInv, EndInv
  <2>4. ASSUME NEW q \in Request PROVE BlockedInv(q)'
    <3>1. SUFFICES ASSUME blocked'[q] PROVE BlockedInv(q)'
      BY DEF BlockedInv
    <3>2. blocked[q] /\ ~(s = "active" /\ InFlight(q) /\ caller[q] = u)
      BY <1>17, <3>1 DEF SetActive
    <3>3. InFlight(q) => account'[caller[q]] # "active"
      <4>1. SUFFICES ASSUME InFlight(q) PROVE account'[caller[q]] # "active"
        OBVIOUS
      <4>2. account[caller[q]] # "active"
        BY <3>2, <4>1 DEF IInv, BlockedInv
      <4>3. QED
        BY <1>17, <3>2, <4>1, <4>2 DEF SetActive
    <3>4. QED
      BY <1>17, <3>1, <3>2, <3>3 DEF SetActive, IInv, BlockedInv
  <2>5. ASSUME NEW q \in Request PROVE PairInv(q)'
    BY <1>17 DEF SetActive, IInv, PairInv, StepInv, RefreshInv, BlockedInv
  <2>6. QED
    BY <1>steps, <2>1, <2>2, <2>3, <2>4, <2>5 DEF IInv
<1>18. ASSUME NEW u \in User, DeleteUser(u) PROVE IInv'
  <2>1. ASSUME NEW tk \in Token PROVE TokenInv(tk)'
    BY <1>spent, <1>18 DEF DeleteUser, IInv, TokenInv, StepInv, RefreshInv
  <2>2. ASSUME NEW q \in Request PROVE EndInv(q)'
    BY <1>18 DEF DeleteUser, IInv, EndInv, StepInv
  <2>3. ASSUME NEW q \in Request PROVE RefreshInv(q)'
    BY <1>18 DEF DeleteUser, IInv, RefreshInv, StepInv, TokenInv, EndInv
  <2>4. ASSUME NEW q \in Request PROVE BlockedInv(q)'
    BY <1>18 DEF DeleteUser, IInv, BlockedInv, StepInv, RefreshInv
  <2>5. ASSUME NEW q \in Request PROVE PairInv(q)'
    BY <1>18 DEF DeleteUser, IInv, PairInv, StepInv, RefreshInv, BlockedInv
  <2>6. QED
    BY <1>steps, <2>1, <2>2, <2>3, <2>4, <2>5 DEF IInv
<1>19. ASSUME UNCHANGED vars PROVE IInv'
  <2>1. ASSUME NEW tk \in Token PROVE TokenInv(tk)'
    BY <1>spent, <1>19 DEF vars, IInv, TokenInv, StepInv, RefreshInv
  <2>2. ASSUME NEW q \in Request PROVE EndInv(q)'
    BY <1>19 DEF vars, IInv, EndInv, StepInv
  <2>3. ASSUME NEW q \in Request PROVE RefreshInv(q)'
    BY <1>19 DEF vars, IInv, RefreshInv, StepInv, TokenInv, EndInv
  <2>4. ASSUME NEW q \in Request PROVE BlockedInv(q)'
    BY <1>19 DEF vars, IInv, BlockedInv, StepInv, RefreshInv
  <2>5. ASSUME NEW q \in Request PROVE PairInv(q)'
    BY <1>19 DEF vars, IInv, PairInv, StepInv, RefreshInv, BlockedInv
  <2>6. QED
    BY <1>steps, <2>1, <2>2, <2>3, <2>4, <2>5 DEF IInv
<1>20. QED
  BY <1>1, <1>2, <1>3, <1>4, <1>5, <1>6, <1>7, <1>8, <1>9, <1>10, <1>11, <1>12, <1>13, <1>14, <1>15, <1>16, <1>17, <1>18, <1>19
     DEF Next, Receive, Handle, Environment, Quiescent


\* IInv is an invariant: together with the types it is inductive.
THEOREM Invariance == Spec => []IInv
<1>1. Spec => []TypeOK
  BY TypeCorrect
<1>2. QED
  BY <1>1, InvInit, InvStep, PTL DEF Spec

\* Only requests that overlap can exchange one token twice: one that arrives
\* when the token is gone gets no pair.
THEOREM LateRequestsRefused == Spec => []ReplayRefused
<1>1. IInv => ReplayRefused
  BY DEF IInv, PairInv, ReplayRefused
<1>2. QED
  BY <1>1, Invariance, PTL

\* No pair for an account that was inactive or deleted all the time.
THEOREM BlockedAccountsRefused == Spec => []BlockedAccountRefused
<1>1. IInv => BlockedAccountRefused
  BY DEF IInv, PairInv, BlockedAccountRefused
<1>2. QED
  BY <1>1, Invariance, PTL

\* Rotation and login never cross users.
THEOREM SessionsKeepUser == Spec => []SessionKeepsUser
<1>1. IInv => SessionKeepsUser
  BY DEF IInv, PairInv, SessionKeepsUser
<1>2. QED
  BY <1>1, Invariance, PTL

\* A session ends for one of the four reasons SessionKept lists.
THEOREM SessionsAreKept == Spec => []SessionKept
<1>1. TypeOK /\ IInv => SessionKept
  BY DEF TypeOK, IInv, PairInv, StepInv, TokenInv, SessionKept, Handed, Paired
<1>2. QED
  BY <1>1, TypeCorrect, Invariance, PTL

\* A token never comes back, and never names another user.
THEOREM TokensAreNotReborn == Spec => TokenNotReborn
<1> DEFINE Kept == \A t \in Token : owner[t] # NoUser => live'[t] \in {live[t], NoUser}
<1>1. TypeOK /\ [Next]_vars => [Kept]_vars
  <2> SUFFICES ASSUME TypeOK, [Next]_vars PROVE Kept
    OBVIOUS
  <2> USE DEF TypeOK, Delete
  <2>1. ASSUME NEW r \in Request, Receive(r) PROVE Kept
    BY <2>1 DEF Receive, ReceiveLogin, ReceiveRefresh, ReceiveLogout
  <2>2. ASSUME NEW r \in Request, Handle(r) PROVE Kept
    BY <2>2
       DEF Handle, LoginRefused, LoginAccepted, GetMiss, GetHit, LookupGone, LookupInactive, LookupActive, Purge, Consume, Store, Revoke, Fail, Fresh
  <2>3. ASSUME Environment PROVE Kept
    BY <2>3 DEF Environment, Expire, Timed, SetActive, DeleteUser
  <2>4. ASSUME UNCHANGED vars PROVE Kept
    BY <2>4 DEF vars
  <2>5. QED
    BY <2>1, <2>2, <2>3, <2>4 DEF Next, Quiescent
<1>2. QED
  BY <1>1, TypeCorrect, PTL DEF Spec, TokenNotReborn


-----------------------------------------------------------------------------
(* RefreshTokens implements TokenLedger. *)

\* A handler's step that stores no token and finds none changes no holder, can
\* only close the token it presents, and can only give its claim up.
LEMMA QuietStep ==
    ASSUME TypeOK, NEW r \in Request,
           owner' = owner,
           subject' = subject,
           \A q \in Request \ {r} : pc'[q] = pc[q],
           Claims'[r] \in {Claims[r], NoUser},
           live' = live \/ (Claims' = Claims /\ \E t \in Token : Delete(t))
    PROVE  [Ledger!LedgerNext]_(Ledger!ledgerVars)
<1>1. \A q \in Request \ {r} : Claims'[q] = Claims[q]
  BY DEF Claims
<1>2. CASE live' = live
  <2>1. OpenTokens' = OpenTokens
    BY <1>2 DEF OpenTokens, Live
  <2>2. CASE Claims'[r] = Claims[r]
    <3>1. Claims' = Claims
      BY <1>1, <2>2 DEF Claims
    <3>2. QED
      BY <2>1, <3>1 DEF Ledger!ledgerVars
  <2>3. CASE Claims'[r] = NoUser
    <3>1. Claims' = [Claims EXCEPT ![r] = NoUser]
      BY <1>1, <2>3 DEF Claims
    <3>2. Ledger!Withdraw(r)
      BY <2>1, <3>1 DEF Ledger!Withdraw
    <3>3. QED
      BY <3>2 DEF Ledger!LedgerNext
  <2>4. QED
    BY <2>2, <2>3
<1>3. CASE Claims' = Claims /\ \E t \in Token : Delete(t)
  <2>1. PICK t \in Token : Delete(t)
    BY <1>3
  <2>2. OpenTokens' = OpenTokens \ {t}
    BY <2>1 DEF TypeOK, Delete, OpenTokens, Live
  <2>3. Ledger!Close(t)
    BY <1>3, <2>2 DEF Ledger!Close
  <2>4. QED
    BY <2>3 DEF Ledger!LedgerNext
<1>4. QED
  BY <1>2, <1>3


LEMMA LedgerInitial == Init => Ledger!LedgerInit
<1> SUFFICES ASSUME Init PROVE Ledger!LedgerInit
  OBVIOUS
<1>1. OpenTokens = {}
  BY DEF Init, OpenTokens, Live
<1>2. Claims = [r \in Request |-> NoUser]
  BY DEF Init, Claims
<1>3. QED
  BY <1>1, <1>2 DEF Init, Ledger!LedgerInit

\* The step that stores a token opens a session or takes up a claim.
LEMMA StoreStep ==
    ASSUME TypeOK, IInv, NEW r \in Request, Store(r)
    PROVE  Ledger!LedgerNext
<1> USE NullAssumption DEF TypeOK
<1>1. PICK t \in Fresh :
        /\ live' = [live EXCEPT ![t] = subject[r]]
        /\ owner' = [owner EXCEPT ![t] = subject[r]]
  BY DEF Store
<1>2. pc[r] = "store" /\ pc' = [pc EXCEPT ![r] = "done"] /\ subject' = subject
  BY DEF Store, Respond, Goto
<1>3. t \in Token /\ owner[t] = NoUser
  BY DEF Fresh
<1>4. StepInv(r) /\ EndInv(r) /\ RefreshInv(r)
  BY DEF IInv
<1>5. subject[r] \in User
  BY <1>2, <1>4 DEF StepInv, EndInv, RefreshInv, Endpoint
<1>6. OpenTokens' = OpenTokens \cup {t}
  BY <1>1, <1>3, <1>5 DEF OpenTokens, Live
<1>7. Claims[r] = subject[r] /\ Claims' = [Claims EXCEPT ![r] = NoUser]
  BY <1>2 DEF Claims
<1>8. Ledger!Take(r)
  BY <1>1, <1>3, <1>5, <1>6, <1>7 DEF Ledger!Take
<1>9. QED
  BY <1>8 DEF Ledger!LedgerNext

\* A password that is found good earns a claim.
LEMMA LoginStep ==
    ASSUME TypeOK, IInv, NEW r \in Request, LoginAccepted(r)
    PROVE  Ledger!LedgerNext
<1> USE NullAssumption DEF TypeOK
<1>1. /\ pc[r] = "authenticate" /\ pc' = [pc EXCEPT ![r] = "store"]
      /\ UNCHANGED <<live, owner, subject>>
  BY DEF LoginAccepted, Goto
<1>2. subject[r] \in User
  BY <1>1 DEF IInv, StepInv, Endpoint
<1>3. Claims[r] = NoUser /\ Claims' = [Claims EXCEPT ![r] = subject[r]]
  BY <1>1 DEF Claims
<1>4. Ledger!Login(r)
  BY <1>1, <1>2, <1>3 DEF Ledger!Login, OpenTokens, Live
<1>5. QED
  BY <1>4 DEF Ledger!LedgerNext

\* A GET that finds its token stakes a claim on it.
LEMMA GetHitStep ==
    ASSUME TypeOK, IInv, NEW r \in Request, GetHit(r)
    PROVE  Ledger!LedgerNext
<1> USE NullAssumption DEF TypeOK
<1>1. /\ pc[r] = "get" /\ pc' = [pc EXCEPT ![r] = "lookup"] /\ Live(presented[r])
      /\ subject' = [subject EXCEPT ![r] = live[presented[r]]]
      /\ UNCHANGED <<live, owner>>
  BY DEF GetHit, Goto
<1>2. presented[r] \in Token /\ live[presented[r]] = owner[presented[r]]
  BY <1>1 DEF IInv, StepInv, TokenInv, Endpoint, Live
<1>3. presented[r] \in OpenTokens /\ OpenTokens' = OpenTokens
  BY <1>1, <1>2 DEF OpenTokens, Live
<1>4. Claims[r] = NoUser /\ Claims' = [Claims EXCEPT ![r] = owner[presented[r]]]
  BY <1>1, <1>2 DEF Claims
<1>5. Ledger!Show(r)
  BY <1>1, <1>3, <1>4 DEF Ledger!Show
<1>6. QED
  BY <1>5 DEF Ledger!LedgerNext

\* Every other step of a handler is quiet.
LEMMA OtherStep ==
    ASSUME TypeOK, IInv, NEW r \in Request, Handle(r),
           ~Store(r), ~GetHit(r), ~LoginAccepted(r)
    PROVE  [Ledger!LedgerNext]_(Ledger!ledgerVars)
<1> USE DEF TypeOK, Goto, Respond
<1> DEFINE Quiet ==
        /\ owner' = owner
        /\ subject' = subject
        /\ \A q \in Request \ {r} : pc'[q] = pc[q]
        /\ Claims'[r] \in {Claims[r], NoUser}
        /\ live' = live \/ (Claims' = Claims /\ \E t \in Token : Delete(t))
<1>1. ASSUME LoginRefused(r) \/ GetMiss(r) \/ LookupGone(r) \/ LookupInactive(r)
             \/ LookupActive(r) \/ Fail(r)
      PROVE  Quiet
  <2>1. /\ owner' = owner /\ live' = live /\ subject' = subject
        /\ \A q \in Request \ {r} : pc'[q] = pc[q]
    BY <1>1 DEF LoginRefused, GetMiss, LookupGone, LookupInactive,
                LookupActive, Fail
  <2>2. \/ pc[r] = "lookup" /\ pc'[r] = "consume"
        \/ pc'[r] \in {"purge", "done"}
    BY <1>1 DEF LoginRefused, GetMiss, LookupGone, LookupInactive,
                LookupActive, Fail, IInv, StepInv, Endpoint
  <2>3. Claims'[r] \in {Claims[r], NoUser}
    BY <2>1, <2>2 DEF Claims
  <2>4. QED
    BY <2>1, <2>3
<1>2. ASSUME Purge(r) \/ Consume(r) \/ Revoke(r) PROVE Quiet
  <2>1. presented[r] \in Token /\ Delete(presented[r])
    BY <1>2 DEF Purge, Consume, Revoke, IInv, StepInv, Endpoint
  <2>2. /\ owner' = owner /\ subject' = subject
        /\ \A q \in Request \ {r} : pc'[q] = pc[q]
    BY <1>2 DEF Purge, Consume, Revoke
  <2>3. \/ pc[r] = "consume" /\ pc'[r] = "store"
        \/ pc[r] \in {"purge", "revoke"} /\ pc'[r] = "done"
    BY <1>2 DEF Purge, Consume, Revoke
  <2>4. Claims' = Claims
    BY <2>2, <2>3 DEF Claims
  <2>5. QED
    BY <2>1, <2>2, <2>4
<1>3. Quiet
  BY <1>1, <1>2 DEF Handle
<1>4. QED
  BY <1>3, QuietStep

\* The handlers implement the ledger, for any number of overlapping requests,
\* with any of their commands failing.
THEOREM LedgerRefined == Spec => ImplementsLedger
<1>1. TypeOK /\ IInv /\ [Next]_vars => [Ledger!LedgerNext]_(Ledger!ledgerVars)
  <2> SUFFICES ASSUME TypeOK, IInv, [Next]_vars
               PROVE  [Ledger!LedgerNext]_(Ledger!ledgerVars)
    OBVIOUS
  <2>1. ASSUME NEW r \in Request, Receive(r)
        PROVE  UNCHANGED <<owner, OpenTokens, Claims>>
    <3>1. live' = live /\ owner' = owner
      BY <2>1 DEF Receive, ReceiveLogin, ReceiveRefresh, ReceiveLogout
    <3>2. \A q \in Request : Claims'[q] = Claims[q]
      BY <2>1
         DEF TypeOK, Goto, Receive, ReceiveLogin, ReceiveRefresh, ReceiveLogout,
                  Claims
    <3>3. Claims' = Claims
      BY <3>2 DEF Claims
    <3>4. QED
      BY <3>1, <3>3 DEF OpenTokens, Live
  <2>2. ASSUME NEW r \in Request, Handle(r)
        PROVE  [Ledger!LedgerNext]_(Ledger!ledgerVars)
    BY <2>2, LoginStep, GetHitStep, StoreStep, OtherStep
  <2>3. ASSUME NEW t \in Token, Expire(t) PROVE Ledger!LedgerNext
    <3>1. OpenTokens' = OpenTokens \ {t} /\ UNCHANGED <<owner, Claims>>
      BY <2>3 DEF TypeOK, Expire, Timed, Delete, requestVars, OpenTokens, Live, Claims
    <3>2. Ledger!Close(t)
      BY <3>1 DEF Ledger!Close
    <3>3. QED
      BY <3>2 DEF Ledger!LedgerNext
  <2>4. ASSUME \E u \in User : DeleteUser(u) \/ \E s \in {"active", "inactive"} : SetActive(u, s)
        PROVE  UNCHANGED <<owner, OpenTokens, Claims>>
    BY <2>4 DEF DeleteUser, SetActive, requestVars, OpenTokens, Live, Claims
  <2>5. ASSUME UNCHANGED vars PROVE UNCHANGED <<owner, OpenTokens, Claims>>
    BY <2>5 DEF vars, requestVars, OpenTokens, Live, Claims
  <2>6. QED
    BY <2>1, <2>2, <2>3, <2>4, <2>5
       DEF Next, Environment, Quiescent, Ledger!ledgerVars
<1>2. QED
  BY <1>1, LedgerInitial, TypeCorrect, Invariance, PTL
     DEF Spec, ImplementsLedger, Ledger!LedgerSpec

=============================================================================
