-------------------------- MODULE RateLimiterProofs --------------------------
(***************************************************************************)
(* Proofs about RateLimiter and about Gateway around it, for any number of *)
(* requests, any limit, any window and any number of failures.             *)
(***************************************************************************)
EXTENDS Gateway, TLAPS

\* The number let through in this life of the key never passes the counter, so
\* it stops growing where the counter passes the limit.
\* Whatever stretch up to the window's length one looks back over, at most one
\* earlier life is in it; and of the ticks that this life has certainly lasted,
\* none is.
WindowInv ==
    /\ ~Exists => remaining = NoTTL
    /\ \A a \in Age : recent[a] <= granted + max_requests
    /\ remaining # NoTTL =>
        \A a \in Age : a < window_seconds - remaining => recent[a] <= granted

IInv ==
    /\ TypeOK
    /\ granted <= counter
    /\ GrantedPerLife
    /\ WindowInv

USE MaxAssumption, WindowAssumption, FailuresAssumption

(* Every Register that the counter lets through counts once in both.       *)
LEMMA IncrementKeeps ==
    ASSUME IInv, Increment
    PROVE  /\ counter' \in 0 .. Cap
           /\ granted' \in Nat
           /\ granted' <= counter'
           /\ granted' <= max_requests
           /\ recent' \in [Age -> Nat]
           /\ remaining' = remaining
           /\ WindowInv'
<1>1. /\ counter \in 0 .. Cap /\ granted \in Nat
      /\ granted <= counter /\ granted <= max_requests
      /\ recent \in [Age -> Nat]
      /\ Cap = max_requests + 1
  BY DEF IInv, TypeOK, GrantedPerLife, Cap
<1>2. UNCHANGED remaining
  BY DEF Increment
<1>3. CASE counter = Cap
  <2>1. counter' = Cap /\ ~(counter' <= max_requests)
    BY <1>1, <1>3 DEF Increment
  <2>2. UNCHANGED <<granted, recent>>
    BY <2>1, <1>3 DEF Increment, Allowed
  <2>3. WindowInv'
    BY <1>1, <1>2, <1>3, <2>1, <2>2 DEF IInv, WindowInv, Exists
  <2> QED
    BY <1>1, <1>2, <2>1, <2>2, <2>3
<1>4. CASE counter # Cap
  <2>1. counter' = counter + 1 /\ counter' \in 0 .. Cap /\ counter' # 0
    BY <1>1, <1>4 DEF Increment
  <2>2. CASE counter' <= max_requests
    <3>1. granted' = granted + 1 /\ recent' = [a \in Age |-> recent[a] + 1]
      BY <2>1, <2>2, <1>4 DEF Increment, Allowed
    <3>2. recent' \in [Age -> Nat]
      BY <1>1, <3>1
    <3>3. \A a \in Age : recent[a] \in Nat /\ recent'[a] = recent[a] + 1
      BY <1>1, <3>1
    <3>4. WindowInv'
      BY <1>1, <1>2, <2>1, <3>1, <3>3 DEF IInv, WindowInv, Exists
    <3> QED
      BY <1>1, <1>2, <2>1, <2>2, <3>1, <3>2, <3>4
  <2>3. CASE ~(counter' <= max_requests)
    <3>1. UNCHANGED <<granted, recent>>
      BY <2>1, <2>3, <1>4 DEF Increment, Allowed
    <3>2. WindowInv'
      BY <1>2, <2>1, <3>1 DEF IInv, WindowInv, Exists
    <3> QED
      BY <1>1, <1>2, <2>1, <3>1, <3>2
  <2> QED
    BY <2>2, <2>3
<1> QED
  BY <1>3, <1>4

(* Tick shifts the history, and at the end of a life clears both counts:   *)
(* the life has lasted a whole window, so that all that is left in the     *)
(* history is its own.                                                     *)
LEMMA TickKeeps ==
    ASSUME IInv, Tick
    PROVE  IInv'
<1> USE DEF IInv, TypeOK, GrantedPerLife, NoTTL
<1>1. ASSUME NEW a \in Age
      PROVE  /\ a \in Nat /\ a <= window_seconds - 1
             /\ a # 0 => a - 1 \in Age
             /\ recent'[a] = IF a = 0 THEN 0 ELSE recent[a - 1]
  BY DEF Age, Tick
<1>2. recent' \in [Age -> Nat]
  <2>1. \A a \in Age : (IF a = 0 THEN 0 ELSE recent[a - 1]) \in Nat
    BY <1>1
  <2> QED
    BY <2>1 DEF Tick
<1>3. CASE remaining = 1
  <2>1. /\ counter' = 0 /\ remaining' = -1 /\ granted' = 0
        /\ UNCHANGED <<pc, failures>>
    BY <1>3 DEF Tick
  <2>2. ASSUME NEW a \in Age
        PROVE  recent'[a] <= max_requests
    <3>1. CASE a = 0
      BY <1>1, <3>1
    <3>2. CASE a # 0
      <4>1. a - 1 \in Age /\ a - 1 < window_seconds - remaining
        BY <1>1, <1>3, <3>2
      <4>2. recent[a - 1] <= granted
        BY <1>3, <4>1 DEF WindowInv
      <4> QED
        BY <1>1, <3>2, <4>1, <4>2
    <3> QED
      BY <3>1, <3>2
  <2>3. WindowInv'
    BY <2>1, <2>2 DEF WindowInv, Exists
  <2> QED
    BY <1>2, <2>1, <2>3 DEF Cap
<1>4. CASE remaining # 1
  <2>1. /\ remaining' = IF remaining = -1 THEN -1 ELSE remaining - 1
        /\ UNCHANGED <<counter, granted, pc, failures>>
    BY <1>4 DEF Tick
  <2>2. remaining' \in {-1} \cup 1 .. window_seconds
    BY <1>4, <2>1
  <2>3. ASSUME NEW a \in Age
        PROVE  recent'[a] <= granted' + max_requests
    <3>1. CASE a = 0
      BY <1>1, <2>1, <3>1
    <3>2. CASE a # 0
      BY <1>1, <2>1, <3>2 DEF WindowInv
    <3> QED
      BY <3>1, <3>2
  <2>4. ASSUME NEW a \in Age, remaining' # -1, a < window_seconds - remaining'
        PROVE  recent'[a] <= granted'
    <3>1. CASE a = 0
      BY <1>1, <2>1, <3>1
    <3>2. CASE a # 0
      <4>1. remaining # -1 /\ a - 1 \in Age /\ a - 1 < window_seconds - remaining
        BY <1>1, <1>4, <2>1, <2>4, <3>2
      <4> QED
        BY <1>1, <2>1, <3>2, <4>1 DEF WindowInv
    <3> QED
      BY <3>1, <3>2
  <2>5. WindowInv'
    <3>1. ~Exists' => remaining' = -1
      BY <2>1 DEF WindowInv, Exists
    <3> QED
      BY <2>3, <2>4, <3>1 DEF WindowInv
  <2> QED
    BY <1>2, <2>1, <2>2, <2>5
<1> QED
  BY <1>3, <1>4

LEMMA StepKeeps == IInv /\ [Next]_vars => IInv'
<1> SUFFICES ASSUME IInv, [Next]_vars
             PROVE  IInv'
  OBVIOUS
<1>1. ASSUME NEW r \in Request, Register(r)
      PROVE  IInv'
  <2>1. Increment /\ UNCHANGED <<pc, failures>>
    BY <1>1 DEF Register
  <2> QED
    BY <2>1, IncrementKeeps DEF IInv, TypeOK, GrantedPerLife, Cap
<1>2. ASSUME NEW r \in Request, RegisterAndExpire(r)
      PROVE  IInv'
  <2>1. Increment /\ UNCHANGED failures /\ pc' = [pc EXCEPT ![r] = "expire"]
    BY <1>2 DEF RegisterAndExpire
  <2>2. pc' \in [Request -> {"idle", "expire"}]
    BY <2>1 DEF IInv, TypeOK
  <2> QED
    BY <2>1, <2>2, IncrementKeeps DEF IInv, TypeOK, GrantedPerLife, Cap
<1>3. ASSUME NEW r \in Request, ExpireKey(r)
      PROVE  IInv'
  <2>1. remaining' \in {NoTTL} \cup 1 .. window_seconds
    BY <1>3 DEF ExpireKey, IInv, TypeOK
  <2>2. pc' \in [Request -> {"idle", "expire"}]
    BY <1>3 DEF ExpireKey, IInv, TypeOK
  <2>3. WindowInv'
    <3>1. UNCHANGED <<counter, granted, recent>>
      BY <1>3 DEF ExpireKey
    <3>2. CASE Exists
      <4>1. remaining' = window_seconds
        BY <1>3, <3>2 DEF ExpireKey
      <4>2. \A a \in Age : ~(a < window_seconds - remaining')
        BY <4>1 DEF Age
      <4> QED
        BY <3>1, <3>2, <4>2 DEF IInv, WindowInv, Exists
    <3>3. CASE ~Exists
      <4>1. UNCHANGED remaining
        BY <1>3, <3>3 DEF ExpireKey
      <4> QED
        BY <3>1, <4>1 DEF IInv, WindowInv, Exists
    <3> QED
      BY <3>2, <3>3
  <2> QED
    BY <1>3, <2>1, <2>2, <2>3 DEF ExpireKey, IInv, TypeOK, GrantedPerLife, Cap
<1>4. ASSUME NEW r \in Request, RegisterFails(r)
      PROVE  IInv'
  <2>1. Increment /\ UNCHANGED pc /\ failures' = failures + 1 /\ failures < MaxFailures
    BY <1>4 DEF RegisterFails
  <2>2. failures' \in 0 .. MaxFailures
    BY <2>1 DEF IInv, TypeOK
  <2> QED
    BY <2>1, <2>2, IncrementKeeps DEF IInv, TypeOK, GrantedPerLife, Cap
<1>5. ASSUME NEW r \in Request, ExpireFails(r)
      PROVE  IInv'
  <2>1. failures' \in 0 .. MaxFailures /\ pc' \in [Request -> {"idle", "expire"}]
    BY <1>5 DEF ExpireFails, IInv, TypeOK
  <2>2. remaining' \in {NoTTL} \cup 1 .. window_seconds
    BY <1>5 DEF ExpireFails, IInv, TypeOK
  <2>3. WindowInv'
    <3>1. UNCHANGED <<counter, granted, recent>>
      BY <1>5 DEF ExpireFails
    <3>2. CASE UNCHANGED remaining
      BY <3>1, <3>2 DEF IInv, WindowInv, Exists
    <3>3. CASE Exists /\ remaining' = window_seconds
      <4>1. \A a \in Age : ~(a < window_seconds - remaining')
        BY <3>3 DEF Age
      <4> QED
        BY <3>1, <3>3, <4>1 DEF IInv, WindowInv, Exists
    <3> QED
      BY <1>5, <3>2, <3>3 DEF ExpireFails
  <2> QED
    BY <1>5, <2>1, <2>2, <2>3 DEF ExpireFails, IInv, TypeOK, GrantedPerLife, Cap
<1>6. ASSUME NEW r \in Request, RegisterUnsent(r)
      PROVE  IInv'
  BY <1>6 DEF RegisterUnsent, IInv, TypeOK, GrantedPerLife, WindowInv, Exists, Cap
<1>7. CASE UNCHANGED vars
  BY <1>7 DEF IInv, TypeOK, GrantedPerLife, WindowInv, Exists, vars, Cap
<1> QED
  BY <1>1, <1>2, <1>3, <1>4, <1>5, <1>6, <1>7, TickKeeps DEF Next, Arrive

LEMMA Start == Init => IInv
BY DEF Init, IInv, TypeOK, GrantedPerLife, WindowInv, Exists, Cap, Age, NoTTL

THEOREM Invariance == Spec => []IInv
<1> QED
  BY Start, StepKeeps, PTL DEF Spec

\* The variables of the limiter keep their types, whatever fails.
THEOREM TypeCorrect == Spec => []TypeOK
<1>1. IInv => TypeOK
  BY DEF IInv
<1> QED
  BY <1>1, Invariance, PTL

\* No more than max_requests requests are let through in one life of the key,
\* however check_and_register and its EXPIRE interleave over the workers.
THEOREM LimitKept == Spec => []GrantedPerLife
<1>1. IInv => GrantedPerLife
  BY DEF IInv
<1> QED
  BY <1>1, Invariance, PTL

\* In no stretch of time as long as the window are more than twice max_requests
\* let through: two lives of the key are all that fit.
THEOREM WindowKept == Spec => []GrantedPerWindow
<1>1. IInv => GrantedPerWindow
  <2> SUFFICES ASSUME IInv PROVE GrantedPerWindow
    OBVIOUS
  <2>1. window_seconds - 1 \in Age
    BY DEF Age
  <2>2. recent[window_seconds - 1] \in Nat /\ granted \in Nat /\ granted <= max_requests
    BY <2>1 DEF IInv, TypeOK, GrantedPerLife
  <2>3. recent[window_seconds - 1] <= granted + max_requests
    BY <2>1 DEF IInv, WindowInv
  <2> QED
    BY <2>2, <2>3 DEF GrantedPerWindow
<1> QED
  BY <1>1, Invariance, PTL

-----------------------------------------------------------------------------
(* The gateway around it. *)

\* Within the middleware stack the limiter does nothing that it does not do alone.
LEMMA LimiterStep == [GatewayNext]_allVars => [Next]_vars
<1>1. ASSUME NEW r \in Request,
             Count(r) \/ CountFirst(r) \/ SetExpiry(r)
               \/ CountFails(r) \/ CountUnsent(r) \/ ExpiryFails(r)
      PROVE  Next
  BY <1>1 DEF Count, CountFirst, SetExpiry, CountFails, CountUnsent, ExpiryFails, Next, Arrive
<1>2. ASSUME NEW r \in Request,
             Preflight(r) \/ Receive(r) \/ ReceiveLimited(r)
               \/ RouterAnswers(r) \/ RouterRaises(r) \/ RouterLogs(r)
      PROVE  UNCHANGED vars
  BY <1>2 DEF Preflight, Receive, ReceiveLimited, RouterAnswers, RouterRaises, RouterLogs
<1>3. Tick => Next
  BY DEF Next
<1>4. UNCHANGED allVars => UNCHANGED vars
  BY DEF allVars
<1> QED
  BY <1>1, <1>2, <1>3, <1>4 DEF GatewayNext, Answers

\* What is proved of the limiter holds where requests reach it through the stack.
THEOREM LimiterImplemented == GatewaySpec => Spec
<1>1. GatewayInit => Init
  BY DEF GatewayInit
<1> QED
  BY <1>1, LimiterStep, PTL DEF GatewaySpec, Spec

\* The task of a request that is under way holds the request's id.
ContextInv ==
    /\ stage \in [Request -> {"idle", "counting", "granted", "refused", "routed"}]
    /\ context \in [Request -> Request \cup {Nobody}]
    /\ \A r \in Request : stage[r] # "idle" => context[r] = r

GInv == ContextInv /\ Attributed

\* The limiter and the router answer inside of both layers.
LEMMA Layers ==
    /\ {"context", "security"} \subseteq Outside("limiter")
    /\ {"context", "security"} \subseteq Range(Stack)
<1>1. Stack = <<"cors", "context", "security", "limiter">>
  <2>1. Len(Added) = 4 /\ Stack = [i \in 1 .. 4 |-> Added[(4 - i) + 1]]
    BY DEF Stack, Added, Reverse
  <2> QED
    BY <2>1 DEF Added
<1>2. DOMAIN Stack = 1 .. 4 /\ Stack[2] = "context" /\ Stack[3] = "security" /\ Stack[4] = "limiter"
  BY <1>1
<1> HIDE DEF Stack
<1>3. {"context", "security"} \subseteq Range(Stack)
  BY <1>2 DEF Range
<1>4. 2 \in {j \in DOMAIN Stack : \E k \in DOMAIN Stack : j < k /\ Stack[k] = "limiter"}
  BY <1>2
<1>5. 3 \in {j \in DOMAIN Stack : \E k \in DOMAIN Stack : j < k /\ Stack[k] = "limiter"}
  BY <1>2
<1> QED
  BY <1>2, <1>3, <1>4, <1>5 DEF Outside

LEMMA AnswerKeeps ==
    ASSUME ContextInv, NEW r \in Request, NEW status, NEW passed, Answer(r, status, passed)
    PROVE  ContextInv'
BY DEF ContextInv, Answer, Goto

LEMMA ReceiveKeeps ==
    ASSUME ContextInv, NEW r \in Request, NEW place \in {"counting", "routed"},
           SetRequestId(r), Goto(r, place)
    PROVE  ContextInv'
BY DEF ContextInv, SetRequestId, Goto

LEMMA GoKeeps ==
    ASSUME ContextInv, NEW r \in Request, stage[r] # "idle",
           NEW place \in {"granted", "refused", "routed"},
           Goto(r, place), UNCHANGED context
    PROVE  ContextInv'
BY DEF ContextInv, Goto

LEMMA DecideKeeps ==
    ASSUME GInv, NEW r \in Request, stage[r] # "idle", NEW allowed, Decide(r, allowed)
    PROVE  GInv'
<1>1. CASE allowed
  <2>1. ContextInv'
    BY <1>1, GoKeeps DEF Decide, GInv
  <2> QED
    BY <1>1, <2>1 DEF Decide, GInv, Attributed
<1>2. CASE ~allowed
  <2>1. Answer(r, "429", Outside("limiter")) /\ UNCHANGED record
    BY <1>2 DEF Decide
  <2>2. ContextInv'
    BY <2>1, AnswerKeeps DEF GInv
  <2> QED
    BY <2>1, <2>2, Layers DEF GInv, Attributed, Answer
<1> QED
  BY <1>1, <1>2

LEMMA RaiseKeeps ==
    ASSUME GInv, NEW r \in Request, stage[r] # "idle", Raise(r)
    PROVE  GInv'
<1>1. ContextInv'
  BY AnswerKeeps DEF Raise, GInv
<1>2. record'.id = record'.of /\ sent'.status = "500"
  BY DEF Raise, Log, Answer, GInv, ContextInv
<1> QED
  BY <1>1, <1>2 DEF GInv, Attributed

LEMMA GatewayKeeps == GInv /\ [GatewayNext]_allVars => GInv'
<1> SUFFICES ASSUME GInv, [GatewayNext]_allVars
             PROVE  GInv'
  OBVIOUS
<1>1. ASSUME NEW r \in Request, Preflight(r)
      PROVE  GInv'
  BY <1>1 DEF Preflight, GInv, ContextInv, Attributed
<1>2. ASSUME NEW r \in Request, Receive(r) \/ ReceiveLimited(r)
      PROVE  GInv'
  <2>1. ContextInv'
    BY <1>2, ReceiveKeeps DEF Receive, ReceiveLimited, GInv
  <2> QED
    BY <1>2, <2>1 DEF Receive, ReceiveLimited, GInv, Attributed
<1>3. ASSUME NEW r \in Request, Count(r) \/ SetExpiry(r)
      PROVE  GInv'
  BY <1>3, DecideKeeps DEF Count, SetExpiry
<1>4. ASSUME NEW r \in Request, CountFirst(r)
      PROVE  GInv'
  <2>1. ContextInv'
    BY <1>4, GoKeeps DEF CountFirst, GInv
  <2> QED
    BY <1>4, <2>1 DEF CountFirst, GInv, Attributed
<1>5. ASSUME NEW r \in Request,
             CountFails(r) \/ CountUnsent(r) \/ ExpiryFails(r) \/ RouterRaises(r)
      PROVE  GInv'
  BY <1>5, RaiseKeeps DEF CountFails, CountUnsent, ExpiryFails, RouterRaises
<1>6. ASSUME NEW r \in Request, RouterAnswers(r)
      PROVE  GInv'
  <2>1. ContextInv'
    BY <1>6, AnswerKeeps DEF RouterAnswers, GInv
  <2> QED
    BY <1>6, <2>1, Layers DEF RouterAnswers, Answer, GInv, Attributed
<1>7. ASSUME NEW r \in Request, RouterLogs(r)
      PROVE  GInv'
  BY <1>7 DEF RouterLogs, Log, GInv, ContextInv, Attributed
<1>8. CASE UNCHANGED gateway
  BY <1>8 DEF gateway, GInv, ContextInv, Attributed
<1> QED
  BY <1>1, <1>2, <1>3, <1>4, <1>5, <1>6, <1>7, <1>8 DEF GatewayNext, Answers, allVars

\* Every log record carries the id of the request it was written for, and every
\* answer passes the layers it must, however many requests overlap.
THEOREM AnswersAttributed == GatewaySpec => []Attributed
<1>1. GatewayInit => GInv
  BY DEF GatewayInit, GInv, ContextInv, Attributed
<1>2. GInv => Attributed
  BY DEF GInv
<1> QED
  BY <1>1, <1>2, GatewayKeeps, PTL DEF GatewaySpec
=============================================================================
