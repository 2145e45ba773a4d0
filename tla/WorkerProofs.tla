----------------------------- MODULE WorkerProofs -----------------------------
(* Proofs about Worker, for any requests, routes and capacities: nothing      *)
(* leaks, requests stand still only for the database, and every step brings   *)
(* one of them nearer to its end.                                             *)
EXTENDS Worker, FiniteSetTheorems, TLAPS

Place == {"new", "ready", "queued", "running", "redis", "closing", "done"}
DbOp == {"query", "commit", "send"}

\* The stages and their work have the types that TypeOK wants.
LEMMA WorkType ==
    /\ DOMAIN Work = {"plain", "read", "write", "notify", "remove", "mail", "probe",
                      "upgrade", "block"}
    /\ \A s \in DOMAIN Work : Work[s] \in Seq(DbOp)
    /\ OnThread \subseteq DOMAIN Work
    /\ OnLoop \subseteq DOMAIN Work
  <1>1. DOMAIN Work = {"plain", "read", "write", "notify", "remove", "mail", "probe",
                       "upgrade", "block"}
    BY DEF Work
  <1>2. /\ <<>> \in Seq(DbOp)
        /\ <<"query">> \in Seq(DbOp)
        /\ <<"query", "commit">> \in Seq(DbOp)
        /\ <<"query", "commit", "query">> \in Seq(DbOp)
        /\ <<"query", "commit", "query", "send">> \in Seq(DbOp)
        /\ <<"query", "send">> \in Seq(DbOp)
    BY DEF DbOp
  <1>3. \A s \in DOMAIN Work : Work[s] \in Seq(DbOp)
    <2>1. /\ Work["plain"] = <<>>
          /\ Work["read"] = <<"query">>
          /\ Work["write"] = <<"query", "commit", "query">>
          /\ Work["notify"] = <<"query", "commit", "query", "send">>
          /\ Work["remove"] = <<"query", "commit">>
          /\ Work["mail"] = <<"query", "send">>
          /\ Work["probe"] = <<"query", "commit">>
          /\ Work["upgrade"] = <<"query", "commit", "query">>
          /\ Work["block"] = <<"query">>
      BY DEF Work
    <2> QED
      BY <1>1, <1>2, <2>1
  <1> QED
    BY <1>1, <1>3 DEF OnThread, OnLoop

\* Every route is a sequence of stages.
LEMMA ProgramType == \A name \in Route : Program[name] \in Seq(Stage)
  <1>1. {"plain", "read", "write", "notify", "remove", "mail", "probe", "upgrade",
         "block", "redis"} = Stage
    BY WorkType DEF Stage
  <1>2. /\ <<"plain">> \in Seq(Stage)
        /\ <<"read">> \in Seq(Stage)
        /\ <<"write">> \in Seq(Stage)
        /\ <<"notify">> \in Seq(Stage)
        /\ <<"remove">> \in Seq(Stage)
        /\ <<"mail">> \in Seq(Stage)
        /\ <<"probe">> \in Seq(Stage)
        /\ <<"redis">> \in Seq(Stage)
        /\ <<"plain", "read">> \in Seq(Stage)
        /\ <<"upgrade", "redis">> \in Seq(Stage)
        /\ <<"redis", "block", "redis", "redis">> \in Seq(Stage)
    BY <1>1
  <1>3. \A s, t \in Seq(Stage) : s \o t \in Seq(Stage)
    OBVIOUS
  <1>4. \A name \in DOMAIN Program : Program[name] \in Seq(Stage)
    <2>1. /\ Livez \in Seq(Stage)
          /\ Readyz \in Seq(Stage)
          /\ ReadUsers \in Seq(Stage)
          /\ CreateUser \in Seq(Stage)
          /\ DeleteUser \in Seq(Stage)
          /\ Signup \in Seq(Stage)
          /\ ReadItems \in Seq(Stage)
          /\ WriteItem \in Seq(Stage)
          /\ Login \in Seq(Stage)
          /\ RefreshToken \in Seq(Stage)
          /\ Logout \in Seq(Stage)
          /\ RecoverPassword \in Seq(Stage)
          /\ ResetPassword \in Seq(Stage)
      BY <1>2, <1>3 DEF Livez, Readyz, ReadUsers, CreateUser, DeleteUser, Signup, ReadItems,
         WriteItem, Login, RefreshToken, Logout, RecoverPassword, ResetPassword, Accessors,
         CurrentUser, Services, Limited
    <2> QED
      BY <2>1 DEF Program
  <1> QED
    BY <1>4, RouteAssumption

\* A queue and its tail hold the same requests but the first.
LEMMA QueueTail ==
    ASSUME NEW s \in Seq(Request), s # <<>>
    PROVE  /\ Head(s) \in Request
           /\ Tail(s) \in Seq(Request)
           /\ 1 \in DOMAIN s /\ s[1] = Head(s)
           /\ Len(Tail(s)) = Len(s) - 1
           /\ \A i \in DOMAIN Tail(s) : i + 1 \in DOMAIN s /\ Tail(s)[i] = s[i + 1]
           /\ \A i \in DOMAIN s :
                i = 1 \/ (i - 1 \in DOMAIN Tail(s) /\ Tail(s)[i - 1] = s[i])
  <1>1. /\ DOMAIN s = 1 .. Len(s) /\ Len(s) \in Nat \ {0}
        /\ Head(s) = s[1] /\ s[1] \in Request
    OBVIOUS
  <1>2. /\ Tail(s) \in Seq(Request)
        /\ Len(Tail(s)) = Len(s) - 1
        /\ DOMAIN Tail(s) = 1 .. Len(s) - 1
        /\ \A i \in 1 .. Len(s) - 1 : Tail(s)[i] = s[i + 1]
    OBVIOUS
  <1>3. \A i \in 1 .. Len(s) : i = 1 \/ (i - 1 \in 1 .. Len(s) - 1 /\ (i - 1) + 1 = i)
    BY <1>1
  <1> QED
    BY <1>1, <1>2, <1>3

\* Entering a stage keeps the types of what is left.
LEMMA EnterType ==
    ASSUME NEW l \in Seq(Stage), l # <<>>
    PROVE  /\ Head(l) \in Stage
           /\ Tail(l) \in Seq(Stage)
           /\ Head(l) \in OnThread \cup OnLoop => Work[Head(l)] \in Seq(DbOp)
  BY WorkType

-----------------------------------------------------------------------------
(* Counting. *)

\* Sets of requests are finite, and adding or removing one changes their
\* cardinality by at most one.
LEMMA Count ==
    ASSUME NEW S \in SUBSET Request, NEW r \in Request
    PROVE  /\ IsFiniteSet(S)
           /\ Cardinality(S) \in Nat
           /\ Cardinality(S \cup {r}) <= Cardinality(S) + 1
           /\ Cardinality(S \ {r}) <= Cardinality(S)
           /\ r \in S => Cardinality(S \ {r}) = Cardinality(S) - 1
           /\ r \notin S => Cardinality(S \cup {r}) = Cardinality(S) + 1
  <1>1. IsFiniteSet(S)
    BY RequestAssumption, FS_Subset
  <1>2. Cardinality(S) \in Nat
    BY <1>1, FS_CardinalityType
  <1>3. /\ r \in S => S \cup {r} = S
        /\ r \notin S => S \ {r} = S
    OBVIOUS
  <1>4. Cardinality(S \cup {r}) = IF r \in S THEN Cardinality(S) ELSE Cardinality(S) + 1
    BY <1>1, FS_AddElement
  <1>5. Cardinality(S \ {r}) = IF r \in S THEN Cardinality(S) - 1 ELSE Cardinality(S)
    BY <1>1, FS_RemoveElement
  <1> QED
    BY <1>1, <1>2, <1>4, <1>5

-----------------------------------------------------------------------------
(* The invariant: the types, what NothingLeaks says, and that who queues for a *)
(* thread has a stage to run on it.                                            *)

QueuedForThread ==
    \A r \in Request : at[r] = "queued" => rest[r] # <<>> /\ Head(rest[r]) \in OnThread

IInv == TypeOK /\ NothingLeaks /\ QueuedForThread

\* Nothing is held when the worker starts.
LEMMA InitIInv == Init => IInv
  <1> SUFFICES ASSUME Init PROVE IInv
    OBVIOUS
  <1>1. Cardinality({}) = 0
    BY FS_EmptySet
  <1>2. 0 <= Threads /\ 0 <= PoolSize /\ 0 <= MaxRedis
    BY CapacityAssumption
  <1>3. TypeOK
    BY <1>1, <1>2 DEF Init, TypeOK
  <1>4. NothingLeaks
    BY RequestAssumption DEF Init, NothingLeaks, Busy
  <1>5. QueuedForThread
    BY DEF Init, QueuedForThread
  <1> QED
    BY <1>3, <1>4, <1>5 DEF IInv

\* A request arrives and holds nothing yet.
LEMMA ArriveKeeps ==
    ASSUME IInv, NEW r \in Request, Arrive(r)
    PROVE  IInv'
  <1> USE DEF IInv
  <1>1. TypeOK'
    BY ProgramType DEF Arrive, TypeOK, Goto, Reaches, LoopFree, Enter, Abandon, At, Did,
       Full, Waits
  <1>2. NothingLeaks'
    BY RequestAssumption DEF Arrive, TypeOK, NothingLeaks, Busy, Goto, Reaches,
       LoopFree, Enter, Abandon, At, Did, Full, Waits
  <1>3. QueuedForThread'
    BY DEF Arrive, TypeOK, QueuedForThread, Goto, Reaches, Enter, Abandon, At, Did, Waits
  <1> QED
    BY <1>1, <1>2, <1>3

\* A thread is taken while there is a free one.
LEMMA StartThreadKeeps ==
    ASSUME IInv, NEW r \in Request, StartThread(r)
    PROVE  IInv'
  <1> USE DEF IInv
  <1>1. TypeOK'
    <2>1. rest[r] \in Seq(Stage) /\ rest[r] # <<>> /\ Head(rest[r]) \in OnThread
      BY DEF StartThread, Reaches, TypeOK
    <2>2. /\ rest' \in [Request -> Seq(Stage)]
          /\ todo' \in [Request -> Seq({"query", "commit", "send"})]
      BY <2>1, EnterType DEF StartThread, Enter, TypeOK, DbOp
    <2>3. /\ Cardinality(thread \cup {r}) <= Cardinality(thread) + 1
          /\ Cardinality(thread) \in Nat
          /\ Cardinality(thread \cup {r}) \in Nat
      BY Count DEF TypeOK
    <2>4. thread' \subseteq Request /\ Cardinality(thread') <= Threads
      BY <2>3, CapacityAssumption DEF StartThread, ThreadIsFree, TypeOK
    <2> QED
      BY <2>2, <2>4 DEF StartThread, Goto, TypeOK
  <1>2. NothingLeaks'
    BY RequestAssumption DEF StartThread, TypeOK, NothingLeaks, Busy, Goto, Reaches,
       LoopFree, Enter, Abandon, At, Did, Full, Waits, ThreadIsFree
  <1>3. QueuedForThread'
    BY DEF StartThread, TypeOK, QueuedForThread, Goto, Reaches, Enter, Abandon, At, Did,
       Waits
  <1> QED
    BY <1>1, <1>2, <1>3

\* What Append leaves and what it adds, by position.
LEMMA AppendPositions ==
    ASSUME NEW S, NEW s \in Seq(S), NEW x \in S
    PROVE  /\ \A i \in DOMAIN s : i \in DOMAIN Append(s, x) /\ Append(s, x)[i] = s[i]
           /\ Len(s) + 1 \in DOMAIN Append(s, x) /\ Append(s, x)[Len(s) + 1] = x
           /\ \A i \in DOMAIN Append(s, x) : i \in DOMAIN s \/ i = Len(s) + 1
  <1>1. /\ Len(s) \in Nat
        /\ DOMAIN s = 1..Len(s)
        /\ Append(s, x) \in Seq(S)
        /\ Len(Append(s, x)) = Len(s) + 1
    OBVIOUS
  <1>2. DOMAIN Append(s, x) = 1..(Len(s) + 1)
    BY <1>1
  <1>3. \A i \in 1..Len(s) : Append(s, x)[i] = s[i]
    OBVIOUS
  <1>4. Append(s, x)[Len(s) + 1] = x
    OBVIOUS
  <1> QED
    BY <1>1, <1>2, <1>3, <1>4

\* The queue grows by one who was not in it.
LEMMA WaitForThreadKeeps ==
    ASSUME IInv, NEW r \in Request, WaitForThread(r)
    PROVE  IInv'
  <1> USE DEF IInv
  <1>1. TypeOK'
    BY DEF WaitForThread, TypeOK, Goto, Reaches
  <1>2. NothingLeaks'
    <2>1. /\ queue \in Seq(Request)
          /\ queue' = Append(queue, r)
          /\ \A i \in DOMAIN queue : i \in DOMAIN queue' /\ queue'[i] = queue[i]
          /\ Len(queue) + 1 \in DOMAIN queue' /\ queue'[Len(queue) + 1] = r
          /\ \A i \in DOMAIN queue' : i \in DOMAIN queue \/ i = Len(queue) + 1
      <3>1. queue \in Seq(Request) /\ queue' = Append(queue, r)
        BY DEF WaitForThread, TypeOK
      <3> QED
        BY <3>1, AppendPositions
    <2>2. /\ at[r] = "ready" /\ at'[r] = "queued"
          /\ \A q \in Request \ {r} : at'[q] = at[q]
      BY DEF WaitForThread, Goto, Reaches, TypeOK
    <2>3. \A i \in DOMAIN queue : queue[i] \in Request /\ queue[i] # r
      BY <2>1, <2>2 DEF NothingLeaks
    <2>4. \A q \in Request : at'[q] = "queued" => \E i \in DOMAIN queue' : queue'[i] = q
      <3> SUFFICES ASSUME NEW q \in Request, at'[q] = "queued"
                   PROVE  \E i \in DOMAIN queue' : queue'[i] = q
        OBVIOUS
      <3>1. CASE q = r
        BY <2>1, <3>1
      <3>2. CASE q # r
        <4>1. PICK i \in DOMAIN queue : queue[i] = q
          BY <2>2, <3>2 DEF NothingLeaks
        <4> QED
          BY <2>1, <4>1
      <3> QED
        BY <3>1, <3>2
    <2>5. \A i \in DOMAIN queue' : at'[queue'[i]] = "queued"
      BY <2>1, <2>2, <2>3 DEF NothingLeaks
    <2>6. \A i, j \in DOMAIN queue' : queue'[i] = queue'[j] => i = j
      BY <2>1, <2>3 DEF NothingLeaks
    <2>7. /\ conn' \subseteq Busy'
          /\ (thread \cup ({loop} \ {Nobody}))' = {q \in Request : at'[q] = "running"}
          /\ loop' \notin thread'
          /\ redis' = {q \in Request : at'[q] = "redis"}
      BY <2>2 DEF WaitForThread, NothingLeaks, Busy
    <2> QED
      BY <2>4, <2>5, <2>6, <2>7 DEF NothingLeaks
  <1>3. QueuedForThread'
    BY DEF WaitForThread, TypeOK, QueuedForThread, Goto, Reaches
  <1> QED
    BY <1>1, <1>2, <1>3

\* The loop is taken while it is free.
LEMMA BlockKeeps ==
    ASSUME IInv, NEW r \in Request, Block(r)
    PROVE  IInv'
  <1> USE DEF IInv
  <1>1. TypeOK'
    <2>1. rest[r] \in Seq(Stage) /\ rest[r] # <<>> /\ Head(rest[r]) \in OnLoop
      BY DEF Block, Reaches, TypeOK
    <2>2. /\ rest' \in [Request -> Seq(Stage)]
          /\ todo' \in [Request -> Seq({"query", "commit", "send"})]
      BY <2>1, EnterType DEF Block, Enter, TypeOK, DbOp
    <2> QED
      BY <2>2 DEF Block, Goto, TypeOK
  <1>2. NothingLeaks'
    BY RequestAssumption DEF Block, TypeOK, NothingLeaks, Busy, Goto, Reaches, LoopFree,
       Enter, Abandon, At, Did, Full, Waits
  <1>3. QueuedForThread'
    BY DEF Block, TypeOK, QueuedForThread, Goto, Reaches, Enter, Abandon, At, Did, Waits
  <1> QED
    BY <1>1, <1>2, <1>3

\* A thread is given back.
LEMMA LeaveKeeps ==
    ASSUME IInv, NEW r \in Request, Leave(r)
    PROVE  IInv'
  <1> USE DEF IInv
  <1>1. TypeOK'
    <2>1. /\ Cardinality(thread \ {r}) <= Cardinality(thread)
          /\ Cardinality(thread) \in Nat
          /\ Cardinality(thread \ {r}) \in Nat
      BY Count DEF TypeOK
    <2>2. thread' \subseteq Request /\ Cardinality(thread') <= Threads
      BY <2>1, CapacityAssumption DEF Leave, TypeOK
    <2> QED
      BY <2>2 DEF Leave, TypeOK, Goto
  <1>2. NothingLeaks'
    BY RequestAssumption DEF Leave, TypeOK, NothingLeaks, Busy, Goto, Reaches, LoopFree,
       Enter, Abandon, At, Did, Full, Waits
  <1>3. QueuedForThread'
    BY DEF Leave, TypeOK, QueuedForThread, Goto, Reaches, Enter, Abandon, At, Did, Waits
  <1> QED
    BY <1>1, <1>2, <1>3

\* A thread goes to the first of the queue.
LEMMA LeaveToNextKeeps ==
    ASSUME IInv, NEW r \in Request, LeaveToNext(r)
    PROVE  IInv'
  <1> USE DEF IInv
  <1> DEFINE q == Head(queue)
             rests == Tail(queue)
  <1>1. /\ queue \in Seq(Request) /\ queue # <<>>
        /\ q \in Request
        /\ queue' = rests /\ rests \in Seq(Request)
        /\ 1 \in DOMAIN queue /\ queue[1] = q
        /\ Len(rests) = Len(queue) - 1
        /\ \A i \in DOMAIN rests : i + 1 \in DOMAIN queue /\ rests[i] = queue[i + 1]
        /\ \A i \in DOMAIN queue : i = 1 \/ (i - 1 \in DOMAIN rests /\ rests[i - 1] = queue[i])
    <2>1. queue \in Seq(Request) /\ queue # <<>> /\ queue' = rests
      BY DEF LeaveToNext, TypeOK
    <2> QED
      BY <2>1, QueueTail
  <1>2. /\ at[q] = "queued" /\ at[r] = "running" /\ r \in thread /\ q # r
        /\ q \notin thread
    BY <1>1 DEF LeaveToNext, NothingLeaks
  <1>3. /\ at'[r] = "ready" /\ at'[q] = "running"
        /\ \A p \in Request \ {q, r} : at'[p] = at[p]
        /\ at' \in [Request -> Place]
    BY <1>1, <1>2 DEF LeaveToNext, TypeOK, Place
  <1>4. thread' = (thread \ {r}) \cup {q}
    BY DEF LeaveToNext
  <1>5. TypeOK'
    <2>1. rest[q] \in Seq(Stage) /\ rest[q] # <<>> /\ Head(rest[q]) \in OnThread
      BY <1>1, <1>2 DEF TypeOK, QueuedForThread
    <2>2. /\ rest' \in [Request -> Seq(Stage)]
          /\ todo' \in [Request -> Seq({"query", "commit", "send"})]
      BY <1>1, <2>1, EnterType DEF LeaveToNext, Enter, TypeOK, DbOp
    <2>3. /\ Cardinality(thread) \in Nat
          /\ Cardinality(thread \ {r}) \in Nat
          /\ Cardinality(thread \ {r}) = Cardinality(thread) - 1
      BY <1>2, Count DEF TypeOK
    <2>4. /\ Cardinality((thread \ {r}) \cup {q}) <= Cardinality(thread \ {r}) + 1
          /\ Cardinality((thread \ {r}) \cup {q}) \in Nat
      <3>1. thread \ {r} \in SUBSET Request
        BY DEF TypeOK
      <3> HIDE DEF q
      <3> QED
        BY <1>1, <3>1, Count
    <2>5. thread' \subseteq Request /\ Cardinality(thread') <= Threads
      BY <1>1, <1>4, <2>3, <2>4, CapacityAssumption DEF TypeOK
    <2> QED
      BY <1>1, <1>3, <2>2, <2>5 DEF LeaveToNext, TypeOK, Place
  <1>6. NothingLeaks'
    <2>1. \A p \in Request : at'[p] = "queued" => \E i \in DOMAIN rests : rests[i] = p
      <3> SUFFICES ASSUME NEW p \in Request, at'[p] = "queued"
                   PROVE  \E i \in DOMAIN rests : rests[i] = p
        OBVIOUS
      <3>1. at[p] = "queued" /\ p # q
        BY <1>3
      <3>2. PICK i \in DOMAIN queue : queue[i] = p
        BY <3>1 DEF NothingLeaks
      <3> QED
        BY <1>1, <3>1, <3>2
    <2>2. \A i \in DOMAIN rests : rests[i] \in Request /\ rests[i] # q /\ at[rests[i]] = "queued"
      <3> SUFFICES ASSUME NEW i \in DOMAIN rests
                   PROVE  rests[i] \in Request /\ rests[i] # q /\ at[rests[i]] = "queued"
        OBVIOUS
      <3>1. i + 1 # 1 /\ i + 1 \in DOMAIN queue /\ rests[i] = queue[i + 1]
        BY <1>1
      <3> HIDE DEF q, rests
      <3> QED
        BY <1>1, <3>1 DEF NothingLeaks
    <2>3. \A i \in DOMAIN rests : at'[rests[i]] = "queued"
      BY <1>2, <1>3, <2>2
    <2>4. \A i, j \in DOMAIN rests : rests[i] = rests[j] => i = j
      BY <1>1 DEF NothingLeaks
    <2>5. LoopFree /\ loop' = loop /\ conn' = conn /\ redis' = redis
      BY DEF LeaveToNext
    <2> HIDE DEF q
    <2>6. conn' \subseteq Busy'
      BY <1>2, <1>3, <2>5 DEF NothingLeaks, Busy
    <2>7. /\ (thread \cup ({loop} \ {Nobody}))' = {p \in Request : at'[p] = "running"}
          /\ loop' \notin thread'
      BY <1>1, <1>2, <1>3, <1>4, <2>5, RequestAssumption DEF NothingLeaks, LoopFree
    <2>8. redis' = {p \in Request : at'[p] = "redis"}
      BY <1>2, <1>3, <2>5 DEF NothingLeaks
    <2> QED
      BY <1>1, <2>1, <2>3, <2>4, <2>6, <2>7, <2>8 DEF NothingLeaks
  <1>7. QueuedForThread'
    <2>1. \A p \in Request \ {q} : rest'[p] = rest[p]
      BY <1>1 DEF LeaveToNext, Enter, TypeOK
    <2> QED
      BY <1>2, <1>3, <2>1 DEF QueuedForThread
  <1> QED
    BY <1>5, <1>6, <1>7

\* The loop is given back.
LEMMA UnblockKeeps ==
    ASSUME IInv, NEW r \in Request, Unblock(r)
    PROVE  IInv'
  <1> USE DEF IInv
  <1>1. TypeOK'
    BY RequestAssumption DEF Unblock, TypeOK, Goto, Reaches, LoopFree, Enter, Abandon,
       At, Did, Full, Waits
  <1>2. NothingLeaks'
    <2>0. /\ loop = r /\ r # Nobody /\ loop' = Nobody
          /\ thread \cup {r} = {p \in Request : at[p] = "running"}
          /\ r \notin thread
      <3>1. loop = r /\ r # Nobody /\ loop' = Nobody
        BY RequestAssumption DEF Unblock
      <3>2. {loop} \ {Nobody} = {r}
        BY <3>1
      <3> QED
        BY <3>1, <3>2 DEF NothingLeaks
    <2>1. /\ at[r] = "running" /\ at'[r] = "ready"
          /\ \A p \in Request \ {r} : at'[p] = at[p]
      BY <2>0 DEF Unblock, Goto, TypeOK
    <2>2. UNCHANGED <<thread, queue, conn, redis>>
      BY DEF Unblock
    <2>3. /\ (thread \cup ({loop} \ {Nobody}))' = {p \in Request : at'[p] = "running"}
          /\ loop' \notin thread'
      <3>1. {loop'} \ {Nobody} = {} /\ Nobody \notin thread
        BY <2>0, RequestAssumption DEF TypeOK
      <3>2. thread' = {p \in Request : at'[p] = "running"}
        BY <2>0, <2>1, <2>2 DEF TypeOK
      <3>3. loop' \notin thread' /\ loop' = Nobody
        BY <2>0, <2>2, <3>1
      <3>4. (thread \cup ({loop} \ {Nobody}))' = thread'
        BY <3>1
      <3> QED
        BY <3>2, <3>3, <3>4
    <2>4. conn' \subseteq Busy' /\ redis' = {p \in Request : at'[p] = "redis"}
      BY <2>1, <2>2 DEF NothingLeaks, Busy
    <2>5. /\ \A p \in Request : at'[p] = "queued" => \E i \in DOMAIN queue : queue[i] = p
          /\ \A i \in DOMAIN queue : at'[queue[i]] = "queued"
          /\ \A i, j \in DOMAIN queue : queue[i] = queue[j] => i = j
      <3>1. \A i \in DOMAIN queue : queue[i] \in Request
        BY DEF TypeOK
      <3>2. \A i \in DOMAIN queue : queue[i] # r
        BY <2>1 DEF NothingLeaks
      <3>3. \A p \in Request : at'[p] = "queued" => at[p] = "queued"
        BY <2>1
      <3> HIDE DEF IInv
      <3> QED
        BY <2>1, <3>1, <3>2, <3>3 DEF IInv, NothingLeaks
    <2>6. queue' = queue
      BY <2>2
    <2>7. (/\ \A p \in Request : at[p] = "queued" => \E i \in DOMAIN queue : queue[i] = p
           /\ \A i \in DOMAIN queue : at[queue[i]] = "queued"
           /\ \A i, j \in DOMAIN queue : queue[i] = queue[j] => i = j)'
      <3>1. \A p \in Request : at'[p] = "queued" => \E i \in DOMAIN queue' : queue'[i] = p
        BY <2>5, <2>6
      <3>2. \A i \in DOMAIN queue' : at'[queue'[i]] = "queued"
        BY <2>5, <2>6
      <3>3. \A i, j \in DOMAIN queue' : queue'[i] = queue'[j] => i = j
        BY <2>5, <2>6
      <3> QED
        BY <3>1, <3>2, <3>3
    <2> QED
      BY <2>3, <2>4, <2>7 DEF NothingLeaks
  <1>3. QueuedForThread'
    BY DEF Unblock, TypeOK, QueuedForThread, Goto, Reaches, Enter, Abandon, At, Did, Waits
  <1> QED
    BY <1>1, <1>2, <1>3

\* The connection of a request that ends is given back.
LEMMA CloseKeeps ==
    ASSUME IInv, NEW r \in Request, Close(r)
    PROVE  IInv'
  <1> USE DEF IInv
  <1>1. TypeOK'
    BY DEF Close, TypeOK, Goto
  <1>2. NothingLeaks'
    BY RequestAssumption DEF Close, TypeOK, NothingLeaks, Busy, Goto, LoopFree
  <1>3. QueuedForThread'
    BY DEF Close, TypeOK, QueuedForThread, Goto
  <1> QED
    BY <1>1, <1>2, <1>3

\* And the ROLLBACK that some of them wait for gives the connection back.
LEMMA RollbackKeeps ==
    ASSUME IInv, NEW r \in Request, Rollback(r)
    PROVE  IInv'
  <1> USE DEF IInv
  <1>1. TypeOK'
    <2>1. /\ Cardinality(conn \ {r}) <= Cardinality(conn)
          /\ Cardinality(conn) \in Nat
          /\ Cardinality(conn \ {r}) \in Nat
      BY Count DEF TypeOK
    <2>2. conn' \subseteq Request /\ Cardinality(conn') <= PoolSize
      BY <2>1, CapacityAssumption DEF Rollback, TypeOK
    <2> QED
      BY <2>2 DEF Rollback, TypeOK, Goto
  <1>2. NothingLeaks'
    BY RequestAssumption DEF Rollback, TypeOK, NothingLeaks, Busy, Goto, Reaches, LoopFree,
       Enter, Abandon, At, Did, Full, Waits
  <1>3. QueuedForThread'
    BY DEF Rollback, TypeOK, QueuedForThread, Goto, Reaches, Enter, Abandon, At, Did, Waits
  <1> QED
    BY <1>1, <1>2, <1>3

\* A connection is taken while there is one.
LEMMA TakeConnectionKeeps ==
    ASSUME IInv, NEW r \in Request, TakeConnection(r)
    PROVE  IInv'
  <1> USE DEF IInv
  <1>1. TypeOK'
    <2>1. /\ Cardinality(conn \cup {r}) <= Cardinality(conn) + 1
          /\ Cardinality(conn) \in Nat
          /\ Cardinality(conn \cup {r}) \in Nat
      BY Count DEF TypeOK
    <2>2. conn' \subseteq Request /\ Cardinality(conn') <= PoolSize
      BY <2>1, CapacityAssumption DEF TakeConnection, TypeOK, Full
    <2> QED
      BY <2>2 DEF TakeConnection, TypeOK, Waits
  <1>2. NothingLeaks'
    BY RequestAssumption DEF TakeConnection, TypeOK, NothingLeaks, Busy, Goto, Reaches,
       LoopFree, Enter, Abandon, At, Did, Full, Waits
  <1>3. QueuedForThread'
    BY DEF TakeConnection, TypeOK, QueuedForThread, Goto, Reaches, Enter, Abandon, At,
       Did, Waits
  <1> QED
    BY <1>1, <1>2, <1>3

\* A request that was refused a connection goes on where it is.
LEMMA PoolTimeoutKeeps ==
    ASSUME IInv, NEW r \in Request, PoolTimeout(r)
    PROVE  IInv'
  <1> USE DEF IInv
  <1>1. TypeOK'
    BY RequestAssumption DEF PoolTimeout, TimesOut, TypeOK, Goto, Reaches, LoopFree, Enter,
       Abandon, At, Did, Full, Waits
  <1>2. NothingLeaks'
    BY RequestAssumption DEF PoolTimeout, TimesOut, TypeOK, NothingLeaks, Busy, Goto, Reaches,
       LoopFree, Enter, Abandon, At, Did, Full, Waits
  <1>3. QueuedForThread'
    BY DEF PoolTimeout, TimesOut, TypeOK, QueuedForThread, Goto, Reaches, Enter, Abandon, At, Did,
       Waits
  <1> QED
    BY <1>1, <1>2, <1>3

\* An answer changes what is left to do, and nobody's hold.
LEMMA QueryAnsweredKeeps ==
    ASSUME IInv, NEW r \in Request, QueryAnswered(r)
    PROVE  IInv'
  <1> USE DEF IInv
  <1>1. TypeOK'
    BY RequestAssumption DEF QueryAnswered, TypeOK, Goto, Reaches, LoopFree, Enter,
       Abandon, At, Did, Full, Waits
  <1>2. NothingLeaks'
    BY RequestAssumption DEF QueryAnswered, TypeOK, NothingLeaks, Busy, Goto, Reaches,
       LoopFree, Enter, Abandon, At, Did, Full, Waits
  <1>3. QueuedForThread'
    BY DEF QueryAnswered, TypeOK, QueuedForThread, Goto, Reaches, Enter, Abandon, At,
       Did, Waits
  <1> QED
    BY <1>1, <1>2, <1>3

\* A failing query keeps the connection for Close, or gives it back.
LEMMA QueryRefusesKeeps ==
    ASSUME IInv, NEW r \in Request, QueryRefuses(r)
    PROVE  IInv'
  <1> USE DEF IInv
  <1>1. TypeOK'
    <2>1. /\ Cardinality(conn \ {r}) <= Cardinality(conn)
          /\ Cardinality(conn) \in Nat
          /\ Cardinality(conn \ {r}) \in Nat
      BY Count DEF TypeOK
    <2>2. conn' \subseteq Request /\ Cardinality(conn') <= PoolSize
      BY <2>1, CapacityAssumption DEF QueryRefuses, TypeOK
    <2> QED
      BY <2>2 DEF QueryRefuses, TypeOK, Abandon
  <1>2. NothingLeaks'
    BY RequestAssumption DEF QueryRefuses, TypeOK, NothingLeaks, Busy, Goto, Reaches,
       LoopFree, Enter, Abandon, At, Did, Full, Waits
  <1>3. QueuedForThread'
    BY DEF QueryRefuses, TypeOK, QueuedForThread, Goto, Reaches, Enter, Abandon, At,
       Did, Waits
  <1> QED
    BY <1>1, <1>2, <1>3

\* A commit gives the connection back.
LEMMA CommitKeeps ==
    ASSUME IInv, NEW r \in Request, Commit(r)
    PROVE  IInv'
  <1> USE DEF IInv
  <1>1. TypeOK'
    <2>1. /\ Cardinality(conn \ {r}) <= Cardinality(conn)
          /\ Cardinality(conn) \in Nat
          /\ Cardinality(conn \ {r}) \in Nat
      BY Count DEF TypeOK
    <2>2. conn' \subseteq Request /\ Cardinality(conn') <= PoolSize
      BY <2>1, CapacityAssumption DEF Commit, TypeOK
    <2> QED
      BY <2>2 DEF Commit, TypeOK, At, Did
  <1>2. NothingLeaks'
    BY RequestAssumption DEF Commit, TypeOK, NothingLeaks, Busy, Goto, Reaches,
       LoopFree, Enter, Abandon, At, Did, Full, Waits
  <1>3. QueuedForThread'
    BY DEF Commit, TypeOK, QueuedForThread, Goto, Reaches, Enter, Abandon, At, Did, Waits
  <1> QED
    BY <1>1, <1>2, <1>3

\* The mail server holds none of the worker's resources.
LEMMA SentKeeps ==
    ASSUME IInv, NEW r \in Request, Sent(r)
    PROVE  IInv'
  <1> USE DEF IInv
  <1>1. TypeOK'
    BY RequestAssumption DEF Sent, TypeOK, Goto, Reaches, LoopFree, Enter, Abandon, At,
       Did, Full, Waits
  <1>2. NothingLeaks'
    BY RequestAssumption DEF Sent, TypeOK, NothingLeaks, Busy, Goto, Reaches, LoopFree,
       Enter, Abandon, At, Did, Full, Waits
  <1>3. QueuedForThread'
    BY DEF Sent, TypeOK, QueuedForThread, Goto, Reaches, Enter, Abandon, At, Did, Waits
  <1> QED
    BY <1>1, <1>2, <1>3

\* A Redis connection is taken while there is one.
LEMMA SendRedisKeeps ==
    ASSUME IInv, NEW r \in Request, SendRedis(r)
    PROVE  IInv'
  <1> USE DEF IInv
  <1>1. TypeOK'
    <2>1. /\ Cardinality(redis \cup {r}) <= Cardinality(redis) + 1
          /\ Cardinality(redis) \in Nat
          /\ Cardinality(redis \cup {r}) \in Nat
      BY Count DEF TypeOK
    <2>2. redis' \subseteq Request /\ Cardinality(redis') <= MaxRedis
      BY <2>1, CapacityAssumption DEF SendRedis, TypeOK
    <2> QED
      BY <2>2 DEF SendRedis, TypeOK, Goto, Reaches
  <1>2. NothingLeaks'
    BY RequestAssumption DEF SendRedis, TypeOK, NothingLeaks, Busy, Goto, Reaches,
       LoopFree, Enter, Abandon, At, Did, Full, Waits
  <1>3. QueuedForThread'
    BY DEF SendRedis, TypeOK, QueuedForThread, Goto, Reaches, Enter, Abandon, At, Did, Waits
  <1> QED
    BY <1>1, <1>2, <1>3

\* A command that is not sent holds nothing.
LEMMA TooManyConnectionsKeeps ==
    ASSUME IInv, NEW r \in Request, TooManyConnections(r)
    PROVE  IInv'
  <1> USE DEF IInv
  <1>1. TypeOK'
    BY RequestAssumption DEF TooManyConnections, TypeOK, Goto, Reaches, LoopFree, Enter,
       Abandon, At, Did, Full, Waits
  <1>2. NothingLeaks'
    BY RequestAssumption DEF TooManyConnections, TypeOK, NothingLeaks, Busy, Goto,
       Reaches, LoopFree, Enter, Abandon, At, Did, Full, Waits
  <1>3. QueuedForThread'
    BY DEF TooManyConnections, TypeOK, QueuedForThread, Goto, Reaches, Enter, Abandon,
       At, Did, Waits
  <1> QED
    BY <1>1, <1>2, <1>3

\* An answer gives the Redis connection back.
LEMMA RedisAnswersKeeps ==
    ASSUME IInv, NEW r \in Request, RedisAnswers(r)
    PROVE  IInv'
  <1> USE DEF IInv
  <1>1. TypeOK'
    <2>1. /\ Cardinality(redis \ {r}) <= Cardinality(redis)
          /\ Cardinality(redis) \in Nat
          /\ Cardinality(redis \ {r}) \in Nat
      BY Count DEF TypeOK
    <2>2. redis' \subseteq Request /\ Cardinality(redis') <= MaxRedis
      BY <2>1, CapacityAssumption DEF RedisAnswers, TypeOK
    <2> QED
      BY <2>2 DEF RedisAnswers, TypeOK, Goto
  <1>2. NothingLeaks'
    BY RequestAssumption DEF RedisAnswers, TypeOK, NothingLeaks, Busy, Goto, Reaches,
       LoopFree, Enter, Abandon, At, Did, Full, Waits
  <1>3. QueuedForThread'
    BY DEF RedisAnswers, TypeOK, QueuedForThread, Goto, Reaches, Enter, Abandon, At,
       Did, Waits
  <1> QED
    BY <1>1, <1>2, <1>3

\* A failure gives the Redis connection back.
LEMMA RedisRefusesKeeps ==
    ASSUME IInv, NEW r \in Request, RedisRefuses(r)
    PROVE  IInv'
  <1> USE DEF IInv
  <1>1. TypeOK'
    <2>1. /\ Cardinality(redis \ {r}) <= Cardinality(redis)
          /\ Cardinality(redis) \in Nat
          /\ Cardinality(redis \ {r}) \in Nat
      BY Count DEF TypeOK
    <2>2. redis' \subseteq Request /\ Cardinality(redis') <= MaxRedis
      BY <2>1, CapacityAssumption DEF RedisRefuses, TypeOK
    <2> QED
      BY <2>2 DEF RedisRefuses, TypeOK, Goto, Abandon
  <1>2. NothingLeaks'
    BY RequestAssumption DEF RedisRefuses, TypeOK, NothingLeaks, Busy, Goto, Reaches,
       LoopFree, Enter, Abandon, At, Did, Full, Waits
  <1>3. QueuedForThread'
    BY DEF RedisRefuses, TypeOK, QueuedForThread, Goto, Reaches, Enter, Abandon, At,
       Did, Waits
  <1> QED
    BY <1>1, <1>2, <1>3

\* What goes on without the database keeps the invariant.
LEMMA ProceedKeeps ==
    ASSUME IInv, NEW r \in Request, Proceed(r)
    PROVE  IInv'
  BY StartThreadKeeps, WaitForThreadKeeps, BlockKeeps, LeaveKeeps, LeaveToNextKeeps,
     UnblockKeeps, CloseKeeps, TakeConnectionKeeps, PoolTimeoutKeeps, SentKeeps,
     SendRedisKeeps, TooManyConnectionsKeeps, RedisAnswersKeeps, RedisRefusesKeeps
     DEF Proceed

\* Every step keeps the invariant.
LEMMA NextIInv == IInv /\ [Next]_vars => IInv'
  <1> SUFFICES ASSUME IInv, [Next]_vars PROVE IInv'
    OBVIOUS
  <1>1. CASE Next
    <2> PICK r \in Request : Arrive(r) \/ Proceed(r) \/ DatabaseReplies(r)
      BY <1>1 DEF Next
    <2>1. CASE Arrive(r)
      BY <2>1, ArriveKeeps
    <2>2. CASE Proceed(r)
      BY <2>2, ProceedKeeps
    <2>3. CASE DatabaseReplies(r)
      BY <2>3, QueryAnsweredKeeps, QueryRefusesKeeps, CommitKeeps, RollbackKeeps DEF DatabaseReplies
    <2> QED
      BY <2>1, <2>2, <2>3
  <1>2. CASE UNCHANGED vars
    BY <1>2 DEF vars, IInv, TypeOK, NothingLeaks, QueuedForThread, Busy
  <1> QED
    BY <1>1, <1>2

LEMMA Invariance == Spec => []IInv
  BY InitIInv, NextIInv, PTL DEF Spec

\* The state keeps its types, and no pool and no set of threads is overdrawn,
\* for any requests, routes and capacities.
THEOREM TypeCorrect == Spec => []TypeOK
  <1>1. IInv => TypeOK
    BY DEF IInv
  <1> QED
    BY <1>1, Invariance, PTL

\* A request that is over holds nothing, what is held is used, and nobody who
\* waits for a thread is forgotten: for any requests, routes and capacities.
THEOREM NothingEverLeaks == Spec => []NothingLeaks
  <1>1. IInv => NothingLeaks
    BY DEF IInv
  <1> QED
    BY <1>1, Invariance, PTL

-----------------------------------------------------------------------------
(* Standing still.                                                             *)

\* A commit is the first thing left to do only while the connection of the query
\* before it is held.
CommitHolds(ops, held) ==
    \A i \in 1 .. Len(ops) :
        ops[i] = "commit" => IF i = 1 THEN held ELSE ops[i - 1] = "query"

\* A request that does not run has nothing left of its stage, and one whose Session
\* is being closed waits for the ROLLBACK on its connection.
TodoInv(r) ==
    /\ at[r] # "running" => todo[r] = <<>>
    /\ at[r] = "closing" => r \in conn
    /\ CommitHolds(todo[r], r \in conn)

\* Nobody waits for a thread while one is free.
ThreadsTaken == queue # <<>> => Cardinality(thread) = Threads

HoldInv == ThreadsTaken /\ \A r \in Request : TodoInv(r)

\* In every stage a commit comes after a query, and no stage has more than four
\* operations.
LEMMA WorkHolds ==
    ASSUME NEW stage \in OnThread \cup OnLoop, NEW held
    PROVE  CommitHolds(Work[stage], held) /\ Len(Work[stage]) <= 4
  <1>1. stage \in DOMAIN Work
    BY WorkType
  <1>2. \/ Work[stage] = <<>>
        \/ Work[stage] = <<"query">>
        \/ Work[stage] = <<"query", "commit", "query">>
        \/ Work[stage] = <<"query", "commit", "query", "send">>
        \/ Work[stage] = <<"query", "commit">>
        \/ Work[stage] = <<"query", "send">>
    BY <1>1, WorkType DEF Work
  <1>3. /\ CommitHolds(<<>>, held) /\ CommitHolds(<<"query">>, held)
        /\ CommitHolds(<<"query", "send">>, held)
    BY DEF CommitHolds
  <1>4. CommitHolds(<<"query", "commit">>, held)
    BY DEF CommitHolds
  <1>5. CommitHolds(<<"query", "commit", "query">>, held)
    <2> SUFFICES ASSUME NEW i \in 1 .. 3, <<"query", "commit", "query">>[i] = "commit"
                 PROVE  i = 2
      BY DEF CommitHolds
    <2> QED
      OBVIOUS
  <1>6. CommitHolds(<<"query", "commit", "query", "send">>, held)
    <2> SUFFICES ASSUME NEW i \in 1 .. 4, <<"query", "commit", "query", "send">>[i] = "commit"
                 PROVE  i = 2
      BY DEF CommitHolds
    <2> QED
      OBVIOUS
  <1>7. CommitHolds(Work[stage], held)
    BY <1>2, <1>3, <1>4, <1>5, <1>6
  <1>8. /\ Len(<<>>) = 0 /\ Len(<<"query">>) = 1
        /\ Len(<<"query", "commit">>) = 2 /\ Len(<<"query", "send">>) = 2
        /\ Len(<<"query", "commit", "query">>) = 3
        /\ Len(<<"query", "commit", "query", "send">>) = 4
    OBVIOUS
  <1>9. Len(Work[stage]) \in {0, 1, 2, 3, 4}
    BY <1>2, <1>8
  <1> QED
    <2>1. \A n \in {0, 1, 2, 3, 4} : n <= 4
      OBVIOUS
    <2> QED
      BY <1>7, <1>9, <2>1

LEMMA NothingToDo ==
    ASSUME NEW held
    PROVE  CommitHolds(<<>>, held)
  BY DEF CommitHolds

\* What is left after the first operation, and whether it left a connection.
LEMMA DidHolds ==
    ASSUME NEW ops \in Seq(DbOp), NEW held, NEW held2, ops # <<>>, CommitHolds(ops, held),
           Head(ops) = "query" => held2
    PROVE  CommitHolds(Tail(ops), held2)
  <1> SUFFICES ASSUME NEW i \in 1 .. Len(Tail(ops)), Tail(ops)[i] = "commit"
               PROVE  IF i = 1 THEN held2 ELSE Tail(ops)[i - 1] = "query"
    BY DEF CommitHolds
  <1>1. i + 1 \in 1 .. Len(ops) /\ ops[i + 1] = "commit" /\ i + 1 # 1
    OBVIOUS
  <1>2. ops[i] = "query"
    BY <1>1 DEF CommitHolds
  <1>3. CASE i = 1
    BY <1>2, <1>3
  <1>4. CASE i # 1
    <2>1. i - 1 \in 1 .. Len(Tail(ops)) /\ Tail(ops)[i - 1] = ops[i]
      BY <1>4
    <2> QED
      BY <1>2, <1>4, <2>1
  <1> QED
    BY <1>3, <1>4

\* What the two invariants below look at in a request.
Same(q) ==
    /\ at'[q] = at[q] /\ rest'[q] = rest[q] /\ todo'[q] = todo[q]
    /\ q \in conn' <=> q \in conn

\* A step is of one request, or of two when a thread is handed over.
LEMMA OthersStay ==
    ASSUME IInv, NEW r \in Request, Arrive(r) \/ Proceed(r) \/ DatabaseReplies(r),
           ~LeaveToNext(r)
    PROVE  \A q \in Request \ {r} : Same(q)
  <1> SUFFICES ASSUME NEW q \in Request \ {r}
               PROVE  Same(q)
    OBVIOUS
  <1>1. TypeOK
    BY DEF IInv
  <1>2. Arrive(r) \/ StartThread(r) \/ WaitForThread(r) \/ Block(r) => Same(q)
    BY <1>1 DEF Arrive, StartThread, WaitForThread, Block, Enter, Goto, Same, TypeOK
  <1>3. Leave(r) \/ Unblock(r) \/ Close(r) => Same(q)
    BY <1>1 DEF Leave, Unblock, Close, Goto, Same, TypeOK
  <1>4. TakeConnection(r) \/ PoolTimeout(r) \/ Sent(r) => Same(q)
    BY <1>1 DEF TakeConnection, PoolTimeout, Sent, Abandon, Did, Same, TypeOK
  <1>5. SendRedis(r) \/ TooManyConnections(r) \/ RedisAnswers(r) \/ RedisRefuses(r) => Same(q)
    BY <1>1 DEF SendRedis, TooManyConnections, RedisAnswers, RedisRefuses, Abandon, Goto, Same, TypeOK
  <1>6. DatabaseReplies(r) => Same(q)
    BY <1>1 DEF DatabaseReplies, QueryAnswered, QueryRefuses, Commit, Rollback, Abandon, Did, Goto, Same, TypeOK
  <1> QED
    BY <1>2, <1>3, <1>4, <1>5, <1>6 DEF Proceed

\* The thread goes from r to the first of the queue.
LEMMA HandOver ==
    ASSUME IInv, NEW r \in Request, LeaveToNext(r)
    PROVE  LET q == Head(queue) IN
           /\ q \in Request /\ q # r /\ at[q] = "queued" /\ q \notin thread
           /\ at[r] = "running" /\ todo[r] = <<>> /\ r \in thread
           /\ at'[r] = "ready" /\ rest'[r] = rest[r] /\ todo'[r] = <<>> /\ conn' = conn
           /\ at'[q] = "running"
           /\ rest[q] # <<>> /\ Head(rest[q]) \in OnThread
           /\ rest'[q] = Tail(rest[q]) /\ todo'[q] = Work[Head(rest[q])]
           /\ thread' = (thread \ {r}) \cup {q}
           /\ \A p \in Request \ {q, r} : Same(p)
  <1> DEFINE q == Head(queue)
  <1>1. q \in Request /\ 1 \in DOMAIN queue /\ queue[1] = q
    BY QueueTail DEF LeaveToNext, IInv, TypeOK
  <1>2. at[q] = "queued" /\ at[r] = "running" /\ r \in thread /\ todo[r] = <<>>
    BY <1>1 DEF LeaveToNext, IInv, NothingLeaks
  <1>3. rest[q] # <<>> /\ Head(rest[q]) \in OnThread /\ q \notin thread /\ q # r
    BY <1>1, <1>2 DEF IInv, QueuedForThread, NothingLeaks
  <1>4. /\ at' = [at EXCEPT ![r] = "ready", ![q] = "running"]
        /\ rest' = [rest EXCEPT ![q] = Tail(@)]
        /\ todo' = [todo EXCEPT ![q] = Work[Head(rest[q])]]
        /\ thread' = (thread \ {r}) \cup {q} /\ conn' = conn
    BY DEF LeaveToNext, Enter
  <1> HIDE DEF q
  <1>5. /\ at'[r] = "ready" /\ at'[q] = "running" /\ rest'[r] = rest[r] /\ todo'[r] = <<>>
        /\ rest'[q] = Tail(rest[q]) /\ todo'[q] = Work[Head(rest[q])]
    BY <1>1, <1>2, <1>3, <1>4 DEF IInv, TypeOK
  <1>6. \A p \in Request \ {q, r} : Same(p)
    BY <1>1, <1>4 DEF Same, IInv, TypeOK
  <1> QED
    BY <1>1, <1>2, <1>3, <1>4, <1>5, <1>6 DEF q

\* The queue grows only while the threads are taken, and what leaves a thread to
\* the next leaves none free.
LEMMA ThreadsStayTaken ==
    ASSUME IInv, ThreadsTaken, NEW r \in Request,
           Arrive(r) \/ Proceed(r) \/ DatabaseReplies(r)
    PROVE  ThreadsTaken'
  <1>1. CASE WaitForThread(r)
    <2>1. Cardinality(thread) \in Nat /\ Cardinality(thread) <= Threads /\ Threads \in Nat
      BY Count, CapacityAssumption DEF IInv, TypeOK
    <2>2. Cardinality(thread) >= Threads
      BY <1>1, <2>1 DEF WaitForThread, ThreadIsFree, ThreadsTaken
    <2> QED
      BY <1>1, <2>1, <2>2 DEF WaitForThread, ThreadsTaken
  <1>2. CASE LeaveToNext(r)
    <2> DEFINE q == Head(queue)
    <2>1. /\ q \in Request /\ q \notin thread /\ r \in thread
          /\ thread' = (thread \ {r}) \cup {q} /\ thread \in SUBSET Request
      BY <1>2, HandOver DEF IInv, TypeOK
    <2> HIDE DEF q
    <2>2. Cardinality(thread \ {r}) = Cardinality(thread) - 1 /\ Cardinality(thread) \in Nat
      BY <2>1, Count
    <2>3. Cardinality(thread') = Cardinality(thread \ {r}) + 1
      <3>1. q \notin thread \ {r} /\ thread \ {r} \in SUBSET Request
        BY <2>1
      <3> QED
        BY <2>1, <3>1, Count
    <2>4. Cardinality(thread') = Cardinality(thread) /\ queue # <<>>
      BY <1>2, <2>2, <2>3 DEF LeaveToNext
    <2> QED
      BY <2>4 DEF ThreadsTaken
  <1>3. CASE ~WaitForThread(r) /\ ~LeaveToNext(r)
    <2>1. queue' = queue /\ (thread' = thread \/ queue = <<>>)
      BY <1>3 DEF Arrive, Proceed, DatabaseReplies, StartThread, ThreadIsFree, Block, Leave, Unblock,
         Close, TakeConnection, PoolTimeout, Sent, SendRedis, TooManyConnections, RedisAnswers,
         RedisRefuses, QueryAnswered, QueryRefuses, Commit, Rollback
    <2> QED
      BY <2>1 DEF ThreadsTaken
  <1> QED
    BY <1>1, <1>2, <1>3

\* The request that moves keeps its operations in order.
LEMMA MoverHolds ==
    ASSUME IInv, NEW r \in Request, TodoInv(r), Arrive(r) \/ Proceed(r) \/ DatabaseReplies(r),
           ~LeaveToNext(r)
    PROVE  TodoInv(r)'
  <1>1. TypeOK
    BY DEF IInv
  <1>2. ASSUME todo'[r] = <<>>, at'[r] = "closing" => r \in conn'
        PROVE  TodoInv(r)'
    BY <1>2, NothingToDo DEF TodoInv
  <1>3. CASE StartThread(r) \/ Block(r)
    <2>1. at'[r] = "running" /\ todo'[r] = Work[Head(rest[r])] /\ Head(rest[r]) \in OnThread \cup OnLoop
      BY <1>1, <1>3 DEF StartThread, Block, Reaches, Enter, Goto, TypeOK
    <2> QED
      BY <2>1, WorkHolds DEF TodoInv
  <1>4. CASE TakeConnection(r)
    <2>1. at'[r] = "running" /\ todo'[r] = todo[r] /\ r \in conn'
      BY <1>1, <1>4 DEF TakeConnection, Waits, At
    <2> QED
      BY <2>1 DEF TodoInv, CommitHolds
  <1>5. CASE QueryAnswered(r) \/ Commit(r) \/ Sent(r)
    <2>1. /\ at'[r] = "running" /\ todo[r] \in Seq(DbOp) /\ todo[r] # <<>>
          /\ todo'[r] = Tail(todo[r])
          /\ Head(todo[r]) = "query" => r \in conn'
      BY <1>1, <1>5 DEF QueryAnswered, Commit, Sent, At, Did, TypeOK, DbOp
    <2>2. CommitHolds(Tail(todo[r]), r \in conn')
      BY <2>1, DidHolds DEF TodoInv
    <2> QED
      BY <2>1, <2>2 DEF TodoInv
  <1>6. CASE Arrive(r) \/ WaitForThread(r) \/ Leave(r) \/ Unblock(r) \/ Close(r) \/ SendRedis(r)
             \/ RedisAnswers(r) \/ Rollback(r)
    <2>1. todo'[r] = todo[r] /\ todo[r] = <<>> /\ (at'[r] = "closing" => r \in conn')
      BY <1>1, <1>6 DEF TodoInv, Arrive, WaitForThread, Leave, Unblock, Close, SendRedis, RedisAnswers,
         Rollback, Reaches, Goto, TypeOK
    <2> QED
      BY <1>2, <2>1
  <1>7. CASE PoolTimeout(r) \/ QueryRefuses(r) \/ TooManyConnections(r) \/ RedisRefuses(r)
    <2>1. todo'[r] = <<>> /\ at'[r] # "closing"
      BY <1>1, <1>7 DEF PoolTimeout, TimesOut, Waits, At, Reaches, QueryRefuses, TooManyConnections,
         RedisRefuses, Abandon, Goto, TypeOK
    <2> QED
      BY <1>2, <2>1
  <1> QED
    BY <1>3, <1>4, <1>5, <1>6, <1>7 DEF Proceed, DatabaseReplies

LEMMA StayHolds ==
    ASSUME NEW q \in Request, TodoInv(q), Same(q)
    PROVE  TodoInv(q)'
  BY DEF TodoInv, Same

LEMMA HoldInvariance == Spec => []HoldInv
  <1>1. Init => HoldInv
    BY NothingToDo DEF Init, HoldInv, ThreadsTaken, TodoInv
  <1>2. IInv /\ HoldInv /\ [Next]_vars => HoldInv'
    <2> SUFFICES ASSUME IInv, HoldInv, [Next]_vars PROVE HoldInv'
      OBVIOUS
    <2>1. ASSUME NEW r \in Request, Arrive(r) \/ Proceed(r) \/ DatabaseReplies(r)
          PROVE  HoldInv'
      <3>1. ThreadsTaken'
        BY <2>1, ThreadsStayTaken DEF HoldInv
      <3>2. CASE ~LeaveToNext(r)
        <4>1. TodoInv(r)'
          BY <2>1, <3>2, MoverHolds DEF HoldInv
        <4>2. \A q \in Request \ {r} : TodoInv(q)'
          BY <2>1, <3>2, OthersStay, StayHolds DEF HoldInv
        <4> QED
          BY <3>1, <4>1, <4>2 DEF HoldInv
      <3>3. CASE LeaveToNext(r)
        <4>0. PICK q \in Request : q = Head(queue)
          BY <3>3, HandOver
        <4>1. /\ todo'[r] = <<>> /\ at'[r] = "ready" /\ at'[q] = "running"
              /\ todo'[q] = Work[Head(rest[q])]
              /\ Head(rest[q]) \in OnThread
              /\ \A p \in Request \ {q, r} : Same(p)
          BY <3>3, <4>0, HandOver
        <4>2. TodoInv(r)'
          BY <4>1, NothingToDo DEF TodoInv
        <4>3. TodoInv(q)'
          <5>1. CommitHolds(Work[Head(rest[q])], q \in conn')
            BY <4>1, WorkHolds
          <5> QED
            BY <4>1, <5>1 DEF TodoInv
        <4>4. \A p \in Request \ {q, r} : TodoInv(p)'
          BY <4>1, StayHolds DEF HoldInv
        <4> QED
          BY <3>1, <4>2, <4>3, <4>4 DEF HoldInv
      <3> QED
        BY <3>2, <3>3
    <2>2. CASE UNCHANGED vars
      BY <2>2 DEF vars, HoldInv, ThreadsTaken, TodoInv
    <2> QED
      BY <2>1, <2>2 DEF Next
  <1> QED
    BY <1>1, <1>2, Invariance, PTL DEF Spec

\* Whatever the requests hold and wait for, they stand still only for the database:
\* threads, connections, the loop, Redis and the mail server alone block nobody.
THEOREM NothingElseBlocks == Spec => []StandsOnlyForDatabase
  <1>1. IInv /\ HoldInv => StandsOnlyForDatabase
    <2> SUFFICES ASSUME IInv, HoldInv, \A r \in Request : ~CanProceed(r), NEW p \in Busy
                 PROVE  Asks(p) \/ HeldUp
      BY DEF StandsOnlyForDatabase
    <2>1. ASSUME NEW r \in Request, at[r] = "running", todo[r] # <<>>
          PROVE  Asks(r)
      <3>1. todo[r] \in Seq(DbOp) /\ Head(todo[r]) = todo[r][1] /\ 1 \in 1 .. Len(todo[r])
        BY <2>1 DEF IInv, TypeOK, DbOp
      <3>2. Head(todo[r]) \in {"query", "commit", "send"}
        BY <3>1 DEF DbOp
      <3>3. Head(todo[r]) = "commit" => r \in conn
        BY <3>1 DEF HoldInv, TodoInv, CommitHolds
      <3>4. ~Waits(r) /\ ~At(r, "send")
        BY DEF CanProceed, TimesOut
      <3> QED
        BY <2>1, <3>2, <3>3, <3>4 DEF At, Waits, Asks
    <2>2. ASSUME loop # Nobody
          PROVE  loop \in Request /\ at[loop] = "running" /\ Asks(loop)
      <3>1. loop \in Request /\ at[loop] = "running"
        BY <2>2 DEF IInv, TypeOK, NothingLeaks
      <3>2. todo[loop] # <<>>
        BY <3>1 DEF CanProceed
      <3> QED
        BY <2>1, <3>1, <3>2
    <2>3. CASE loop # Nobody
      BY <2>2, <2>3 DEF HeldUp
    <2>4. CASE loop = Nobody
      <3>1. ASSUME NEW r \in thread
            PROVE  Asks(r)
        <4>1. r \in Request /\ at[r] = "running"
          BY DEF IInv, TypeOK, NothingLeaks
        <4>2. todo[r] # <<>>
          BY <2>4, <4>1 DEF CanProceed, LoopFree
        <4> QED
          BY <2>1, <4>1, <4>2
      <3>2. p \in Request /\ at[p] \in {"ready", "queued", "running", "redis", "closing"}
        BY DEF Busy, IInv, TypeOK
      <3>3. CASE at[p] = "running"
        BY <2>4, <3>1, <3>2, <3>3 DEF IInv, NothingLeaks
      <3>4. at[p] # "redis"
        BY <2>4, <3>2 DEF CanProceed, LoopFree
      <3>5. at[p] # "ready"
        <4>1. at[p] = "ready" => rest[p] # <<>> /\ rest[p] \in Seq(Stage)
          BY <2>4, <3>2 DEF CanProceed, LoopFree, IInv, TypeOK
        <4>2. at[p] = "ready" => Reaches(p, Stage)
          BY <2>4, <4>1 DEF Reaches, LoopFree
        <4> QED
          BY <3>2, <4>2 DEF CanProceed
      <3>6. CASE at[p] = "queued"
        <4>1. \E i \in DOMAIN queue : queue[i] = p
          BY <3>2, <3>6 DEF IInv, NothingLeaks
        <4>2. queue # <<>>
          BY <4>1
        <4>3. Cardinality(thread) = Threads
          BY <4>2 DEF HoldInv, ThreadsTaken
        <4>4. {q \in thread : Asks(q)} = thread
          BY <3>1
        <4> QED
          BY <4>3, <4>4 DEF HeldUp
      <3>7. CASE at[p] = "closing"
        BY <3>2, <3>7 DEF Asks, HoldInv, TodoInv
      <3> QED
        BY <3>2, <3>3, <3>4, <3>5, <3>6, <3>7
    <2> QED
      BY <2>3, <2>4
  <1> QED
    BY <1>1, Invariance, HoldInvariance, PTL

-----------------------------------------------------------------------------
(* Going on.                                                                   *)

\* What is left in a stage: its operations, and the connection still to be taken.
InStage(place, ops, held) ==
    CASE place = "closing" -> 1
      [] place = "ready" -> 2
      [] place = "redis" -> 3
      [] place = "running" -> 3 + 2 * Len(ops) + (IF held THEN 0 ELSE 1)
      [] OTHER -> 0

\* How far a request is from its end: a stage is at most 12 in itself.
WorkLeft(r) == 13 * Len(rest[r]) + InStage(at[r], todo[r], r \in conn)

\* Nobody goes round in circles, as in a retry: every step, but an arrival, brings
\* some request nearer to its end and takes no other away from its own.
Onward ==
    [][\/ \E r \in Request : Arrive(r)
       \/ /\ \E r \in Request : WorkLeft(r)' < WorkLeft(r)
          /\ \A r \in Request : WorkLeft(r)' <= WorkLeft(r)]_vars

LEMMA StayLeft ==
    ASSUME NEW q \in Request, Same(q)
    PROVE  WorkLeft(q)' = WorkLeft(q)
  BY DEF WorkLeft, InStage, Same

LEMMA InStageType ==
    ASSUME NEW place, NEW ops \in Seq(DbOp), NEW held
    PROVE  /\ InStage(place, ops, held) \in Nat
           /\ InStage("closing", ops, held) = 1
           /\ InStage("ready", ops, held) = 2
           /\ InStage("redis", ops, held) = 3
           /\ InStage("queued", ops, held) = 0
           /\ InStage("done", ops, held) = 0
           /\ InStage("running", ops, held) \in {3 + 2 * Len(ops), 4 + 2 * Len(ops)}
  <1>1. Len(ops) \in Nat
    OBVIOUS
  <1>2. InStage("running", ops, held) = 3 + 2 * Len(ops) + (IF held THEN 0 ELSE 1)
    BY DEF InStage
  <1>3. InStage("running", ops, held) \in {3 + 2 * Len(ops), 4 + 2 * Len(ops)}
    BY <1>1, <1>2
  <1>4. /\ InStage("closing", ops, held) = 1
        /\ InStage("ready", ops, held) = 2
        /\ InStage("redis", ops, held) = 3
        /\ InStage("queued", ops, held) = 0
        /\ InStage("done", ops, held) = 0
    BY DEF InStage
  <1>5. InStage(place, ops, held) \in Nat
    BY <1>1 DEF InStage
  <1> QED
    BY <1>1, <1>2, <1>3, <1>4, <1>5

LEMMA LeftType ==
    ASSUME IInv, [Next]_vars
    PROVE  \A p \in Request : WorkLeft(p) \in Nat /\ WorkLeft(p)' \in Nat
  <1>1. TypeOK /\ TypeOK'
    BY NextIInv DEF IInv
  <1> SUFFICES ASSUME NEW p \in Request
               PROVE  WorkLeft(p) \in Nat /\ WorkLeft(p)' \in Nat
    OBVIOUS
  <1>2. /\ todo[p] \in Seq(DbOp) /\ Len(rest[p]) \in Nat
        /\ todo'[p] \in Seq(DbOp) /\ Len(rest'[p]) \in Nat
    BY <1>1 DEF TypeOK, DbOp
  <1>3. /\ InStage(at[p], todo[p], p \in conn) \in Nat
        /\ InStage(at'[p], todo'[p], p \in conn') \in Nat
    BY <1>2, InStageType
  <1> QED
    BY <1>2, <1>3 DEF WorkLeft

\* Entering a stage takes one off the list, which is more than the stage itself.
LEMMA EnterLess ==
    ASSUME NEW l \in Seq(Stage), l # <<>>, Head(l) \in OnThread \cup OnLoop,
           NEW held, NEW before \in Nat
    PROVE  13 * Len(Tail(l)) + InStage("running", Work[Head(l)], held) < 13 * Len(l) + before
  <1> DEFINE n == Len(Tail(l))
             w == Len(Work[Head(l)])
             i == InStage("running", Work[Head(l)], held)
  <1>1. Len(l) = n + 1 /\ n \in Nat
    OBVIOUS
  <1>2. Work[Head(l)] \in Seq(DbOp)
    BY WorkType
  <1> HIDE DEF w
  <1>3. i \in {3 + 2 * w, 4 + 2 * w} /\ w \in Nat
    <2>1. i \in {3 + 2 * w, 4 + 2 * w}
      BY <1>2, InStageType DEF w
    <2>2. w \in Nat
      BY <1>2 DEF w
    <2> QED
      BY <2>1, <2>2
  <1>4. w <= 4
    BY WorkHolds DEF w
  <1> HIDE DEF n, i
  <1>5. i <= 12 /\ i \in Nat
    BY <1>3, <1>4
  <1>6. 13 * n + i < 13 * (n + 1) + before
    BY <1>1, <1>5
  <1> QED
    BY <1>1, <1>6 DEF n, i

LEMMA MoverLess ==
    ASSUME IInv, HoldInv, NEW r \in Request, Proceed(r) \/ DatabaseReplies(r), ~LeaveToNext(r)
    PROVE  WorkLeft(r)' < WorkLeft(r)
  <1> DEFINE n == Len(rest[r])
             k == Len(todo[r])
             now == InStage(at[r], todo[r], r \in conn)
             after == InStage(at'[r], todo'[r], r \in conn')
  <1>1. TypeOK /\ rest[r] \in Seq(Stage) /\ todo[r] \in Seq(DbOp) /\ n \in Nat /\ k \in Nat
    BY DEF IInv, TypeOK, DbOp
  <1>2. TypeOK'
    <2>1. IInv'
      BY NextIInv DEF Next
    <2> QED
      BY <2>1 DEF IInv
  <1>3. todo'[r] \in Seq(DbOp) /\ rest'[r] \in Seq(Stage)
    BY <1>2 DEF TypeOK, DbOp
  <1>4. now \in Nat /\ after \in Nat
    BY <1>1, <1>3, InStageType
  <1>5. WorkLeft(r) = 13 * n + now /\ WorkLeft(r)' = 13 * Len(rest'[r]) + after
    BY DEF WorkLeft
  <1>6. ASSUME rest'[r] = rest[r], after < now
        PROVE  WorkLeft(r)' < WorkLeft(r)
    <2> HIDE DEF now, after
    <2> QED
      BY <1>1, <1>4, <1>5, <1>6
  <1>7. CASE StartThread(r) \/ Block(r)
    <2>1. /\ Reaches(r, OnThread \cup OnLoop)
          /\ at'[r] = "running" /\ rest'[r] = Tail(rest[r]) /\ todo'[r] = Work[Head(rest[r])]
      BY <1>1, <1>7 DEF StartThread, Block, Reaches, Enter, Goto, TypeOK
    <2> QED
      BY <1>1, <1>4, <1>5, <2>1, EnterLess DEF Reaches
  <1>8. CASE SendRedis(r)
    <2>1. rest[r] # <<>> /\ at'[r] = "redis" /\ rest'[r] = Tail(rest[r])
      BY <1>1, <1>8 DEF SendRedis, Reaches, Goto, TypeOK
    <2>2. after = 3
      BY <1>3, <2>1, InStageType
    <2>3. Len(rest'[r]) = n - 1 /\ n \in Nat \ {0}
      BY <1>1, <2>1
    <2> HIDE DEF n, now, after
    <2> QED
      BY <1>4, <1>5, <2>2, <2>3
  <1>9. CASE WaitForThread(r) \/ Close(r) \/ Rollback(r) \/ RedisAnswers(r)
    <2>1. /\ rest'[r] = rest[r]
          /\ \/ at[r] = "ready" /\ at'[r] \in {"queued", "closing", "done"}
             \/ at[r] = "closing" /\ at'[r] = "done"
             \/ at[r] = "redis" /\ at'[r] = "ready"
      BY <1>1, <1>9 DEF WaitForThread, Close, Rollback, RedisAnswers, Reaches, Goto, TypeOK
    <2> QED
      BY <1>1, <1>3, <1>6, <2>1, InStageType
  <1>10. CASE Leave(r) \/ Unblock(r)
    <2>1. at[r] = "running" /\ at'[r] = "ready" /\ rest'[r] = rest[r]
      BY <1>1, <1>10, RequestAssumption DEF Leave, Unblock, Goto, IInv, TypeOK, NothingLeaks
    <2>2. now \in {3 + 2 * k, 4 + 2 * k} /\ after = 2
      BY <1>1, <1>3, <2>1, InStageType
    <2> HIDE DEF now, after, k
    <2>3. after < now
      BY <1>1, <2>2
    <2> QED
      BY <1>6, <2>1, <2>3
  <1>11. CASE TakeConnection(r)
    <2>1. /\ at[r] = "running" /\ at'[r] = "running" /\ rest'[r] = rest[r] /\ todo'[r] = todo[r]
          /\ r \notin conn /\ r \in conn'
      BY <1>1, <1>11 DEF TakeConnection, Waits, At
    <2>2. now = 3 + 2 * k + 1
      BY <2>1 DEF InStage
    <2>3. after = 3 + 2 * k + 0
      BY <2>1 DEF InStage
    <2> HIDE DEF now, after, k
    <2>4. after < now
      BY <1>1, <2>2, <2>3
    <2> QED
      BY <1>6, <2>1, <2>4
  <1>12. CASE QueryAnswered(r) \/ Commit(r) \/ Sent(r)
    <2>1. /\ at[r] = "running" /\ at'[r] = "running" /\ rest'[r] = rest[r]
          /\ todo[r] # <<>> /\ todo'[r] = Tail(todo[r])
      BY <1>1, <1>12 DEF QueryAnswered, Commit, Sent, At, Did, TypeOK
    <2>2. Len(todo'[r]) = k - 1 /\ k \in Nat \ {0}
      BY <1>1, <2>1
    <2>3. now \in {3 + 2 * k, 4 + 2 * k} /\ after \in {1 + 2 * k, 2 + 2 * k}
      <3>1. now \in {3 + 2 * k, 4 + 2 * k}
        BY <1>1, <2>1, InStageType
      <3>2. after \in {3 + 2 * Len(todo'[r]), 4 + 2 * Len(todo'[r])}
        BY <1>3, <2>1, InStageType
      <3> QED
        BY <2>2, <3>1, <3>2
    <2> HIDE DEF now, after, k
    <2>4. after < now
      BY <2>2, <2>3
    <2> QED
      BY <1>6, <2>1, <2>4
  <1>13. CASE PoolTimeout(r) \/ QueryRefuses(r)
    <2>1. /\ at[r] = "running" /\ at'[r] = "running" /\ todo[r] # <<>>
          /\ todo'[r] = <<>> /\ rest'[r] = <<>>
      BY <1>1, <1>13 DEF PoolTimeout, TimesOut, QueryRefuses, Waits, At, Abandon, TypeOK
    <2>2. k \in Nat \ {0} /\ Len(todo'[r]) = 0 /\ Len(rest'[r]) = 0
      BY <1>1, <2>1
    <2>3. now \in {3 + 2 * k, 4 + 2 * k}
      BY <1>1, <2>1, InStageType
    <2>4. after \in {3, 4}
      <3>1. after \in {3 + 2 * Len(todo'[r]), 4 + 2 * Len(todo'[r])}
        BY <1>3, <2>1, InStageType
      <3> QED
        BY <2>2, <3>1
    <2> HIDE DEF now, after, k, n
    <2>5. after < now
      BY <2>2, <2>3, <2>4
    <2> QED
      BY <1>1, <1>4, <1>5, <2>2, <2>5
  <1>14. CASE TooManyConnections(r)
    <2>1. /\ at[r] = "ready" /\ at'[r] = "ready" /\ rest[r] # <<>> /\ rest'[r] = <<>>
      BY <1>1, <1>14 DEF TooManyConnections, Reaches, Abandon, TypeOK
    <2>2. now = 2 /\ after = 2
      BY <1>1, <1>3, <2>1, InStageType
    <2>3. n \in Nat \ {0} /\ Len(rest'[r]) = 0
      BY <1>1, <2>1
    <2> HIDE DEF now, after, n
    <2> QED
      BY <1>5, <2>2, <2>3
  <1>15. CASE RedisRefuses(r)
    <2>1. at[r] = "redis" /\ at'[r] = "ready" /\ rest'[r] = <<>>
      BY <1>1, <1>15 DEF RedisRefuses, Abandon, Goto, TypeOK
    <2>2. now = 3 /\ after = 2
      BY <1>1, <1>3, <2>1, InStageType
    <2>3. Len(rest'[r]) = 0
      BY <2>1
    <2> HIDE DEF now, after, n
    <2> QED
      BY <1>1, <1>5, <2>2, <2>3
  <1> QED
    BY <1>7, <1>8, <1>9, <1>10, <1>11, <1>12, <1>13, <1>14, <1>15 DEF Proceed, DatabaseReplies

\* A thread that is handed over brings both requests nearer to their end.
LEMMA HandOverLess ==
    ASSUME IInv, NEW r \in Request, LeaveToNext(r)
    PROVE  /\ WorkLeft(r)' < WorkLeft(r)
           /\ \A p \in Request : WorkLeft(p)' <= WorkLeft(p)
  <1>0. PICK q \in Request : q = Head(queue)
    BY HandOver
  <1>1. /\ q # r /\ at[q] = "queued" /\ at[r] = "running" /\ todo[r] = <<>>
        /\ at'[r] = "ready" /\ rest'[r] = rest[r] /\ todo'[r] = <<>> /\ at'[q] = "running"
        /\ rest[q] # <<>> /\ Head(rest[q]) \in OnThread
        /\ rest'[q] = Tail(rest[q]) /\ todo'[q] = Work[Head(rest[q])]
        /\ \A p \in Request \ {q, r} : Same(p)
    BY <1>0, HandOver
  <1>2. \A p \in Request : rest[p] \in Seq(Stage) /\ todo[p] \in Seq(DbOp) /\ Len(rest[p]) \in Nat
    BY DEF IInv, TypeOK, DbOp
  <1>3. \A p \in Request : WorkLeft(p) \in Nat /\ WorkLeft(p)' \in Nat
    BY LeftType DEF Next, Proceed
  <1>4. WorkLeft(r)' < WorkLeft(r)
    <2>1. <<>> \in Seq(DbOp) /\ Len(<<>>) = 0
      OBVIOUS
    <2>2. InStage(at[r], todo[r], r \in conn) \in {3, 4}
      <3>1. InStage("running", <<>>, r \in conn) \in {3 + 2 * Len(<<>>), 4 + 2 * Len(<<>>)}
        BY <2>1, InStageType
      <3>2. InStage("running", <<>>, r \in conn) \in {3, 4}
        BY <2>1, <3>1
      <3> QED
        BY <1>1, <3>2
    <2>3. InStage(at'[r], todo'[r], r \in conn') = 2
      BY <1>1, <2>1, InStageType
    <2>4. WorkLeft(r)' = 13 * Len(rest[r]) + 2
      BY <1>1, <2>3 DEF WorkLeft
    <2>5. WorkLeft(r) \in {13 * Len(rest[r]) + 3, 13 * Len(rest[r]) + 4}
      BY <2>2 DEF WorkLeft
    <2> QED
      BY <1>2, <2>4, <2>5
  <1>5. WorkLeft(q)' < WorkLeft(q)
    <2>1. InStage(at[q], todo[q], q \in conn) \in Nat
      BY <1>2, InStageType
    <2>2. 13 * Len(Tail(rest[q])) + InStage("running", Work[Head(rest[q])], q \in conn')
            < 13 * Len(rest[q]) + InStage(at[q], todo[q], q \in conn)
      BY <1>1, <1>2, <2>1, EnterLess
    <2> QED
      BY <1>1, <2>2 DEF WorkLeft
  <1>6. ASSUME NEW p \in Request, p # q, p # r
        PROVE  WorkLeft(p)' = WorkLeft(p)
    BY <1>1, <1>6, StayLeft
  <1>7. \A p \in Request : WorkLeft(p)' < WorkLeft(p) \/ WorkLeft(p)' = WorkLeft(p)
    BY <1>4, <1>5, <1>6
  <1>8. \A p \in Request : WorkLeft(p)' <= WorkLeft(p)
    BY <1>3, <1>7
  <1> QED
    BY <1>4, <1>8

\* Together with NothingElseBlocks: what has arrived is at its end after a number of
\* steps that its route bounds, and only the database can keep it from them.
THEOREM AllGoOnward == Spec => Onward
  <1> DEFINE Nearer ==
                \/ \E r \in Request : Arrive(r)
                \/ /\ \E r \in Request : WorkLeft(r)' < WorkLeft(r)
                   /\ \A r \in Request : WorkLeft(r)' <= WorkLeft(r)
  <1>1. IInv /\ HoldInv /\ [Next]_vars => [Nearer]_vars
    <2> SUFFICES ASSUME IInv, HoldInv, NEW r \in Request, Proceed(r) \/ DatabaseReplies(r)
                 PROVE  Nearer
      BY DEF Next
    <2>1. CASE LeaveToNext(r)
      BY <2>1, HandOverLess
    <2>2. CASE ~LeaveToNext(r)
      <3>1. WorkLeft(r)' < WorkLeft(r)
        BY <2>2, MoverLess
      <3>2. \A q \in Request \ {r} : WorkLeft(q)' = WorkLeft(q)
        BY <2>2, OthersStay, StayLeft
      <3>3. \A q \in Request : WorkLeft(q) \in Nat /\ WorkLeft(q)' \in Nat
        BY LeftType DEF Next
      <3>4. \A q \in Request : WorkLeft(q)' <= WorkLeft(q)
        BY <3>1, <3>2, <3>3
      <3> QED
        BY <3>1, <3>4
    <2> QED
      BY <2>1, <2>2
  <1> QED
    BY <1>1, Invariance, HoldInvariance, PTL DEF Spec, Onward
=============================================================================
