------------------------------- MODULE Worker -------------------------------
(***************************************************************************)
(* One worker process of the API and what its requests share: the event    *)
(* loop, the threads that run the synchronous code, the pool of database   *)
(* connections (fast_core/database.py) and that of Redis connections       *)
(* (fast_core/cache/redis.py).                                             *)
(*                                                                         *)
(* A request is a coroutine that goes through the stages of its route.     *)
(* Every synchronous dependency and endpoint is a stage of its own on a    *)
(* thread.  The Session of a request takes a connection at its first       *)
(* query, gives it back at a commit or when it is closed after the answer, *)
(* and keeps it in between: while the request waits for a thread again,    *)
(* for Redis, or for the mail server.  Login and refresh are coroutines    *)
(* that run their queries on the loop itself.                              *)
(***************************************************************************)
EXTENDS Naturals, Sequences, FiniteSets

CONSTANTS
    Request,    \* the requests; bound: each arrives once
    Route,      \* the routes that are asked for
    Threads,    \* threads of the worker
    PoolSize,   \* DB_POOL_SIZE + DB_MAX_OVERFLOW
    MaxRedis,   \* REDIS_MAX_CONNECTIONS
    Nobody      \* the loop runs no blocking call

ASSUME RequestAssumption == IsFiniteSet(Request) /\ Nobody \notin Request
ASSUME CapacityAssumption == {Threads, PoolSize, MaxRedis} \subseteq Nat \ {0}

VARIABLES
    at,         \* where the coroutine of a request is
    route,      \* what it asked for
    rest,       \* the stages it has still to enter
    todo,       \* the operations left of the stage it is in
    thread,     \* the requests that hold a thread
    queue,      \* the requests that wait for one
    loop,       \* the request whose blocking call the loop runs, or Nobody
    conn,       \* the requests that hold a database connection
    redis       \* the requests that hold a Redis connection

vars == <<at, route, rest, todo, thread, queue, loop, conn, redis>>

-----------------------------------------------------------------------------
(* Routes: the stages of the answer that takes the longest way.            *)

\* What a stage does besides computing.  "query" waits for the database,
\* "commit" gives the connection back, "send" waits for the mail server.
Work == [
    plain   |-> <<>>,
    read    |-> <<"query">>,
    write   |-> <<"query", "commit", "query">>,
    notify  |-> <<"query", "commit", "query", "send">>,
    remove  |-> <<"query", "commit">>,
    mail    |-> <<"query", "send">>,
    probe   |-> <<"query", "commit">>,
    upgrade |-> <<"query", "commit", "query">>,
    block   |-> <<"query">>]

OnLoop == {"upgrade", "block"}
OnThread == DOMAIN Work \ OnLoop
Stage == DOMAIN Work \cup {"redis"}

\* get_engine, get_db, get_redis and the other accessors read no row: however
\* many they are, one stage stands for them.
Accessors == <<"plain">>

CurrentUser == <<"plain", "read">>

\* get_current_active_superuser, get_user_service and get_item_service read no
\* row either, but wait for a thread again while the Session has its connection:
\* one stage stands for them too.
Services == <<"plain">>

Livez == <<"plain">>

\* The Redis ping and the bucket check run beside the database check.
Readyz == Accessors \o <<"probe">>

ReadUsers == CurrentUser \o Services \o <<"read">>
CreateUser == CurrentUser \o Services \o <<"notify">>
DeleteUser == CurrentUser \o Services \o <<"remove">>
Signup == Accessors \o <<"write">>
ReadItems == CurrentUser \o Services \o <<"read">>
WriteItem == CurrentUser \o Services \o <<"write">>

\* The rate limiter counts the request in Redis before the route is reached.
Limited == <<"redis">>

\* The hash is upgraded.
Login == Limited \o Accessors \o <<"upgrade", "redis">>
RefreshToken == Accessors \o <<"redis", "block", "redis", "redis">>
Logout == Accessors \o <<"redis">>
RecoverPassword == Limited \o Accessors \o <<"mail">>
ResetPassword == Limited \o Accessors \o <<"write">>

Program == [
    livez |-> Livez, readyz |-> Readyz,
    users |-> ReadUsers, user |-> CreateUser, unuser |-> DeleteUser, signup |-> Signup,
    items |-> ReadItems, item |-> WriteItem,
    login |-> Login, refresh |-> RefreshToken, logout |-> Logout,
    recover |-> RecoverPassword, reset |-> ResetPassword]

ASSUME RouteAssumption == Route \subseteq DOMAIN Program

-----------------------------------------------------------------------------

TypeOK ==
    /\ at \in [Request -> {"new", "ready", "queued", "running", "redis", "closing", "done"}]
    /\ route \in [Request -> Route \cup {"none"}]
    /\ rest \in [Request -> Seq(Stage)]
    /\ todo \in [Request -> Seq({"query", "commit", "send"})]
    /\ thread \subseteq Request /\ Cardinality(thread) <= Threads
    /\ queue \in Seq(Request)
    /\ loop \in Request \cup {Nobody}
    /\ conn \subseteq Request /\ Cardinality(conn) <= PoolSize
    /\ redis \subseteq Request /\ Cardinality(redis) <= MaxRedis

Init ==
    /\ at = [r \in Request |-> "new"]
    /\ route = [r \in Request |-> "none"]
    /\ rest = [r \in Request |-> <<>>]
    /\ todo = [r \in Request |-> <<>>]
    /\ thread = {}
    /\ queue = <<>>
    /\ loop = Nobody
    /\ conn = {}
    /\ redis = {}

LoopFree == loop = Nobody

\* The coroutine of r has the loop, and the next of its stages is among stages.
Reaches(r, stages) ==
    /\ at[r] = "ready"
    /\ LoopFree
    /\ rest[r] # <<>>
    /\ Head(rest[r]) \in stages

Goto(r, place) == at' = [at EXCEPT ![r] = place]

\* r leaves the list of its stages for the next of them.
Enter(r) ==
    /\ rest' = [rest EXCEPT ![r] = Tail(@)]
    /\ todo' = [todo EXCEPT ![r] = Work[Head(rest[r])]]

\* An exception, or an answer that skips what is left: 401, 404, 409, 500.
Abandon(r) ==
    /\ todo' = [todo EXCEPT ![r] = <<>>]
    /\ rest' = [rest EXCEPT ![r] = <<>>]

At(r, op) == at[r] = "running" /\ todo[r] # <<>> /\ Head(todo[r]) = op

Did(r) == todo' = [todo EXCEPT ![r] = Tail(@)]

Full == Cardinality(conn) >= PoolSize

Waits(r) == At(r, "query") /\ r \notin conn

\* Faulty variant: no pool_timeout.
NeverTimesOut(r) == FALSE

\* The pool stays full for DB_POOL_TIMEOUT seconds.
TimesOut(r) == Waits(r) /\ Full

-----------------------------------------------------------------------------
(* Faulty variants, which the properties must tell apart from the code. *)

ThreadIsFreeOneMore == Cardinality(thread) <= Threads /\ queue = <<>>

\* Nobody closes the Session of a request that has failed or ended.
CloseForgets(r) ==
    /\ at[r] = "ready"
    /\ LoopFree
    /\ rest[r] = <<>>
    /\ Goto(r, "done")
    /\ UNCHANGED <<route, rest, todo, thread, queue, loop, conn, redis>>

-----------------------------------------------------------------------------
(* The coroutine. *)

Arrive(r) ==
    /\ at[r] = "new"
    /\ LoopFree
    /\ \E name \in Route :
        /\ route' = [route EXCEPT ![r] = name]
        /\ rest' = [rest EXCEPT ![r] = Program[name]]
    /\ Goto(r, "ready")
    /\ UNCHANGED <<todo, thread, queue, loop, conn, redis>>

ThreadIsFree == Cardinality(thread) < Threads /\ queue = <<>>

StartThread(r) ==
    /\ Reaches(r, OnThread)
    /\ ThreadIsFree
    /\ thread' = thread \cup {r}
    /\ Enter(r)
    /\ Goto(r, "running")
    /\ UNCHANGED <<route, queue, loop, conn, redis>>

WaitForThread(r) ==
    /\ Reaches(r, OnThread)
    /\ ~ThreadIsFree
    /\ queue' = Append(queue, r)
    /\ Goto(r, "queued")
    /\ UNCHANGED <<route, rest, todo, thread, loop, conn, redis>>

\* authenticate and users.get are called without a thread: until they return,
\* the loop runs nothing else.
Block(r) ==
    /\ Reaches(r, OnLoop)
    /\ loop' = r
    /\ Enter(r)
    /\ Goto(r, "running")
    /\ UNCHANGED <<route, thread, queue, conn, redis>>

\* The thread has returned, and the loop resumes the coroutine: only then is
\* the thread free for the next in the queue.
Leave(r) ==
    /\ at[r] = "running"
    /\ r \in thread
    /\ todo[r] = <<>>
    /\ LoopFree
    /\ queue = <<>>
    /\ thread' = thread \ {r}
    /\ Goto(r, "ready")
    /\ UNCHANGED <<route, rest, todo, queue, loop, conn, redis>>

LeaveToNext(r) ==
    /\ at[r] = "running"
    /\ r \in thread
    /\ todo[r] = <<>>
    /\ LoopFree
    /\ queue # <<>>
    /\ LET q == Head(queue) IN
        /\ thread' = (thread \ {r}) \cup {q}
        /\ Enter(q)
        /\ at' = [at EXCEPT ![r] = "ready", ![q] = "running"]
    /\ queue' = Tail(queue)
    /\ UNCHANGED <<route, loop, conn, redis>>

Unblock(r) ==
    /\ loop = r
    /\ todo[r] = <<>>
    /\ loop' = Nobody
    /\ Goto(r, "ready")
    /\ UNCHANGED <<route, rest, todo, thread, queue, conn, redis>>

\* The exit of get_db closes the Session once the answer is sent, on a thread
\* that FastAPI does not take from the others'.  A Session that has a connection
\* rolls it back first.
Close(r) ==
    /\ at[r] = "ready"
    /\ LoopFree
    /\ rest[r] = <<>>
    /\ Goto(r, IF r \in conn THEN "closing" ELSE "done")
    /\ UNCHANGED <<route, rest, todo, thread, queue, loop, conn, redis>>

-----------------------------------------------------------------------------
(* The database and the mail server, from a thread or from the loop. *)

TakeConnection(r) ==
    /\ Waits(r)
    /\ ~Full
    /\ conn' = conn \cup {r}
    /\ UNCHANGED <<at, route, rest, todo, thread, queue, loop, redis>>

PoolTimeout(r) ==
    /\ TimesOut(r)
    /\ Abandon(r)
    /\ UNCHANGED <<at, route, thread, queue, loop, conn, redis>>

QueryAnswered(r) ==
    /\ At(r, "query")
    /\ r \in conn
    /\ Did(r)
    /\ UNCHANGED <<at, route, rest, thread, queue, loop, conn, redis>>

\* The database fails, or what it answers ends the request.  The Session stays
\* open until Close; the check of readyz gives its own connection back.
QueryRefuses(r) ==
    /\ At(r, "query")
    /\ r \in conn
    /\ Abandon(r)
    /\ conn' = IF route[r] = "readyz" THEN conn \ {r} ELSE conn
    /\ UNCHANGED <<at, route, thread, queue, loop, redis>>

Commit(r) ==
    /\ At(r, "commit")
    /\ conn' = conn \ {r}
    /\ Did(r)
    /\ UNCHANGED <<at, route, rest, thread, queue, loop, redis>>

\* The ROLLBACK of Close is answered, or its connection fails.
Rollback(r) ==
    /\ at[r] = "closing"
    /\ conn' = conn \ {r}
    /\ Goto(r, "done")
    /\ UNCHANGED <<route, rest, todo, thread, queue, loop, redis>>

\* The message is sent or has failed; the caller does not look.
Sent(r) ==
    /\ At(r, "send")
    /\ Did(r)
    /\ UNCHANGED <<at, route, rest, thread, queue, loop, conn, redis>>

-----------------------------------------------------------------------------
(* Redis. *)

SendRedis(r) ==
    /\ Reaches(r, {"redis"})
    /\ Cardinality(redis) < MaxRedis
    /\ redis' = redis \cup {r}
    /\ rest' = [rest EXCEPT ![r] = Tail(@)]
    /\ Goto(r, "redis")
    /\ UNCHANGED <<route, todo, thread, queue, loop, conn>>

\* The pool of Redis does not wait: a command too many is an error.
TooManyConnections(r) ==
    /\ Reaches(r, {"redis"})
    /\ Cardinality(redis) >= MaxRedis
    /\ Abandon(r)
    /\ UNCHANGED <<at, route, thread, queue, loop, conn, redis>>

RedisAnswers(r) ==
    /\ at[r] = "redis"
    /\ LoopFree
    /\ redis' = redis \ {r}
    /\ Goto(r, "ready")
    /\ UNCHANGED <<route, rest, todo, thread, queue, loop, conn>>

\* A lost connection, a socket timeout, or an answer that ends the request.
RedisRefuses(r) ==
    /\ at[r] = "redis"
    /\ LoopFree
    /\ redis' = redis \ {r}
    /\ Abandon(r)
    /\ Goto(r, "ready")
    /\ UNCHANGED <<route, thread, queue, loop, conn>>

-----------------------------------------------------------------------------

\* What goes on without the database.
Proceed(r) ==
    \/ StartThread(r) \/ WaitForThread(r) \/ Block(r)
    \/ Leave(r) \/ LeaveToNext(r) \/ Unblock(r) \/ Close(r)
    \/ TakeConnection(r) \/ PoolTimeout(r) \/ Sent(r)
    \/ SendRedis(r) \/ TooManyConnections(r) \/ RedisAnswers(r) \/ RedisRefuses(r)

DatabaseReplies(r) == QueryAnswered(r) \/ QueryRefuses(r) \/ Commit(r) \/ Rollback(r)

Next == \E r \in Request : Arrive(r) \/ Proceed(r) \/ DatabaseReplies(r)

Spec == Init /\ [][Next]_vars

(* asyncio resumes the coroutines that are ready in their order, threads   *)
(* are scheduled, the queue of threads is first come first served, waiting *)
(* for the pool, for Redis and for the mail server ends by a timeout.      *)
WorkerFairness == \A r \in Request : WF_vars(Proceed(r))

\* The database answers, or its connection fails.  No timeout of the code sees
\* to that, so that it is a premise of the property that needs it.
DatabaseFairness == \A r \in Request : WF_vars(DatabaseReplies(r))

FairSpec == Spec /\ WorkerFairness

-----------------------------------------------------------------------------
(* Properties *)

Busy == {r \in Request : at[r] \notin {"new", "done"}}

\* Whatever fails, wherever it fails, a request that is over holds none of what
\* the requests share; the threads, the loop and the Redis connections are held
\* by those that use them; and nobody waits for a thread who is not in its queue
\* once: nothing leaks, and nobody is forgotten, however long the worker runs.
NothingLeaks ==
    /\ conn \subseteq Busy
    /\ thread \cup ({loop} \ {Nobody}) = {r \in Request : at[r] = "running"}
    /\ loop \notin thread
    /\ redis = {r \in Request : at[r] = "redis"}
    /\ \A r \in Request : at[r] = "queued" => \E i \in DOMAIN queue : queue[i] = r
    /\ \A i \in DOMAIN queue : at[queue[i]] = "queued"
    /\ \A i, j \in DOMAIN queue : queue[i] = queue[j] => i = j

\* If the database answers, every request is answered: requests that hold
\* connections and wait for a thread, or for the loop, while those that hold the
\* threads, or the loop, wait for a connection, are freed from each other by
\* pool_timeout.
EveryRequestEnds ==
    DatabaseFairness => \A r \in Request : at[r] = "ready" ~> at[r] = "done"

\* r waits for an answer of the database.
Asks(r) == r \in conn /\ (At(r, "query") \/ At(r, "commit") \/ at[r] = "closing")

\* The loop, or every thread, is in the hands of requests that the database does
\* not answer.
HeldUp ==
    \/ loop # Nobody /\ Asks(loop)
    \/ Cardinality({r \in thread : Asks(r)}) = Threads

\* The guards of Proceed(r), action by action.
CanProceed(r) ==
    \/ Reaches(r, Stage)                                \* StartThread, WaitForThread, Block,
                                                        \* SendRedis, TooManyConnections
    \/ at[r] = "ready" /\ LoopFree /\ rest[r] = <<>>    \* Close
    \/ r \in thread /\ todo[r] = <<>> /\ LoopFree       \* Leave, LeaveToNext
    \/ loop = r /\ todo[r] = <<>>                       \* Unblock
    \/ Waits(r) /\ ~Full                                \* TakeConnection
    \/ TimesOut(r)                                      \* PoolTimeout
    \/ At(r, "send")                                    \* Sent
    \/ at[r] = "redis" /\ LoopFree                      \* RedisAnswers, RedisRefuses

\* When no request can go on by itself, each one under way waits for an answer of
\* the database, or the loop or every thread is in the hands of requests that do.
\* Handlers keep a connection while they wait for a thread or for the loop, and
\* those that have the threads or the loop wait for a connection; they do not
\* stand in such a circle, because the pool gives up on them.
StandsOnlyForDatabase ==
    (\A r \in Request : ~CanProceed(r)) => \A r \in Busy : Asks(r) \/ HeldUp

\* Whether or not the database answers, livez is answered unless the database
\* holds up the loop or every thread for good: a full pool, Redis and the mail
\* server do no such thing.
LivezAnsweredUnlessHeldUp ==
    \A r \in Request :
        (at[r] = "ready" /\ route[r] = "livez") ~> (at[r] = "done" \/ []HeldUp)
=============================================================================
