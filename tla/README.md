# TLA+ verification of ai-code-template

The repository is a FastAPI monorepo: a web application (`apps/api`), shared
packages (`packages/core`, `packages/testing`), feature modules
(`modules/auth`, `modules/items`) and operational scripts (`scripts`). Several
worker processes serve the API; they share one PostgreSQL database, one Redis and
one S3-compatible object store. What is hard about it is not in any one
handler but between them: every command a handler sends to Redis or to the
database is a point where another request, another process, a timeout or a crash
may come in between.

This directory holds TLA+ models of those parts, the TLC configurations that check
them, and proofs of their main invariants. Source paths are relative to the
repository root.

## 1. Inventory

| Component | Code | State it keeps | What is hard |
|---|---|---|---|
| Refresh tokens | `modules/auth/.../services/auth_service.py`, `routers/login.py` | one Redis key per token (digest -> user id) with a TTL | GET, user lookup, DEL and SET are separate commands; replies get lost; the account changes underneath |
| User accounts | `modules/auth/.../services/user_service.py`, `repositories/user_repository.py`, `deps.py`, `apps/api/scripts/create_superuser.py` | the `user` table | check-then-write on emails; rows read by one query and written by a later one; the caller's rights change during its call |
| Rate limiter | `apps/api/app/platform/rate_limit.py`, `packages/core/.../cache/client.py` | one Redis counter per path and client | INCRBY/TTL and EXPIRE are two round trips; EXPIRE may be lost or late |
| Cache service | `packages/core/.../cache/service.py` | cached values in Redis; a table of locks per `CacheService` object | double-checked locking, failures under the lock, values stored after they were invalidated |
| Probes | `apps/api/app/platform/health.py`, `api/routes/health.py` | the last `/readyz` result with its expiry | overlapping probes that end out of order; an answer composed of checks made at different moments |
| Items | `modules/items` | the `item` table, rows owned by users, deleted with them | owner deleted between check and insert; count and page read apart |
| Object storage | `packages/core/.../storage/client.py`, `factory.py` | the bucket, created at start-up | `ensure_bucket` by workers that start together |
| Lifespan | `apps/api/app/bootstrap.py` | engine, Redis client, storage client of a worker | a start-up that fails and is repeated by every worker on its own |
| Request execution | `packages/core/.../database.py`, `cache/redis.py`, the routers and `deps.py` | the event loop, the threads, the connections to the database and to Redis of one worker | requests keep a connection while they wait for a thread, for Redis or for the mail server; queries on the event loop |
| HTTP middleware | `apps/api/app/bootstrap.py`, `app/platform/*`, `exception_handlers.py` | a request id in the context of each task | which answers pass which layer; records written while other requests run |
| Deployment | `scripts/deploy.py`, `deploy/compose/compose.yml` | images, schema version, running containers | a deploy that fails half way and is continued by other commands; two operators at once; code that changes meanwhile; restarts and reboots |
| Module service script | `scripts/module_service.py` | none of its own | runs one feature module by itself: subprocesses in sequence |
| Developer scripts, settings, email templates, migrations, log layout, OpenAPI | | none, or none that changes at run time | pure validation, formatting, generated DDL or subprocess calls |

How they interact:

- A request passes the middleware (CORS, request id, security headers, rate limiter, in
  this order) and reaches a router. `deps.py` resolves the caller: it
  decodes the access token and reads the caller's row in the Session that the
  handler goes on to use.
- `AuthService` uses both stores: the `user` table for credentials and Redis for
  refresh tokens. Nothing ties the two together: the endpoints that change or
  delete an account do not touch Redis.
- `modules/items` uses `get_current_user` of `fast_auth` and a foreign key on the `user` table:
  the database deletes a user's items with the user.
- The rate limiter, the token store and the cache service share the Redis client
  (`CacheClient`) but not keys.
- `/readyz` asks the database, Redis and the object store and changes none of
  them. The container healthcheck and the deployment script act on its answer.

### What makes each component correct

- *Refresh tokens*: what has been exchanged, revoked or has expired earns nothing;
  an account that is not active gets no pair; a session ends only for a reason;
  no request crosses users; a token never comes back.
- *Accounts*: an email has one owner; nothing is done for a caller that had no right to
  it during the call; an update changes no column it was not asked to, and leaves what it was asked
  for in every column where the row it read had something else; what was deleted stays deleted;
  the password is the one that was last chosen.
- *Rate limiter*: at most the limit in each life of the counter, at most twice in
  any window, and nobody is locked out for good.
- *Cache service*: no needless load; no caller stuck behind a lock; stale values
  do not last.
- *Probes*: each part of an answer has grounds since its checks began, though the moments
  may differ; an outage and a recovery are both reported in the end.
- *Items*: a row has an owner that exists; only owners and superusers read or change
  it; an update changes what it was asked to; what was deleted stays deleted.
- *Request execution*: a request that is over holds nothing; no request waits for ever for
  what others hold while they wait for it; `/livez` answers when it can.
- *HTTP middleware*: records and answers carry the id of their own request.
- *Deployment*: a backend that was deployed never runs ahead of its schema, and what is
  brought up is what was migrated for, unless another image was built between a deploy's own
  migration and its `up`.
- *Object storage, lifespan*: workers that start together, or before the store is up,
  all serve in the end.

## 2. Modules

| Module | Contents |
|---|---|
| `TokenLedger` | abstract: claims, tokens that are open, and who holds them |
| `RefreshTokens` | login, refresh and logout at the grain of their commands; refines `TokenLedger` |
| `RefreshTokensProofs` | its invariant and refinement, proved |
| `AccountLife` | abstract: the stages of an account, as the other parts of the system may see them |
| `Accounts` | every writer of the `user` table; refines `AccountLife` |
| `AccountsProofs` | its invariant, action properties and refinement, and the theorems about `Tables`, proved |
| `Items`, `ItemsProofs` | the endpoints of the `item` table, over accounts that live as `AccountLife` says; its properties, proved |
| `Tables` | both tables of the database with all their writers: `Accounts` and `Items` over one user table |
| `RateLimiter` | the shared counter |
| `Gateway` | the middleware stack around the rate limiter, which it extends |
| `RateLimiterProofs` | the limit, that `Gateway` implements `RateLimiter`, and the properties of the stack, proved |
| `CacheService`, `CacheServiceProofs` | `get_or_set`, `set` and `delete` over one key; the count of loads, proved |
| `Worker`, `WorkerProofs` | what the requests of one worker process hold and wait for; that nothing leaks, proved |
| `Deployment`, `DeploymentProofs` | the commands of `deploy.py`, Compose, and the start of the workers; the order of migration and start, proved |
| `Readiness`, `ReadinessProofs` | `/readyz` with its cache; the grounds of its answers, proved |
| `MC...` | the instances for TLC: sets, start tables, calls, symmetry |

A module `X` of a component extends only standard and community modules (`Gateway` also
`RateLimiter` and `Tables` `Accounts`, whose actions they compose), and instantiates the abstract ones, so that both TLC (`MCX` extends `X`) and the proofs
(`XProofs` extends `X`) use the same definitions. Operators under the heading "Faulty variants" are no part of a
specification: each is a bug a change to the code could bring in, kept to
confirm that the property it aims at notices it.

### RefreshTokens

`live` is Redis: token -> user. `account` is what the lookup of a row can find out.
`pc[r]` names the next command of request `r`; between two commands anything else
may happen. The actions follow the code:

| Code | Actions |
|---|---|
| `create_token_for_login` | `ReceiveLogin`, `LoginRefused`, `LoginAccepted`, `Store` |
| `refresh_access_token` | `ReceiveRefresh`, `GetMiss`/`GetHit` (GET), `LookupGone`/`LookupInactive`/`LookupActive` (SELECT), `Purge` or `Consume` (DEL), `Store` (SET) |
| `logout` | `ReceiveLogout`, `Revoke` |
| a failed command or a dead worker | `Fail` (before it takes effect); the 500 in `Store`, `Purge`, `Revoke` (after) |
| Redis TTL | `Expire` |
| the account endpoints | `SetActive`, `DeleteUser` |

`caller`, `owner`, `expired`, `late` and `blocked` are history: no guard that models
code reads them, apart from `owner`, which also says which uuids are unused. Clients
present only tokens they were given (`Handed`); a string nobody minted is served like
an expired token. Access tokens are stateless and left out.

`TokenLedger` says what the endpoints promise without commands and failures: a
request earns a claim by a login or by showing an open token, a claim is worth one
token for the same user, and a closed token never opens again. The mapping is
`holder <- owner`, `open <- {t : Live(t)}`, and a request holds a claim from the moment
its token or password was found good to its SET. The ledger deliberately allows two
claims on one token: that is what the code does, and the run
`refresh_exchange` shows it.

### Accounts

`row` is the table. Each call reads its caller (`AuthRefused`, `AuthPassed`), then its
target (`FindRefused`, `FindPassed`), then the owner of an email (`Check...`), then
flushes and commits (`InsertRow`, `UpdateRow`, `UpdateFails`, `UpdateNothing`,
`DeleteRow`), then reads the row again (`Refresh`). A call knows only what its Session
has read (`seen`), and what it writes is the difference between that and the body, as
SQLAlchemy's unit of work computes it (`Dirty`, `Patched`): a column that the body sets to what
the Session has read is not written, so that a change somebody else has committed there since
survives an update answered by 200 (`user_repository.py:60`), and `ColumnsKept` promises nothing of
such columns. READ COMMITTED gives every
query the latest committed table. Flush and COMMIT are one step: the row lock and the
unique index make others wait until then. A hash is the password it verifies and
whether it is of the old algorithm, because `authenticate` writes a new hash when it
is. `entitled` and `chosen` are history.

The `user` rows that were inserted are remembered in `born`: ids are uuids and never
return. The reading endpoints change nothing and are left out.

`AccountLife` is what the rest of the system may rely on: an account is unborn, then
inactive, a user or a superuser in any order, and then deleted for good. `Stages` maps
the table to it. `RefreshTokens` (`SetActive`, `DeleteUser`) and `Items` assume no more
of the accounts.

### Items

`owner` and `title` are the table, `account` the stages of the accounts. `AuthRefused` and
`AuthPassed` are `get_current_user`, `GetRefused` and `GetPassed` are `get_item` with its
404 and 403, `Count` and `Page` the two queries of `list_for_user`, `InsertItem`,
`UpdateItem`/`UpdateFails` and `DeleteItem` a flush with its COMMIT, and `Refresh` the query
after it. `superuser` and `seen` are what the Session of a request has read. Accounts
change by `AccountChanges` and `AccountDeleted` (ON DELETE CASCADE). A page is any subset
of the right size: the sort fields are wording. `maker` and `roles` are history: whom a
row was inserted for and the rights the caller had during the call; `maker` also says
which uuids are unused.

### Tables

`Items` by itself assumes accounts that do what `AccountLife` allows. `Tables` puts the two
components on one database: `I` is `Items` with `account <- Stages`, its requests, calls and
variables renamed. A step of `Accounts` (`AccountsStep`) is joined by what the database makes
of it in the other table (`Cascade`, for the rows it deletes) and by the history of `Items`
(`Observe`); a step of an items request (`ItemsStep`) leaves the user table alone and reads it as
`Stages`. Nothing else deletes items: `UserService` could be given a
`delete_user_related_data`, and nobody gives it one. `ItemsAssumptions` are the ASSUMEs of `Items`
for the constants put in.

### RateLimiter

`counter` and `remaining` are the value and the TTL of one key. `Register` and
`RegisterAndExpire` are the MULTI of INCRBY and TTL, together with the decision;
`ExpireKey` is the EXPIRE that follows when TTL answered -1. A command may run and its
reply be lost (`RegisterFails`), or not be sent (`RegisterUnsent`, `ExpireFails`). `Tick` is
the clock of Redis. `granted` and `recent` are history: what was let through in this life of the
key, and in this tick and the `a` before it, as a running total for every `a` up to the
window. Different clients and paths have different keys and do not meet.

### Gateway

`Added` is the order in which `create_app` adds the layers, and `Stack` the order in which
a request passes them, because Starlette puts each in front of those before. `stage` is
where a request is: before its count (`counting`), between the count and EXPIRE (`granted`,
`refused`) or in its handler (`routed`). Each action that talks to Redis is a conjunction
of one of `RateLimiter` with what the middleware makes of it: `Count`, `CountFirst` and
`SetExpiry` let the request through or answer 429; `CountFails`, `CountUnsent` and
`ExpiryFails` raise, because nothing between Redis and `unhandled_exception_handler`
catches what redis-py raises: limited paths fail closed. `Outside(layer)` are the layers an
answer passes when it is made at `layer`; an exception passes none, since Starlette
registers the handler of `Exception` in its outermost layer. `context[r]` is the ContextVar
of the task of `r`, set before anything is awaited. `record` and `sent` are the last log
record and the last answer. A handler may log, answer or raise.

### Worker

One worker process. A request is a coroutine (`at`) that goes through the stages of its
route (`rest`); a stage is a list of operations (`todo`). Every synchronous dependency
and endpoint is a stage on a thread of its own (`thread`, first come first served by `queue`),
as FastAPI runs them; `await`ed Redis commands are stages that take a connection of the
Redis client (`redis`); `login` and `refresh` are coroutines, whose queries
(`auth_service.py:62`, `:109`) run on the event loop itself (`Block`, `loop`).

| Code | Actions |
|---|---|
| FastAPI and anyio | `Arrive`, `StartThread`/`WaitForThread`, `Leave`/`LeaveToNext`, `Block`, `Unblock` |
| the engine's pool, `pool_timeout` | `TakeConnection`, `TimesOut`/`PoolTimeout` |
| queries and commits, and their failures | `QueryAnswered`, `QueryRefuses`, `Commit` |
| `get_session`, after the answer | `Close`, and `Rollback` where the Session still has a connection |
| `send_email` | `Sent` |
| the Redis client, `max_connections`, `socket_timeout` | `SendRedis`/`TooManyConnections`, `RedisAnswers`/`RedisRefuses` |

A Session takes its connection at the first query and gives it back at a commit, which the
next query undoes, or after `Close`, which is over (`closing`) only when the database has answered the
ROLLBACK. So a request to `/users/` holds its connection while it queues for a thread again: for
`get_current_active_superuser` and `get_user_service`, which read nothing and are one stage
(`Services`), and for its endpoint. The operators `Livez` ... `ResetPassword` are the routes as
sequences of stages, each the longest way through its handler; every failure and
early return is `Abandon`. Threads for `Close` are not taken from the others (FastAPI
exits dependencies with a limiter of its own).

### CacheService

`stored` is the key in Redis, `queue` the asyncio lock of each `CacheService` with its
waiters in order, `pc` the next await of each call. `Get`, `Acquire`, `GetAgain`, `Load`
and `Set` are `get_or_set`; `GetFails`, `LoadBypass`, `GetAgainFails`, `LoadBare`,
`SetFails` and `LoadRaises` are its failures, which fall back to the loader or pass
its exception on. `Change`, `Delete`, `Put` and `DeleteFails` are a writer that changes the
source and then deletes the key or sets it to what it has written. `NullVersions` are values of the source that are
None: `decode_json` cannot tell a cached null from no key. `loads` and `excuses` are
history.

### Readiness

`ServeCached` and `StartChecks` are the two branches of `cached_readiness_response`,
`Check` one dependency's check, `Finish` the end of the gather and
`ReadinessCache.set`. Any number of probes may be past the cache at a time. `Toggle`
and `Migrate` change the world; `Tick` is half a second. The check of the database
passes on any schema version, as in the code (`health.py:83`): it tells a database that
was never migrated from one that was, and not an older schema from a newer one.
`grounds` and `basis` are history: what would have passed or failed at some moment
since the checks began.

### Deployment

`image`, `schema` and `container` are the versions of the image, of the database and of the
backend container; `created` and `running` are the services it depends on; `phase` is what
each worker does; `deploy` is the subcommand that a running `deploy` is at. Nothing locks
anything, so every other command may come between the subcommands of a `deploy`: another
operator's, of whom a second `deploy` is a sequence of single commands. Redis is left
out: neither a migration nor the start of a worker touches it.

| Code | Actions |
|---|---|
| `run_deploy` | `Deploy`, `DeployBuild`, `DeployMigrate`/`DeployMigrateFails`, `DeployUp`; `DeployFails` is a subcommand that fails, before or after what it does, or is interrupted |
| the other subcommands | `Build`, `Migrate`, `UpAlone`/`UpFails`, `Down`, `Restart` |
| the operator's git | `Checkout` |
| `docker compose up -d` | `Up` (services until they are healthy, then the backend, which is made anew if its image or settings changed), `UpAborted` |
| `lifespan`, `create_object_storage`, `ensure_bucket` | `Start`, `FindBucket`/`MissBucket` (HEAD), `CreateBucket` (PUT), `StorageFails`, `CreateUnanswered` |
| the supervisor of the workers, `restart: always` | `Revive`, `ServiceRestarts`, `HostReboots` |

A migration needs a database that runs (`--no-deps` starts none) and fails on a schema
newer than the image, because alembic does not know its revision. Every version is taken
to have a migration. `byDeploy` and `overtaken` are history: a deploy brought up the version that the
container runs, and nobody replaced the image between that deploy's migration and its `up`
(`Overtake`). Without the second, neither `MigratedBeforeServed` nor `DeployFits` would hold:
nothing in `deploy.py` keeps a second `build` away. `Checkout` moves the checkout to any other
version, because an operator goes back as well as forth; it is what the operator does with git, and
not the subcommand `pull`, which changes nothing (see section 5).

## 3. What TLC checks

| Run | Instance | Properties | States |
|---|---|---|---|
| `refresh_sessions` | 2 users, 3 tokens, 4 requests | `TypeOK`, `ReplayRefused`, `BlockedAccountRefused`, `SessionKept`, `SessionKeepsUser`, `TokenNotReborn`, `ImplementsLedger` | 435,184 |
| `refresh_exchange` | 1 user, 3 tokens, 3 requests | `ExchangedOnce`, violated | |
| `accounts_calls` | 5 ids, 4 emails, 3 calls out of 18 | `TypeOK`, `UniqueEmail`, `AuthorityHeld`, `DeletedStaysDeleted`, `ColumnsKept`, `ImplementsLife` | 571,204 |
| `accounts_password` | 2 calls out of 2 | `ChosenPasswordHolds`, violated | |
| `items_calls` | 2 users, 2 items, 2 titles, 2 calls out of 10 | `TypeOK`, `OwnerExists`, `AuthorityHeld`, `DeletedStaysDeleted`, `ItemKept` | 1,378,861 |
| `gateway_requests` | 2 requests, limit 2, window 3, 2 failures | `TypeOK`, `GrantedPerLife`, `GrantedPerWindow`, `Attributed`, `WindowCloses` | 242,963 |
| `cache_once` | 3 calls, 1 service, 2 changes, one null value | `TypeOK`, `LoadsJustified`, `QueueServed`, `StaleExpires` | 32,717 |
| `cache_per_request` | 2 calls, a service each | `OneLoadPerProcess`, violated | |
| `readiness_probes` | 2 probes, 2 dependencies | `TypeOK`, `AnswerJustified`, `OutageIsReported`, `RecoveryIsReported` | 133,980 |
| `worker_requests` | 3 requests, 6 kinds of route, 1 thread, 1 + 1 connections | `TypeOK`, `NothingLeaks`, `StandsOnlyForDatabase`, `EveryRequestEnds`, `LivezAnsweredUnlessHeldUp` | 319,506 |
| `deployment_commands` | 2 versions, 2 workers, 6 commands, 2 faults | `TypeOK`, `MigratedBeforeServed`, `DeployFits`, `WorkersServe` | 156,893 |
| `deployment_first` | 2 commands, no fault | `DeployStartsStack`, violated | |

Why the bounds are enough:

- *Refresh tokens*: to replay or cross a token takes a login, two requests on its
  token, and one for the token that comes of them: four requests and three tokens.
  A second user is there for a mix-up. Requests are not reused: a longer session is
  more of the same, since a finished request leaves only its answer.
- *Accounts*: three calls are two that race and one that changes the rights of
  either. The 18 calls cover every operation and are chosen to collide: three ways
  to `e4`, six to change or delete user 3, superusers who demote, disable and delete
  each other. Five ids are three rows and two insertions.
- *Items*: two calls race on one item while accounts change freely underneath, so that a
  third call is not needed to take the rights or the row away. The calls are a
  pair of each kind, by the owner of an item and by a superuser.
- *Rate limiter and gateway*: two requests in progress, reused without end, let one be late
  with its EXPIRE while the other starts a new life of the key, and one write a record
  while the other sets its id. The counter saturates one above the limit, because the code
  only compares it with the limit; limit 2 and window 3 are the least with a request that
  is neither the first nor the last of its life and an instant that is neither end of the
  window. Two failures lose the EXPIRE of a life twice.
- *Worker*: with one thread and one connection, one request is enough to fill what the others
  need, and three requests are one that holds the connection, one that holds the thread and
  `livez`. The six kinds of route contain every kind of stage but `remove`, `mail` and `write`,
  which are parts of the others' (`notify`). Each request arrives once: a worker has no
  memory beyond what its requests hold, so that `CHECK_DEADLOCK FALSE` in this run: it is quiet
  when they are over.
- *Cache service*: three calls are a holder, a waiter and one that comes when they
  are done; two changes let a stale value be overtaken twice.
- *Readiness*: two overlapping probes and two dependencies that fail independently.
- *Deployment*: six commands are a first deploy (the stack comes up once with `up`, or the
  deploy fails), a checkout, a second deploy and one command between or after them; two faults
  let one step fail and the host reboot. Two versions are an older and a newer one, in
  either order, and two workers are a winner and a loser of the race for the bucket. The
  bounds `MaxCommands` and `MaxFaults` also say that the operator and the failures
  stop in the end, which `WorkersServe` needs.

Symmetry (users, tokens, requests) is used only in the runs without liveness
properties. Terminal states are named (`Quiescent`), so that deadlock is checked in
every run but `worker_requests`. In `RefreshTokens`, `Quiescent` allows no token with a TTL to
be left, so that the check of deadlocks also says that the tokens of a deleted user can always
expire.

### Fairness

Every fairness condition but one is weak, and on a step that nothing in the code can put off:

- a handler goes on (`WF` of `Proceed`, `Finish`, `Answers \/ ExpiryFails`):
  the event loop resumes a coroutine whose command was answered, and a command that
  is not answered ends by `socket_timeout` (2 seconds). The
  condition is on the disjunction with the failures: no command is assumed to succeed.
- Redis removes a key at the end of its TTL (`WF` of `Expire`), and clocks advance
  (`WF` of `Tick`).
- a worker goes on with its start, a dead one is started again, and so is a stopped
  container (`WF` of `Serve` and `ServiceRestarts`): the supervisor of `fastapi run --workers`
  and `restart: always` of `compose.yml`. A start may fail again.
- in `Worker`, a request proceeds (`WF` of `Proceed`) whenever it does not wait for the
  database: threads are scheduled, the queue of threads is first come first served, and
  waiting for the pool, for Redis and for the mail server ends by a timeout. No timeout of the
  code bounds a query, so that the database's answers are not fair in the specification;
  `EveryRequestEnds` has them as a premise and `LivezAnsweredUnlessHeldUp` does without.
- for the same reason the checks of a probe are not fair: the database's has a timeout for its
  connection (`database.py:11-16`) and none for its query. `OutageIsReported` does without, and
  so does the first half of `RecoveryIsReported`; the second half, that the probes answer `ok`, has
  `ChecksEnd` as a premise.
- probes are repeated, as the container's healthcheck is (`WF` of `Arrive`), and a client
  that is refused asks again, whatever else is asked for (`SF` of `ReceiveLimited`): without
  requests there is nobody to be locked out. Both are assumptions on the surroundings.

Clients, administrators, changes of the source and outages have no fairness.

## 4. What is proved

`RefreshTokensProofs`, `AccountsProofs`, `ItemsProofs`, `RateLimiterProofs`,
`CacheServiceProofs`, `ReadinessProofs`, `WorkerProofs` and `DeploymentProofs` are checked by TLAPS for every value of the constants. They
assume what the modules assume: null values are outside the sets they complete; the
table a deployment starts with respects the unique index (`TableAssumption`); calls
are what the schemas of the routers let through (`CallAssumption`); limit and window
are positive; the set of items is finite; the database is among the dependencies; there is
a version of the code.

| Theorem | Statement |
|---|---|
| `RefreshTokensProofs!TypeCorrect`, `LateRequestsRefused`, `BlockedAccountsRefused`, `SessionsKeepUser`, `SessionsAreKept`, `TokensAreNotReborn` | the safety properties of the first run |
| `RefreshTokensProofs!LedgerRefined` | `Spec => Ledger!LedgerSpec` |
| `AccountsProofs!TypeCorrect`, `EmailsUnique`, `AuthorityKept`, `DeletionsLast`, `ColumnsAreKept` | the safety properties of `accounts_calls`; `ColumnsAreKept` both halves of `ColumnsKept`, without the columns that were equal in the row that was read |
| `AccountsProofs!ChosenPasswordKept` | `ChosenPasswordHolds`, if the deployment starts without hashes of the old algorithm |
| `AccountsProofs!LifeImplemented` | each account of `Spec` implements `AccountLife` |
| `AccountsProofs!AccountsImplemented`, `ItemsImplemented` | `TablesSpec => Spec` and `TablesSpec => I!Spec`: what is proved of each component holds on the common database |
| `AccountsProofs!OwnersAlwaysHaveRows`, `NothingIsLeft` | there, an item's owner has a row; once a deletion of an account is answered no item is its |
| `ItemsProofs!TypeCorrect`, `OwnersExist`, `AuthorityKept`, `DeletionsLast`, `ItemsAreKept` | all properties of `items_calls` |
| `RateLimiterProofs!TypeCorrect`, `LimitKept`, `WindowKept` | types; `GrantedPerLife`; `GrantedPerWindow` |
| `RateLimiterProofs!LimiterImplemented` | `GatewaySpec => Spec`: what is proved of the limiter holds within the stack |
| `RateLimiterProofs!AnswersAttributed` | `Attributed` |
| `CacheServiceProofs!TypeCorrect`, `LoadsAreJustified`, `OneLoaderWhereShared` | types and the order of the lock; `LoadsJustified` and `OneLoadPerProcess` where all calls share a service |
| `ReadinessProofs!TypeCorrect`, `AnswersJustified` | types; `AnswerJustified`: grounds for each part of an answer, not for all at one moment |
| `WorkerProofs!TypeCorrect`, `NothingEverLeaks` | types and capacities; `NothingLeaks` |
| `WorkerProofs!NothingElseBlocks` | `StandsOnlyForDatabase`: when no request can go on, each waits for an answer of the database or behind requests that do |
| `WorkerProofs!AllGoOnward` | every step but an arrival brings a request nearer to its end and none further from it |
| `DeploymentProofs!TypeCorrect`, `MigratedFirst`, `DeploysFit` | the safety properties of `deployment_commands`, with the exception for a deploy that another build has overtaken |

None of the properties is inductive by itself. The strengthenings:

- *Refresh tokens* (`IInv`): `TokenInv` gives every minted token that is gone a reason;
  `StepInv` ties `pc`, `op` and `answer`; `EndInv` says that a token that was exchanged,
  or is about to be, is not in Redis; `RefreshInv` that a late request never gets past
  its GET and the others know their user; `BlockedInv` that a request past the check of
  `is_active` has seen an active account; `PairInv` collects what a pair proves. The
  refinement is by cases: each action is a ledger step or a stutter, and `Store` is the
  one that uses up a claim.
- *Accounts* (`IInv`): `UniqueEmail` holds only because of the index, and needs nothing of
  the checks that precede a write; `AuthorityInv` says that a call past its check was
  entitled at some moment, and that whoever is entitled now has it noted; `DeletionInv`
  that a row to be deleted is an id that cannot be inserted again. `ColumnsKept`
  follows from it step by step: only three actions write the table, and of those that do not, a
  saving call had nothing to write (`SavingStep`). `LifeImplemented` maps
  the row of one account to its stage: insertion, update and deletion are steps of
  `AccountLife`, every other action stutters. `ChosenPasswordKept` needs `HashInv`: without
  old hashes no login goes on to write, and every other hash that is written is noted as chosen.
- *Both tables*: the invariant is the conjunction of the two components' own. The step of
  `LifeImplemented` says which account an `Accounts` step changes, and `OwnerExists` that only a
  deletion has items to cascade to; so that the step is to `Items` an `AccountChanges`, an
  `AccountDeleted` or a stutter. `NothingIsLeft` joins the two: the row whose deletion was answered
  does not come back (`DeletionInv`), and an item has an owner with a row.
- *Items* (`IInv`): `TableInv` adds to the foreign key that a row never changes its owner;
  `StepInv` ties the next query of a request to its call; `AuthorityInv` says that the rights
  of a caller are noted while its call lasts and that a request past `can_access_item` had
  the right at some moment; `DeletionInv` that an item whose deletion was answered is gone.
- *Rate limiter*: `granted <= counter`. The limit follows, as the counter grows past the
  limit exactly when requests stop being let through, and both are reset together. For the window,
  `WindowInv`: whatever stretch up to the window's length one looks back over, at most one earlier
  life is in it, and none within the ticks that this life has certainly lasted (the window less
  the TTL left).
- *Gateway*: the task of a request under way holds the request's id (`ContextInv`), and both
  layers are outside of the limiter and of the router (`Layers`).
- *Worker*: who holds the thread, the loop or a Redis connection is where its coroutine says
  (`NothingLeaks`), queue entries are distinct, and a connection belongs to a busy request; the
  cardinalities follow from the guards of the actions that take something. `NothingElseBlocks` adds
  `HoldInv`: nobody waits for a thread while one is free, a request that is not running has nothing
  left of its stage, and a commit comes only while the connection of its query is held.
  `AllGoOnward` counts what is left of a route (`WorkLeft`). The two are what safety can say of
  `EveryRequestEnds`: a circle of waits and an endless retry are excluded for any number
  of requests, threads and connections. ENABLED is out of the prover's reach, so
  `CanProceed` writes the guards of `Proceed` out, for `StandsOnlyForDatabase` as for its proof;
  TLC finds it equal to `ENABLED Proceed(r)` on the instance of `worker_requests`.
- *Cache service*: `QueueInv` (each task is in the queue of its service once, and only the
  first is past the lock) gives mutual exclusion; with it, `LoadInv`: loads never
  exceed excuses by more than one, and not at all when the value is neither cached
  nor in a loader's hands.  `OneLoaderWhereShared` is the mutual exclusion itself.
- *Readiness*: a probe in flight has noted the grounds of every result it has found and
  of what holds now (`FoundInv`), and the cached status has those of the probe that
  stored it (`CacheInv`).
- *Deployment* (`IInv`, in its proofs): while `deploy` is at its migration or its `up` there is an
  image, and at its `up` the schema is that of the image unless it was overtaken (`ScriptInv`); a server without a
  container has no history. A migration never lowers the schema.

`IInv` of `RefreshTokens`, `Accounts` and `Items` is in the module of the component, where
TLC can check it as an invariant too.

Only model-checked: all liveness properties (`WindowCloses`, `QueueServed`,
`StaleExpires`, `OutageIsReported`, `RecoveryIsReported`, `WorkersServe`, `EveryRequestEnds`,
`LivezAnsweredUnlessHeldUp`), because the prover
does not handle fairness. Only proved: the theorems about `Tables`, of which TLC has seen
an instance with 2 calls of each component (504,192 states) that is not among the runs, and
`AllGoOnward`.

A note for whoever extends the proofs: the SMT translation of `tlapm` 1.4.5 takes the
intersection of two sets that are both listed (`{x} \cap {"a", "b"}`) for the elements that are written
alike in both, and so proves `{x} \cap {"a"} = {}` for every `x`. No definition or proof here
uses such an intersection; a listed set is filtered instead (`RightsOf` of `Items`).

## 5. Disagreements found

Each is a run in which TLC finds a counterexample to what the repository says of the code.

1. `ExchangedOnce` (`auth_service.py:106`). "Refresh access token and rotate refresh token"
   (`routers/login.py:34`): two requests that both GET the token before either DELs it both
   get a pair. The number of keys DEL removed is not looked at. What does hold
   is `ReplayRefused`: a request that comes after the exchange was answered gets nothing.
2. `ChosenPasswordHolds` (`auth_service.py:74`). A login that upgrades an old hash writes
   the hash of the password it verified; a password change that commits between its read
   and its write is undone after it was acknowledged. `ChosenPasswordKept` shows that
   nothing else does: without old hashes the property holds.
3. `OneLoadPerProcess` (`cache/service.py:138`). "The local lock only solves the stampede of a
   single process" (`:127`): every request makes a `CacheService` of its own, so its locks are
   shared with nobody. `LoadsJustified` shows what the lock achieves where it is shared, and
   `OneLoaderWhereShared` proves the statement there.
4. `DeployStartsStack` (`scripts/deploy.py:73`). "`deploy` runs the build of the images, the
   migration of the database and the start of the services one after the other"
   (`deployment.md:76`), as the command that starts the application: the migration is run with
   `--no-deps`, before the `up` that would start the database. On a fresh server, and after
   `down`, `deploy` fails at its second step; `up` and then `deploy` works.

Two more have no run of their own:

- "After updating the server's code, redeploy: `python scripts/deploy.py pull`, `deploy`"
  (`deployment.md:96-101`). `pull` runs `git pull --fast-only` (`deploy.py:103`); git has no such
  option (it is `--ff-only`), so that the subcommand always fails and `deploy` builds the old code
  again. There is no behaviour to explore in it; the model moves the checkout by `Checkout`.
- Two operators. A `build` between the migration and the `up` of another's `deploy` makes that
  `up` start code the database was not migrated for (`deploy.py:76`). Nothing in the repository says
  that commands may overlap or that they must not; `MigratedBeforeServed` and `DeployFits` except
  this case, and hold in all others.

What was looked at and holds: `ensure_bucket`, which `docs/object-storage-architecture.md`
calls idempotent, is a race between the workers of one container, and the loser's
start fails with `ObjectStorageBucketError`; `WorkersServe` shows that the restart heals it.

Two more statements of the documents hold only with the exceptions that a property names:

- "`/livez`: judges only whether the process can answer, does not depend on the database or
  external services" (`docs/coding-rules.md:562`). `livez` is a synchronous endpoint and needs
  a thread, and `login` and `refresh-token` run their queries on the event loop:
  `LivezAnsweredUnlessHeldUp` holds because it excepts a database that does not answer
  the requests that hold the loop, or every thread.
- "Response headers must contain `X-Request-ID`" (`docs/architecture.md:305`) and "the application
  adds the agreed security headers" (`:324`). `Attributed` excepts the answers to CORS preflights
  and to exceptions that nobody handles, among them every Redis failure of the rate
  limiter: both are made outside of the layers that add the headers. The log record of
  such an exception does carry the id.

## 6. Not modelled

- *Token signing, password hashing, digests*: cryptography; tokens are identities and
  hashes are the passwords they verify.
- *Settings*: a pure validation of the environment, read once when a process starts.
- *Log layout, redaction, OpenAPI, email templates*: formatting. The reset link is the call
  `reset` it makes possible.
- *Schema migrations*: generated DDL. The unique index on the email is what `IndexAllows`
  models, the foreign key of the items `MayOwn`.
- *Object operations of the storage client* (put, head, delete, presigned URLs): single requests
  to an external service without state in the program, and nothing in the repository
  calls them yet.
- *The end of a process* (`close_redis`, `engine.dispose`): what it does not close, the end of
  the process does.
- *Module service script*: its `deploy` is a build and a push of one image, the other commands
  are single subprocesses.
- *Developer and verification scripts*: sequences of subprocesses.
- *What `readyz` holds beside its database connection*: its Redis ping and bucket check run
  concurrently and wait for nothing that requests hold, except for a Redis connection, whose
  want is a failed check.

## 7. Plan

Order of the modules, the most important first, all done: `RefreshTokens` with `TokenLedger`;
`Accounts` with `AccountLife`; `RateLimiter`; `CacheService`; `Readiness`; `Items`;
`Deployment` with overlapping commands; `Worker`; `Gateway`; their proofs.

Left: the queries `Count` and `Page` of `Items` may disagree, and nothing in the repository
promises otherwise, so no property is stated. The accounts of `RefreshTokens` could be tied
to `Accounts` as those of `Items` are.
