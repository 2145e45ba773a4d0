----------------------------- MODULE RateLimiter -----------------------------
(***************************************************************************)
(* The rate limiter of the sensitive paths: RedisRateLimiter               *)
(* (app/platform/rate_limit.py) over CacheClient.incr with a TTL           *)
(* (fast_core/cache/client.py); its middleware is in Gateway.  All workers *)
(* share one Redis.  The counters of different paths and clients do not    *)
(* meet, so one key is modelled.                                           *)
(*                                                                         *)
(* INCRBY and TTL run as one MULTI; the EXPIRE that gives a new key its    *)
(* TTL is a command of its own, which may come late, or never.  A life of  *)
(* the key lasts from the INCRBY that creates it to its removal.           *)
(***************************************************************************)
EXTENDS Integers

CONSTANTS
    Request,            \* requests in progress at a time; each is reused
    max_requests,       \* LOGIN_RATE_LIMIT_REQUESTS
    window_seconds,     \* LOGIN_RATE_LIMIT_WINDOW_SECONDS, in ticks of the clock
    MaxFailures         \* bound: commands that fail

ASSUME MaxAssumption == max_requests \in Nat \ {0}
ASSUME WindowAssumption == window_seconds \in Nat \ {0}
ASSUME FailuresAssumption == MaxFailures \in Nat

VARIABLES
    counter,    \* the value of the key, 0 when there is none
    remaining,  \* ticks until the key is removed, or NoTTL
    pc,         \* "idle", or "expire" for a request that has to send EXPIRE
    failures,   \* commands that have failed
    granted,    \* history: requests of this life of the key that are let through
    recent      \* history: the same of all lives, in this tick and the a before it

vars == <<counter, remaining, pc, failures, granted, recent>>

NoTTL == -1

\* Bound: the counter is only compared with max_requests, so it may saturate.
Cap == max_requests + 1

Age == 0 .. window_seconds - 1

TypeOK ==
    /\ counter \in 0 .. Cap
    /\ remaining \in {NoTTL} \cup 1 .. window_seconds
    /\ pc \in [Request -> {"idle", "expire"}]
    /\ failures \in 0 .. MaxFailures
    /\ granted \in Nat
    /\ recent \in [Age -> Nat]

Init ==
    /\ counter = 0
    /\ remaining = NoTTL
    /\ pc = [r \in Request |-> "idle"]
    /\ failures = 0
    /\ granted = 0
    /\ recent = [a \in Age |-> 0]

Exists == counter # 0

-----------------------------------------------------------------------------
(* Faulty variants, which the properties must tell apart from the code. *)

AllowedOneMore(count) == count <= max_requests + 1

\* EXPIRE whenever the TTL is not positive: Redis rounds the last half second
\* of a key to 0.
NeedsExpireRounded == remaining <= 1

\* The window in another unit than Redis expects.
ExpireAtOnce(r) ==
    /\ pc[r] = "expire"
    /\ pc' = [pc EXCEPT ![r] = "idle"]
    /\ remaining' = IF Exists THEN 1 ELSE remaining
    /\ UNCHANGED <<counter, failures, granted, recent>>

\* The TTL is added to what the key has left.
ExpireExtends(r) ==
    /\ pc[r] = "expire"
    /\ pc' = [pc EXCEPT ![r] = "idle"]
    /\ remaining' = IF ~Exists THEN remaining
                    ELSE IF remaining = NoTTL THEN window_seconds
                    ELSE remaining + window_seconds
    /\ UNCHANGED <<counter, failures, granted, recent>>

-----------------------------------------------------------------------------
(* RedisRateLimiter.check_and_register. *)

Allowed(count) == count <= max_requests

\* MULTI; INCRBY key 1; TTL key; EXEC
Increment ==
    LET count == IF counter = Cap THEN Cap ELSE counter + 1 IN
    /\ counter' = count
    /\ IF Allowed(count)
       THEN /\ granted' = granted + 1
            /\ recent' = [a \in Age |-> recent[a] + 1]
       ELSE UNCHANGED <<granted, recent>>
    /\ UNCHANGED remaining

\* TTL answered -1: the key is new, or an earlier EXPIRE never came.
NeedsExpire == remaining = NoTTL

\* The key has a TTL, so that the count is all there is to look at.
Register(r) ==
    /\ pc[r] = "idle"
    /\ ~NeedsExpire
    /\ Increment
    /\ UNCHANGED <<pc, failures>>

RegisterAndExpire(r) ==
    /\ pc[r] = "idle"
    /\ NeedsExpire
    /\ Increment
    /\ pc' = [pc EXCEPT ![r] = "expire"]
    /\ UNCHANGED failures

\* EXPIRE key window_seconds does nothing to a key that is gone, and restarts
\* the clock of a key that got its TTL, or a new life, in the meantime.
ExpireKey(r) ==
    /\ pc[r] = "expire"
    /\ pc' = [pc EXCEPT ![r] = "idle"]
    /\ remaining' = IF Exists THEN window_seconds ELSE remaining
    /\ UNCHANGED <<counter, failures, granted, recent>>

\* EXEC runs and its reply is lost: the request ends with a 500 and sends no
\* EXPIRE.
RegisterFails(r) ==
    /\ pc[r] = "idle"
    /\ failures < MaxFailures
    /\ failures' = failures + 1
    /\ Increment
    /\ UNCHANGED pc

\* EXEC is not sent: the request ends with a 500.
RegisterUnsent(r) ==
    /\ pc[r] = "idle"
    /\ failures < MaxFailures
    /\ failures' = failures + 1
    /\ UNCHANGED <<counter, remaining, pc, granted, recent>>

\* EXPIRE is not sent, or its worker dies: the key may stay without a TTL.  Or only
\* the reply is lost.
ExpireFails(r) ==
    /\ pc[r] = "expire"
    /\ failures < MaxFailures
    /\ failures' = failures + 1
    /\ pc' = [pc EXCEPT ![r] = "idle"]
    /\ remaining' \in {remaining, IF Exists THEN window_seconds ELSE remaining}
    /\ UNCHANGED <<counter, granted, recent>>

\* The clock of Redis.
Tick ==
    /\ recent' = [a \in Age |-> IF a = 0 THEN 0 ELSE recent[a - 1]]
    /\ IF remaining = 1
       THEN counter' = 0 /\ remaining' = NoTTL /\ granted' = 0
       ELSE /\ remaining' = IF remaining = NoTTL THEN NoTTL ELSE remaining - 1
            /\ UNCHANGED <<counter, granted>>
    /\ UNCHANGED <<pc, failures>>

Arrive(r) == Register(r) \/ RegisterAndExpire(r)

Next ==
    \/ \E r \in Request :
        \/ Arrive(r) \/ ExpireKey(r)
        \/ RegisterFails(r) \/ RegisterUnsent(r) \/ ExpireFails(r)
    \/ Tick

Spec == Init /\ [][Next]_vars

-----------------------------------------------------------------------------
(* Properties *)

\* However requests of several workers interleave, and whatever fails, no more
\* than max_requests are let through in one life of the key.
GrantedPerLife == granted <= max_requests

\* In any stretch of time as long as the window at most twice the limit is let
\* through: a life never ends before its window does, although the TTL is set
\* late, set twice, or set by a request of an earlier life.
GrantedPerWindow == recent[window_seconds - 1] <= 2 * max_requests

\* A client that keeps asking is not locked out for good: a key whose EXPIRE was
\* lost gets its TTL from a later request, and requests that find a TTL do not
\* restart it.
WindowCloses == Exists ~> ~Exists
=============================================================================
