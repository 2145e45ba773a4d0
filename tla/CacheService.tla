---------------------------- MODULE CacheService ----------------------------
(***************************************************************************)
(* CacheService.get_or_set over one key of Redis, with the set and delete  *)
(* of others (fast_core/cache/service.py), in one process.                 *)
(*                                                                         *)
(* Each element of Task is one get_or_set on the event loop, split at its  *)
(* awaits.  Its lock is kept in the CacheService object it was called on;  *)
(* asyncio.Lock serves its waiters in the order they came.  The loader     *)
(* reads a source that others change; a changer deletes or sets the key    *)
(* after the change.  A cache command may fail, before or after Redis has done it;   *)
(* then the service logs a warning and goes on without the cache.          *)
(***************************************************************************)
EXTENDS Naturals, Sequences

CONSTANTS
    Task, Service,
    Assign,         \* the ways tasks may be given their services
    MaxChanges,     \* bound: changes of the source
    NullVersions,   \* the versions of the source whose value is None
    NoValue

Version == 0 .. MaxChanges

ASSUME AssignAssumption == Assign \subseteq [Task -> Service]
ASSUME ChangesAssumption == MaxChanges \in Nat
ASSUME NullAssumption == NullVersions \subseteq Version /\ NoValue \notin Nat

VARIABLES
    service,    \* the CacheService each task calls
    source,     \* the version the loader would read
    stored,     \* the version Redis holds, NoValue for no key
    lasting,    \* the key has no TTL
    undeleted,  \* the source has changed and the key is neither deleted nor set yet
    pc,         \* the next await of each task
    queue,      \* the lock of each service: its holder, then its waiters
    loaded,     \* the version a task has loaded or returns
    loads,      \* history: loader runs that followed two misses
    excuses     \* history: what makes one more such run necessary

vars == <<service, source, stored, lasting, undeleted, pc, queue, loaded, loads, excuses>>

Step == {"idle", "get", "bypass", "wait", "again", "bare", "load", "set", "done"}
InLock == {"again", "bare", "load", "set"}

TypeOK ==
    /\ service \in [Task -> Service]
    /\ source \in Version
    /\ stored \in Version \cup {NoValue}
    /\ lasting \in BOOLEAN /\ undeleted \in BOOLEAN
    /\ pc \in [Task -> Step]
    /\ \A s \in Service : \A i \in DOMAIN queue[s] :
        /\ pc[queue[s][i]] \in (IF i = 1 THEN InLock \cup {"wait"} ELSE {"wait"})
        /\ service[queue[s][i]] = s
    /\ loaded \in [Task -> Version \cup {NoValue}]
    /\ loads \in Nat /\ excuses \in Nat

Init ==
    /\ service \in Assign
    /\ source = 0
    /\ stored = NoValue
    /\ lasting = FALSE
    /\ undeleted = FALSE
    /\ pc = [t \in Task |-> "idle"]
    /\ queue = [s \in Service |-> <<>>]
    /\ loaded = [t \in Task |-> NoValue]
    /\ loads = 0
    /\ excuses = 0

\* What decode_json makes of the key: a JSON null looks like no key at all.
Cached(version) == version # NoValue /\ version \notin NullVersions

Goto(t, step) == pc' = [pc EXCEPT ![t] = step]

\* Faulty variant: a waiter leaves the queue in place of the holder.
UnlockLast(t) ==
    LET s == service[t] IN queue' = [queue EXCEPT ![s] = SubSeq(@, 1, Len(@) - 1)]

Unlock(t) == queue' = [queue EXCEPT ![service[t]] = Tail(@)]

Excuse(needed) == excuses' = IF needed THEN excuses + 1 ELSE excuses

-----------------------------------------------------------------------------
(* Faulty variants, which the properties must tell apart from the code. *)

\* The second read is left out.
GetAgainSkipped(t) ==
    /\ pc[t] = "again"
    /\ Goto(t, "load") /\ loads' = loads + 1 /\ UNCHANGED <<queue, loaded>>
    /\ UNCHANGED <<service, source, stored, lasting, undeleted, excuses>>

\* The early return keeps the lock.
LoadBareLocked(t) ==
    /\ pc[t] = "bare"
    /\ Goto(t, "done")
    /\ loaded' = [loaded EXCEPT ![t] = source]
    /\ UNCHANGED <<service, source, stored, lasting, undeleted, queue, loads, excuses>>

\* SET without EX.
WriteForever(version) == stored' = version /\ lasting' = TRUE

-----------------------------------------------------------------------------
(* get_or_set *)

Call(t) ==
    /\ pc[t] = "idle"
    /\ Goto(t, "get")
    /\ UNCHANGED <<service, source, stored, lasting, undeleted, queue, loaded, loads, excuses>>

Get(t) ==
    /\ pc[t] = "get"
    /\ IF Cached(stored)
       THEN Goto(t, "done") /\ loaded' = [loaded EXCEPT ![t] = stored] /\ UNCHANGED queue
       ELSE /\ Goto(t, "wait") /\ UNCHANGED loaded
            /\ queue' = [queue EXCEPT ![service[t]] = Append(@, t)]
    /\ UNCHANGED <<service, source, stored, lasting, undeleted, loads, excuses>>

GetFails(t) ==
    /\ pc[t] = "get"
    /\ Goto(t, "bypass")
    /\ UNCHANGED <<service, source, stored, lasting, undeleted, queue, loaded, loads, excuses>>

\* The loader without lock and cache.
LoadBypass(t) ==
    /\ pc[t] = "bypass"
    /\ Goto(t, "done")
    /\ loaded' = [loaded EXCEPT ![t] = source]
    /\ UNCHANGED <<service, source, stored, lasting, undeleted, queue, loads, excuses>>

Acquire(t) ==
    /\ pc[t] = "wait" /\ Head(queue[service[t]]) = t
    /\ Goto(t, "again")
    /\ UNCHANGED <<service, source, stored, lasting, undeleted, queue, loaded, loads, excuses>>

GetAgain(t) ==
    /\ pc[t] = "again"
    /\ IF Cached(stored)
       THEN /\ Goto(t, "done") /\ loaded' = [loaded EXCEPT ![t] = stored]
            /\ Unlock(t) /\ UNCHANGED loads
       ELSE Goto(t, "load") /\ loads' = loads + 1 /\ UNCHANGED <<queue, loaded>>
    /\ UNCHANGED <<service, source, stored, lasting, undeleted, excuses>>

GetAgainFails(t) ==
    /\ pc[t] = "again"
    /\ Goto(t, "bare")
    /\ UNCHANGED <<service, source, stored, lasting, undeleted, queue, loaded, loads, excuses>>

\* The loader under the lock, its value not stored.
LoadBare(t) ==
    /\ pc[t] = "bare"
    /\ Goto(t, "done")
    /\ loaded' = [loaded EXCEPT ![t] = source]
    /\ Unlock(t)
    /\ UNCHANGED <<service, source, stored, lasting, undeleted, loads, excuses>>

Load(t) ==
    /\ pc[t] = "load"
    /\ Goto(t, "set")
    /\ loaded' = [loaded EXCEPT ![t] = source]
    /\ UNCHANGED <<service, source, stored, lasting, undeleted, queue, loads, excuses>>

\* The loader raises: its caller sees the exception, and the lock is released.
LoadRaises(t) ==
    /\ pc[t] \in {"bypass", "bare", "load"}
    /\ Goto(t, "done")
    /\ IF pc[t] \in InLock THEN Unlock(t) ELSE UNCHANGED queue
    /\ Excuse(pc[t] = "load")
    /\ UNCHANGED <<service, source, stored, lasting, undeleted, loaded, loads>>

\* SET key value EX ttl_seconds
Write(version) == stored' = version /\ lasting' = FALSE

Set(t) ==
    /\ pc[t] = "set"
    /\ Goto(t, "done")
    /\ Write(loaded[t])
    /\ Unlock(t)
    /\ Excuse(~Cached(loaded[t]))
    /\ UNCHANGED <<service, source, undeleted, loaded, loads>>

\* SET is not done: its reply lost after it was done is no different from Set.
SetFails(t) ==
    /\ pc[t] = "set"
    /\ Goto(t, "done")
    /\ Unlock(t)
    /\ Excuse(TRUE)
    /\ UNCHANGED <<service, source, stored, lasting, undeleted, loaded, loads>>

-----------------------------------------------------------------------------
(* Around it. *)

\* The end of the key's TTL.
Expire ==
    /\ stored # NoValue /\ ~lasting
    /\ stored' = NoValue
    /\ Excuse(Cached(stored))
    /\ UNCHANGED <<service, source, lasting, undeleted, pc, queue, loaded, loads>>

Change ==
    /\ source < MaxChanges
    /\ source' = source + 1
    /\ undeleted' = TRUE
    /\ UNCHANGED <<service, stored, lasting, pc, queue, loaded, loads, excuses>>

Delete ==
    /\ undeleted
    /\ undeleted' = FALSE
    /\ stored' = NoValue
    /\ Excuse(Cached(stored))
    /\ UNCHANGED <<service, source, lasting, pc, queue, loaded, loads>>

\* set, with the version its caller has made: others may have come since.
Put ==
    /\ undeleted
    /\ undeleted' = FALSE
    /\ \E version \in 1 .. source :
        /\ Write(version)
        /\ Excuse(Cached(stored) /\ ~Cached(version))
    /\ UNCHANGED <<service, source, pc, queue, loaded, loads>>

\* delete answers 0, set nothing, and the caller goes on.
DeleteFails ==
    /\ undeleted
    /\ undeleted' = FALSE
    /\ UNCHANGED <<service, source, stored, lasting, pc, queue, loaded, loads, excuses>>

-----------------------------------------------------------------------------
Proceed(t) ==
    \/ Get(t) \/ GetFails(t) \/ LoadBypass(t) \/ Acquire(t)
    \/ GetAgain(t) \/ GetAgainFails(t) \/ LoadBare(t)
    \/ Load(t) \/ LoadRaises(t) \/ Set(t) \/ SetFails(t)

Quiescent ==
    /\ \A t \in Task : pc[t] = "done"
    /\ source = MaxChanges /\ ~undeleted /\ (stored = NoValue \/ lasting)
    /\ UNCHANGED vars

Next ==
    \/ \E t \in Task : Call(t) \/ Proceed(t)
    \/ Expire \/ Change \/ Delete \/ Put \/ DeleteFails
    \/ Quiescent

Spec == Init /\ [][Next]_vars

(* The event loop resumes what can go on: a command of Redis is answered   *)
(* or times out, and the loader returns or raises.  Redis removes a key    *)
(* whose TTL has passed.                                                   *)
Fairness == (\A t \in Task : WF_vars(Proceed(t))) /\ WF_vars(Expire)

FairSpec == Spec /\ Fairness

-----------------------------------------------------------------------------
(* Properties *)

\* Calls on one CacheService do not load what is cached: a loader runs again
\* only because the value was removed, could not be stored, is None, or its
\* loading failed.  However many calls miss at once, they make no difference.
LoadsJustified == loads <= 1 + excuses

\* Whoever waits for the lock gets its answer, whatever failed under the lock
\* before.
QueueServed == \A t \in Task : pc[t] = "wait" ~> pc[t] = "done"

\* A value that a slow loader stored after the change that made it old, and
\* after the key was deleted for it, does not stay: the cache ends up empty or
\* up to date.
StaleExpires == <>[](Cached(stored) => stored = source)

\* The calls of one process share the lock of a key, so that one loader at a
\* time runs under it.  (The code breaks it: every request makes a CacheService
\* with locks of its own.)
OneLoadPerProcess ==
    \A t, u \in Task : pc[t] \in {"load", "set"} /\ pc[u] \in {"load", "set"} => t = u
=============================================================================
