------------------------------ MODULE Readiness ------------------------------
(***************************************************************************)
(* /readyz in one worker process: ReadinessCache and the checks behind it  *)
(* (app/platform/health.py, app/api/routes/health.py).                     *)
(*                                                                         *)
(* Probes run on the event loop.  One that finds nothing in the cache runs *)
(* the checks of the dependencies concurrently and caches the result; any  *)
(* number of probes may do so at a time, and they may end in any order.    *)
(* The dependencies fail, recover and are migrated meanwhile.              *)
(*                                                                         *)
(* Time is counted in ticks of half a second.  A dependency is up when a   *)
(* check of it made now would be answered in time.                         *)
(***************************************************************************)
EXTENDS Naturals

CONSTANTS
    Probe,
    Dependency      \* the checks that are enabled; "database" is always

ASSUME DependencyAssumption == "database" \in Dependency

VARIABLES
    up,         \* the dependencies that are up
    schema,     \* of the database: none at all, older than the code's, the code's
    pc,         \* "idle" or "checking"
    found,      \* the results of a probe's checks so far
    health,     \* the cached result
    left,       \* ticks until it expires
    answer,     \* the last answer of each probe, "none" while it is checking
    grounds,    \* history: what held while the checks behind it were running
    basis       \* history: the same of the cached result

vars == <<up, schema, pc, found, health, left, answer, grounds, basis>>

Schema == {"none", "old", "head"}
Status == {"ok", "error"}

READINESS_SUCCESS_TTL == 2
READINESS_FAILURE_TTL == 1

\* The check of d would succeed now.  That of the database looks for some version in
\* alembic_version, not for the one of the code.
Passes(d) == d \in up /\ (d = "database" => schema # "none")

\* What history notes: the checks that would pass and the checks that would fail.
Fact == [what : {"passes", "fails"}, of : Dependency]

Facts == {[what |-> IF Passes(d) THEN "passes" ELSE "fails", of |-> d] : d \in Dependency}

TypeOK ==
    /\ up \subseteq Dependency
    /\ schema \in Schema
    /\ pc \in [Probe -> {"idle", "checking"}]
    /\ found \in [Probe -> [Dependency -> Status \cup {"none"}]]
    /\ health \in Status \cup {"none"}
    /\ left \in 0 .. READINESS_SUCCESS_TTL
    /\ (health = "error" => left <= READINESS_FAILURE_TTL) /\ (health = "none" => left = 0)
    /\ answer \in [Probe -> Status \cup {"none"}]
    /\ grounds \in [Probe -> SUBSET Fact]
    /\ basis \in SUBSET Fact

NothingFound == [d \in Dependency |-> "none"]

Init ==
    /\ up \in SUBSET Dependency
    /\ schema \in Schema
    /\ pc = [p \in Probe |-> "idle"]
    /\ found = [p \in Probe |-> NothingFound]
    /\ health = "none"
    /\ left = 0
    /\ answer = [p \in Probe |-> "none"]
    /\ grounds = [p \in Probe |-> {}]
    /\ basis = {}

-----------------------------------------------------------------------------
(* Faulty variants, which the properties must tell apart from the code. *)

\* expires_at is not looked at.
FreshForever == health # "none"

\* A hit renews the entry.
ServeCachedRenewed(p) ==
    /\ pc[p] = "idle" /\ left > 0
    /\ left' = IF health = "ok" THEN READINESS_SUCCESS_TTL ELSE READINESS_FAILURE_TTL
    /\ answer' = [answer EXCEPT ![p] = health]
    /\ grounds' = [grounds EXCEPT ![p] = basis]
    /\ UNCHANGED <<up, schema, pc, found, health, basis>>

\* One good check is enough.
StatusOfAny(results) ==
    IF \E d \in Dependency : results[d] = "ok" THEN "ok" ELSE "error"

\* The TTLs are swapped.
TTLSwapped(status) ==
    IF status = "ok" THEN READINESS_FAILURE_TTL ELSE READINESS_SUCCESS_TTL

-----------------------------------------------------------------------------
(* cached_readiness_response *)

\* ReadinessCache.get
Fresh == health # "none" /\ left > 0

ServeCached(p) ==
    /\ pc[p] = "idle" /\ Fresh
    /\ answer' = [answer EXCEPT ![p] = health]
    /\ grounds' = [grounds EXCEPT ![p] = basis]
    /\ UNCHANGED <<up, schema, pc, found, health, left, basis>>

StartChecks(p) ==
    /\ pc[p] = "idle" /\ ~Fresh
    /\ pc' = [pc EXCEPT ![p] = "checking"]
    /\ found' = [found EXCEPT ![p] = NothingFound]
    /\ answer' = [answer EXCEPT ![p] = "none"]
    /\ grounds' = [grounds EXCEPT ![p] = Facts]
    /\ UNCHANGED <<up, schema, health, left, basis>>

\* readiness_checks, redis_readiness_check, object_storage_readiness_check
Check(p, d) ==
    /\ pc[p] = "checking" /\ found[p][d] = "none"
    /\ found' = [found EXCEPT ![p][d] = IF Passes(d) THEN "ok" ELSE "error"]
    /\ UNCHANGED <<up, schema, pc, health, left, answer, grounds, basis>>

\* readiness_response
StatusOf(results) ==
    IF \A d \in Dependency : results[d] = "ok" THEN "ok" ELSE "error"

TTL(status) == IF status = "ok" THEN READINESS_SUCCESS_TTL ELSE READINESS_FAILURE_TTL

\* gather returns; ReadinessCache.set, over whatever another probe has put there.
Finish(p) ==
    /\ pc[p] = "checking" /\ \A d \in Dependency : found[p][d] # "none"
    /\ pc' = [pc EXCEPT ![p] = "idle"]
    /\ health' = StatusOf(found[p])
    /\ left' = TTL(health')
    /\ answer' = [answer EXCEPT ![p] = health']
    /\ basis' = grounds[p]
    /\ found' = [found EXCEPT ![p] = NothingFound]
    /\ UNCHANGED <<up, schema, grounds>>

-----------------------------------------------------------------------------
(* Around it. *)

Observe ==
    grounds' = [p \in Probe |->
                    IF pc[p] = "checking" THEN grounds[p] \cup Facts' ELSE grounds[p]]

Toggle(d) ==
    /\ up' = IF d \in up THEN up \ {d} ELSE up \cup {d}
    /\ UNCHANGED schema
    /\ Observe
    /\ UNCHANGED <<pc, found, health, left, answer, basis>>

\* alembic upgrade head
Migrate ==
    /\ "database" \in up /\ schema # "head"
    /\ schema' = "head"
    /\ UNCHANGED up
    /\ Observe
    /\ UNCHANGED <<pc, found, health, left, answer, basis>>

Tick ==
    /\ left > 0
    /\ left' = left - 1
    /\ UNCHANGED <<up, schema, pc, found, health, answer, grounds, basis>>

-----------------------------------------------------------------------------
Arrive(p) == ServeCached(p) \/ StartChecks(p)

Next ==
    \/ \E p \in Probe :
        \/ Arrive(p) \/ Finish(p)
        \/ \E d \in Dependency : Check(p, d)
    \/ \E d \in Dependency : Toggle(d)
    \/ Migrate
    \/ Tick

Spec == Init /\ [][Next]_vars

(* Time passes, the event loop resumes a probe whose checks have ended, and *)
(* probes keep coming: the healthcheck of the container is repeated.        *)
Fairness ==
    /\ WF_vars(Tick)
    /\ \A p \in Probe : WF_vars(Arrive(p)) /\ WF_vars(Finish(p))

FairSpec == Spec /\ Fairness

\* Every check ends.  The clients of Redis and of the object store have timeouts,
\* and so has the wait for a connection of the pool; a query that the database
\* does not answer has none.  So this is the premise of what needs it.
ChecksEnd == \A p \in Probe, d \in Dependency : WF_vars(Check(p, d))

-----------------------------------------------------------------------------
(* Properties *)

\* Every part of an answer has grounds, from the cache or not: after "ok" each
\* dependency has passed, and after "error" some dependency has failed, at some
\* moment since the checks behind the answer began.  The moments may differ: an
\* "ok" need not have been true of all dependencies at once.
AnswerJustified ==
    \A p \in Probe :
        /\ answer[p] = "ok" => \A d \in Dependency : [what |-> "passes", of |-> d] \in grounds[p]
        /\ answer[p] = "error" => \E d \in Dependency : [what |-> "fails", of |-> d] \in grounds[p]

\* An instance that has lost a dependency for good stops being ready, although
\* a slow probe from before the loss may overwrite the result of a later one, and
\* some probes may never end.
OutageIsReported ==
    \A d \in Dependency : <>[](d \notin up) => <>[](\A p \in Probe : answer[p] # "ok")

\* An instance whose dependencies are all up again stops answering that it is not
\* ready, and if the checks end answers for good that it is.
RecoveryIsReported ==
    <>[](\A d \in Dependency : Passes(d)) =>
        /\ <>[](\A p \in Probe : answer[p] # "error")
        /\ ChecksEnd => \A p \in Probe : []<>(answer[p] = "ok")
=============================================================================
