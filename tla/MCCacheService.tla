--------------------------- MODULE MCCacheService ---------------------------
(* Instances of CacheService for TLC. *)
EXTENDS CacheService, TLC

CONSTANTS t1, t2, t3, s1, s2

TwoTasks == {t1, t2}
ThreeTasks == {t1, t2, t3}
OneService == {s1}
TwoServices == {s1, s2}

\* All tasks call one service, as in one request or one test.
Shared == {[t \in Task |-> s1]}

\* Each request has a CacheService of its own, as get_cache_service makes them.
PerRequest == {(t1 :> s1) @@ (t2 :> s2)}

Symmetry == Permutations(Task)
=============================================================================
