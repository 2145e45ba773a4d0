-------------------------- MODULE CacheServiceProofs --------------------------
(***************************************************************************)
(* Proofs about CacheService, for any number of tasks, services and        *)
(* changes of the source.                                                  *)
(***************************************************************************)
EXTENDS CacheService, SequenceTheorems, TLAPS

USE AssignAssumption, ChangesAssumption, NullAssumption

Outside == {"idle", "get", "bypass", "done"}

\* The queue of a lock: each waiter and the holder are in it once, and only the
\* first can be past the lock.
QueueInv ==
    /\ service \in [Task -> Service] /\ service \in Assign
    /\ pc \in [Task -> Step]
    /\ queue \in [Service -> Seq(Task)]
    /\ \A s \in Service : \A i \in 1 .. Len(queue[s]) :
        /\ pc[queue[s][i]] \in (IF i = 1 THEN InLock \cup {"wait"} ELSE {"wait"})
        /\ service[queue[s][i]] = s
    /\ \A s \in Service : \A i, j \in 1 .. Len(queue[s]) : queue[s][i] = queue[s][j] => i = j
    /\ \A t \in Task : pc[t] = "wait" =>
        \E i \in 1 .. Len(queue[service[t]]) : queue[service[t]][i] = t
    /\ \A t \in Task : pc[t] \in InLock =>
        Len(queue[service[t]]) > 0 /\ queue[service[t]][1] = t

\* The rest of the variables.
DataInv ==
    /\ source \in Version
    /\ stored \in Version \cup {NoValue}
    /\ lasting \in BOOLEAN /\ undeleted \in BOOLEAN
    /\ loaded \in [Task -> Version \cup {NoValue}]
    /\ loads \in Nat /\ excuses \in Nat

Busy == \E t \in Task : pc[t] \in {"load", "set"}

OneForAll == \A t, u \in Task : service[t] = service[u]

\* Unless the value is cached or on its way to the cache, every load so far has
\* its excuse.
LoadInv ==
    /\ loads <= 1 + excuses
    /\ ~Cached(stored) /\ ~Busy => loads <= excuses

IInv == QueueInv /\ DataInv /\ (OneForAll => LoadInv)

-----------------------------------------------------------------------------
(* The queue *)

Enqueue(t) == queue' = [queue EXCEPT ![service[t]] = Append(@, t)]

(* A step of a task that is not in the queue, or of the holder of the lock *)
(* under it, leaves the queue in order.                                    *)
LEMMA StayKeeps ==
    ASSUME QueueInv, NEW t \in Task, NEW step,
           Goto(t, step), UNCHANGED <<queue, service>>,
           \/ pc[t] \in Outside /\ step \in Outside
           \/ pc[t] \in InLock /\ step \in InLock
    PROVE  QueueInv'
<1>1. \A u \in Task : pc'[u] = IF u = t THEN step ELSE pc[u]
  BY DEF QueueInv, Goto
<1>2. pc' \in [Task -> Step]
  BY DEF QueueInv, Goto, Outside, InLock, Step
<1>3. ASSUME NEW s \in Service, NEW i \in 1 .. Len(queue[s])
      PROVE  pc'[queue[s][i]] \in (IF i = 1 THEN InLock \cup {"wait"} ELSE {"wait"})
  <2>1. queue[s][i] \in Task
    BY <1>3 DEF QueueInv
  <2>2. pc[queue[s][i]] \in (IF i = 1 THEN InLock \cup {"wait"} ELSE {"wait"})
    BY <1>3 DEF QueueInv
  <2> QED
    BY <1>1, <2>1, <2>2 DEF Outside, InLock
<1>4. \A u \in Task : pc'[u] = "wait" => pc[u] = "wait"
  BY <1>1 DEF Outside, InLock
<1>5. \A u \in Task : pc'[u] \in InLock => pc[u] \in InLock
  BY <1>1 DEF Outside, InLock
<1> QED
  BY <1>2, <1>3, <1>4, <1>5 DEF QueueInv

(* Only the first of the queue takes the lock.                             *)
LEMMA AcquireKeeps ==
    ASSUME QueueInv, NEW t \in Task, Acquire(t)
    PROVE  QueueInv'
<1> DEFINE s == service[t]
<1>1. s \in Service /\ queue[s] \in Seq(Task)
  BY DEF QueueInv
<1>2. pc[t] = "wait" /\ UNCHANGED <<queue, service>>
  BY DEF Acquire
<1>3. Len(queue[s]) > 0 /\ queue[s][1] = t
  <2>1. PICK i \in 1 .. Len(queue[s]) : queue[s][i] = t
    BY <1>2 DEF QueueInv
  <2>2. Len(queue[s]) > 0
    BY <1>1, <2>1
  <2> QED
    BY <1>1, <2>2 DEF Acquire
<1>4. \A u \in Task : pc'[u] = IF u = t THEN "again" ELSE pc[u]
  BY DEF QueueInv, Goto, Acquire
<1>5. pc' \in [Task -> Step]
  BY DEF QueueInv, Goto, Acquire, Step
<1>6. ASSUME NEW r \in Service, NEW i \in 1 .. Len(queue[r])
      PROVE  pc'[queue[r][i]] \in (IF i = 1 THEN InLock \cup {"wait"} ELSE {"wait"})
  <2>1. queue[r][i] \in Task /\ service[queue[r][i]] = r
    BY <1>6 DEF QueueInv
  <2>2. pc[queue[r][i]] \in (IF i = 1 THEN InLock \cup {"wait"} ELSE {"wait"})
    BY <1>6 DEF QueueInv
  <2>3. CASE queue[r][i] = t
    <3>1. r = s
      BY <2>1, <2>3
    <3>2. 1 \in 1 .. Len(queue[s])
      BY <1>1, <1>3
    <3>3. i = 1
      BY <1>3, <1>6, <2>3, <3>1, <3>2 DEF QueueInv
    <3> QED
      BY <1>4, <2>3, <3>3 DEF InLock
  <2>4. CASE queue[r][i] # t
    BY <1>4, <2>1, <2>2, <2>4
  <2> QED
    BY <2>3, <2>4
<1>7. \A u \in Task : pc'[u] = "wait" => pc[u] = "wait"
  BY <1>4
<1>8. \A u \in Task : pc'[u] \in InLock => u = t \/ pc[u] \in InLock
  BY <1>4
<1> QED
  BY <1>2, <1>3, <1>5, <1>6, <1>7, <1>8 DEF QueueInv

(* A task that misses comes last in the queue, and is not in it twice.     *)
LEMMA JoinKeeps ==
    ASSUME QueueInv, NEW t \in Task, pc[t] = "get", Goto(t, "wait"),
           Enqueue(t), UNCHANGED service
    PROVE  QueueInv'
<1> DEFINE s == service[t]
           q == queue[s]
<1>1. s \in Service /\ q \in Seq(Task) /\ Len(q) \in Nat
  BY DEF QueueInv
<1>2. /\ Append(q, t) \in Seq(Task)
      /\ Len(Append(q, t)) = Len(q) + 1
      /\ \A i \in 1 .. Len(q) : Append(q, t)[i] = q[i]
      /\ Append(q, t)[Len(q) + 1] = t
  BY <1>1
<1>3. /\ queue' \in [Service -> Seq(Task)]
      /\ queue'[s] = Append(q, t)
      /\ \A r \in Service \ {s} : queue'[r] = queue[r]
  BY <1>1, <1>2 DEF QueueInv, Enqueue
<1>4. \A u \in Task : pc'[u] = IF u = t THEN "wait" ELSE pc[u]
  BY DEF QueueInv, Goto
<1>5. pc' \in [Task -> Step]
  BY DEF QueueInv, Goto, Step
<1>6. \A r \in Service : \A i \in 1 .. Len(queue[r]) : queue[r][i] \in Task /\ queue[r][i] # t
  <2> SUFFICES ASSUME NEW r \in Service, NEW i \in 1 .. Len(queue[r])
               PROVE  queue[r][i] \in Task /\ queue[r][i] # t
    OBVIOUS
  <2>1. queue[r][i] \in Task
    BY DEF QueueInv
  <2>2. pc[queue[r][i]] \in InLock \cup {"wait"}
    BY DEF QueueInv
  <2> QED
    BY <2>1, <2>2 DEF InLock
<1>7. ASSUME NEW r \in Service, NEW i \in 1 .. Len(queue'[r])
      PROVE  /\ pc'[queue'[r][i]] \in (IF i = 1 THEN InLock \cup {"wait"} ELSE {"wait"})
             /\ service[queue'[r][i]] = r
  <2>1. CASE i \in 1 .. Len(queue[r]) /\ queue'[r][i] = queue[r][i]
    <3>1. pc'[queue[r][i]] = pc[queue[r][i]]
      BY <1>4, <1>6, <2>1
    <3> QED
      BY <1>7, <2>1, <3>1 DEF QueueInv
  <2>2. CASE r = s /\ i = Len(q) + 1
    BY <1>2, <1>3, <1>4, <2>2
  <2>3. (r = s /\ i = Len(q) + 1) \/ (i \in 1 .. Len(queue[r]) /\ queue'[r][i] = queue[r][i])
    BY <1>1, <1>2, <1>3, <1>7
  <2> QED
    BY <2>1, <2>2, <2>3
<1>8. ASSUME NEW r \in Service, NEW i \in 1 .. Len(queue'[r]), NEW j \in 1 .. Len(queue'[r]),
             queue'[r][i] = queue'[r][j]
      PROVE  i = j
  <2>1. CASE r # s
    <3>1. queue'[r] = queue[r]
      BY <1>3, <2>1
    <3> QED
      BY <1>8, <3>1 DEF QueueInv
  <2>2. CASE r = s
    <3>1. \A k \in 1 .. Len(q) : q[k] # t
      BY <1>1, <1>6
    <3>2. \A k, m \in 1 .. Len(q) : q[k] = q[m] => k = m
      BY <1>1 DEF QueueInv
    <3>3. i \in 1 .. Len(q) + 1 /\ j \in 1 .. Len(q) + 1 /\ Append(q, t)[i] = Append(q, t)[j]
      BY <1>2, <1>3, <1>8, <2>2
    <3> HIDE DEF q
    <3> QED
      BY <1>1, <1>2, <3>1, <3>2, <3>3
  <2> QED
    BY <2>1, <2>2
<1>9. ASSUME NEW r \in Service, NEW i \in 1 .. Len(queue[r])
       PROVE  i \in 1 .. Len(queue'[r]) /\ queue'[r][i] = queue[r][i]
  <2>1. CASE r = s
    <3>1. i \in 1 .. Len(q) /\ queue'[r] = Append(q, t)
      BY <1>3, <1>9, <2>1
    <3>2. i \in 1 .. Len(Append(q, t)) /\ Append(q, t)[i] = q[i]
      BY <1>1, <1>2, <3>1
    <3> QED
      BY <2>1, <3>1, <3>2
  <2>2. CASE r # s
    BY <1>3, <1>9, <2>2
  <2> QED
    BY <2>1, <2>2
<1>10. ASSUME NEW u \in Task, pc'[u] = "wait"
      PROVE  \E i \in 1 .. Len(queue'[service[u]]) : queue'[service[u]][i] = u
  <2>1. CASE u = t
    BY <1>1, <1>2, <1>3, <2>1
  <2>2. CASE u # t
    <3>1. service[u] \in Service /\ pc[u] = "wait"
      BY <1>4, <1>10, <2>2 DEF QueueInv
    <3>2. PICK i \in 1 .. Len(queue[service[u]]) : queue[service[u]][i] = u
      BY <3>1 DEF QueueInv
    <3>3. i \in 1 .. Len(queue'[service[u]]) /\ queue'[service[u]][i] = u
      BY <1>9, <3>1, <3>2
    <3> QED
      BY <3>3
  <2> QED
    BY <2>1, <2>2
<1>11. ASSUME NEW u \in Task, pc'[u] \in InLock
       PROVE  Len(queue'[service[u]]) > 0 /\ queue'[service[u]][1] = u
  <2>1. pc[u] \in InLock /\ service[u] \in Service
    BY <1>4, <1>11 DEF QueueInv, InLock
  <2>2. Len(queue[service[u]]) > 0 /\ queue[service[u]][1] = u
    BY <2>1 DEF QueueInv
  <2>3. Len(queue[service[u]]) \in Nat
    BY <2>1 DEF QueueInv
  <2>4. 1 \in 1 .. Len(queue[service[u]])
    BY <2>2, <2>3
  <2>5. 1 \in 1 .. Len(queue'[service[u]]) /\ queue'[service[u]][1] = u
    BY <1>9, <2>1, <2>2, <2>4
  <2>6. Len(queue'[service[u]]) \in Nat
    BY <1>3, <2>1
  <2> QED
    BY <2>5, <2>6
<1> QED
  BY <1>3, <1>5, <1>7, <1>8, <1>10, <1>11 DEF QueueInv

(* The holder leaves, and the next waiter is the first of the queue.       *)
LEMMA LeaveKeeps ==
    ASSUME QueueInv, NEW t \in Task, pc[t] \in InLock, Goto(t, "done"),
           Unlock(t), UNCHANGED service
    PROVE  QueueInv'
<1> DEFINE s == service[t]
           q == queue[s]
<1>1. s \in Service /\ q \in Seq(Task) /\ Len(q) \in Nat /\ Len(q) > 0 /\ q[1] = t
  BY DEF QueueInv
<1>2. /\ Tail(q) \in Seq(Task)
      /\ Len(Tail(q)) = Len(q) - 1
      /\ \A i \in 1 .. Len(q) - 1 : Tail(q)[i] = q[i + 1]
  BY <1>1, HeadTailProperties
<1>3. /\ queue' \in [Service -> Seq(Task)]
      /\ queue'[s] = Tail(q)
      /\ \A r \in Service \ {s} : queue'[r] = queue[r]
  BY <1>1, <1>2 DEF QueueInv, Unlock
<1>4. \A u \in Task : pc'[u] = IF u = t THEN "done" ELSE pc[u]
  BY DEF QueueInv, Goto
<1>5. pc' \in [Task -> Step]
  BY DEF QueueInv, Goto, Step
<1>6. \A k, m \in 1 .. Len(q) : q[k] = q[m] => k = m
  BY <1>1 DEF QueueInv
<1>7. ASSUME NEW r \in Service, NEW i \in 1 .. Len(queue'[r])
      PROVE  /\ pc'[queue'[r][i]] \in (IF i = 1 THEN InLock \cup {"wait"} ELSE {"wait"})
             /\ service[queue'[r][i]] = r
  <2>1. CASE r = s
    <3>5. i \in 1 .. Len(q) - 1
      BY <1>2, <1>3, <1>7, <2>1
    <3>1. i \in Nat /\ i + 1 \in 1 .. Len(q) /\ i + 1 # 1 /\ 1 \in 1 .. Len(q)
      BY <1>1, <3>5
    <3>2. queue'[r][i] = q[i + 1]
      BY <1>2, <1>3, <2>1, <3>5
    <3>3. q[i + 1] \in Task /\ q[i + 1] # t
      BY <1>1, <1>6, <3>1
    <3>4. pc[q[i + 1]] = "wait" /\ service[q[i + 1]] = s
      BY <1>1, <3>1 DEF QueueInv
    <3> QED
      BY <1>4, <2>1, <3>2, <3>3, <3>4
  <2>2. CASE r # s
    <3>1. queue'[r] = queue[r]
      BY <1>3, <2>2
    <3>2. queue[r][i] \in Task /\ service[queue[r][i]] = r
      BY <1>7, <3>1 DEF QueueInv
    <3>3. pc'[queue[r][i]] = pc[queue[r][i]]
      BY <1>4, <2>2, <3>2
    <3> QED
      BY <1>7, <3>1, <3>3 DEF QueueInv
  <2> QED
    BY <2>1, <2>2
<1>8. ASSUME NEW r \in Service, NEW i \in 1 .. Len(queue'[r]), NEW j \in 1 .. Len(queue'[r]),
             queue'[r][i] = queue'[r][j]
      PROVE  i = j
  <2>1. CASE r # s
    <3>1. queue'[r] = queue[r]
      BY <1>3, <2>1
    <3>2. \A k, m \in 1 .. Len(queue[r]) : queue[r][k] = queue[r][m] => k = m
      BY DEF QueueInv
    <3>3. /\ i \in 1 .. Len(queue[r]) /\ j \in 1 .. Len(queue[r])
          /\ queue[r][i] = queue[r][j]
      BY <1>8, <3>1
    <3> QED
      BY <3>2, <3>3
  <2>2. CASE r = s
    <3>1. /\ i \in 1 .. Len(q) - 1 /\ j \in 1 .. Len(q) - 1
          /\ Tail(q)[i] = Tail(q)[j]
      BY <1>2, <1>3, <1>8, <2>2
    <3>2. i + 1 \in 1 .. Len(q) /\ j + 1 \in 1 .. Len(q)
      BY <1>1, <3>1
    <3>3. q[i + 1] = q[j + 1]
      BY <1>2, <3>1
    <3>4. i + 1 = j + 1
      BY <1>6, <3>2, <3>3
    <3> QED
      BY <3>1, <3>4
  <2> QED
    BY <2>1, <2>2
<1>9. ASSUME NEW u \in Task, pc'[u] = "wait"
      PROVE  \E i \in 1 .. Len(queue'[service[u]]) : queue'[service[u]][i] = u
  <2>1. u # t /\ pc[u] = "wait" /\ service[u] \in Service
    BY <1>4, <1>9 DEF QueueInv
  <2>2. PICK i \in 1 .. Len(queue[service[u]]) : queue[service[u]][i] = u
    BY <2>1 DEF QueueInv
  <2>3. CASE service[u] = s
    <3>1. i # 1
      BY <1>1, <2>1, <2>2, <2>3
    <3>2. i - 1 \in 1 .. Len(q) - 1 /\ (i - 1) + 1 = i
      BY <1>1, <2>2, <2>3, <3>1
    <3>3. Tail(q)[i - 1] = u
      BY <1>2, <2>2, <2>3, <3>2
    <3>4. i - 1 \in 1 .. Len(queue'[s]) /\ queue'[s][i - 1] = u
      BY <1>2, <1>3, <3>2, <3>3
    <3> QED
      BY <2>3, <3>4
  <2>4. CASE service[u] # s
    BY <1>3, <2>1, <2>2, <2>4
  <2> QED
    BY <2>3, <2>4
<1>10. ASSUME NEW u \in Task, pc'[u] \in InLock
       PROVE  Len(queue'[service[u]]) > 0 /\ queue'[service[u]][1] = u
  <2>1. u # t /\ pc[u] \in InLock /\ service[u] \in Service
    BY <1>4, <1>10 DEF QueueInv, InLock
  <2>2. Len(queue[service[u]]) > 0 /\ queue[service[u]][1] = u
    BY <2>1 DEF QueueInv
  <2>3. service[u] # s
    BY <1>1, <2>1, <2>2
  <2> QED
    BY <1>3, <2>1, <2>2, <2>3
<1> QED
  BY <1>3, <1>5, <1>7, <1>8, <1>9, <1>10 DEF QueueInv

(* At most one task is past a lock.                                        *)
LEMMA OneInLock ==
    ASSUME QueueInv, NEW t \in Task, NEW u \in Task, service[t] = service[u],
           pc[t] \in InLock, pc[u] \in InLock
    PROVE  t = u
<1>1. queue[service[t]][1] = t /\ queue[service[u]][1] = u
  BY DEF QueueInv
<1> QED
  BY <1>1

-----------------------------------------------------------------------------
(* The count of the loads *)

(* A step that changes neither the cache nor the counters, and takes no    *)
(* value out of the hands of a loader.                                     *)
LEMMA QuietStep ==
    ASSUME LoadInv, UNCHANGED <<stored, loads, excuses>>, Busy => Busy'
    PROVE  LoadInv'
  BY DEF LoadInv, Cached

(* A step with an excuse covers all loads so far, and leaves no debt.      *)
LEMMA ExcusedStep ==
    ASSUME LoadInv, loads \in Nat, excuses \in Nat,
           loads' = loads, excuses' = excuses + 1
    PROVE  LoadInv'
  BY DEF LoadInv

LEMMA GotoBusy ==
    ASSUME QueueInv, NEW t \in Task, NEW step, Goto(t, step),
           pc[t] \notin {"load", "set"} \/ step \in {"load", "set"}
    PROVE  Busy => Busy'
  <1>1. \A u \in Task : pc'[u] = IF u = t THEN step ELSE pc[u]
    BY DEF QueueInv, Goto
  <1> QED
    BY <1>1 DEF Busy

LEMMA NothingCached == ~Cached(NoValue)
  BY DEF Cached

(* Each await of get_or_set keeps the invariant.                           *)
LEMMA TaskKeeps ==
    ASSUME IInv, NEW t \in Task, Call(t) \/ Proceed(t)
    PROVE  IInv'
<1> USE DEF IInv
<1>1. OneForAll' => OneForAll
  BY DEF OneForAll, Call, Proceed, Get, GetFails, LoadBypass, Acquire, GetAgain, GetAgainFails,
         LoadBare, Load, LoadRaises, Set, SetFails
<1>2. CASE Call(t)
  <2>1. QueueInv'
    BY <1>2, StayKeeps DEF Call, Outside
  <2>2. Busy => Busy'
    BY <1>2, GotoBusy DEF Call
  <2> QED
    BY <1>1, <1>2, <2>1, <2>2, QuietStep DEF Call, DataInv
<1>3. CASE Get(t)
  <2>1. CASE Cached(stored)
    <3>1. QueueInv'
      BY <1>3, <2>1, StayKeeps DEF Get, Outside
    <3>2. Busy => Busy'
      BY <1>3, <2>1, GotoBusy DEF Get
    <3> QED
      BY <1>1, <1>3, <2>1, <3>1, <3>2, QuietStep DEF Get, DataInv
  <2>2. CASE ~Cached(stored)
    <3>1. QueueInv'
      BY <1>3, <2>2, JoinKeeps DEF Get, Enqueue
    <3>2. Busy => Busy'
      BY <1>3, <2>2, GotoBusy DEF Get
    <3> QED
      BY <1>1, <1>3, <2>2, <3>1, <3>2, QuietStep DEF Get, DataInv
  <2> QED
    BY <2>1, <2>2
<1>4. CASE GetFails(t)
  <2>1. QueueInv'
    BY <1>4, StayKeeps DEF GetFails, Outside
  <2>2. Busy => Busy'
    BY <1>4, GotoBusy DEF GetFails
  <2> QED
    BY <1>1, <1>4, <2>1, <2>2, QuietStep DEF GetFails, DataInv
<1>5. CASE LoadBypass(t)
  <2>1. QueueInv'
    BY <1>5, StayKeeps DEF LoadBypass, Outside
  <2>2. Busy => Busy'
    BY <1>5, GotoBusy DEF LoadBypass
  <2> QED
    BY <1>1, <1>5, <2>1, <2>2, QuietStep DEF LoadBypass, DataInv
<1>6. CASE Acquire(t)
  <2>1. QueueInv'
    BY <1>6, AcquireKeeps
  <2>2. Busy => Busy'
    BY <1>6, GotoBusy DEF Acquire
  <2> QED
    BY <1>1, <1>6, <2>1, <2>2, QuietStep DEF Acquire, DataInv
<1>7. CASE GetAgain(t)
  <2>1. CASE Cached(stored)
    <3>1. QueueInv'
      BY <1>7, <2>1, LeaveKeeps DEF GetAgain, InLock
    <3>2. Busy => Busy'
      BY <1>7, <2>1, GotoBusy DEF GetAgain
    <3> QED
      BY <1>1, <1>7, <2>1, <3>1, <3>2, QuietStep DEF GetAgain, DataInv
  <2>2. CASE ~Cached(stored)
    <3>1. QueueInv'
      BY <1>7, <2>2, StayKeeps DEF GetAgain, InLock
    <3>2. OneForAll => ~Busy
      BY <1>7, OneInLock DEF GetAgain, Busy, OneForAll, InLock
    <3>3. pc'[t] = "load"
      BY <1>7, <2>2 DEF GetAgain, Goto, QueueInv
    <3>4. Busy' /\ loads' = loads + 1 /\ excuses' = excuses
      BY <1>7, <2>2, <3>3 DEF GetAgain, Busy
    <3>5. DataInv'
      BY <1>7, <2>2 DEF GetAgain, DataInv
    <3>6. OneForAll => LoadInv'
      BY <2>2, <3>2, <3>4 DEF LoadInv, DataInv
    <3> QED
      BY <1>1, <3>1, <3>5, <3>6
  <2> QED
    BY <2>1, <2>2
<1>8. CASE GetAgainFails(t)
  <2>1. QueueInv'
    BY <1>8, StayKeeps DEF GetAgainFails, InLock
  <2>2. Busy => Busy'
    BY <1>8, GotoBusy DEF GetAgainFails
  <2> QED
    BY <1>1, <1>8, <2>1, <2>2, QuietStep DEF GetAgainFails, DataInv
<1>9. CASE LoadBare(t)
  <2>1. QueueInv'
    BY <1>9, LeaveKeeps DEF LoadBare, InLock
  <2>2. Busy => Busy'
    BY <1>9, GotoBusy DEF LoadBare
  <2> QED
    BY <1>1, <1>9, <2>1, <2>2, QuietStep DEF LoadBare, DataInv
<1>10. CASE Load(t)
  <2>1. QueueInv'
    BY <1>10, StayKeeps DEF Load, InLock
  <2>2. Busy => Busy'
    BY <1>10, GotoBusy DEF Load
  <2> QED
    BY <1>1, <1>10, <2>1, <2>2, QuietStep DEF Load, DataInv
<1>11. CASE LoadRaises(t)
  <2>1. CASE pc[t] = "bypass"
    <3>1. QueueInv'
      BY <1>11, <2>1, StayKeeps DEF LoadRaises, Outside, InLock
    <3>2. Busy => Busy'
      BY <1>11, <2>1, GotoBusy DEF LoadRaises
    <3> QED
      BY <1>1, <1>11, <2>1, <3>1, <3>2, QuietStep DEF LoadRaises, DataInv, Excuse
  <2>2. CASE pc[t] = "bare"
    <3>1. QueueInv'
      BY <1>11, <2>2, LeaveKeeps DEF LoadRaises, InLock
    <3>2. Busy => Busy'
      BY <1>11, <2>2, GotoBusy DEF LoadRaises
    <3> QED
      BY <1>1, <1>11, <2>2, <3>1, <3>2, QuietStep DEF LoadRaises, DataInv, Excuse
  <2>3. CASE pc[t] = "load"
    <3>1. QueueInv'
      BY <1>11, <2>3, LeaveKeeps DEF LoadRaises, InLock
    <3> QED
      BY <1>1, <1>11, <2>3, <3>1, ExcusedStep DEF LoadRaises, DataInv, Excuse
  <2> QED
    BY <1>11, <2>1, <2>2, <2>3 DEF LoadRaises
<1>12. CASE Set(t)
  <2>1. QueueInv'
    BY <1>12, LeaveKeeps DEF Set, InLock
  <2>2. stored' = loaded[t] /\ loads' = loads
    BY <1>12 DEF Set, Write
  <2>3. DataInv'
    <3>1. stored' \in Version \cup {NoValue} /\ loads' \in Nat
      BY <2>2 DEF DataInv
    <3>2. excuses' \in Nat
      BY <1>12 DEF Set, Excuse, DataInv
    <3>3. lasting' = FALSE /\ UNCHANGED <<source, undeleted, loaded>>
      BY <1>12 DEF Set, Write
    <3> QED
      BY <3>1, <3>2, <3>3 DEF DataInv
  <2>4. LoadInv => LoadInv'
    <3>1. CASE Cached(loaded[t])
      BY <1>12, <2>2, <3>1 DEF Set, Excuse, LoadInv, Cached
    <3>2. CASE ~Cached(loaded[t])
      BY <1>12, <3>2, ExcusedStep DEF Set, Excuse, DataInv
    <3> QED
      BY <3>1, <3>2
  <2> QED
    BY <1>1, <2>1, <2>3, <2>4
<1>13. CASE SetFails(t)
  <2>1. QueueInv'
    BY <1>13, LeaveKeeps DEF SetFails, InLock
  <2> QED
    BY <1>1, <1>13, <2>1, ExcusedStep DEF SetFails, Excuse, DataInv
<1> QED
  BY <1>2, <1>3, <1>4, <1>5, <1>6, <1>7, <1>8, <1>9, <1>10, <1>11, <1>12, <1>13 DEF Proceed

(* Nobody else touches the lock, and what takes the value away is an       *)
(* excuse for the next load.                                               *)
LEMMA SurroundingsKeep ==
    ASSUME IInv, Expire \/ Change \/ Delete \/ DeleteFails \/ UNCHANGED vars
    PROVE  IInv'
<1> USE DEF IInv
<1>1. UNCHANGED <<pc, queue, service, loads>>
  BY DEF Expire, Change, Delete, DeleteFails, vars
<1>2. QueueInv' /\ (OneForAll' => OneForAll) /\ (Busy => Busy')
  BY <1>1 DEF QueueInv, OneForAll, Busy
<1>3. DataInv'
  <2>1. source' \in Version
    BY DEF DataInv, Version, Expire, Change, Delete, DeleteFails, vars
  <2>2. stored' \in Version \cup {NoValue}
    BY DEF DataInv, Expire, Change, Delete, DeleteFails, vars
  <2>3. lasting' \in BOOLEAN /\ undeleted' \in BOOLEAN
    BY DEF DataInv, Expire, Change, Delete, DeleteFails, vars
  <2>4. excuses' \in Nat
    BY DEF DataInv, Expire, Change, Delete, DeleteFails, Excuse, vars
  <2>5. UNCHANGED <<loaded, loads>>
    BY DEF Expire, Change, Delete, DeleteFails, vars
  <2> QED
    BY <2>1, <2>2, <2>3, <2>4, <2>5 DEF DataInv
<1>4. LoadInv => LoadInv'
  <2>1. CASE UNCHANGED <<stored, excuses>>
    BY <1>1, <1>2, <2>1, QuietStep
  <2>2. CASE stored' = NoValue /\ Excuse(Cached(stored))
    <3>1. CASE Cached(stored)
      BY <1>1, <2>2, <3>1, ExcusedStep DEF Excuse, DataInv
    <3>2. CASE ~Cached(stored)
      BY <1>1, <1>2, <2>2, <3>2 DEF Excuse, LoadInv
    <3> QED
      BY <3>1, <3>2
  <2> QED
    BY <2>1, <2>2 DEF Expire, Change, Delete, DeleteFails, vars
<1> QED
  BY <1>2, <1>3, <1>4

(* A value that is set from outside is as good as one that was loaded.     *)
LEMMA PutKeeps ==
    ASSUME IInv, Put
    PROVE  IInv'
<1> USE DEF IInv
<1>1. UNCHANGED <<pc, queue, service, loads, source, loaded>>
      /\ undeleted' = FALSE /\ lasting' = FALSE
  BY DEF Put, Write
<1>2. QueueInv' /\ (OneForAll' => OneForAll) /\ (Busy => Busy')
  BY <1>1 DEF QueueInv, OneForAll, Busy
<1>3. PICK version \in 1 .. source :
        stored' = version /\ Excuse(Cached(stored) /\ ~Cached(version))
  BY DEF Put, Write
<1>4. DataInv'
  <2>1. stored' \in Version \cup {NoValue}
    BY <1>3 DEF DataInv, Version
  <2>2. excuses' \in Nat
    BY <1>3 DEF Excuse, DataInv
  <2> QED
    BY <1>1, <2>1, <2>2 DEF DataInv
<1>5. LoadInv => LoadInv'
  <2>1. CASE Cached(stored) /\ ~Cached(version)
    BY <1>1, <1>3, <2>1, ExcusedStep DEF Excuse, DataInv
  <2>2. CASE ~Cached(stored)
    <3>1. excuses' = excuses
      BY <1>3, <2>2 DEF Excuse
    <3> QED
      BY <1>1, <1>2, <2>2, <3>1 DEF LoadInv
  <2>3. CASE Cached(version)
    <3>1. excuses' = excuses /\ Cached(stored)'
      BY <1>3, <2>3 DEF Excuse, Cached
    <3> QED
      BY <1>1, <3>1 DEF LoadInv
  <2> QED
    BY <2>1, <2>2, <2>3
<1> QED
  BY <1>2, <1>4, <1>5

LEMMA StepKeeps == IInv /\ [Next]_vars => IInv'
<1> SUFFICES ASSUME IInv, [Next]_vars PROVE IInv'
  OBVIOUS
<1>1. ASSUME NEW t \in Task, Call(t) \/ Proceed(t) PROVE IInv'
  BY <1>1, TaskKeeps
<1>2. CASE Expire \/ Change \/ Delete \/ DeleteFails \/ UNCHANGED vars
  BY <1>2, SurroundingsKeep
<1>3. CASE Put
  BY <1>3, PutKeeps
<1> QED
  BY <1>1, <1>2, <1>3 DEF Next, Quiescent

(* The invariant holds from the first state on.                            *)
THEOREM Invariance == Spec => []IInv
<1>1. Init => IInv
  <2> SUFFICES ASSUME Init PROVE IInv
    OBVIOUS
  <2>1. service \in [Task -> Service] /\ service \in Assign
    BY DEF Init
  <2>2. \A t \in Task : pc[t] = "idle"
    BY DEF Init
  <2>3. \A s \in Service : queue[s] = <<>> /\ Len(queue[s]) = 0
    BY DEF Init
  <2>4. pc \in [Task -> Step] /\ queue \in [Service -> Seq(Task)]
    BY DEF Init, Step
  <2>5. QueueInv
    <3>1. \A s \in Service : \A i \in 1 .. Len(queue[s]) : FALSE
      BY <2>3
    <3> QED
      BY <2>1, <2>2, <2>4, <3>1 DEF QueueInv, InLock
  <2>6. LoadInv
    BY DEF Init, LoadInv
  <2>7. source \in Version /\ loads \in Nat /\ excuses \in Nat
    BY DEF Init, Version
  <2>8. stored \in Version \cup {NoValue} /\ loaded \in [Task -> Version \cup {NoValue}]
    BY DEF Init
  <2>9. lasting \in BOOLEAN /\ undeleted \in BOOLEAN
    BY DEF Init
  <2>10. DataInv
    BY <2>7, <2>8, <2>9 DEF DataInv
  <2> QED
    BY <2>5, <2>6, <2>10 DEF IInv
<1> QED
  BY <1>1, StepKeeps, PTL DEF Spec

(* The variables stay in their types, and in every queue only the first is *)
(* past the lock.                                                          *)
THEOREM TypeCorrect == Spec => []TypeOK
<1>1. IInv => TypeOK
  <2> SUFFICES ASSUME IInv PROVE TypeOK
    OBVIOUS
  <2>1. \A s \in Service : DOMAIN queue[s] = 1 .. Len(queue[s])
    BY DEF IInv, QueueInv
  <2>2. DataInv /\ QueueInv
    BY DEF IInv
  <2>3. \A s \in Service : \A i \in DOMAIN queue[s] :
          /\ pc[queue[s][i]] \in (IF i = 1 THEN InLock \cup {"wait"} ELSE {"wait"})
          /\ service[queue[s][i]] = s
    BY <2>1, <2>2 DEF QueueInv
  <2>4. service \in [Task -> Service] /\ pc \in [Task -> Step]
    BY <2>2 DEF QueueInv
  <2> QED
    BY <2>2, <2>3, <2>4 DEF DataInv, TypeOK
<1> QED
  BY <1>1, Invariance, PTL

(* Where all calls are made on one CacheService, no load that followed two *)
(* misses is without its excuse, however many calls miss at once.          *)
THEOREM LoadsAreJustified ==
    ASSUME \A assignment \in Assign : \A t, u \in Task : assignment[t] = assignment[u]
    PROVE  Spec => []LoadsJustified
<1>1. IInv => LoadsJustified
  BY DEF IInv, QueueInv, OneForAll, LoadInv, LoadsJustified
<1> QED
  BY <1>1, Invariance, PTL

(* Under the same condition one loader at a time runs under the lock. It   *)
(* is the sharing that the routes of the application do not give: there    *)
(* every request has a CacheService of its own.                            *)
THEOREM OneLoaderWhereShared ==
    ASSUME \A assignment \in Assign : \A t, u \in Task : assignment[t] = assignment[u]
    PROVE  Spec => []OneLoadPerProcess
<1>1. IInv => OneLoadPerProcess
  <2> SUFFICES ASSUME IInv, NEW t \in Task, NEW u \in Task,
                      pc[t] \in {"load", "set"}, pc[u] \in {"load", "set"}
               PROVE  t = u
    BY DEF OneLoadPerProcess
  <2>1. QueueInv /\ service[t] = service[u]
    BY DEF IInv, QueueInv
  <2>2. pc[t] \in InLock /\ pc[u] \in InLock
    BY DEF InLock
  <2> QED
    BY <2>1, <2>2, OneInLock
<1> QED
  BY <1>1, Invariance, PTL
=============================================================================
