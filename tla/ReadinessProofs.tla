--------------------------- MODULE ReadinessProofs ---------------------------
(***************************************************************************)
(* Proofs about Readiness, for any number of probes and of dependencies.   *)
(***************************************************************************)
EXTENDS Readiness, TLAPS

\* What set of facts a status needs.
Justifies(facts, status) ==
    /\ status = "ok" => \A d \in Dependency : [what |-> "passes", of |-> d] \in facts
    /\ status = "error" => \E d \in Dependency : [what |-> "fails", of |-> d] \in facts

\* A probe in flight has noted the grounds of each result it has, and what holds now.
FoundInv ==
    \A p \in Probe : pc[p] = "checking" =>
        /\ Facts \subseteq grounds[p]
        /\ \A d \in Dependency :
            /\ found[p][d] = "ok" => [what |-> "passes", of |-> d] \in grounds[p]
            /\ found[p][d] = "error" => [what |-> "fails", of |-> d] \in grounds[p]

\* The cached result has the grounds of the probe that cached it.
CacheInv == Justifies(basis, health)

IInv == TypeOK /\ FoundInv /\ CacheInv /\ AnswerJustified

(* What holds at the moment of a check is noted.                           *)
LEMMA FactsNoted ==
    ASSUME NEW d \in Dependency
    PROVE  /\ Passes(d) => [what |-> "passes", of |-> d] \in Facts
           /\ ~Passes(d) => [what |-> "fails", of |-> d] \in Facts
  BY DEF Facts

LEMMA FactsTyped == Facts \subseteq Fact
  BY DEF Facts, Fact

(* Answers keep their grounds, because grounds only grow once an answer is *)
(* given.                                                                  *)
LEMMA AnswersFollow ==
    ASSUME AnswerJustified, answer' = answer,
           \A p \in Probe : grounds[p] \subseteq grounds'[p]
    PROVE  AnswerJustified'
  BY DEF AnswerJustified

(* The steps of the environment change up or schema, and every probe in    *)
(* flight notes what then holds.                                           *)
LEMMA ObserveKeeps ==
    ASSUME IInv, Observe,
           up' \in SUBSET Dependency, schema' \in Schema,
           UNCHANGED <<pc, found, health, left, answer, basis>>
    PROVE  IInv'
<1>1. Facts' \subseteq Fact
  BY DEF Facts, Fact
<1>2. grounds' \in [Probe -> SUBSET Fact]
  BY <1>1 DEF IInv, TypeOK, Observe
<1>3. TypeOK'
  BY <1>2 DEF IInv, TypeOK
<1>4. \A p \in Probe : grounds[p] \subseteq grounds'[p]
  BY DEF Observe
<1>5. FoundInv'
  <2> SUFFICES ASSUME NEW p \in Probe, pc[p] = "checking"
               PROVE  /\ Facts' \subseteq grounds'[p]
                      /\ \A d \in Dependency :
                          /\ found[p][d] = "ok" => [what |-> "passes", of |-> d] \in grounds'[p]
                          /\ found[p][d] = "error" => [what |-> "fails", of |-> d] \in grounds'[p]
    BY DEF FoundInv
  <2>1. Facts' \subseteq grounds'[p]
    BY DEF Observe
  <2>2. grounds[p] \subseteq grounds'[p]
    BY <1>4
  <2> QED
    BY <2>1, <2>2 DEF IInv, FoundInv
<1>6. CacheInv'
  BY DEF IInv, CacheInv, Justifies
<1>7. AnswerJustified'
  BY <1>4, AnswersFollow DEF IInv
<1> QED
  BY <1>3, <1>5, <1>6, <1>7 DEF IInv

(* A hit hands on the cached result with its grounds.                      *)
LEMMA ServeKeeps ==
    ASSUME IInv, NEW p \in Probe, ServeCached(p)
    PROVE  IInv'
<1>1. TypeOK'
  BY DEF IInv, TypeOK, ServeCached
<1>2. FoundInv'
  <2>1. \A q \in Probe : pc[q] = "checking" => grounds'[q] = grounds[q]
    BY DEF IInv, TypeOK, ServeCached
  <2>2. Facts' = Facts /\ pc' = pc /\ found' = found
    BY DEF ServeCached, Facts, Passes
  <2> QED
    BY <2>1, <2>2 DEF IInv, FoundInv
<1>3. CacheInv'
  BY DEF IInv, CacheInv, Justifies, ServeCached
<1>4. AnswerJustified'
  <2>1. answer'[p] = health /\ grounds'[p] = basis
    BY DEF IInv, TypeOK, ServeCached
  <2>2. \A q \in Probe \ {p} : answer'[q] = answer[q] /\ grounds'[q] = grounds[q]
    BY DEF IInv, TypeOK, ServeCached
  <2> QED
    BY <2>1, <2>2 DEF IInv, AnswerJustified, CacheInv, Justifies
<1> QED
  BY <1>1, <1>2, <1>3, <1>4 DEF IInv

(* A miss forgets the answer before and starts to note afresh.             *)
LEMMA StartKeeps ==
    ASSUME IInv, NEW p \in Probe, StartChecks(p)
    PROVE  IInv'
<1>1. NothingFound \in [Dependency -> Status \cup {"none"}]
  BY DEF NothingFound
<1>2. TypeOK'
  BY <1>1, FactsTyped DEF IInv, TypeOK, StartChecks
<1>3. Facts' = Facts
  BY DEF StartChecks, Facts, Passes
<1>4. /\ pc'[p] = "checking" /\ found'[p] = NothingFound
      /\ grounds'[p] = Facts /\ answer'[p] = "none"
  BY DEF IInv, TypeOK, StartChecks
<1>5. \A q \in Probe \ {p} :
        pc'[q] = pc[q] /\ found'[q] = found[q] /\ grounds'[q] = grounds[q] /\ answer'[q] = answer[q]
  BY DEF IInv, TypeOK, StartChecks
<1>6. \A d \in Dependency : NothingFound[d] = "none"
  BY DEF NothingFound
<1>7. FoundInv'
  BY <1>3, <1>4, <1>5, <1>6 DEF IInv, FoundInv
<1>8. CacheInv'
  BY DEF IInv, CacheInv, Justifies, StartChecks
<1>9. AnswerJustified'
  BY <1>4, <1>5 DEF IInv, AnswerJustified
<1> QED
  BY <1>2, <1>7, <1>8, <1>9 DEF IInv

(* The result of a check is what the probe has noted of this very moment.  *)
LEMMA CheckKeeps ==
    ASSUME IInv, NEW p \in Probe, NEW d \in Dependency, Check(p, d)
    PROVE  IInv'
<1>1. TypeOK'
  BY DEF IInv, TypeOK, Check, Status
<1>2. FoundInv'
  <2>1. Facts' = Facts /\ pc' = pc /\ grounds' = grounds
    BY DEF Check, Facts, Passes
  <2>2. \A q \in Probe, e \in Dependency : (q # p \/ e # d) => found'[q][e] = found[q][e]
    BY DEF IInv, TypeOK, Check
  <2>3. found'[p][d] = IF Passes(d) THEN "ok" ELSE "error"
    BY DEF IInv, TypeOK, Check
  <2>4. Facts \subseteq grounds[p]
    BY DEF IInv, FoundInv, Check
  <2>5. /\ found'[p][d] = "ok" => [what |-> "passes", of |-> d] \in grounds[p]
        /\ found'[p][d] = "error" => [what |-> "fails", of |-> d] \in grounds[p]
    BY <2>3, <2>4, FactsNoted
  <2> QED
    BY <2>1, <2>2, <2>5 DEF IInv, FoundInv
<1>3. CacheInv'
  BY DEF IInv, CacheInv, Justifies, Check
<1>4. AnswerJustified'
  BY DEF IInv, AnswerJustified, Check
<1> QED
  BY <1>1, <1>2, <1>3, <1>4 DEF IInv

(* The status computed from the results has the grounds the results have,  *)
(* in the answer and in the cache alike.                                   *)
LEMMA FinishKeeps ==
    ASSUME IInv, NEW p \in Probe, Finish(p)
    PROVE  IInv'
<1> DEFINE status == StatusOf(found[p])
<1>1. status \in Status /\ health' = status
  BY DEF StatusOf, Status, Finish
<1>2. NothingFound \in [Dependency -> Status \cup {"none"}]
  BY DEF NothingFound
<1>3. left' = TTL(status)
  BY <1>1 DEF Finish
<1>4. TypeOK'
  <2>1. /\ left' \in 0 .. READINESS_SUCCESS_TTL
        /\ health' = "error" => left' <= READINESS_FAILURE_TTL
        /\ health' # "none"
    BY <1>1, <1>3 DEF TTL, READINESS_SUCCESS_TTL, READINESS_FAILURE_TTL, Status
  <2> QED
    BY <1>1, <1>2, <2>1 DEF IInv, TypeOK, Finish
<1>5. Justifies(grounds[p], status)
  <2>1. \A e \in Dependency : found[p][e] \in Status
    BY DEF IInv, TypeOK, Finish
  <2>2. \A e \in Dependency :
          /\ found[p][e] = "ok" => [what |-> "passes", of |-> e] \in grounds[p]
          /\ found[p][e] = "error" => [what |-> "fails", of |-> e] \in grounds[p]
    BY DEF IInv, FoundInv, Finish
  <2> QED
    BY <2>1, <2>2 DEF Justifies, StatusOf, Status
<1>6. FoundInv'
  <2>1. pc'[p] = "idle"
    BY DEF IInv, TypeOK, Finish
  <2>2. \A q \in Probe \ {p} : pc'[q] = pc[q] /\ found'[q] = found[q]
    BY DEF IInv, TypeOK, Finish
  <2>3. Facts' = Facts /\ grounds' = grounds
    BY DEF Finish, Facts, Passes
  <2> QED
    BY <2>1, <2>2, <2>3 DEF IInv, FoundInv
<1>7. CacheInv'
  BY <1>1, <1>5 DEF CacheInv, Justifies, Finish
<1>8. AnswerJustified'
  <2>1. answer'[p] = status
    BY <1>1 DEF IInv, TypeOK, Finish
  <2>2. grounds' = grounds /\ \A q \in Probe \ {p} : answer'[q] = answer[q]
    BY DEF IInv, TypeOK, Finish
  <2> QED
    BY <1>5, <2>1, <2>2 DEF IInv, AnswerJustified, Justifies
<1> QED
  BY <1>4, <1>6, <1>7, <1>8 DEF IInv

(* Every step keeps the invariant, one action at a time.                   *)
LEMMA StepKeeps == IInv /\ [Next]_vars => IInv'
<1> SUFFICES ASSUME IInv, [Next]_vars PROVE IInv'
  OBVIOUS
<1>1. ASSUME NEW p \in Probe, Arrive(p) PROVE IInv'
  BY <1>1, ServeKeeps, StartKeeps DEF Arrive
<1>2. ASSUME NEW p \in Probe, Finish(p) PROVE IInv'
  BY <1>2, FinishKeeps
<1>3. ASSUME NEW p \in Probe, NEW d \in Dependency, Check(p, d) PROVE IInv'
  BY <1>3, CheckKeeps
<1>4. ASSUME NEW d \in Dependency, Toggle(d) PROVE IInv'
  <2>1. up' \in SUBSET Dependency /\ schema' \in Schema
    BY <1>4 DEF IInv, TypeOK, Toggle
  <2> QED
    BY <1>4, <2>1, ObserveKeeps DEF Toggle
<1>5. CASE Migrate
  <2>1. up' \in SUBSET Dependency /\ schema' \in Schema
    BY <1>5 DEF IInv, TypeOK, Migrate, Schema
  <2> QED
    BY <1>5, <2>1, ObserveKeeps DEF Migrate
<1>6. CASE Tick
  <2>1. TypeOK'
    BY <1>6 DEF IInv, TypeOK, Tick, READINESS_SUCCESS_TTL, READINESS_FAILURE_TTL
  <2>2. Facts' = Facts
    BY <1>6 DEF Tick, Facts, Passes
  <2> QED
    BY <1>6, <2>1, <2>2 DEF IInv, Tick, FoundInv, CacheInv, Justifies, AnswerJustified
<1>7. CASE UNCHANGED vars
  <2>1. Facts' = Facts
    BY <1>7 DEF vars, Facts, Passes
  <2> QED
    BY <1>7, <2>1 DEF vars, IInv, TypeOK, FoundInv, CacheInv, Justifies, AnswerJustified
<1> QED
  BY <1>1, <1>2, <1>3, <1>4, <1>5, <1>6, <1>7 DEF Next

(* The invariant holds from the first state on.                            *)
THEOREM Invariance == Spec => []IInv
<1>1. Init => IInv
  <2> SUFFICES ASSUME Init PROVE IInv
    OBVIOUS
  <2>1. TypeOK
    BY DEF Init, TypeOK, NothingFound, Status, READINESS_SUCCESS_TTL, READINESS_FAILURE_TTL
  <2> QED
    BY <2>1 DEF Init, IInv, FoundInv, CacheInv, Justifies, AnswerJustified
<1> QED
  BY <1>1, StepKeeps, PTL DEF Spec

(* The variables of the cache and of the probes stay in their types, and a *)
(* cached failure never lives longer than its own, shorter TTL.            *)
THEOREM TypeCorrect == Spec => []TypeOK
  BY Invariance, PTL DEF IInv

(* Each part of an answer of /readyz was true at some moment since the     *)
(* checks behind the answer began, though not all at one: every dependency *)
(* had passed before an "ok", and some had failed before an "error",       *)
(* however many probes overlap and overwrite each other's results.         *)
THEOREM AnswersJustified == Spec => []AnswerJustified
  BY Invariance, PTL DEF IInv
=============================================================================
