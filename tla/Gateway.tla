------------------------------- MODULE Gateway -------------------------------
(***************************************************************************)
(* The middleware stack of create_app (app/bootstrap.py), which every      *)
(* request passes on its way to the router and every answer on its way     *)
(* back, around the rate limiter of RateLimiter.  Starlette puts its       *)
(* ServerErrorMiddleware, which calls unhandled_exception_handler, outside *)
(* of it and the handler of AppError inside.                               *)
(*                                                                         *)
(* Each request is a task with a context of its own; a handler, a thread   *)
(* or an inner task inherits it.  While one request awaits Redis or its    *)
(* handler, others run.                                                    *)
(***************************************************************************)
EXTENDS RateLimiter, SequencesExt

CONSTANT Nobody     \* no request id

ASSUME NobodyAssumption == Nobody \notin Request

\* What is asked for: a path that is limited, one that is not, the pages of the
\* API's documentation, or whether a browser may send a request (CORS).
Kind == {"limited", "plain", "docs", "preflight"}

VARIABLES
    stage,      \* where a request is
    kind,       \* what it asks for
    context,    \* _request_id in the context of its task
    record,     \* the last log record: the request it was written for, its request_id
    sent        \* the last answer: to what kind, its status, the layers it has passed

gateway == <<stage, kind, context, record, sent>>
allVars == <<vars, gateway>>

GatewayInit ==
    /\ Init
    /\ stage = [r \in Request |-> "idle"]
    /\ kind = [r \in Request |-> "plain"]
    /\ context = [r \in Request |-> Nobody]
    /\ record = [of |-> Nobody, id |-> Nobody]
    /\ sent = [to |-> "plain", status |-> "none", passed |-> {}]

-----------------------------------------------------------------------------
(* The stack. *)

\* In the order in which create_app adds them; the last only where origins are
\* configured.
Added == <<"limiter", "security", "context", "cors">>

\* add_middleware puts each in front of those that were added before.
Stack == Reverse(Added)

\* The layers outside of one, which an answer made there passes on its way out.
Outside(layer) ==
    {Stack[i] : i \in {j \in DOMAIN Stack : \E k \in DOMAIN Stack : j < k /\ Stack[k] = layer}}

Goto(r, place) == stage' = [stage EXCEPT ![r] = place]

\* The task of the request ends with it.
Answer(r, status, passed) ==
    /\ Goto(r, "idle")
    /\ sent' = [to |-> kind[r], status |-> status, passed |-> passed]
    /\ context' = [context EXCEPT ![r] = Nobody]
    /\ UNCHANGED kind

Log(r) == record' = [of |-> r, id |-> context[r]]

\* An exception leaves the stack, skips what its layers do to an answer, and is
\* logged and answered outside.
Raise(r) ==
    /\ Log(r)
    /\ Answer(r, "500", {})

-----------------------------------------------------------------------------
(* Faulty variants, which the properties must tell apart from the code. *)

\* The id is kept in the module and not in the context.
SetRequestIdShared(r) == context' = [q \in Request |-> r]

-----------------------------------------------------------------------------
(* The layers. *)

\* The id of the client's header, or a new one; either stands for its request.
SetRequestId(r) == context' = [context EXCEPT ![r] = r]

\* The CORS layer answers a preflight itself.
Preflight(r) ==
    /\ stage[r] = "idle"
    /\ sent' = [to |-> "preflight", status |-> "200", passed |-> Outside("cors")]
    /\ UNCHANGED <<vars, stage, kind, context, record>>

ReceiveLimited(r) ==
    /\ stage[r] = "idle"
    /\ kind' = [kind EXCEPT ![r] = "limited"]
    /\ SetRequestId(r)
    /\ Goto(r, "counting")
    /\ UNCHANGED <<vars, record, sent>>

\* match_rate_limited_path finds nothing.
Receive(r) ==
    /\ stage[r] = "idle"
    /\ \E k \in {"plain", "docs"} : kind' = [kind EXCEPT ![r] = k]
    /\ SetRequestId(r)
    /\ Goto(r, "routed")
    /\ UNCHANGED <<vars, record, sent>>

\* check_and_register has an answer: the request goes on, or gets a 429.
Decide(r, allowed) ==
    /\ UNCHANGED record
    /\ IF allowed
       THEN Goto(r, "routed") /\ UNCHANGED <<kind, context, sent>>
       ELSE Answer(r, "429", Outside("limiter"))

Count(r) ==
    /\ stage[r] = "counting"
    /\ Register(r)
    /\ Decide(r, Allowed(counter'))

\* EXPIRE has to be sent before the count is looked at.
CountFirst(r) ==
    /\ stage[r] = "counting"
    /\ RegisterAndExpire(r)
    /\ Goto(r, IF Allowed(counter') THEN "granted" ELSE "refused")
    /\ UNCHANGED <<kind, context, record, sent>>

SetExpiry(r) ==
    /\ stage[r] \in {"granted", "refused"}
    /\ ExpireKey(r)
    /\ Decide(r, stage[r] = "granted")

\* No command of CacheClient catches what Redis raises: the request fails closed.
CountFails(r) ==
    /\ stage[r] = "counting"
    /\ RegisterFails(r)
    /\ Raise(r)

\* Redis is not reached, and nothing is counted.
CountUnsent(r) ==
    /\ stage[r] = "counting"
    /\ RegisterUnsent(r)
    /\ Raise(r)

ExpiryFails(r) ==
    /\ stage[r] \in {"granted", "refused"}
    /\ ExpireFails(r)
    /\ Raise(r)

-----------------------------------------------------------------------------
(* The router: what a handler does is in the other modules. *)

\* An answer, which may be that of an AppError, a 404 or a 422.
RouterAnswers(r) ==
    /\ stage[r] = "routed"
    /\ Answer(r, "any", Range(Stack))
    /\ UNCHANGED <<vars, record>>

RouterRaises(r) ==
    /\ stage[r] = "routed"
    /\ Raise(r)
    /\ UNCHANGED vars

RouterLogs(r) ==
    /\ stage[r] = "routed"
    /\ Log(r)
    /\ UNCHANGED <<vars, stage, kind, context, sent>>

-----------------------------------------------------------------------------

Answers(r) == Count(r) \/ CountFirst(r) \/ SetExpiry(r) \/ RouterAnswers(r) \/ RouterRaises(r)

GatewayNext ==
    \/ \E r \in Request :
        \/ Preflight(r) \/ Receive(r) \/ ReceiveLimited(r)
        \/ Answers(r) \/ CountFails(r) \/ CountUnsent(r) \/ ExpiryFails(r) \/ RouterLogs(r)
    \/ Tick /\ UNCHANGED gateway

(* Time passes, the event loop resumes a request whose command or handler  *)
(* has returned, and a client that is refused asks again, whatever else is *)
(* asked for.                                                              *)
GatewayFairness ==
    /\ WF_allVars(Tick /\ UNCHANGED gateway)
    /\ \A r \in Request : WF_allVars(Answers(r) \/ ExpiryFails(r)) /\ SF_allVars(ReceiveLimited(r))

GatewaySpec == GatewayInit /\ [][GatewayNext]_allVars /\ GatewayFairness

-----------------------------------------------------------------------------
(* Properties *)

\* However requests overlap, a log record names the request it was written for,
\* also when the request has failed; and every answer, a 429 of the limiter too,
\* has passed the layers that give it its request id and, but for the pages of
\* the documentation, the security headers.  Only a preflight and an exception
\* that nobody handles are answered outside of those layers.
Attributed ==
    /\ record.id = record.of
    /\ sent.status \notin {"none", "500"} /\ sent.to # "preflight" =>
        {"context", "security"} \subseteq sent.passed
=============================================================================
