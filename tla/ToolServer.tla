----------------------------- MODULE ToolServer -----------------------------
(***************************************************************************)
(* transport/server.go: the chain every tool call goes through.  Outermost *)
(* the recovery from panics, then the rate limit (a channel of             *)
(* maxConcurrent slots), the telemetry, the log of tool calls, and the     *)
(* handler with its steps (ToolHandlers).  The server runs calls           *)
(* concurrently; telemetry leaves in goroutines nobody waits for.          *)
(*                                                                         *)
(* That the recovery is outermost and the first middleware surrounds the   *)
(* others is how mcp-go builds the chain.                                  *)
(***************************************************************************)
EXTENDS ToolHandlers

CONSTANTS
  Calls,          \* the tool calls of a run
  maxConcurrent,  \* slots of the semaphore
  Requests        \* what may be asked: a tool and the input its gate looks at

ASSUME ToolServerAssumption ==
  /\ IsFiniteSet(Calls)
  /\ maxConcurrent \in Nat
  /\ \A r \in Requests :
       r.tool \in Tools /\ (r.tool = "db_query" => r.input \in Seq(Tokens))

VARIABLES
  stage,    \* call -> where it is
  request,  \* call -> what it asks for
  step,     \* call -> the step its handler has reached
  ran,      \* call -> how a service ran it, if one did
  sem,      \* tokens in the channel
  logged,   \* calls whose duration was logged
  sending,  \* calls whose telemetry goroutine runs
  sent,     \* calls whose telemetry was sent, or lost
  blocked,  \* calls a gate stopped
  audit     \* blocked calls in the audit log

vars == <<stage, request, step, ran, sem, logged, sending, sent, blocked, audit>>
handlerVars == <<request, step, ran>>
auditVars == <<blocked, audit>>
telemetryVars == <<logged, sending, sent>>

Stages == {"new", "handling", "working", "returned", "panicked", "reported",
           "refused", "answered"}
HoldingStages == {"handling", "working", "returned", "panicked", "reported"}

In(place) == {c \in Calls : stage[c] = place}
Holding == {c \in Calls : stage[c] \in HoldingStages}

NoRequest == [tool |-> "none"]

\* The requests that their gate lets through.
Accepted == {r \in Requests : Accepts(r)}

At(c, kind) == stage[c] = "handling" /\ StepsOf[request[c].tool][step[c]] = kind

Init ==
  /\ stage = [c \in Calls |-> "new"]
  /\ request = [c \in Calls |-> NoRequest]
  /\ step = [c \in Calls |-> 1]
  /\ ran = [c \in Calls |-> "nothing"]
  /\ sem = 0
  /\ logged = {} /\ sending = {} /\ sent = {}
  /\ blocked = {} /\ audit = {}

Go(c, place) == stage' = [stage EXCEPT ![c] = place]

\* sem <- struct{}{}: there is room in the channel.
Acquire(c) ==
  /\ stage[c] = "new"
  /\ sem < maxConcurrent
  /\ sem' = sem + 1
  /\ \E r \in Requests : request' = [request EXCEPT ![c] = r]
  /\ Go(c, "handling")
  /\ UNCHANGED <<step, ran, telemetryVars, auditVars>>

\* Mutant: calls are turned away one slot too early.
RefuseEarly(c) ==
  /\ stage[c] = "new"
  /\ sem + 1 >= maxConcurrent
  /\ Go(c, "refused")
  /\ UNCHANGED <<handlerVars, sem, telemetryVars, auditVars>>

\* "rate limited: too many concurrent requests"
Refuse(c) ==
  /\ stage[c] = "new"
  /\ sem >= maxConcurrent
  /\ Go(c, "refused")
  /\ UNCHANGED <<handlerVars, sem, telemetryVars, auditVars>>

\* Nothing is wrong with the request so far.
Pass(c) ==
  /\ \/ At(c, "args") \/ At(c, "get")
     \/ (At(c, "gate") \/ At(c, "check")) /\ request[c] \in Accepted
  /\ step' = [step EXCEPT ![c] = @ + 1]
  /\ UNCHANGED <<stage, request, ran, sem, telemetryVars, auditVars>>

\* A missing argument, a text over the limit, an unknown name, or the proxy's
\* check: an error result.
Fail(c) ==
  /\ \/ At(c, "args") \/ At(c, "get")
     \/ At(c, "check") /\ request[c] \notin Accepted
  /\ blocked' = IF At(c, "check") THEN blocked \cup {c} ELSE blocked
  /\ Go(c, "returned")
  /\ UNCHANGED <<handlerVars, sem, telemetryVars, audit>>

\* The gate stops the call; LogBlocked takes the logger's mutex and writes.
Block(c) ==
  /\ At(c, "gate")
  /\ request[c] \notin Accepted
  /\ blocked' = blocked \cup {c}
  /\ audit' = audit \cup {c}
  /\ Go(c, "returned")
  /\ UNCHANGED <<handlerVars, sem, telemetryVars>>

Work(c) ==
  /\ At(c, "work")
  /\ ran' = [ran EXCEPT ![c] = RunAs(request[c])]
  /\ Go(c, "working")
  /\ UNCHANGED <<request, step, sem, telemetryVars, auditVars>>

\* With a result or an error.
HandlerReturns(c) ==
  /\ stage[c] = "working"
  /\ Go(c, "returned")
  /\ UNCHANGED <<handlerVars, sem, telemetryVars, auditVars>>

HandlerPanics(c) ==
  /\ stage[c] = "working"
  /\ Go(c, "panicked")
  /\ UNCHANGED <<handlerVars, sem, telemetryVars, auditVars>>

\* Mutant: the call waits for the telemetry of others.
ReportInTurn(c) ==
  /\ stage[c] = "returned"
  /\ sending = {}
  /\ logged' = logged \cup {c}
  /\ sending' = sending \cup {c}
  /\ Go(c, "reported")
  /\ UNCHANGED <<handlerVars, sem, sent, auditVars>>

\* The log line, then the telemetry goroutine; a panic skips both.
Report(c) ==
  /\ stage[c] = "returned"
  /\ logged' = logged \cup {c}
  /\ sending' = sending \cup {c}
  /\ Go(c, "reported")
  /\ UNCHANGED <<handlerVars, sem, sent, auditVars>>

\* Mutant: the slot is given back only on the normal way out.
ReleaseUnlessPanicked(c) ==
  /\ stage[c] \in {"reported", "panicked"}
  /\ sem' = IF stage[c] = "panicked" THEN sem ELSE sem - 1
  /\ Go(c, "answered")
  /\ UNCHANGED <<handlerVars, telemetryVars, auditVars>>

\* The deferred <-sem runs on the normal way out and when a panic unwinds;
\* then the answer, or the recovered panic, goes back to the agent.
Release(c) ==
  /\ stage[c] \in {"reported", "panicked"}
  /\ sem' = sem - 1
  /\ Go(c, "answered")
  /\ UNCHANGED <<handlerVars, telemetryVars, auditVars>>

\* send: the event arrives or is lost; nobody looks.
TelemetryEnds(c) ==
  /\ c \in sending
  /\ sending' = sending \ {c}
  /\ sent' = sent \cup {c}
  /\ UNCHANGED <<stage, handlerVars, sem, logged, auditVars>>

Returns(c) == HandlerReturns(c) \/ HandlerPanics(c)

Proceed(c) ==
  \/ Acquire(c) \/ Refuse(c) \/ Pass(c) \/ Fail(c) \/ Block(c) \/ Work(c)
  \/ Report(c) \/ Release(c)

Next == \E c \in Calls : Proceed(c) \/ Returns(c) \/ TelemetryEnds(c)

Spec == Init /\ [][Next]_vars

\* A service with a deadline is done with the call in the end; of the others,
\* of the telemetry, and of a look-up, which waits for the registry's mutex,
\* nothing is assumed.
FairSpec ==
  /\ Spec
  /\ \A c \in Calls :
       /\ WF_vars(~At(c, "get") /\ Proceed(c))
       /\ WF_vars(request[c].tool \notin Unbounded /\ Returns(c))

\* No look-up waits for ever.  The registry's mutex is held over the ping of a
\* connection that is added, which has no deadline for a SQL database, and the
\* deadline of a query only starts after the look-up (registry.go:194-201,
\* handlers.go:184-196): see PingsReturn in ServiceLifecycle.
LookupsReturn == \A c \in Calls : WF_vars(At(c, "get") /\ Proceed(c))

-----------------------------------------------------------------------------
TypeOK ==
  /\ stage \in [Calls -> Stages]
  /\ request \in [Calls -> Requests \cup {NoRequest}]
  /\ step \in [Calls -> 1..4]
  /\ ran \in [Calls -> {"nothing", "query", "exec", "call"}]
  /\ sem \in 0..maxConcurrent
  /\ logged \subseteq Calls /\ sending \subseteq Calls /\ sent \subseteq Calls
  /\ blocked \subseteq Calls /\ audit \subseteq Calls

\* Every token in the channel is some call's, on every way out of a handler:
\* no slot is lost, none is given back twice (server.go:298-300).
SlotsAreHeld == sem = Cardinality(Holding)

\* Telemetry leaves once, and only for calls that came back from their
\* handler; it holds no slot (server.go:308-321, client.go:51-64).
ReportedOnce ==
  /\ sending \cap sent = {}
  /\ \A c \in sending \cup sent : stage[c] \in {"reported", "answered"} /\ c \in logged

\* What a service has run, the gate of its handler accepts.
OnlyAcceptedIsRun == \A c \in Calls : ran[c] # "nothing" => Accepts(request[c])

\* A service has only run what the gate of its handler accepts, and a database
\* has run a query as what the gate judged it to be, rows or a count, unless
\* the query begins with a comment (handlers.go:179-205, :276-298, :342-359).
RunAsJudged ==
  /\ OnlyAcceptedIsRun
  /\ \A c \in Calls :
       ran[c] \in {"query", "exec"} /\ ~BeginsWithComment(request[c].input) =>
         ran[c] = Judged(request[c].input)

\* If look-ups return, every call is answered whose tool has a deadline,
\* although calls that have none may hold slots for ever: a handler that ends
\* frees its slot, and a call that finds no slot is told so (server.go:295-302).
CallsAreAnswered ==
  LookupsReturn => \A c \in Calls :
    <>(stage[c] \in {"answered", "refused"} \/ request[c].tool \in Unbounded)

\* A query without comments that a database has run was one statement: a
\* semicolon in a string separates nothing, whatever quotes are escaped in it,
\* and any other stops the query (security.go:85-88, :107-126).  The statements
\* are counted in the text the gate has taken comments out of without regard to
\* quotes, so of queries with the marks of comments this does not hold.
OneStatementIsRun ==
  \A c \in Calls :
    ran[c] \in {"query", "exec"} /\ ~HasCommentMarks(request[c].input) =>
      Statements(request[c].input) = 1

\* The rate limit keeps the promise of Admission.
Limiter == INSTANCE Admission
  WITH Limit <- maxConcurrent,
       inside <- Holding,
       gone <- In("answered"),
       turnedAway <- In("refused")

Limits == Limiter!Spec

-----------------------------------------------------------------------------
(***************************************************************************)
(* What the documents promise.                                             *)
(***************************************************************************)

\* "structured events for all tool calls": a call that is over has sent its
\* event, or is sending it.
EveryCallIsObserved ==
  \A c \in Calls : stage[c] \in {"answered", "refused"} => c \in sending \cup sent

\* "every blocked operation is logged": a call a gate or a check has stopped is
\* in the audit log.
BlockedIsAudited == blocked \subseteq audit

\* A query that reads comes back with its rows, also when it begins with a
\* comment.
ReadsReturnRows ==
  \A c \in Calls : ran[c] = "exec" => Judged(request[c].input) = "exec"

\* Every call is answered, whatever its tool.
EveryCallIsAnswered == \A c \in Calls : <>(stage[c] \in {"answered", "refused"})
=============================================================================
