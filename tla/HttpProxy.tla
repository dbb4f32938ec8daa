------------------------------ MODULE HttpProxy ------------------------------
(***************************************************************************)
(* Do of internal/http/client.go: one request of http_request to an API,   *)
(* with its scan, its deadline, its retries and the reading of the answer. *)
(*                                                                         *)
(* The server is the other actor: a request that has left may be carried   *)
(* out after the client has given up on it, and an answer may be lost.     *)
(* Calls share nothing but read-only tables, so there is one.  Time is     *)
(* counted in units of the client's own timeout over ClientTimeout; the    *)
(* pauses between attempts are shorter than one unit.                      *)
(***************************************************************************)
EXTENDS ApiRequests, Naturals, Sequences

CONSTANTS
  Requests,       \* what a call may ask for
  MaxRetries,     \* attempts
  ClientTimeout,  \* http.Client.Timeout, per attempt
  MaxTimeout      \* bound on the timeout a call may ask for

ASSUME ProxyAssumption ==
  /\ MaxRetries \in Nat \ {0}
  /\ ClientTimeout \in Nat \ {0} /\ MaxTimeout \in Nat \ {0}

VARIABLES
  request,   \* what the call asks for
  at,        \* "start", "waiting", "pausing", "reading", "returned"
  attempt,   \* the attempt it has reached, from zero
  began,     \* when the attempt began
  now,       \* time since the context got its deadline
  body,      \* "none", "open", "closed": the last response's body
  result,    \* what Do has returned
  sentAs,    \* the headers of each attempt that has left
  server,    \* attempt -> "none", "arrived", "applied", or the status answered
  heard      \* attempt -> what the client heard of it

vars == <<request, at, attempt, began, now, body, result, sentAs, server, heard>>

Attempts == 0..(MaxRetries - 1)
Statuses == {"2xx", "4xx", "5xx", "5xx without a body"}
IsServerError(s) == s \in {"5xx", "5xx without a body"}

\* api: the one the call names, known if it is configured, with its URL, its
\* headers and how it is authorized; content: the body to send, and whether the
\* masker finds something in it; headers: the call's; valid: its method is one
\* that net/http takes.
IsRequest(r) ==
  /\ r.content \in {"none", "clean", "sensitive"}
  /\ r.timeout \in 1..MaxTimeout /\ r.valid \in BOOLEAN
  /\ r.api.known \in BOOLEAN
  /\ r.api.auth \in {"none", "bearer", "token", "basic", "header"}

ASSUME RequestsAssumption == \A r \in Requests : IsRequest(r)

Init ==
  /\ request \in Requests
  /\ at = "start"
  /\ attempt = 0
  /\ began = 0 /\ now = 0
  /\ body = "none"
  /\ result = "none"
  /\ sentAs = <<>>
  /\ server = [k \in Attempts |-> "none"]
  /\ heard = [k \in Attempts |-> "nothing"]

Expired == now >= request.timeout

Return(r) == at' = "returned" /\ result' = r

\* What Do looks at before it sends anything, the creation of the request last.
MayBeSent(r) ==
  r.api.known /\ ValidateURL(r.api.url) /\ r.content # "sensitive" /\ r.valid

\* A call that may not be sent is refused; otherwise the first attempt leaves.
Begin ==
  /\ at = "start"
  /\ IF ~MayBeSent(request)
     THEN Return("refused") /\ UNCHANGED <<sentAs, server>>
     ELSE /\ at' = "waiting"
          /\ sentAs' = <<FirstHeaders(request)>>
          /\ server' = [server EXCEPT ![0] = "arrived"]
          /\ UNCHANGED result
  /\ UNCHANGED <<request, attempt, began, now, body, heard>>

\* The server carries a request out, whether or not anyone waits for it.
Apply ==
  \E k \in Attempts :
    /\ server[k] = "arrived"
    /\ server' = [server EXCEPT ![k] = "applied"]
    /\ UNCHANGED <<request, at, attempt, began, now, body, result, sentAs, heard>>

\* It answers; errors of its own may come before it has done anything.
Answer ==
  \E k \in Attempts, s \in Statuses :
    /\ server[k] = "applied" \/ (server[k] = "arrived" /\ s # "2xx")
    /\ server' = [server EXCEPT ![k] = s]
    /\ UNCHANGED <<request, at, attempt, began, now, body, result, sentAs, heard>>

\* Mutant: client errors are retried, too.
IsFinalBelow400(s) == s = "2xx"

\* A response that ends the loop.
IsFinal(s) == ~IsServerError(s)

\* The status and headers of a response arrive.  The body of a server error
\* is closed, also that of the last attempt, which is then "used".
Receive ==
  LET s == server[attempt] IN
    /\ at = "waiting"
    /\ s \in Statuses
    /\ heard' = [heard EXCEPT ![attempt] = s]
    /\ body' = IF IsFinal(s) THEN "open" ELSE "closed"
    /\ at' = IF IsFinal(s) \/ attempt = MaxRetries - 1 THEN "reading" ELSE "pausing"
    /\ UNCHANGED <<request, attempt, began, now, result, sentAs, server>>

\* client.Do returns an error: the last one is returned, others are retried.
Failed(why) ==
  /\ heard' = [heard EXCEPT ![attempt] = why]
  /\ IF attempt = MaxRetries - 1 THEN Return("failed") ELSE at' = "pausing" /\ UNCHANGED result
  /\ UNCHANGED <<request, attempt, began, now, body, sentAs, server>>

ConnectionLost == at = "waiting" /\ Failed("lost")

TimedOut == Expired \/ now >= began + ClientTimeout

TimeOut == at = "waiting" /\ TimedOut /\ Failed("timeout")

\* Mutant: the attempts are not counted.
RetryUncounted ==
  /\ at = "pausing"
  /\ at' = "waiting"
  /\ began' = now
  /\ heard' = [heard EXCEPT ![attempt] = "nothing"]
  /\ UNCHANGED <<request, attempt, now, body, result, sentAs, server>>

\* After the pause the request is built again; with an expired context it does
\* not leave.
Retry ==
  /\ at = "pausing"
  /\ at' = "waiting"
  /\ attempt' = attempt + 1
  /\ began' = now
  /\ IF Expired
     THEN UNCHANGED <<sentAs, server>>
     ELSE /\ sentAs' = Append(sentAs, RetryHeaders(request))
          /\ server' = [server EXCEPT ![attempt + 1] = "arrived"]
  /\ UNCHANGED <<request, now, body, result, heard>>

\* What ReadAll makes of a response without a body, or of an open one.
Read ==
  /\ at = "reading"
  /\ body = "open" \/ heard[attempt] = "5xx without a body"
  /\ Return(heard[attempt])
  /\ body' = "closed"
  /\ UNCHANGED <<request, attempt, began, now, sentAs, server, heard>>

Unreadable == body = "closed" /\ heard[attempt] # "5xx without a body"

\* "read response failed"; the deferred Close comes after it.
ReadFailed ==
  /\ at = "reading"
  /\ Return("unread")
  /\ body' = "closed"
  /\ UNCHANGED <<request, attempt, began, now, sentAs, server, heard>>

ReadRefused == (Unreadable \/ (TimedOut /\ body = "open")) /\ ReadFailed

ReadLost == body = "open" /\ ReadFailed

Tick ==
  /\ at \in {"waiting", "pausing", "reading"}
  /\ ~Expired
  /\ at # "pausing" => ~TimedOut
  /\ now' = now + 1
  /\ UNCHANGED <<request, at, attempt, began, body, result, sentAs, server, heard>>

Done == at = "returned" /\ UNCHANGED vars

Network == ConnectionLost \/ ReadLost \/ Apply \/ Answer \/ Receive
Client == Begin \/ TimeOut \/ Retry \/ ReadRefused

Next == Client \/ Network \/ Read \/ Tick \/ Done

Spec == Init /\ [][Next]_vars

\* A goroutine that can run does, and time passes.  The network owes nothing:
\* no answer, and no end of a body.
FairSpec ==
  Spec /\ WF_vars(Client) /\ WF_vars(body = "closed" /\ Read) /\ WF_vars(Tick)

-----------------------------------------------------------------------------
TypeOK ==
  /\ request \in Requests
  /\ at \in {"start", "waiting", "pausing", "reading", "returned"}
  /\ attempt \in Attempts
  /\ began \in 0..MaxTimeout /\ now \in 0..MaxTimeout
  /\ body \in {"none", "open", "closed"}
  /\ result \in Statuses \cup {"none", "refused", "failed", "unread"}
  /\ Len(sentAs) <= attempt + 1
  /\ server \in [Attempts -> Statuses \cup {"none", "arrived", "applied"}]
  /\ heard \in [Attempts -> Statuses \cup {"nothing", "lost", "timeout"}]

\* The API is asked again only when no attempt so far got an answer of its
\* own, and what Do returns is what the last attempt heard (client.go:152-213).
RepeatedOnlyAfterFailure ==
  /\ \A k \in Attempts :
       k < attempt => IsServerError(heard[k]) \/ heard[k] \in {"lost", "timeout"}
  /\ result \in Statuses => result = heard[attempt] /\ result = server[attempt]

\* What is sent again has the headers and the credentials of the first attempt,
\* except for the content type (client.go:173-186).
RepeatedWithCredentials ==
  \A k \in DOMAIN sentAs : AgreeButForType(sentAs[k], sentAs[1])

\* A request goes to the API again only when it must, and as it was.
RepeatsAreFaithful == RepeatedOnlyAfterFailure /\ RepeatedWithCredentials

\* Do returns, whatever the server does, and keeps no connection: every body it
\* was given is closed (client.go:121-126, 160-162, 188).
DoReturns == <>[](at = "returned" /\ body # "open")

-----------------------------------------------------------------------------
(***************************************************************************)
(* What the code's own words promise.                                      *)
(***************************************************************************)

\* "use last 5xx response": a response the loop ends with can be read.
LastResponseIsUsed == at = "reading" => ~Unreadable

\* "Rebuild request for retry": what is sent again is what was sent.
RetriedAsSent == \A k \in DOMAIN sentAs : sentAs[k] = sentAs[1]

\* "bearer, basic, header, or none", "env var name holding the actual token":
\* where the variable that an API names is set, its requests carry what it holds.
CredentialsAreSent ==
  \A k \in DOMAIN sentAs :
    request.api.isSet /\ "Authorization" \notin DOMAIN request.headers =>
      \E h \in DOMAIN sentAs[k] : sentAs[k][h] = "credentials"

\* "Timeout in seconds": an attempt is given up on only when the timeout the
\* call asked for is over.
TimeoutIsHonoured == [][TimeOut => Expired]_vars
=============================================================================
