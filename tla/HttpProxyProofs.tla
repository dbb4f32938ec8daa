--------------------------- MODULE HttpProxyProofs ---------------------------
(***************************************************************************)
(* Proofs about HttpProxy: the API is asked again only after a failure and *)
(* with the headers of the first attempt, whatever requests there are and  *)
(* however many attempts and however much time they may take.              *)
(*                                                                         *)
(* The attempts are numbered, and what is known of the one that Do has     *)
(* reached depends on where Do is; of those before it, it is known once    *)
(* and for all that they failed.                                           *)
(***************************************************************************)
EXTENDS HttpProxy, TLAPS

-----------------------------------------------------------------------------
(***************************************************************************)
(* Headers.                                                                *)
(***************************************************************************)

\* The two ways to build a request agree in all its headers but the type of
\* its body (client.go:134-150, 173-186).
LEMMA BuiltAlike ==
  ASSUME NEW r
  PROVE  /\ AgreeButForType(FirstHeaders(r), FirstHeaders(r))
         /\ AgreeButForType(RetryHeaders(r), FirstHeaders(r))
<1> DEFINE H == Headers(r)
<1> HIDE DEF H
<1>1. AgreeButForType(FirstHeaders(r), FirstHeaders(r))
  BY DEF AgreeButForType
<1>2. CASE HasBody(r)
  <2>1. FirstHeaders(r) = Merge(Put(EmptyMap, "Content-Type", "json"), H)
    BY <1>2 DEF FirstHeaders, H
  <2>2. RetryHeaders(r) = Put(H, "Content-Type", "json")
    BY <1>2 DEF RetryHeaders, H
  <2>3. AgreeButForType(Put(H, "Content-Type", "json"),
                        Merge(Put(EmptyMap, "Content-Type", "json"), H))
    BY DEF AgreeButForType, Put, Merge, EmptyMap
  <2> QED
    BY <1>1, <2>1, <2>2, <2>3
<1>3. CASE ~HasBody(r)
  BY <1>1, <1>3 DEF FirstHeaders, RetryHeaders
<1> QED
  BY <1>2, <1>3

-----------------------------------------------------------------------------
(***************************************************************************)
(* The inductive invariant.                                                *)
(***************************************************************************)

\* An attempt that counts as failed.
Failure(h) == IsServerError(h) \/ h \in {"lost", "timeout"}

\* The headers that have left: one set of either kind, the first comes first.
SentAsBuilt ==
  /\ sentAs \in Seq({FirstHeaders(request), RetryHeaders(request)})
  /\ sentAs # <<>> => sentAs[1] = FirstHeaders(request)
  /\ at \in {"waiting", "pausing", "reading"} => sentAs # <<>>

\* The attempts before the one reached have failed, and so has that one when
\* Do pauses; there is then another to come.
FailedUpToHere ==
  /\ at = "start" => attempt = 0
  /\ \A k \in Attempts : k < attempt => Failure(heard[k])
  /\ at = "pausing" => Failure(heard[attempt]) /\ attempt + 1 \in Attempts

\* A response whose body Do reads, or has read, is what the server answered.
ReadAsAnswered ==
  /\ at = "reading" => heard[attempt] \in Statuses /\ heard[attempt] = server[attempt]
  /\ at # "returned" => result = "none"
  /\ result \in Statuses => result = heard[attempt] /\ result = server[attempt]

ProxyInv == TypeOK /\ SentAsBuilt /\ FailedUpToHere /\ ReadAsAnswered

\* The invariant is strong enough.
LEMMA ProxyInvImplies ==
  ASSUME ProxyInv
  PROVE  RepeatsAreFaithful
<1>1. RepeatedOnlyAfterFailure
  BY DEF ProxyInv, FailedUpToHere, ReadAsAnswered, Failure, RepeatedOnlyAfterFailure
<1>2. ASSUME NEW k \in DOMAIN sentAs
      PROVE  AgreeButForType(sentAs[k], sentAs[1])
  <2>1. /\ sentAs # <<>>
        /\ sentAs[k] \in {FirstHeaders(request), RetryHeaders(request)}
    BY <1>2 DEF ProxyInv, SentAsBuilt
  <2>2. sentAs[1] = FirstHeaders(request)
    BY <2>1 DEF ProxyInv, SentAsBuilt
  <2> QED
    BY <2>1, <2>2, BuiltAlike
<1> QED
  BY <1>1, <1>2 DEF RepeatsAreFaithful, RepeatedWithCredentials

\* No attempt has been made before Do begins.
LEMMA ProxyInit ==
  ASSUME Init
  PROVE  ProxyInv
<1>1. 0 \in Attempts /\ MaxRetries \in Nat /\ MaxTimeout \in Nat
  BY ProxyAssumption DEF Attempts
<1>2. TypeOK
  BY <1>1 DEF Init, TypeOK
<1>3. SentAsBuilt
  BY DEF Init, SentAsBuilt
<1>4. FailedUpToHere
  BY <1>1 DEF Init, FailedUpToHere, Attempts
<1>5. ReadAsAnswered
  BY DEF Init, ReadAsAnswered, Statuses
<1> QED
  BY <1>2, <1>3, <1>4, <1>5 DEF ProxyInv

\* The server answers only what it has not answered: of an answered attempt
\* nothing changes.
LEMMA ServerSteps ==
  ASSUME ProxyInv, Apply \/ Answer
  PROVE  ProxyInv'
<1>1. PICK k \in Attempts, s \in Statuses \cup {"applied"} :
        /\ server[k] \notin Statuses
        /\ server' = [server EXCEPT ![k] = s]
  BY DEF Apply, Answer, Statuses
<1>2. UNCHANGED <<request, at, attempt, began, now, body, result, sentAs, heard>>
  BY DEF Apply, Answer
<1>3. server \in [Attempts -> Statuses \cup {"none", "arrived", "applied"}]
      /\ attempt \in Attempts
  BY DEF ProxyInv, TypeOK
<1>4. server' \in [Attempts -> Statuses \cup {"none", "arrived", "applied"}]
  BY <1>1, <1>3
<1>5. TypeOK'
  BY <1>2, <1>4 DEF ProxyInv, TypeOK
<1>6. SentAsBuilt'
  BY <1>2 DEF ProxyInv, SentAsBuilt
<1>7. FailedUpToHere'
  BY <1>2 DEF ProxyInv, FailedUpToHere
<1>8. server[attempt] \in Statuses => server'[attempt] = server[attempt]
  BY <1>1, <1>3
<1>9. ReadAsAnswered'
  BY <1>2, <1>8 DEF ProxyInv, ReadAsAnswered
<1> QED
  BY <1>5, <1>6, <1>7, <1>9 DEF ProxyInv

\* The first attempt (client.go:134-151).
LEMMA BeginStep ==
  ASSUME ProxyInv, Begin
  PROVE  ProxyInv'
<1>1. /\ TypeOK /\ SentAsBuilt /\ FailedUpToHere /\ ReadAsAnswered
      /\ at = "start" /\ result = "none" /\ attempt = 0
      /\ UNCHANGED <<request, attempt, began, now, body, heard>>
  BY DEF ProxyInv, Begin, FailedUpToHere, ReadAsAnswered
<1>2. CASE at' = "returned" /\ result' = "refused" /\ UNCHANGED <<sentAs, server>>
  <2>1. TypeOK'
    BY <1>1, <1>2 DEF TypeOK
  <2>2. SentAsBuilt' /\ FailedUpToHere'
    BY <1>1, <1>2 DEF SentAsBuilt, FailedUpToHere
  <2>3. ReadAsAnswered'
    BY <1>1, <1>2 DEF ReadAsAnswered, Statuses
  <2> QED
    BY <2>1, <2>2, <2>3 DEF ProxyInv
<1>3. CASE /\ at' = "waiting" /\ sentAs' = <<FirstHeaders(request)>>
           /\ server' = [server EXCEPT ![0] = "arrived"] /\ result' = result
  <2>1. /\ Len(sentAs') = 1 /\ sentAs'[1] = FirstHeaders(request) /\ sentAs' # <<>>
        /\ sentAs' \in Seq({FirstHeaders(request), RetryHeaders(request)})
    BY <1>3
  <2>2. TypeOK'
    BY <1>1, <1>3, <2>1 DEF TypeOK
  <2>3. SentAsBuilt' /\ FailedUpToHere'
    BY <1>1, <1>3, <2>1 DEF SentAsBuilt, FailedUpToHere
  <2>4. ReadAsAnswered'
    BY <1>1, <1>3 DEF ReadAsAnswered, Statuses
  <2> QED
    BY <2>2, <2>3, <2>4 DEF ProxyInv
<1> QED
  BY <1>2, <1>3 DEF Begin, Return

\* An answer that has arrived is that of the attempt the client waits for.
LEMMA ReceiveStep ==
  ASSUME ProxyInv, Receive
  PROVE  ProxyInv'
<1>1. /\ TypeOK /\ SentAsBuilt /\ FailedUpToHere /\ ReadAsAnswered
      /\ at = "waiting" /\ result = "none" /\ attempt \in Attempts
      /\ server[attempt] \in Statuses
      /\ heard' = [heard EXCEPT ![attempt] = server[attempt]]
      /\ UNCHANGED <<request, attempt, began, now, result, sentAs, server>>
  BY DEF ProxyInv, Receive, ReadAsAnswered, TypeOK
<1>2. at' \in {"reading", "pausing"} /\ body' \in {"open", "closed"}
  BY DEF Receive
<1>3. /\ heard' \in [Attempts -> Statuses \cup {"nothing", "lost", "timeout"}]
      /\ heard'[attempt] = server[attempt]
      /\ \A k \in Attempts : k < attempt => heard'[k] = heard[k]
  BY <1>1 DEF TypeOK, Attempts
<1>4. at' = "pausing" => IsServerError(server[attempt]) /\ attempt # MaxRetries - 1
  BY DEF Receive, IsFinal
<1>5. attempt # MaxRetries - 1 => attempt + 1 \in Attempts
  BY <1>1, ProxyAssumption DEF Attempts
<1>6. TypeOK'
  BY <1>1, <1>2, <1>3 DEF TypeOK
<1>7. SentAsBuilt'
  BY <1>1, <1>2 DEF SentAsBuilt
<1>8. FailedUpToHere'
  BY <1>1, <1>2, <1>3, <1>4, <1>5 DEF FailedUpToHere, Failure
<1>9. ReadAsAnswered'
  BY <1>1, <1>2, <1>3 DEF ReadAsAnswered, Statuses
<1> QED
  BY <1>6, <1>7, <1>8, <1>9 DEF ProxyInv

\* An attempt that is given up counts as failed.
LEMMA FailedStep ==
  ASSUME ProxyInv, ConnectionLost \/ TimeOut
  PROVE  ProxyInv'
<1>1. PICK why \in {"lost", "timeout"} : at = "waiting" /\ Failed(why)
  BY DEF ConnectionLost, TimeOut
<1>2. /\ TypeOK /\ SentAsBuilt /\ FailedUpToHere /\ ReadAsAnswered
      /\ result = "none" /\ attempt \in Attempts
      /\ heard' = [heard EXCEPT ![attempt] = why]
      /\ UNCHANGED <<request, attempt, began, now, body, sentAs, server>>
  BY <1>1 DEF ProxyInv, Failed, ReadAsAnswered, TypeOK
<1>3. \/ at' = "returned" /\ result' = "failed"
      \/ at' = "pausing" /\ result' = "none" /\ attempt # MaxRetries - 1
  BY <1>1, <1>2 DEF Failed, Return
<1>4. /\ heard' \in [Attempts -> Statuses \cup {"nothing", "lost", "timeout"}]
      /\ heard'[attempt] = why
      /\ \A k \in Attempts : k < attempt => heard'[k] = heard[k]
  BY <1>2 DEF TypeOK, Attempts
<1>5. attempt # MaxRetries - 1 => attempt + 1 \in Attempts
  BY <1>2, ProxyAssumption DEF Attempts
<1>6. TypeOK'
  BY <1>2, <1>3, <1>4 DEF TypeOK
<1>7. SentAsBuilt'
  BY <1>1, <1>2, <1>3 DEF SentAsBuilt
<1>8. FailedUpToHere'
  BY <1>2, <1>3, <1>4, <1>5 DEF FailedUpToHere, Failure
<1>9. ReadAsAnswered'
  BY <1>2, <1>3 DEF ReadAsAnswered, Statuses
<1> QED
  BY <1>6, <1>7, <1>8, <1>9 DEF ProxyInv

\* Only a failed attempt is followed by another.
LEMMA RetryStep ==
  ASSUME ProxyInv, Retry
  PROVE  ProxyInv'
<1>1. /\ TypeOK /\ SentAsBuilt /\ FailedUpToHere /\ ReadAsAnswered
      /\ at = "pausing" /\ result = "none"
      /\ attempt \in Attempts /\ attempt + 1 \in Attempts /\ Failure(heard[attempt])
      /\ at' = "waiting" /\ attempt' = attempt + 1 /\ began' = now
      /\ UNCHANGED <<request, now, body, result, heard>>
  BY DEF ProxyInv, Retry, FailedUpToHere, ReadAsAnswered, TypeOK
<1> DEFINE Built == {FirstHeaders(request), RetryHeaders(request)}
<1>2. /\ sentAs' \in Seq(Built) /\ sentAs' # <<>>
      /\ sentAs'[1] = FirstHeaders(request)
      /\ Len(sentAs') <= attempt' + 1
      /\ server' \in [Attempts -> Statuses \cup {"none", "arrived", "applied"}]
  <2> HIDE DEF Built
  <2>1. /\ sentAs \in Seq(Built) /\ sentAs # <<>> /\ RetryHeaders(request) \in Built
        /\ sentAs[1] = FirstHeaders(request)
        /\ Len(sentAs) <= attempt + 1 /\ attempt \in Nat
        /\ server \in [Attempts -> Statuses \cup {"none", "arrived", "applied"}]
    BY <1>1 DEF SentAsBuilt, TypeOK, Built, Attempts
  <2>2. CASE UNCHANGED <<sentAs, server>>
    BY <1>1, <2>1, <2>2
  <2>3. CASE /\ sentAs' = Append(sentAs, RetryHeaders(request))
             /\ server' = [server EXCEPT ![attempt + 1] = "arrived"]
    <3>1. sentAs' \in Seq(Built) /\ Len(sentAs') = Len(sentAs) + 1 /\ Len(sentAs) \in Nat \ {0}
      BY <2>1, <2>3
    <3>2. sentAs'[1] = sentAs[1] /\ sentAs' # <<>>
      BY <2>1, <2>3, <3>1
    <3> QED
      BY <1>1, <2>1, <2>3, <3>1, <3>2
  <2> QED
    BY <2>2, <2>3 DEF Retry
<1>3. TypeOK'
  BY <1>1, <1>2 DEF TypeOK
<1>4. SentAsBuilt'
  BY <1>1, <1>2 DEF SentAsBuilt
<1>5. FailedUpToHere'
  BY <1>1 DEF FailedUpToHere, Attempts
<1>6. ReadAsAnswered'
  BY <1>1 DEF ReadAsAnswered, Statuses
<1> QED
  BY <1>3, <1>4, <1>5, <1>6 DEF ProxyInv

\* Reading a body, to its end or not, leaves the attempts as they are.
LEMMA ReadSteps ==
  ASSUME ProxyInv, Read \/ ReadRefused \/ ReadLost
  PROVE  ProxyInv'
<1>1. /\ TypeOK /\ SentAsBuilt /\ FailedUpToHere /\ ReadAsAnswered
      /\ at = "reading"
      /\ heard[attempt] \in Statuses /\ heard[attempt] = server[attempt]
      /\ at' = "returned" /\ result' \in {heard[attempt], "unread"} /\ body' = "closed"
      /\ UNCHANGED <<request, attempt, began, now, sentAs, server, heard>>
  BY DEF ProxyInv, Read, ReadRefused, ReadLost, ReadFailed, Return, ReadAsAnswered
<1>2. TypeOK'
  BY <1>1 DEF TypeOK
<1>3. SentAsBuilt' /\ FailedUpToHere'
  BY <1>1 DEF SentAsBuilt, FailedUpToHere
<1>4. ReadAsAnswered'
  BY <1>1 DEF ReadAsAnswered, Statuses
<1> QED
  BY <1>2, <1>3, <1>4 DEF ProxyInv

\* Nobody waits past the deadline the call asked for.
LEMMA TickStep ==
  ASSUME ProxyInv, Tick
  PROVE  ProxyInv'
<1>1. /\ TypeOK /\ SentAsBuilt /\ FailedUpToHere /\ ReadAsAnswered
      /\ now' = now + 1 /\ ~Expired
      /\ UNCHANGED <<request, at, attempt, began, body, result, sentAs, server, heard>>
  BY DEF ProxyInv, Tick
<1>2. now' \in 0..MaxTimeout
  <2>1. request.timeout \in 1..MaxTimeout /\ now \in 0..MaxTimeout /\ MaxTimeout \in Nat
    BY <1>1, RequestsAssumption, ProxyAssumption DEF TypeOK, IsRequest
  <2> QED
    BY <1>1, <2>1 DEF Expired
<1>3. TypeOK'
  BY <1>1, <1>2 DEF TypeOK
<1>4. SentAsBuilt' /\ FailedUpToHere' /\ ReadAsAnswered'
  BY <1>1 DEF SentAsBuilt, FailedUpToHere, ReadAsAnswered
<1> QED
  BY <1>3, <1>4 DEF ProxyInv

\* Every attempt was sent as the request says, all but the last have failed,
\* and what was read is what the last was answered (client.go:134-232).
THEOREM ProxyInvariance == Spec => []ProxyInv
<1>1. Init => ProxyInv
  BY ProxyInit
<1>2. ASSUME ProxyInv, [Next]_vars
      PROVE  ProxyInv'
  <2>1. CASE UNCHANGED vars
    BY <1>2, <2>1
       DEF vars, ProxyInv, TypeOK, SentAsBuilt, FailedUpToHere, ReadAsAnswered
  <2>2. CASE Client
    BY <1>2, <2>2, BeginStep, FailedStep, RetryStep, ReadSteps DEF Client
  <2>3. CASE Network
    BY <1>2, <2>3, FailedStep, ReadSteps, ServerSteps, ReceiveStep DEF Network
  <2>4. CASE Read
    BY <1>2, <2>4, ReadSteps
  <2>5. CASE Tick
    BY <1>2, <2>5, TickStep
  <2> QED
    BY <1>2, <2>1, <2>2, <2>3, <2>4, <2>5 DEF Next, Done
<1> QED
  BY <1>1, <1>2, PTL DEF Spec

-----------------------------------------------------------------------------
\* Do of internal/http/client.go keeps to its types, its clock within the
\* longest timeout a call may ask for.
THEOREM ProxyTypeCorrect == Spec => []TypeOK
<1>1. ProxyInv => TypeOK
  BY DEF ProxyInv
<1> QED
  BY <1>1, ProxyInvariance, PTL

\* A request goes to the API again only when every attempt so far has failed,
\* with the headers and the credentials of the first, and what Do returns is
\* what the server answered last (client.go:152-213).
THEOREM RepeatsAlwaysFaithful == Spec => []RepeatsAreFaithful
<1> QED
  BY ProxyInvariance, ProxyInvImplies, PTL

-----------------------------------------------------------------------------
(***************************************************************************)
(* That Do comes to an end.                                                *)
(*                                                                         *)
(* What liveness adds to this is fairness alone: while Do has not returned *)
(* there is something that it, or the clock, may do, and whatever is done  *)
(* brings its end closer, except for what the server does on its own.      *)
(***************************************************************************)

\* The steps of the loop still ahead, if every attempt fails.
Ahead ==
  CASE at = "start"    -> 2 * MaxRetries + 2
    [] at = "waiting"  -> 2 * (MaxRetries - attempt) + 1
    [] at = "pausing"  -> 2 * (MaxRetries - attempt)
    [] at = "reading"  -> 1
    [] at = "returned" -> 0

Remaining == IF Expired THEN 0 ELSE request.timeout - now

StepsLeft == Ahead + Remaining

\* What the server does with a request that has left is nothing to Do, and
\* there is an end of it, too: the request is carried out, then answered.
ServerAlone ==
  /\ \E k \in Attempts :
       /\ \/ server[k] = "arrived" /\ server'[k] \in Statuses \cup {"applied"}
          \/ server[k] = "applied" /\ server'[k] \in Statuses
       /\ \A j \in Attempts \ {k} : server'[j] = server[j]
  /\ UNCHANGED <<request, at, attempt, began, now, body, result, sentAs, heard>>

\* Of the steps that Do and the clock make, none can be made for ever.
DoComesCloser ==
  /\ StepsLeft \in 0..(2 * MaxRetries + 2 + MaxTimeout)
  /\ StepsLeft' < StepsLeft \/ ServerAlone

\* The guards of what is owed: by the client's goroutine, by a body that is
\* not there, by the clock.
ClientMay ==
  \/ at = "start"
  \/ at = "waiting" /\ TimedOut
  \/ at = "pausing"
  \/ at = "reading" /\ (Unreadable \/ (TimedOut /\ body = "open"))

ReadMay == at = "reading" /\ body = "closed" /\ heard[attempt] = "5xx without a body"

TickMay ==
  /\ at \in {"waiting", "pausing", "reading"}
  /\ ~Expired
  /\ at # "pausing" => ~TimedOut

DoMayGoOn == at # "returned" => ClientMay \/ ReadMay \/ TickMay

\* A body is open only while it is read: none is open when the next attempt
\* is made, or when Do has returned.
OpenWhileRead ==
  /\ body = "open" => at = "reading"
  /\ at = "reading" => body \in {"open", "closed"}

\* A response's body is there to be read when Do gets to it.
LEMMA BodiesStep ==
  ASSUME OpenWhileRead, [Next]_vars
  PROVE  OpenWhileRead'
<1>1. CASE UNCHANGED vars
  BY <1>1 DEF vars, OpenWhileRead
<1>2. CASE Begin
  BY <1>2 DEF OpenWhileRead, Begin, Return
<1>3. CASE TimeOut \/ ConnectionLost
  BY <1>3 DEF OpenWhileRead, TimeOut, ConnectionLost, Failed, Return
<1>4. CASE Retry
  BY <1>4 DEF OpenWhileRead, Retry
<1>5. CASE ReadRefused \/ ReadLost \/ Read
  BY <1>5 DEF OpenWhileRead, ReadRefused, ReadLost, ReadFailed, Read, Return
<1>6. CASE Apply \/ Answer \/ Tick
  BY <1>6 DEF OpenWhileRead, Apply, Answer, Tick
<1>7. CASE Receive
  <2>1. body' \in {"open", "closed"} /\ at' \in {"reading", "pausing"}
        /\ (body' = "open" => at' = "reading")
    BY <1>7 DEF Receive
  <2> QED BY <2>1 DEF OpenWhileRead
<1> QED
  BY <1>1, <1>2, <1>3, <1>4, <1>5, <1>6, <1>7 DEF Next, Client, Network, Done

\* Do keeps no connection: whatever fails, and whenever, a body that was opened
\* is closed before Do asks again or returns (client.go:160-162, 188).
THEOREM BodiesAreClosed == Spec => []OpenWhileRead
<1>1. Init => OpenWhileRead
  BY DEF Init, OpenWhileRead
<1> QED
  BY <1>1, BodiesStep, PTL DEF Spec

\* The numbers the steps are counted with.
LEMMA Counters ==
  ASSUME ProxyInv
  PROVE  /\ MaxRetries \in Nat \ {0} /\ attempt \in 0..(MaxRetries - 1)
         /\ MaxTimeout \in Nat /\ now \in Nat
         /\ request.timeout \in 1..MaxTimeout
BY ProxyAssumption, RequestsAssumption DEF ProxyInv, TypeOK, Attempts, IsRequest

LEMMA StepsAreCounted ==
  ASSUME ProxyInv
  PROVE  /\ StepsLeft \in 0..(2 * MaxRetries + 2 + MaxTimeout)
         /\ Ahead \in Nat /\ Remaining \in Nat
<1>1. Remaining \in 0..MaxTimeout
  BY Counters DEF Remaining, Expired
<1>2. Ahead \in 0..(2 * MaxRetries + 2)
  <2>1. at \in {"start", "waiting", "pausing", "reading", "returned"}
    BY DEF ProxyInv, TypeOK
  <2> QED BY <2>1, Counters DEF Ahead
<1>3. MaxRetries \in Nat /\ MaxTimeout \in Nat
  BY Counters
<1> HIDE DEF Ahead, Remaining
<1> QED
  BY <1>1, <1>2, <1>3 DEF StepsLeft

LEMMA SumIsLower ==
  ASSUME NEW a \in Nat, NEW b \in Nat, NEW c \in Nat, NEW d \in Nat
  PROVE  /\ c < a /\ d = b => c + d < a + b
         /\ c = a /\ d < b => c + d < a + b
OBVIOUS

\* A step of the loop takes no time, and brings the end of the loop closer.
LEMMA LoopComesCloser ==
  ASSUME ProxyInv, ProxyInv',
         Begin \/ TimeOut \/ ConnectionLost \/ Receive \/ Retry
           \/ ReadRefused \/ ReadLost \/ Read
  PROVE  StepsLeft' < StepsLeft
<1>1. request' = request /\ now' = now
  BY DEF Begin, TimeOut, ConnectionLost, Failed, Receive, Retry, ReadRefused,
         ReadLost, ReadFailed, Read, Return
<1>2. Remaining' = Remaining
  BY <1>1 DEF Remaining, Expired
<1>3. Ahead' \in Nat /\ Ahead' < Ahead
  <2>1. /\ MaxRetries \in Nat \ {0} /\ attempt \in 0..(MaxRetries - 1)
        /\ MaxRetries' = MaxRetries
    BY Counters
  <2>2. CASE Begin
    <3>1. at = "start" /\ attempt' = attempt /\ at' \in {"waiting", "returned"}
      BY <2>2 DEF Begin, Return
    <3> QED BY <2>1, <3>1 DEF Ahead
  <2>3. CASE TimeOut \/ ConnectionLost
    <3>1. at = "waiting" /\ attempt' = attempt /\ at' \in {"pausing", "returned"}
      BY <2>3 DEF TimeOut, ConnectionLost, Failed, Return
    <3> QED BY <2>1, <3>1 DEF Ahead
  <2>4. CASE Receive
    <3>1. at = "waiting" /\ attempt' = attempt /\ at' \in {"pausing", "reading"}
      BY <2>4 DEF Receive
    <3> QED BY <2>1, <3>1 DEF Ahead
  <2>5. CASE Retry
    <3>1. at = "pausing" /\ attempt' = attempt + 1 /\ at' = "waiting"
      BY <2>5 DEF Retry
    <3> QED BY <2>1, <3>1 DEF Ahead
  <2>6. CASE ReadRefused \/ ReadLost \/ Read
    <3>1. at = "reading" /\ at' = "returned"
      BY <2>6 DEF ReadRefused, ReadLost, ReadFailed, Read, Return
    <3> QED BY <2>1, <3>1 DEF Ahead
  <2> QED
    BY <2>2, <2>3, <2>4, <2>5, <2>6
<1>4. Ahead \in Nat /\ Remaining \in Nat
  BY StepsAreCounted
<1>5. Remaining' \in Nat
  BY <1>2, <1>4
<1>6. Ahead' + Remaining' < Ahead + Remaining
  BY <1>2, <1>3, <1>4, <1>5, SumIsLower, Zenon
<1> QED
  BY <1>6 DEF StepsLeft

\* The clock runs only while there is time left.
LEMMA ClockComesCloser ==
  ASSUME ProxyInv, Tick
  PROVE  StepsLeft' < StepsLeft
<1>1. Ahead' = Ahead
  BY DEF Tick, Ahead
<1>2. Remaining \in Nat /\ Remaining' \in Nat /\ Remaining' < Remaining
  BY Counters DEF Tick, Remaining, Expired
<1>3. Ahead \in Nat
  BY StepsAreCounted
<1>4. Ahead' \in Nat
  BY <1>1, <1>3
<1>5. Ahead' + Remaining' < Ahead + Remaining
  BY <1>1, <1>2, <1>3, <1>4, SumIsLower, Zenon
<1> QED
  BY <1>5 DEF StepsLeft

LEMMA ServerIsAlone ==
  ASSUME ProxyInv, Apply \/ Answer
  PROVE  ServerAlone
<1>1. server \in [Attempts -> Statuses \cup {"none", "arrived", "applied"}]
  BY DEF ProxyInv, TypeOK
<1>2. UNCHANGED <<request, at, attempt, began, now, body, result, sentAs, heard>>
  BY DEF Apply, Answer
<1>3. PICK k \in Attempts, s \in Statuses \cup {"applied"} :
        /\ server' = [server EXCEPT ![k] = s]
        /\ \/ server[k] = "arrived"
           \/ server[k] = "applied" /\ s \in Statuses
  BY DEF Apply, Answer
<1> QED
  BY <1>1, <1>2, <1>3 DEF ServerAlone

\* While Do has not returned, something owed may happen.
LEMMA SomethingIsOwed ==
  ASSUME ProxyInv, OpenWhileRead
  PROVE  DoMayGoOn
<1>1. at \in {"start", "waiting", "pausing", "reading", "returned"}
  BY DEF ProxyInv, TypeOK
<1>2. CASE at = "waiting"
  BY <1>2 DEF DoMayGoOn, ClientMay, TickMay, TimedOut
<1>3. CASE at = "reading"
  BY <1>3 DEF OpenWhileRead, DoMayGoOn, ClientMay, ReadMay, TickMay, TimedOut, Unreadable
<1> QED
  BY <1>1, <1>2, <1>3 DEF DoMayGoOn, ClientMay

\* Do never waits for what nobody owes it, and no behaviour of it is endless:
\* it makes at most two steps for an attempt, two more, and one for each unit
\* of the timeout, whatever the server does (client.go:121-126, 152-213).
THEOREM DoComesToAnEnd == Spec => []DoMayGoOn /\ [][DoComesCloser]_vars
<1>1. ProxyInv /\ OpenWhileRead => DoMayGoOn
  BY SomethingIsOwed
<1>2. ASSUME ProxyInv, ProxyInv', [Next]_vars
      PROVE  [DoComesCloser]_vars
  <2>1. StepsLeft \in 0..(2 * MaxRetries + 2 + MaxTimeout)
    BY <1>2, StepsAreCounted
  <2>2. CASE UNCHANGED vars
    BY <2>2
  <2>3. CASE Apply \/ Answer
    BY <1>2, <2>1, <2>3, ServerIsAlone DEF DoComesCloser
  <2>4. CASE Tick
    BY <1>2, <2>1, <2>4, ClockComesCloser DEF DoComesCloser
  <2>5. CASE \/ Begin \/ TimeOut \/ ConnectionLost \/ Receive \/ Retry
             \/ ReadRefused \/ ReadLost \/ Read
    BY <1>2, <2>1, <2>5, LoopComesCloser DEF DoComesCloser
  <2> QED
    BY <1>2, <2>2, <2>3, <2>4, <2>5 DEF Next, Client, Network, Done
<1> QED
  BY <1>1, <1>2, ProxyInvariance, BodiesAreClosed, PTL DEF Spec
=============================================================================
