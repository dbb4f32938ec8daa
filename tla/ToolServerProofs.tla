-------------------------- MODULE ToolServerProofs --------------------------
(***************************************************************************)
(* Proofs about ToolServer, for every finite set of calls and every number *)
(* of slots.  That sem never becomes negative, and so that it is a natural *)
(* number at all, rests on SlotsAreHeld: whoever gives a token back holds  *)
(* one.  The two are proved together.                                      *)
(*                                                                         *)
(* And about the pure functions its handlers use, for inputs of any        *)
(* length: the two readings of a query, the count of its statements, and   *)
(* compression.  MCToolServer is where the runs look at them.              *)
(***************************************************************************)
EXTENDS MCToolServer, FiniteSetTheorems, WellFoundedInduction, TLAPS

\* Where a handler is among its steps, and that it came there past its gate.
HandlerInv ==
  \A c \in Calls :
    /\ stage[c] = "new" => step[c] = 1
    /\ stage[c] \in {"new", "handling", "refused"} => ran[c] = "nothing"
    /\ stage[c] = "handling" =>
         /\ request[c] \in Requests
         /\ step[c] \in DOMAIN StepsOf[request[c].tool]
         /\ \A j \in 1..step[c] - 1 :
              StepsOf[request[c].tool][j] \in {"gate", "check"} => request[c] \in Accepted

IInv == TypeOK /\ SlotsAreHeld /\ HandlerInv /\ OnlyAcceptedIsRun

-----------------------------------------------------------------------------
\* The shapes of the handlers.
HandlerSteps ==
  {<<"work">>, <<"args", "work">>, <<"args", "get", "work">>, <<"args", "check", "work">>,
   <<"args", "gate", "get", "work">>, <<"args", "get", "gate", "work">>}

LEMMA StepsAreSome == \A t \in Tools : StepsOf[t] \in HandlerSteps
BY DEF Tools, StepsOf, HandlerSteps, ScanContext, RedactContext, UnredactResponse,
       CompressContext, MemoryFilter, ClassifyData, StoreStats, DBQuery, DBListTables,
       DBDescribe, MongoFind, MongoListCollections, RedisExec, RedisKeys, HTTPRequest,
       HTTPListAPIs, AIChat, AIChatStream, AIListProviders, AIQuotaStatus, ConfigList,
       Version

\* A handler ends with its work.
LEMMA StepsGoOn ==
  ASSUME NEW s \in HandlerSteps
  PROVE  /\ 1 \in DOMAIN s /\ DOMAIN s \subseteq 1..4
         /\ \A i \in DOMAIN s : s[i] # "work" => i + 1 \in DOMAIN s
BY DEF HandlerSteps

\* The tools whose input somebody looks at do so before their work.
LEMMA GateIsPassed ==
  ASSUME NEW r, r.tool \in {"db_query", "mongo_find", "redis_exec", "http_request"},
         NEW i \in DOMAIN StepsOf[r.tool], StepsOf[r.tool][i] = "work"
  PROVE  \E j \in 1..i - 1 : StepsOf[r.tool][j] \in {"gate", "check"}
BY DEF Tools, StepsOf, DBQuery, MongoFind, RedisExec, HTTPRequest

LEMMA OthersAreAccepted ==
  ASSUME NEW r, r.tool \notin {"db_query", "mongo_find", "redis_exec", "http_request"}
  PROVE  Accepts(r)
BY DEF Accepts

-----------------------------------------------------------------------------

\* Entering or leaving changes the number of holders by one.
LEMMA HoldingFinite ==
  ASSUME NEW S, S \subseteq Calls
  PROVE  IsFiniteSet(S) /\ Cardinality(S) \in Nat
BY ToolServerAssumption, FS_Subset, FS_CardinalityType

\* A step that moves one call between two stages that hold a slot, or two that
\* do not, leaves the holders alone.
LEMMA SameHolders ==
  ASSUME TypeOK, NEW c \in Calls, NEW place \in Stages, Go(c, place),
         place \in HoldingStages <=> stage[c] \in HoldingStages
  PROVE  Holding' = Holding
BY DEF TypeOK, Go, Holding

\* A call that enters is one more holder.
LEMMA OneMoreHolder ==
  ASSUME TypeOK, NEW c \in Calls, NEW place \in HoldingStages, Go(c, place),
         stage[c] \notin HoldingStages
  PROVE  /\ Holding' = Holding \cup {c}
         /\ Cardinality(Holding') = Cardinality(Holding) + 1
<1>1. Holding' = Holding \cup {c}
  BY DEF TypeOK, Go, Holding
<1>2. c \notin Holding /\ Holding \subseteq Calls
  BY DEF Holding
<1> QED BY <1>1, <1>2, HoldingFinite, FS_AddElement

\* A call that leaves is one less.
LEMMA OneLessHolder ==
  ASSUME TypeOK, NEW c \in Calls, NEW place \in Stages \ HoldingStages, Go(c, place),
         stage[c] \in HoldingStages
  PROVE  /\ Holding' = Holding \ {c}
         /\ c \in Holding
         /\ Cardinality(Holding') = Cardinality(Holding) - 1
         /\ Cardinality(Holding) >= 1
<1>1. Holding' = Holding \ {c}
  BY DEF TypeOK, Go, Holding
<1>2. c \in Holding /\ Holding \subseteq Calls
  BY DEF Holding
<1>3. Cardinality(Holding') = Cardinality(Holding) - 1
  BY <1>1, <1>2, HoldingFinite, FS_RemoveElement
<1>4. Cardinality(Holding') \in Nat /\ Cardinality(Holding) \in Nat
  BY <1>1, <1>2, HoldingFinite
<1> QED BY <1>1, <1>2, <1>3, <1>4

\* Initially nobody holds a slot.
LEMMA InitIInv == Init => IInv
<1> SUFFICES ASSUME Init PROVE IInv
  OBVIOUS
<1>1. TypeOK
  BY ToolServerAssumption DEF Init, TypeOK, Stages
<1>2. Holding = {}
  BY DEF Init, Holding, HoldingStages
<1>3. HandlerInv /\ OnlyAcceptedIsRun
  BY DEF Init, HandlerInv, OnlyAcceptedIsRun
<1> QED BY <1>1, <1>2, <1>3, FS_EmptySet DEF IInv, SlotsAreHeld, Init

\* Between two steps of a handler there is one more to come.
LEMMA OneMoreStep ==
  ASSUME HandlerInv, NEW c \in Calls, stage[c] = "handling",
         StepsOf[request[c].tool][step[c]] # "work"
  PROVE  /\ step[c] + 1 \in DOMAIN StepsOf[request[c].tool]
         /\ step[c] + 1 \in 1..4
<1>1. StepsOf[request[c].tool] \in HandlerSteps /\ step[c] \in DOMAIN StepsOf[request[c].tool]
  BY StepsAreSome, ToolServerAssumption DEF HandlerInv
<1> QED BY <1>1, StepsGoOn

\* A handler that is at its work has passed its gate.
LEMMA WorkIsAccepted ==
  ASSUME HandlerInv, NEW c \in Calls, At(c, "work")
  PROVE  Accepts(request[c])
<1>1. CASE request[c].tool \notin {"db_query", "mongo_find", "redis_exec", "http_request"}
  BY <1>1, OthersAreAccepted
<1>2. CASE request[c].tool \in {"db_query", "mongo_find", "redis_exec", "http_request"}
  <2>1. step[c] \in DOMAIN StepsOf[request[c].tool]
    BY DEF HandlerInv, At
  <2>2. PICK j \in 1..step[c] - 1 : StepsOf[request[c].tool][j] \in {"gate", "check"}
    BY <1>2, <2>1, GateIsPassed DEF At
  <2> QED BY <2>2 DEF HandlerInv, At, Accepted
<1> QED BY <1>1, <1>2

\* No step brings a handler past its gate with a request the gate refuses.
LEMMA NextHandlerInv ==
  ASSUME TypeOK, HandlerInv, OnlyAcceptedIsRun, [Next]_vars
  PROVE  HandlerInv' /\ OnlyAcceptedIsRun'
<1> USE DEF HandlerInv, OnlyAcceptedIsRun
<1>1. CASE UNCHANGED vars
  BY <1>1 DEF vars, Accepted
<1>2. ASSUME NEW c \in Calls, Acquire(c) PROVE HandlerInv' /\ OnlyAcceptedIsRun'
  <2>1. PICK r \in Requests : request' = [request EXCEPT ![c] = r]
    BY <1>2 DEF Acquire
  <2>2. 1 \in DOMAIN StepsOf[r.tool]
    BY ToolServerAssumption, StepsAreSome, StepsGoOn
  <2>3. /\ stage' = [stage EXCEPT ![c] = "handling"]
        /\ UNCHANGED <<step, ran>> /\ step[c] = 1 /\ ran[c] = "nothing"
    BY <1>2 DEF Acquire, Go
  <2>4. \A d \in Calls \ {c} : /\ stage'[d] = stage[d] /\ request'[d] = request[d]
    BY <2>1, <2>3 DEF TypeOK
  <2>5. stage'[c] = "handling" /\ request'[c] = r
    BY <2>1, <2>3 DEF TypeOK
  <2>6. UNCHANGED Accepted
    BY DEF Accepted
  <2> QED BY <2>2, <2>3, <2>4, <2>5, <2>6
<1>3. ASSUME NEW c \in Calls, Pass(c) PROVE HandlerInv' /\ OnlyAcceptedIsRun'
  <2>1. stage[c] = "handling" /\ UNCHANGED <<stage, request, ran>>
    BY <1>3 DEF Pass, At
  <2>2. \A d \in Calls : step'[d] = IF d = c THEN step[c] + 1 ELSE step[d]
    BY <1>3 DEF Pass, TypeOK
  <2>3. step[c] + 1 \in DOMAIN StepsOf[request[c].tool]
    BY <1>3, <2>1, OneMoreStep DEF Pass, At
  <2>4. StepsOf[request[c].tool][step[c]] \in {"gate", "check"} => request[c] \in Accepted
    BY <1>3 DEF Pass, At
  <2>5. \A j \in 1..step'[c] - 1 : j \in 1..step[c] - 1 \/ j = step[c]
    BY <2>2 DEF TypeOK
  <2>6. UNCHANGED Accepted
    BY DEF Accepted
  <2>7. stage[c] # "new"
    BY <2>1
  <2> QED BY <2>1, <2>2, <2>3, <2>4, <2>5, <2>6, <2>7
<1>4. ASSUME NEW c \in Calls, Work(c) PROVE HandlerInv' /\ OnlyAcceptedIsRun'
  <2>1. Accepts(request[c])
    BY <1>4, WorkIsAccepted DEF Work
  <2>2. \A d \in Calls : stage'[d] = IF d = c THEN "working" ELSE stage[d]
    BY <1>4 DEF Work, Go, TypeOK
  <2>3. \A d \in Calls \ {c} : ran'[d] = ran[d]
    BY <1>4 DEF Work, TypeOK
  <2>4. UNCHANGED <<request, step, Accepted>>
    BY <1>4 DEF Work, Accepted
  <2> QED BY <2>1, <2>2, <2>3, <2>4
<1>5. ASSUME NEW c \in Calls, NEW place \in Stages \ {"new", "handling"}, Go(c, place),
             UNCHANGED <<request, step, ran>>, place = "refused" => stage[c] = "new"
      PROVE  HandlerInv' /\ OnlyAcceptedIsRun'
  <2>1. \A d \in Calls : stage'[d] = IF d = c THEN place ELSE stage[d]
    BY <1>5 DEF Go, TypeOK
  <2>2. UNCHANGED Accepted
    BY DEF Accepted
  <2> QED BY <1>5, <2>1, <2>2
<1>6. ASSUME NEW c \in Calls, TelemetryEnds(c) PROVE HandlerInv' /\ OnlyAcceptedIsRun'
  BY <1>6 DEF TelemetryEnds, handlerVars, Accepted
<1>7. ASSUME NEW c \in Calls, Returns(c) PROVE HandlerInv' /\ OnlyAcceptedIsRun'
  BY <1>5, <1>7 DEF Returns, HandlerReturns, HandlerPanics, handlerVars, Stages
<1>8. ASSUME NEW c \in Calls, Proceed(c) PROVE HandlerInv' /\ OnlyAcceptedIsRun'
  <2>1. CASE Refuse(c) BY <1>5, <2>1 DEF Refuse, handlerVars, Stages
  <2>2. CASE Fail(c) BY <1>5, <2>2 DEF Fail, handlerVars, Stages
  <2>3. CASE Block(c) BY <1>5, <2>3 DEF Block, handlerVars, Stages
  <2>4. CASE Report(c) BY <1>5, <2>4 DEF Report, handlerVars, Stages
  <2>5. CASE Release(c) BY <1>5, <2>5 DEF Release, handlerVars, Stages
  <2> QED BY <1>2, <1>3, <1>4, <1>8, <2>1, <2>2, <2>3, <2>4, <2>5 DEF Proceed
<1> QED BY <1>1, <1>6, <1>7, <1>8 DEF Next

\* Every step keeps the tokens and the holders in step.
LEMMA NextIInv == IInv /\ [Next]_vars => IInv'
<1> SUFFICES ASSUME IInv, [Next]_vars PROVE IInv'
  OBVIOUS
<1>14. HandlerInv' /\ OnlyAcceptedIsRun'
  BY NextHandlerInv DEF IInv
<1> DEFINE Kept == TypeOK /\ SlotsAreHeld
<1>15. TypeOK /\ SlotsAreHeld
  BY DEF IInv
<1> USE <1>15
<1>1. ASSUME UNCHANGED vars PROVE Kept'
  BY <1>1 DEF vars, TypeOK, SlotsAreHeld, Holding
<1>2. ASSUME NEW c \in Calls, Acquire(c) PROVE Kept'
  <2>1. Cardinality(Holding') = Cardinality(Holding) + 1
    BY <1>2, OneMoreHolder DEF Acquire, HoldingStages
  <2>2. TypeOK'
    BY <1>2, ToolServerAssumption DEF TypeOK, Acquire, Go, Stages, telemetryVars, auditVars
  <2> QED BY <1>2, <2>1, <2>2 DEF SlotsAreHeld, Acquire
<1>3. ASSUME NEW c \in Calls, NEW place \in Stages, Go(c, place),
             place \in HoldingStages <=> stage[c] \in HoldingStages,
             UNCHANGED sem,
             request' \in [Calls -> Requests \cup {NoRequest}],
             step' \in [Calls -> 1..4],
             ran' \in [Calls -> {"nothing", "query", "exec", "call"}],
             logged' \subseteq Calls, sending' \subseteq Calls, sent' \subseteq Calls,
             blocked' \subseteq Calls, audit' \subseteq Calls
      PROVE  Kept'
  <2>1. Holding' = Holding
    BY <1>3, SameHolders
  <2>2. TypeOK'
    BY <1>3 DEF TypeOK, Go
  <2> QED BY <1>3, <2>1, <2>2 DEF SlotsAreHeld
<1>4. ASSUME NEW c \in Calls, Refuse(c) PROVE Kept'
  BY <1>3, <1>4
  DEF Refuse, handlerVars, telemetryVars, auditVars, Stages, HoldingStages, TypeOK
<1>5. ASSUME NEW c \in Calls, Pass(c) PROVE Kept'
  <2>1. step'[c] \in 1..4
    BY <1>5, OneMoreStep DEF Pass, TypeOK, At, IInv
  <2>2. TypeOK'
    BY <1>5, <2>1 DEF Pass, TypeOK, telemetryVars, auditVars
  <2>3. Holding' = Holding
    BY <1>5 DEF Pass, Holding
  <2> QED BY <1>5, <2>2, <2>3 DEF Pass, SlotsAreHeld
<1>12. ASSUME NEW c \in Calls, Fail(c) PROVE Kept'
  BY <1>3, <1>12 DEF Fail, At, handlerVars, telemetryVars, Stages, HoldingStages, TypeOK
<1>6. ASSUME NEW c \in Calls, Block(c) PROVE Kept'
  BY <1>3, <1>6 DEF Block, At, handlerVars, telemetryVars, Stages, HoldingStages, TypeOK
<1>13. ASSUME NEW c \in Calls, Work(c) PROVE Kept'
  <2>1. RunAs(request[c]) \in {"nothing", "query", "exec", "call"}
    BY DEF RunAs
  <2> QED BY <1>3, <1>13, <2>1
          DEF Work, At, telemetryVars, auditVars, Stages, HoldingStages, TypeOK
<1>7. ASSUME NEW c \in Calls, HandlerReturns(c) PROVE Kept'
  BY <1>3, <1>7 DEF HandlerReturns, handlerVars, telemetryVars, auditVars, Stages, HoldingStages, TypeOK
<1>8. ASSUME NEW c \in Calls, HandlerPanics(c) PROVE Kept'
  BY <1>3, <1>8 DEF HandlerPanics, handlerVars, telemetryVars, auditVars, Stages, HoldingStages, TypeOK
<1>9. ASSUME NEW c \in Calls, Report(c) PROVE Kept'
  BY <1>3, <1>9 DEF Report, handlerVars, telemetryVars, auditVars, Stages, HoldingStages, TypeOK
<1>10. ASSUME NEW c \in Calls, Release(c) PROVE Kept'
  <2>1. /\ Cardinality(Holding') = Cardinality(Holding) - 1
        /\ Cardinality(Holding) >= 1
    BY <1>10, OneLessHolder DEF Release, Stages, HoldingStages
  <2>2. sem' = Cardinality(Holding')
    BY <1>10, <2>1 DEF SlotsAreHeld, Release
  <2>3. TypeOK'
    BY <1>10, <2>1, ToolServerAssumption
    DEF TypeOK, SlotsAreHeld, Release, Go, Stages, handlerVars, telemetryVars, auditVars
  <2> QED BY <2>2, <2>3 DEF SlotsAreHeld
<1>11. ASSUME NEW c \in Calls, TelemetryEnds(c) PROVE Kept'
  BY <1>11 DEF TelemetryEnds, TypeOK, SlotsAreHeld, Holding, handlerVars, auditVars
<1>16. Kept'
  BY <1>1, <1>2, <1>4, <1>5, <1>6, <1>7, <1>8, <1>9, <1>10, <1>11, <1>12, <1>13
  DEF Next, Proceed, Returns
<1> QED BY <1>14, <1>16 DEF IInv

\* A service has only run what the gate of its handler accepts: no order of the
\* steps of a handler leads past its gate (handlers.go:179-205, :276-298,
\* :342-359).
THEOREM NothingUnacceptedRuns == Spec => []OnlyAcceptedIsRun
<1>1. IInv => OnlyAcceptedIsRun
  BY DEF IInv
<1> QED BY <1>1, InitIInv, NextIInv, PTL DEF Spec

\* The tokens in the channel are exactly the calls between acquire and release,
\* on every way out of a handler, panics included (server.go:298-300).
THEOREM NoSlotIsLost == Spec => [](TypeOK /\ SlotsAreHeld)
<1>1. IInv => TypeOK /\ SlotsAreHeld
  BY DEF IInv
<1> QED BY <1>1, InitIInv, NextIInv, PTL DEF Spec

-----------------------------------------------------------------------------
\* Telemetry of a call has left only when the call was reported.
LEMMA NextReportedOnce == ReportedOnce /\ TypeOK /\ [Next]_vars => ReportedOnce'
<1> SUFFICES ASSUME ReportedOnce, TypeOK, [Next]_vars PROVE ReportedOnce'
  OBVIOUS
<1> USE DEF ReportedOnce
<1>1. CASE UNCHANGED vars
  BY <1>1 DEF vars
<1>2. ASSUME NEW c \in Calls, TelemetryEnds(c) PROVE ReportedOnce'
  BY <1>2 DEF TelemetryEnds
<1>3. ASSUME NEW c \in Calls, Report(c) PROVE ReportedOnce'
  <2>1. c \notin sending \cup sent
    BY <1>3 DEF Report
  <2>2. stage' = [stage EXCEPT ![c] = "reported"] /\ stage \in [Calls -> Stages]
    BY <1>3 DEF Report, Go, TypeOK
  <2>3. sending \subseteq Calls /\ sent \subseteq Calls
    BY DEF TypeOK
  <2> QED BY <1>3, <2>1, <2>2, <2>3 DEF Report
<1>4. ASSUME NEW c \in Calls, NEW place, Go(c, place),
             stage[c] \in {"reported", "answered"} => place = "answered",
             UNCHANGED <<logged, sending, sent>>
      PROVE  ReportedOnce'
  <2>1. \A d \in Calls : stage'[d] = IF d = c THEN place ELSE stage[d]
    BY <1>4 DEF Go, TypeOK
  <2>2. sending \subseteq Calls /\ sent \subseteq Calls
    BY DEF TypeOK
  <2> QED BY <1>4, <2>1, <2>2
<1>5. ASSUME NEW c \in Calls, Proceed(c) \/ Returns(c) PROVE ReportedOnce'
  <2>1. CASE Acquire(c) BY <1>4, <2>1 DEF Acquire, telemetryVars
  <2>2. CASE Refuse(c) BY <1>4, <2>2 DEF Refuse, telemetryVars
  <2>3. CASE Pass(c) BY <2>3 DEF Pass, telemetryVars
  <2>4. CASE Fail(c) BY <1>4, <2>4 DEF Fail, At, telemetryVars
  <2>5. CASE Block(c) BY <1>4, <2>5 DEF Block, At, telemetryVars
  <2>6. CASE Work(c) BY <1>4, <2>6 DEF Work, At, telemetryVars
  <2>7. CASE Returns(c)
    BY <1>4, <2>7 DEF Returns, HandlerReturns, HandlerPanics, telemetryVars
  <2>8. CASE Release(c) BY <1>4, <2>8 DEF Release, telemetryVars
  <2> QED BY <1>3, <1>5, <2>1, <2>2, <2>3, <2>4, <2>5, <2>6, <2>7, <2>8 DEF Proceed
<1> QED BY <1>1, <1>2, <1>5 DEF Next

\* Telemetry is sent at most once per call, for calls that came back from their
\* handler and are in the log, and holds no slot (server.go:308-321).
THEOREM TelemetryIsOnce == Spec => []ReportedOnce
<1>1. Init => ReportedOnce
  BY DEF Init, ReportedOnce
<1> QED BY <1>1, NextReportedOnce, NoSlotIsLost, PTL DEF Spec

-----------------------------------------------------------------------------
\* The instance's cardinality is the cardinality.
LEMMA LimiterCardinality == \A S : Limiter!Cardinality(S) = Cardinality(S)
BY DEF Limiter!Cardinality, Cardinality

\* Every step of the server is a step of Admission or changes nothing there.
LEMMA StepLimits ==
  ASSUME IInv, [Next]_vars
  PROVE  [Limiter!Next]_<<Holding, In("answered"), In("refused")>>
<1> USE DEF IInv
<1>1. CASE UNCHANGED vars
  BY <1>1 DEF vars, Holding, In
<1>3. ASSUME NEW c \in Calls, NEW place \in Stages, Go(c, place),
             place \in HoldingStages, stage[c] \in HoldingStages
      PROVE  UNCHANGED <<Holding, In("answered"), In("refused")>>
  <2>1. Holding' = Holding
    BY <1>3, SameHolders
  <2>2. stage[c] \notin {"answered", "refused"} /\ place \notin {"answered", "refused"}
    BY <1>3 DEF HoldingStages
  <2>3. In("answered")' = In("answered") /\ In("refused")' = In("refused")
    BY <1>3, <2>2 DEF Go, In, TypeOK
  <2> QED BY <2>1, <2>3
<1>4. ASSUME NEW c \in Calls, stage[c] = "new" PROVE c \in Limiter!New
  BY <1>4 DEF Limiter!New, Holding, In, HoldingStages
<1>5. ASSUME NEW c \in Calls, Acquire(c) PROVE Limiter!Enter(c)
  <2>1. Holding' = Holding \cup {c}
    BY <1>5, OneMoreHolder DEF Acquire, HoldingStages
  <2>2. In("answered")' = In("answered") /\ In("refused")' = In("refused")
    BY <1>5 DEF Acquire, Go, In, TypeOK
  <2>3. Cardinality(Holding) < maxConcurrent
    BY <1>5 DEF Acquire, SlotsAreHeld
  <2> QED BY <1>4, <1>5, <2>1, <2>2, <2>3, LimiterCardinality DEF Limiter!Enter, Acquire
<1>6. ASSUME NEW c \in Calls, Refuse(c) PROVE Limiter!TurnAway(c)
  <2>1. Holding' = Holding
    BY <1>6, SameHolders DEF Refuse, Stages, HoldingStages
  <2>2. In("answered")' = In("answered") /\ In("refused")' = In("refused") \cup {c}
    BY <1>6 DEF Refuse, Go, In, TypeOK
  <2>3. Cardinality(Holding) = maxConcurrent
    BY <1>6, ToolServerAssumption DEF Refuse, SlotsAreHeld, TypeOK
  <2> QED BY <1>4, <1>6, <2>1, <2>2, <2>3, LimiterCardinality DEF Limiter!TurnAway, Refuse
<1>7. ASSUME NEW c \in Calls, Release(c) PROVE Limiter!Leave(c)
  <2>1. Holding' = Holding \ {c} /\ c \in Holding
    BY <1>7, OneLessHolder DEF Release, Stages, HoldingStages
  <2>2. In("answered")' = In("answered") \cup {c} /\ In("refused")' = In("refused")
    BY <1>7 DEF Release, Go, In, TypeOK
  <2> QED BY <2>1, <2>2 DEF Limiter!Leave
<1>8. ASSUME NEW c \in Calls, TelemetryEnds(c)
      PROVE  UNCHANGED <<Holding, In("answered"), In("refused")>>
  BY <1>8 DEF TelemetryEnds, Holding, In
<1>9. ASSUME NEW c \in Calls, Pass(c)
      PROVE  UNCHANGED <<Holding, In("answered"), In("refused")>>
  BY <1>9 DEF Pass, Holding, In
<1>10. ASSUME NEW c \in Calls, Proceed(c) \/ Returns(c)
       PROVE  [Limiter!Next]_<<Holding, In("answered"), In("refused")>>
  <2>1. CASE Acquire(c) BY <1>5, <2>1 DEF Limiter!Next
  <2>2. CASE Refuse(c) BY <1>6, <2>2 DEF Limiter!Next
  <2>3. CASE Release(c) BY <1>7, <2>3 DEF Limiter!Next
  <2>4. CASE Fail(c) BY <1>3, <2>4 DEF Fail, At, Stages, HoldingStages
  <2>5. CASE Block(c) BY <1>3, <2>5 DEF Block, At, Stages, HoldingStages
  <2>6. CASE Work(c) BY <1>3, <2>6 DEF Work, At, Stages, HoldingStages
  <2>7. CASE Returns(c)
    BY <1>3, <2>7 DEF Returns, HandlerReturns, HandlerPanics, Stages, HoldingStages
  <2>8. CASE Report(c) BY <1>3, <2>8 DEF Report, Stages, HoldingStages
  <2> QED BY <1>9, <1>10, <2>1, <2>2, <2>3, <2>4, <2>5, <2>6, <2>7, <2>8 DEF Proceed
<1> QED BY <1>1, <1>8, <1>10 DEF Next

\* The server admits calls as Admission says: never more than maxConcurrent
\* inside, none turned away while there is room, each leaving once.
THEOREM LimitsHold == Spec => Limits
<1>1. Init => Limiter!Init
  BY DEF Init, Limiter!Init, Holding, In, HoldingStages
<1>2. IInv /\ [Next]_vars => [Limiter!Next]_<<Holding, In("answered"), In("refused")>>
  BY StepLimits
<1> QED BY <1>1, <1>2, InitIInv, NextIInv, PTL DEF Spec, Limits, Limiter!Spec

-----------------------------------------------------------------------------
(***************************************************************************)
(* That a call comes to an end.                                            *)
(*                                                                         *)
(* What liveness adds to this is fairness alone, and that look-ups return: *)
(* a call that holds a slot has a step to make that waits for nobody, or   *)
(* waits for a registry's mutex, or is with a service; and whatever it     *)
(* does brings its end closer.                                             *)
(***************************************************************************)

\* The steps ahead of a call in stage s, at step k of its handler.
AheadOf(s, k) ==
  CASE s = "new"                      -> 8
    [] s = "handling"                 -> 8 - k
    [] s = "working"                  -> 3
    [] s = "returned"                 -> 2
    [] s \in {"reported", "panicked"} -> 1
    [] s \in {"answered", "refused"}  -> 0

\* A call that moves comes closer to its end, and all but one stay where they
\* are.
CallsComeCloser ==
  \A c \in Calls :
    /\ AheadOf(stage[c], step[c]) \in 0..8
    /\ \/ stage'[c] = stage[c] /\ step'[c] = step[c]
       \/ AheadOf(stage'[c], step'[c]) < AheadOf(stage[c], step[c])

\* The guards of what a call that holds a slot may do by itself.
CallMayGoOn(c) ==
  \/ At(c, "args") \/ At(c, "work")
  \/ (At(c, "gate") \/ At(c, "check")) /\ request[c] \in Accepted
  \/ (At(c, "gate") \/ At(c, "check")) /\ request[c] \notin Accepted
  \/ stage[c] \in {"returned", "reported", "panicked"}

\* A handler is always at a step it has, and waits at most for the mutex of a
\* registry or for a service.
NoHolderWaits ==
  \A c \in Holding : CallMayGoOn(c) \/ At(c, "get") \/ stage[c] = "working"

LEMMA StepKinds ==
  ASSUME NEW s \in HandlerSteps, NEW i \in DOMAIN s
  PROVE  s[i] \in {"args", "gate", "get", "check", "work"}
BY DEF HandlerSteps

LEMMA HolderGoesOn ==
  ASSUME IInv
  PROVE  NoHolderWaits
<1>1. ASSUME NEW c \in Calls, stage[c] = "handling"
      PROVE  CallMayGoOn(c) \/ At(c, "get")
  <2>1. /\ StepsOf[request[c].tool] \in HandlerSteps
        /\ step[c] \in DOMAIN StepsOf[request[c].tool]
    BY <1>1, StepsAreSome, ToolServerAssumption DEF IInv, HandlerInv
  <2>2. StepsOf[request[c].tool][step[c]] \in {"args", "gate", "get", "check", "work"}
    BY <2>1, StepKinds
  <2> QED BY <1>1, <2>2 DEF CallMayGoOn, At
<1>2. ASSUME NEW c \in Calls, stage[c] \in {"returned", "reported", "panicked"}
      PROVE  CallMayGoOn(c)
  BY <1>2 DEF CallMayGoOn
<1> QED
  BY <1>1, <1>2 DEF NoHolderWaits, Holding, HoldingStages

\* The stage a call goes to is below the one it leaves.
LEMMA GoIsCloser ==
  ASSUME IInv, NEW c \in Calls, NEW place \in Stages, Go(c, place), step' = step,
         \/ stage[c] = "new" /\ place \in {"handling", "refused"}
         \/ stage[c] = "handling" /\ place \in {"working", "returned"}
         \/ stage[c] = "working" /\ place \in {"returned", "panicked"}
         \/ stage[c] = "returned" /\ place = "reported"
         \/ stage[c] \in {"reported", "panicked"} /\ place = "answered"
  PROVE  \A d \in Calls :
           \/ stage'[d] = stage[d] /\ step'[d] = step[d]
           \/ AheadOf(stage'[d], step'[d]) < AheadOf(stage[d], step[d])
<1>1. /\ stage'[c] = place /\ step'[c] = step[c] /\ step[c] \in 1..4
      /\ \A d \in Calls \ {c} : stage'[d] = stage[d]
  BY DEF IInv, TypeOK, Go
<1>2. CASE stage[c] = "new" /\ place \in {"handling", "refused"}
  BY <1>1, <1>2 DEF AheadOf
<1>3. CASE stage[c] = "handling" /\ place \in {"working", "returned"}
  BY <1>1, <1>3 DEF AheadOf
<1>4. CASE stage[c] = "working" /\ place \in {"returned", "panicked"}
  BY <1>1, <1>4 DEF AheadOf
<1>5. CASE stage[c] = "returned" /\ place = "reported"
  BY <1>1, <1>5 DEF AheadOf
<1>6. CASE stage[c] \in {"reported", "panicked"} /\ place = "answered"
  BY <1>1, <1>6 DEF AheadOf
<1> QED
  BY <1>2, <1>3, <1>4, <1>5, <1>6

\* No call that holds a slot waits for another call, only a look-up for the
\* registry's mutex and the work for its service; and none goes on for ever: each
\* makes at most eight steps to its answer (server.go:293-325,
\* handlers.go:109-800).
THEOREM CallsComeToAnEnd == Spec => []NoHolderWaits /\ [][CallsComeCloser]_vars
<1>1. IInv => NoHolderWaits
  BY HolderGoesOn
<1>2. ASSUME IInv, [Next]_vars
      PROVE  [CallsComeCloser]_vars
  <2> DEFINE Closer == \A d \in Calls :
               \/ stage'[d] = stage[d] /\ step'[d] = step[d]
               \/ AheadOf(stage'[d], step'[d]) < AheadOf(stage[d], step[d])
  <2>1. ASSUME NEW c \in Calls
        PROVE  AheadOf(stage[c], step[c]) \in 0..8
    <3>1. step[c] \in 1..4 /\ stage[c] \in Stages
      BY <1>2 DEF IInv, TypeOK
    <3>2. CASE stage[c] \in {"new", "handling", "working"}
      BY <3>1, <3>2 DEF AheadOf
    <3>3. CASE stage[c] \in {"returned", "panicked", "reported", "refused", "answered"}
      BY <3>1, <3>3 DEF AheadOf
    <3> QED BY <3>1, <3>2, <3>3 DEF Stages
  <2>2. ASSUME NEW c \in Calls, Pass(c)
        PROVE  Closer
    <3>1. /\ stage[c] = "handling" /\ step \in [Calls -> 1..4]
          /\ step' = [step EXCEPT ![c] = @ + 1] /\ stage' = stage
      BY <1>2, <2>2 DEF Pass, At, IInv, TypeOK
    <3>2. AheadOf(stage'[c], step'[c]) < AheadOf(stage[c], step[c])
      BY <3>1 DEF AheadOf
    <3> QED BY <3>1, <3>2
  <2>3. ASSUME NEW c \in Calls,
               \/ Acquire(c) \/ Refuse(c) \/ Fail(c) \/ Block(c) \/ Work(c)
               \/ HandlerReturns(c) \/ HandlerPanics(c) \/ Report(c) \/ Release(c)
        PROVE  Closer
    <3>1. CASE Acquire(c) \/ Refuse(c)
      BY <1>2, <3>1, GoIsCloser DEF Acquire, Refuse, handlerVars, Stages
    <3>2. CASE Fail(c) \/ Block(c) \/ Work(c)
      BY <1>2, <3>2, GoIsCloser DEF Fail, Block, Work, At, handlerVars, Stages
    <3>3. CASE HandlerReturns(c) \/ HandlerPanics(c)
      BY <1>2, <3>3, GoIsCloser DEF HandlerReturns, HandlerPanics, handlerVars, Stages
    <3>4. CASE Report(c) \/ Release(c)
      BY <1>2, <3>4, GoIsCloser DEF Report, Release, handlerVars, Stages
    <3> QED BY <2>3, <3>1, <3>2, <3>3, <3>4
  <2>4. ASSUME UNCHANGED vars \/ \E c \in Calls : TelemetryEnds(c)
        PROVE  Closer
    BY <2>4 DEF vars, TelemetryEnds, handlerVars
  <2>5. Closer
    BY <1>2, <2>2, <2>3, <2>4 DEF Next, Proceed, Returns
  <2> QED
    BY <2>1, <2>5 DEF CallsComeCloser
<1> QED
  BY <1>1, <1>2, InitIInv, NextIInv, PTL DEF Spec

-----------------------------------------------------------------------------
(***************************************************************************)
(* A query is run as what the gate has judged it to be.  The gate looks at *)
(* the query without its comments, the database at the query as it came;   *)
(* unless a comment comes first, both begin with the same word.            *)
(***************************************************************************)

\* Every set of numbers has a least element.
LEMMA LeastNumber ==
  ASSUME NEW S \in SUBSET Nat, S # {}
  PROVE  \E n \in S : \A m \in S : n <= m
<1>1. PICK n \in S : \A m \in S : ~ (<<m, n>> \in OpToRel(<, Nat))
  BY WFMin, NatLessThanWellFounded
<1>2. ASSUME NEW m \in S PROVE n <= m
  <2>1. n \in Nat /\ m \in Nat
    OBVIOUS
  <2>2. ~ (m < n)
    BY <1>1, <2>1 DEF OpToRel
  <2> QED BY <2>1, <2>2
<1> QED BY <1>2

\* There are n numbers from 1 to n.
LEMMA NumbersUpTo == \A n \in Nat : Cardinality(1..n) = n
<1> TAKE n \in Nat
<1>1. 1 \in Int /\ n \in Int /\ (IF 1 > n THEN 0 ELSE n - 1 + 1) = n
  OBVIOUS
<1> QED BY <1>1, FS_Interval, Zenon

\* A sum that stays as far ahead when both sides go on.
LEMMA StaysAhead ==
  ASSUME NEW a \in Nat, NEW b \in Nat, NEW c \in Nat, NEW k \in Nat, NEW m \in Nat,
         a < b, (k - 1) - m <= a - c
  PROVE  k - m <= b - c
  OBVIOUS

\* The places that stay, and where the word of such a place comes to stand.
Kept(q, places) == {j \in DOMAIN q : j \notin places}
PlaceOf(i, q, places) == Cardinality({j \in Kept(q, places) : j <= i})

\* The words that stay keep their order.
LEMMA KeptInOrder ==
  ASSUME NEW T, NEW q \in Seq(T), NEW places, NEW i \in DOMAIN q, i \notin places
  PROVE  /\ DOMAIN Without(q, places) = 1..Cardinality(Kept(q, places))
         /\ PlaceOf(i, q, places) \in 1..Cardinality(Kept(q, places))
         /\ Without(q, places)[PlaceOf(i, q, places)] = q[i]
<1> DEFINE kept == {j \in DOMAIN q : j \notin places}
           UpTo(k) == {j \in kept : j <= k}
           n == Cardinality(UpTo(i))
<1>1. IsFiniteSet(kept) /\ Cardinality(kept) \in Nat
  <2>1. kept \subseteq 1..Len(q) /\ Len(q) \in Nat
    OBVIOUS
  <2>2. IsFiniteSet(1..Len(q))
    BY <2>1, FS_Interval
  <2> HIDE DEF kept
  <2>3. IsFiniteSet(kept)
    BY <2>1, <2>2, FS_Subset
  <2> QED BY <2>3, FS_CardinalityType
<1>2. ASSUME NEW k \in kept
      PROVE  /\ IsFiniteSet(UpTo(k)) /\ UpTo(k) \subseteq kept
             /\ Cardinality(UpTo(k)) \in Nat
             /\ Cardinality(UpTo(k)) \in 1..Cardinality(kept)
  <2>1. k \in UpTo(k) /\ UpTo(k) \subseteq kept
    OBVIOUS
  <2>2. IsFiniteSet(UpTo(k)) /\ Cardinality(UpTo(k)) \in Nat
        /\ Cardinality(UpTo(k)) <= Cardinality(kept)
    BY <1>1, <2>1, FS_Subset, FS_CardinalityType
  <2>3. Cardinality(UpTo(k)) # 0
    BY <2>1, <2>2, FS_EmptySet
  <2> QED BY <1>1, <2>1, <2>2, <2>3
<1>3. ASSUME NEW k \in kept, NEW l \in kept, k < l
      PROVE  Cardinality(UpTo(k)) < Cardinality(UpTo(l))
  <2>1. UpTo(k) \subseteq UpTo(l) /\ l \in UpTo(l) /\ l \notin UpTo(k)
    BY <1>3
  <2> HIDE DEF UpTo, kept
  <2>2. IsFiniteSet(UpTo(l)) /\ Cardinality(UpTo(l)) \in Nat
    BY <1>2
  <2>3. /\ Cardinality(UpTo(k)) <= Cardinality(UpTo(l))
        /\ Cardinality(UpTo(k)) = Cardinality(UpTo(l)) => UpTo(k) = UpTo(l)
        /\ Cardinality(UpTo(k)) \in Nat
    BY <2>1, <2>2, FS_Subset, FS_CardinalityType
  <2> QED BY <2>1, <2>2, <2>3
<1>4. ASSUME NEW k \in kept, Cardinality(UpTo(k)) = n PROVE k = i
  <2>1. k \in Nat /\ i \in Nat /\ i \in kept
    OBVIOUS
  <2> HIDE DEF kept, UpTo
  <2>2. Cardinality(UpTo(k)) \in Nat /\ Cardinality(UpTo(i)) \in Nat
    BY <1>2, <2>1
  <2>3. ~(k < i) /\ ~(i < k)
    BY <1>3, <1>4, <2>1, <2>2
  <2> QED BY <2>1, <2>3
<1>5. i \in kept
  OBVIOUS
<1>7. (CHOOSE k \in kept : Cardinality(UpTo(k)) = n) = i
  BY <1>4, <1>5
<1> QED
  BY <1>1, <1>2, <1>5, <1>7 DEF Without, Kept, PlaceOf

\* What is left is a sequence.
LEMMA WithoutIsASequence ==
  ASSUME NEW T, NEW q \in Seq(T), NEW places
  PROVE  /\ DOMAIN Without(q, places) = 1..Cardinality(Kept(q, places))
         /\ Cardinality(Kept(q, places)) \in Nat
         /\ \E S : Without(q, places) \in Seq(S)
<1> DEFINE kept == {j \in DOMAIN q : j \notin places}
           w == Without(q, places)
<1>1. Cardinality(kept) \in Nat
  <2>1. kept \subseteq 1..Len(q) /\ Len(q) \in Nat
    OBVIOUS
  <2>2. IsFiniteSet(1..Len(q))
    BY <2>1, FS_Interval
  <2> HIDE DEF kept
  <2>3. IsFiniteSet(kept)
    BY <2>1, <2>2, FS_Subset
  <2> QED BY <2>3, FS_CardinalityType
<1>2. DOMAIN w = 1..Cardinality(kept) /\ w = [n \in DOMAIN w |-> w[n]]
  BY DEF Without
<1> HIDE DEF kept, w
<1>3. w \in Seq({w[n] : n \in 1..Cardinality(kept)})
  BY <1>1, <1>2
<1> QED BY <1>1, <1>2, <1>3 DEF kept, w, Kept

\* Before the first place that is left out nothing moves.
LEMMA BeginningIsKept ==
  ASSUME NEW T, NEW q \in Seq(T), NEW places, NEW n \in DOMAIN q,
         \A i \in 1..n : i \notin places
  PROVE  n \in DOMAIN Without(q, places) /\ Without(q, places)[n] = q[n]
<1>1. {j \in Kept(q, places) : j <= n} = 1..n /\ n \in Nat /\ n > 0
  BY DEF Kept
<1>2. PlaceOf(n, q, places) = n
  <2>1. n \in Nat /\ n > 0
    BY <1>1
  <2>2. Cardinality(1..n) = n
    BY <2>1, NumbersUpTo, Zenon
  <2> QED BY <1>1, <2>2 DEF PlaceOf
<1>3. n \notin places
  BY <1>1
<1>4. /\ DOMAIN Without(q, places) = 1..Cardinality(Kept(q, places))
      /\ PlaceOf(n, q, places) \in 1..Cardinality(Kept(q, places))
      /\ Without(q, places)[PlaceOf(n, q, places)] = q[n]
  BY <1>3, KeptInOrder, Zenon
<1> QED BY <1>2, <1>4, Zenon

\* The first place that is not left out comes first.
LEMMA FirstIsKept ==
  ASSUME NEW T, NEW q \in Seq(T), NEW places, NEW i \in DOMAIN q, i \notin places,
         \A j \in 1..i - 1 : j \in places
  PROVE  Without(q, places) # <<>> /\ Head(Without(q, places)) = q[i]
<1>1. {j \in Kept(q, places) : j <= i} = {i}
  BY DEF Kept
<1>2. PlaceOf(i, q, places) = 1
  BY <1>1, FS_Singleton DEF PlaceOf
<1>3. 1 \in DOMAIN Without(q, places) /\ Without(q, places)[1] = q[i]
  <2>1. /\ DOMAIN Without(q, places) = 1..Cardinality(Kept(q, places))
        /\ PlaceOf(i, q, places) \in 1..Cardinality(Kept(q, places))
        /\ Without(q, places)[PlaceOf(i, q, places)] = q[i]
    BY KeptInOrder
  <2> QED BY <1>2, <2>1
<1>4. PICK S : Without(q, places) \in Seq(S)
  BY WithoutIsASequence
<1> QED BY <1>3, <1>4

\* Either nothing but blanks, or a first word, which TrimSpace brings to the front.
LEMMA TrimmedOrBlank ==
  ASSUME NEW T, NEW q \in Seq(T)
  PROVE  \/ (\A i \in DOMAIN q : q[i] \in Blanks) /\ TrimSpace(q) = <<>>
         \/ \E i \in DOMAIN q :
              /\ q[i] \notin Blanks /\ \A j \in 1..i - 1 : q[j] \in Blanks
              /\ TrimSpace(q) # <<>> /\ Head(TrimSpace(q)) = q[i]
<1> DEFINE words == {i \in DOMAIN q : q[i] \notin Blanks}
           front == {i \in DOMAIN q : \A j \in 1..i : q[j] \in Blanks}
<1>1. CASE words = {}
  <2>1. Kept(q, front) = {}
    BY <1>1 DEF Kept
  <2>2. Cardinality({}) = 0
    BY FS_EmptySet
  <2>3. DOMAIN TrimSpace(q) = 1..0 /\ \E S : TrimSpace(q) \in Seq(S)
    BY <2>1, <2>2, WithoutIsASequence DEF TrimSpace
  <2> QED BY <1>1, <2>3
<1>2. CASE words # {}
  <2>0. words \in SUBSET Nat
    OBVIOUS
  <2>1. PICK i \in words : \A j \in words : i <= j
    <3> HIDE DEF words
    <3> QED BY <1>2, <2>0, LeastNumber
  <2>2. i \in DOMAIN q /\ q[i] \notin Blanks /\ \A j \in 1..i - 1 : q[j] \in Blanks
    BY <2>1
  <2>3. i \notin front /\ \A j \in 1..i - 1 : j \in front
    BY <2>2
  <2> HIDE DEF front
  <2>4. Without(q, front) # <<>> /\ Head(Without(q, front)) = q[i]
    BY <2>2, <2>3, FirstIsKept
  <2> QED BY <2>2, <2>4 DEF TrimSpace, front
<1> QED BY <1>1, <1>2

\* Putting spaces in leaves a sequence as long as it was.
LEMMA SpacesInPlace ==
  ASSUME NEW T, NEW q \in Seq(T), NEW firsts
  PROVE  LET p == [i \in DOMAIN q |-> IF i \in firsts THEN " " ELSE q[i]]
         IN  \E U : p \in Seq(U) /\ DOMAIN p = DOMAIN q /\ Len(p) = Len(q)
<1> DEFINE n == Len(q)
           p == [i \in 1..n |-> IF i \in firsts THEN " " ELSE q[i]]
<1>1. n \in Nat /\ DOMAIN q = 1..n
  OBVIOUS
<1> HIDE DEF n
<1> DEFINE U == {p[i] : i \in 1..n}
<1>2. p = [i \in 1..n |-> p[i]]
  OBVIOUS
<1> HIDE DEF p
<1>3. p \in Seq(U) /\ Len(p) = n
  BY <1>1, <1>2
<1> QED BY <1>1, <1>2, <1>3 DEF n, p

LEMMA SpacedIsASequence ==
  ASSUME NEW T, NEW q \in Seq(T), NEW places, NEW firsts
  PROVE  \E S : Spaced(q, places, firsts) \in Seq(S)
<1> DEFINE p == [i \in DOMAIN q |-> IF i \in firsts THEN " " ELSE q[i]]
           gone == places \ firsts
<1>1. PICK U : p \in Seq(U)
  BY SpacesInPlace
<1>2. Spaced(q, places, firsts) = Without(p, gone)
  BY DEF Spaced
<1> HIDE DEF p, gone
<1> QED BY <1>1, <1>2, WithoutIsASequence

\* Spaces for comments do not change how a query begins that does not begin with
\* one.
LEMMA SameBeginning ==
  ASSUME NEW T, NEW q \in Seq(T), ~BeginsWithComment(q), NEW places, NEW firsts \in SUBSET places,
         \A i \in places \cap DOMAIN q : \E j \in 1..i : q[j] \in {"/*", "--"}
  PROVE  LET w == Spaced(q, places, firsts)
         IN  /\ ~BeginsWithComment(w)
             /\ IsReadQuery(TrimSpace(w)) <=> IsReadQuery(TrimSpace(q))
<1> DEFINE gone == places \ firsts
           p == [i \in DOMAIN q |-> IF i \in firsts THEN " " ELSE q[i]]
           w == Without(p, gone)
<1>0. PICK U : p \in Seq(U) /\ DOMAIN p = DOMAIN q /\ Len(p) = Len(q)
  BY SpacesInPlace
<1>9. \A i \in DOMAIN q : i \notin places => p[i] = q[i]
  OBVIOUS
<1>10. w = Spaced(q, places, firsts)
  BY DEF Spaced
<1> HIDE DEF p
<1>1. PICK S : w \in Seq(S)
  BY <1>0, WithoutIsASequence
<1>2. CASE (\A i \in DOMAIN q : q[i] \in Blanks) /\ TrimSpace(q) = <<>>
  <2>1. \A i \in DOMAIN q : i \notin places
    <3> SUFFICES ASSUME NEW i \in DOMAIN q, i \in places PROVE FALSE
      OBVIOUS
    <3>1. PICK j \in 1..i : q[j] \in {"/*", "--"}
      OBVIOUS
    <3>2. j \in DOMAIN q /\ q[j] \in Blanks
      BY <1>2
    <3> QED BY <3>1, <3>2 DEF Blanks
  <2>2. Kept(p, gone) = 1..Len(q) /\ Len(q) \in Nat
    BY <1>0, <2>1 DEF Kept
  <2>3. Cardinality(1..Len(q)) = Len(q)
    <3>1. Len(q) \in Nat
      BY <2>2
    <3> QED BY <3>1, NumbersUpTo, Zenon
  <2>4. DOMAIN w = DOMAIN q
    BY <1>0, <2>2, <2>3, WithoutIsASequence
  <2>5. \A n \in DOMAIN q : w[n] = q[n]
    <3> SUFFICES ASSUME NEW n \in DOMAIN q PROVE w[n] = q[n]
      OBVIOUS
    <3>1. n \in DOMAIN p /\ \A i \in 1..n : i \notin gone
      BY <1>0, <2>1
    <3>2. w[n] = p[n]
      BY <1>0, <3>1, BeginningIsKept
    <3> QED BY <1>9, <2>1, <3>2
  <2>6. w = q
    <3> HIDE DEF w
    <3> QED BY <1>1, <2>4, <2>5
  <2> QED BY <1>10, <2>6
<1>3. ASSUME NEW i \in DOMAIN q, q[i] \notin Blanks, \A j \in 1..i - 1 : q[j] \in Blanks,
             TrimSpace(q) # <<>>, Head(TrimSpace(q)) = q[i]
      PROVE  TrimSpace(w) # <<>> /\ Head(TrimSpace(w)) = Head(TrimSpace(q))
  <2>1. q[i] \notin {"/*", "--"}
    BY <1>3 DEF BeginsWithComment
  <2>2. \A j \in 1..i : j \notin places
    <3> SUFFICES ASSUME NEW j \in 1..i, j \in places PROVE FALSE
      OBVIOUS
    <3>1. PICK k \in 1..j : q[k] \in {"/*", "--"}
      BY <1>3
    <3>2. k = i \/ q[k] \in Blanks
      BY <1>3, <3>1
    <3> QED BY <2>1, <3>1, <3>2 DEF Blanks
  <2>3. \A n \in 1..i : n \in DOMAIN w /\ w[n] = q[n]
    <3> SUFFICES ASSUME NEW n \in 1..i PROVE n \in DOMAIN w /\ w[n] = q[n]
      OBVIOUS
    <3>1. n \in DOMAIN q /\ n \in DOMAIN p /\ n \notin places /\ \A k \in 1..n : k \notin gone
      BY <1>0, <1>3, <2>2
    <3>2. n \in DOMAIN w /\ w[n] = p[n]
      BY <1>0, <3>1, BeginningIsKept
    <3> QED BY <1>9, <3>1, <3>2
  <2> HIDE DEF w
  <2>4. i \in DOMAIN w /\ w[i] \notin Blanks /\ \A j \in 1..i - 1 : w[j] \in Blanks
    BY <1>3, <2>3
  <2>5. PICK k \in DOMAIN w :
          /\ w[k] \notin Blanks /\ \A j \in 1..k - 1 : w[j] \in Blanks
          /\ TrimSpace(w) # <<>> /\ Head(TrimSpace(w)) = w[k]
    BY <1>1, <2>4, TrimmedOrBlank
  <2>6. k = i
    BY <1>1, <2>4, <2>5
  <2> QED BY <1>3, <2>3, <2>5, <2>6
<1> HIDE DEF w
<1> QED
  BY <1>2, <1>3, <1>10, TrimmedOrBlank DEF BeginsWithComment, IsReadQuery

\* What the scan for block comments covers lies behind the mark of one.
LEMMA BlockCommentsBegin ==
  ASSUME NEW T, NEW q \in Seq(T), NEW i \in BlockComments(q)
  PROVE  i \in DOMAIN q /\ \E j \in 1..i : q[j] = "/*"
<1> DEFINE Closed(k) == \E j \in k + 1..Len(q) : q[j] = "*/"
           Inside(f, k) == k > 0 /\ ((f[k - 1] /\ q[k - 1] # "*/") \/ (q[k] = "/*" /\ Closed(k)))
           IsScan(f, n) == f = [k \in 0..n |-> Inside(f, k)]
           scan == CHOOSE f : IsScan(f, Len(q))
<1>1. \A n \in Nat : \E f : IsScan(f, n)
  <2> DEFINE bad == {n \in Nat : ~ \E f : IsScan(f, n)}
  <2>1. SUFFICES ASSUME bad # {} PROVE FALSE
    OBVIOUS
  <2>2. PICK n \in bad : \A m \in bad : n <= m
    <3>1. bad \in SUBSET Nat
      OBVIOUS
    <3> HIDE DEF bad
    <3> QED BY <2>1, <3>1, LeastNumber
  <2>3. CASE n = 0
    <3> DEFINE none == [k \in 0..0 |-> FALSE]
    <3>1. \A k \in 0..0 : Inside(none, k) = FALSE
      OBVIOUS
    <3>2. none = [k \in 0..0 |-> Inside(none, k)]
      BY <3>1
    <3> QED BY <2>2, <2>3, <3>2
  <2>4. CASE n # 0
    <3>1. n \in Nat /\ n - 1 \in Nat /\ n - 1 \notin bad
      <4>1. n \in Nat
        OBVIOUS
      <4> HIDE DEF bad
      <4> QED BY <2>2, <2>4, <4>1
    <3>2. PICK f : IsScan(f, n - 1)
      <4> HIDE DEF IsScan
      <4> QED BY <3>1
    <3> DEFINE g == [k \in 0..n |-> IF k < n THEN f[k] ELSE Inside(f, n)]
    <3>3. ASSUME NEW k \in 0..n PROVE g[k] = Inside(g, k)
      <4>1. CASE k = n
        <5>1. g[k] = Inside(f, n) /\ g[k - 1] = f[k - 1]
          BY <3>1, <4>1
        <5> QED BY <4>1, <5>1
      <4>2. CASE k = 0
        <5>1. g[k] = f[k] /\ f[k] = Inside(f, 0)
          BY <2>4, <3>1, <3>2, <4>2
        <5> QED BY <4>2, <5>1
      <4>3. CASE k # n /\ k # 0
        <5>1. k \in 0..n - 1 /\ k - 1 \in 0..n - 1 /\ k < n /\ k - 1 < n /\ k - 1 \in 0..n
          BY <3>1, <4>3
        <5>2. f[k] = Inside(f, k)
          BY <3>2, <5>1
        <5>3. g[k] = f[k] /\ g[k - 1] = f[k - 1]
          BY <5>1
        <5> QED BY <5>2, <5>3
      <4> QED BY <4>1, <4>2, <4>3
    <3>4. g = [k \in 0..n |-> Inside(g, k)]
      BY <3>3
    <3> QED BY <2>2, <3>4
  <2> QED BY <2>3, <2>4
<1>2. Len(q) \in Nat /\ IsScan(scan, Len(q))
  <2>1. Len(q) \in Nat
    OBVIOUS
  <2>2. \E f : IsScan(f, Len(q))
    BY <1>1, <2>1
  <2> HIDE DEF IsScan
  <2> QED BY <2>1, <2>2
<1>3. BlockComments(q) = {k \in DOMAIN q : scan[k]}
  BY DEF BlockComments
<1> HIDE DEF scan
<1> DEFINE stray == {k \in 0..Len(q) : scan[k] /\ ~ \E j \in 1..k : q[j] = "/*"}
<1>4. stray = {}
  <2>1. SUFFICES ASSUME stray # {} PROVE FALSE
    OBVIOUS
  <2>2. PICK k \in stray : \A m \in stray : k <= m
    <3>1. stray \in SUBSET Nat
      BY <1>2
    <3> HIDE DEF stray
    <3> QED BY <2>1, <3>1, LeastNumber
  <2>3. k \in 0..Len(q) /\ Inside(scan, k)
    BY <1>2, <2>2
  <2>4. k \in Nat /\ k > 0 /\ k \in 1..k /\ k - 1 \in 0..Len(q) /\ k - 1 \notin stray
    BY <1>2, <2>2, <2>3
  <2>5. q[k] # "/*"
    BY <2>2, <2>4
  <2>6. scan[k - 1]
    BY <2>3, <2>5
  <2>7. PICK j \in 1..k - 1 : q[j] = "/*"
    BY <2>4, <2>6
  <2> QED BY <2>2, <2>4, <2>7
<1>5. i \in DOMAIN q /\ scan[i]
  BY <1>3
<1> QED BY <1>4, <1>5

\* The gate's verdict and the database agree on every query that does not begin
\* with a comment.
LEMMA JudgedAsItCame ==
  ASSUME NEW q \in Seq(Tokens), ~BeginsWithComment(q)
  PROVE  IsReadQuery(TrimSpace(StripSQLComments(q))) <=> IsReadQuery(TrimSpace(q))
<1> DEFINE blockless == BlocksSpaced(q)
           Blocks == BlockComments(q)
           Lines1 == LineComments(blockless)
<1>1. \A i \in Blocks \cap DOMAIN q : \E j \in 1..i : q[j] \in {"/*", "--"}
  BY BlockCommentsBegin
<1>2. /\ ~BeginsWithComment(blockless)
      /\ IsReadQuery(TrimSpace(blockless)) <=> IsReadQuery(TrimSpace(q))
  <2> DEFINE firsts == {i \in Blocks : q[i] = "/*" /\ (i - 1 \notin Blocks \/ q[i - 1] = "*/")}
  <2>1. blockless = Spaced(q, Blocks, firsts) /\ firsts \in SUBSET Blocks
    BY DEF BlocksSpaced
  <2> HIDE DEF firsts, blockless, Blocks
  <2> QED BY <1>1, <2>1, SameBeginning
<1>3. \E S : blockless \in Seq(S)
  BY SpacedIsASequence DEF BlocksSpaced
<1> HIDE DEF blockless
<1>4. PICK S : blockless \in Seq(S)
  BY <1>3
<1>5. \A i \in Lines1 \cap DOMAIN blockless : \E j \in 1..i : blockless[j] \in {"/*", "--"}
  BY DEF LineComments
<1>6. IsReadQuery(TrimSpace(LinesSpaced(blockless))) <=> IsReadQuery(TrimSpace(blockless))
  <2> DEFINE firsts == {i \in Lines1 : i - 1 \notin Lines1}
  <2>1. LinesSpaced(blockless) = Spaced(blockless, Lines1, firsts) /\ firsts \in SUBSET Lines1
    BY DEF LinesSpaced
  <2> HIDE DEF firsts, Lines1
  <2> QED BY <1>2, <1>4, <1>5, <2>1, SameBeginning
<1> QED BY <1>2, <1>6 DEF StripSQLComments, blockless

\* What a service has run is the request, as the text of the request says.
RunAsAsked ==
  \A c \in Calls :
    ran[c] # "nothing" => request[c] \in Requests /\ ran[c] = RunAs(request[c])

LEMMA NextRunAsAsked == TypeOK /\ HandlerInv /\ RunAsAsked /\ [Next]_vars => RunAsAsked'
<1> SUFFICES ASSUME TypeOK, HandlerInv, RunAsAsked, [Next]_vars PROVE RunAsAsked'
  OBVIOUS
<1>1. ASSUME UNCHANGED <<request, ran>> PROVE RunAsAsked'
  BY <1>1 DEF RunAsAsked
<1>2. ASSUME NEW c \in Calls, Acquire(c) PROVE RunAsAsked'
  <2>1. ran[c] = "nothing" /\ ran' = ran
    BY <1>2 DEF Acquire, HandlerInv
  <2>2. \A d \in Calls \ {c} : request'[d] = request[d]
    BY <1>2 DEF Acquire, TypeOK
  <2> QED BY <2>1, <2>2 DEF RunAsAsked
<1>3. ASSUME NEW c \in Calls, Work(c) PROVE RunAsAsked'
  <2>1. request' = request /\ request[c] \in Requests
    BY <1>3 DEF Work, At, HandlerInv
  <2>2. \A d \in Calls : ran'[d] = IF d = c THEN RunAs(request[c]) ELSE ran[d]
    BY <1>3 DEF Work, TypeOK
  <2> QED BY <2>1, <2>2 DEF RunAsAsked
<1>4. ASSUME NEW c \in Calls, Proceed(c) \/ Returns(c) \/ TelemetryEnds(c) PROVE RunAsAsked'
  BY <1>1, <1>2, <1>3, <1>4
  DEF Proceed, Returns, Refuse, Pass, Fail, Block, Report, Release, HandlerReturns,
      HandlerPanics, TelemetryEnds, handlerVars
<1> QED BY <1>1, <1>4 DEF Next, vars

\* A database runs a query as the gate has judged it, rows or a count, unless
\* the query begins with a comment: for queries of any length, with comments and
\* line ends anywhere (handlers.go:179-205, security.go:75-105).
THEOREM QueriesRunAsJudged == Spec => []RunAsJudged
<1>1. Init => RunAsAsked
  BY DEF Init, RunAsAsked
<1>2. IInv /\ RunAsAsked => RunAsJudged
  <2> SUFFICES ASSUME IInv, RunAsAsked, NEW c \in Calls, ran[c] \in {"query", "exec"},
                      ~BeginsWithComment(request[c].input)
               PROVE  ran[c] = Judged(request[c].input)
    BY DEF IInv, RunAsJudged
  <2>1. request[c] \in Requests /\ ran[c] = RunAs(request[c]) /\ request[c].tool = "db_query"
    BY DEF RunAsAsked, RunAs
  <2>2. request[c].input \in Seq(Tokens)
    BY <2>1, ToolServerAssumption
  <2> QED BY <2>1, <2>2, JudgedAsItCame DEF RunAs, Judged
<1>3. IInv /\ RunAsAsked /\ [Next]_vars => RunAsAsked'
  BY NextRunAsAsked DEF IInv
<1> QED BY <1>1, <1>2, <1>3, InitIInv, NextIInv, PTL DEF Spec

-----------------------------------------------------------------------------
(***************************************************************************)
(* CountBareStatements walks over the quotes of a query one by one; the    *)
(* reference counts them.  Where the walk is follows from the parity of    *)
(* the quotes it has passed, and it never skips a semicolon.               *)
(***************************************************************************)

\* A function that gives each number its value from the value of the one before
\* exists.
LEMMA StepByStep ==
  ASSUME NEW V, NEW first \in V, NEW After \in [Nat -> [V -> V]], NEW n \in Nat, n > 0
  PROVE  \E f \in [1..n -> V] :
           f[1] = first /\ \A i \in 2..n : f[i] = After[i][f[i - 1]]
<1> DEFINE IsWalk(f, k) == /\ f \in [1..k -> V] /\ f[1] = first
                           /\ \A i \in 2..k : f[i] = After[i][f[i - 1]]
           bad == {k \in Nat \ {0} : ~ \E f : IsWalk(f, k)}
<1>1. SUFFICES ASSUME bad # {} PROVE FALSE
  OBVIOUS
<1>2. PICK k \in bad : \A m \in bad : k <= m
  <2>1. bad \in SUBSET Nat
    OBVIOUS
  <2> HIDE DEF bad
  <2> QED BY <1>1, <2>1, LeastNumber
<1>3. k \in Nat /\ k > 0
  OBVIOUS
<1>4. CASE k = 1
  <2>1. IsWalk([i \in 1..1 |-> first], 1)
    OBVIOUS
  <2> QED BY <1>2, <1>4, <2>1
<1>5. CASE k > 1
  <2>1. k - 1 \in Nat \ {0} /\ k - 1 \notin bad
    <3> HIDE DEF bad
    <3> QED BY <1>2, <1>3, <1>5
  <2>2. PICK f : IsWalk(f, k - 1)
    <3> HIDE DEF IsWalk
    <3> QED BY <2>1
  <2> DEFINE g == [i \in 1..k |-> IF i < k THEN f[i] ELSE After[k][f[k - 1]]]
  <2>3. f[k - 1] \in V /\ After[k][f[k - 1]] \in V
    BY <1>3, <2>1, <2>2
  <2>4. g \in [1..k -> V] /\ g[1] = first
    BY <1>3, <1>5, <2>2, <2>3
  <2>5. ASSUME NEW i \in 2..k PROVE g[i] = After[i][g[i - 1]]
    <3>1. i - 1 \in 1..k /\ g[i - 1] = f[i - 1]
      BY <1>3, <2>5
    <3>2. CASE i = k
      <4>1. g[k] = After[k][f[k - 1]]
        BY <1>3
      <4> HIDE DEF g
      <4> QED BY <3>1, <3>2, <4>1
    <3>3. CASE i < k
      <4>1. i \in 2..k - 1 /\ i \in 1..k
        BY <1>3, <3>3
      <4>2. f[i] = After[i][f[i - 1]]
        BY <2>2, <4>1
      <4> QED BY <3>1, <3>3, <4>1, <4>2
    <3> QED BY <1>3, <3>2, <3>3
  <2>6. IsWalk(g, k)
    <3> HIDE DEF g
    <3> QED BY <2>4, <2>5
  <2> QED BY <2>6
<1> QED BY <1>3, <1>4, <1>5

\* The quotes up to a place.
Quotes(q, i) == Cardinality({j \in 1..i : q[j] = "'"})

LEMMA QuotesAddUp ==
  ASSUME NEW T, NEW q \in Seq(T)
  PROVE  /\ Quotes(q, 0) = 0
         /\ \A i \in 1..Len(q) :
              /\ Quotes(q, i - 1) \in Nat
              /\ Quotes(q, i) = Quotes(q, i - 1) + (IF q[i] = "'" THEN 1 ELSE 0)
<1> DEFINE upTo(i) == {j \in 1..i : q[j] = "'"}
<1>1. upTo(0) = {}
  OBVIOUS
<1>2. Quotes(q, 0) = 0
  BY <1>1, FS_EmptySet DEF Quotes
<1>3. ASSUME NEW i \in 1..Len(q)
      PROVE  /\ Quotes(q, i - 1) \in Nat
             /\ Quotes(q, i) = Quotes(q, i - 1) + (IF q[i] = "'" THEN 1 ELSE 0)
  <2>1. i \in Nat /\ i - 1 \in Nat /\ i > 0
    OBVIOUS
  <2>2. IsFiniteSet(1..i - 1)
    BY <2>1, FS_Interval
  <2>3. upTo(i - 1) \in SUBSET (1..i - 1)
    OBVIOUS
  <2>4. upTo(i) = IF q[i] = "'" THEN upTo(i - 1) \cup {i} ELSE upTo(i - 1)
    BY <2>1
  <2>5. i \notin upTo(i - 1)
    BY <2>1
  <2> HIDE DEF upTo
  <2>6. IsFiniteSet(upTo(i - 1)) /\ Cardinality(upTo(i - 1)) \in Nat
    BY <2>2, <2>3, FS_Subset, FS_CardinalityType
  <2>7. Cardinality(upTo(i - 1) \cup {i}) = Cardinality(upTo(i - 1)) + 1
    BY <2>5, <2>6, FS_AddElement
  <2>8. Quotes(q, i) = Cardinality(upTo(i)) /\ Quotes(q, i - 1) = Cardinality(upTo(i - 1))
    BY DEF Quotes, upTo
  <2> QED BY <2>4, <2>6, <2>7, <2>8
<1> QED BY <1>2, <1>3

\* One step of the walk over a query of n tokens.
Goes(q, n, i, v) ==
  IF v = "skipped" THEN "inside"
  ELSE IF q[i - 1] # "'" THEN v
  ELSE IF v = "outside" THEN "inside"
  ELSE IF i <= n /\ q[i] = "'" THEN "skipped" ELSE "outside"

IsWalk(f, q, n) ==
  f = [i \in 1..n + 1 |-> IF i = 1 THEN "outside" ELSE Goes(q, n, i, f[i - 1])]

\* CountBareStatements has a walk to count by.
LEMMA WalkExists ==
  ASSUME NEW q, NEW n \in Nat
  PROVE  \E f : IsWalk(f, q, n)
<1> DEFINE Places == {"outside", "inside", "skipped"}
           N == n + 1
           After == [i \in Nat |-> [v \in Places |-> Goes(q, n, i, v)]]
<1>1. After \in [Nat -> [Places -> Places]]
  BY DEF Goes
<1>2. \A i \in Nat, v \in Places : After[i][v] = Goes(q, n, i, v)
  OBVIOUS
<1>3. "outside" \in Places /\ N \in Nat /\ N > 0
  OBVIOUS
<1> HIDE DEF After, N, Places
<1>4. PICK f \in [1..N -> Places] :
        f[1] = "outside" /\ \A i \in 2..N : f[i] = After[i][f[i - 1]]
  BY <1>1, <1>3, StepByStep
<1>5. ASSUME NEW i \in 1..N
      PROVE  f[i] = IF i = 1 THEN "outside" ELSE Goes(q, n, i, f[i - 1])
  <2>1. CASE i # 1
    <3>1. i \in 2..N /\ i \in Nat /\ f[i - 1] \in Places
      BY <1>3, <2>1
    <3> QED BY <1>2, <1>4, <2>1, <3>1
  <2> QED BY <1>4, <2>1
<1>6. f = [i \in 1..N |-> IF i = 1 THEN "outside" ELSE Goes(q, n, i, f[i - 1])]
  BY <1>5
<1> QED BY <1>6 DEF N, IsWalk

\* A semicolon separates two statements exactly when the quotes before it are
\* even in number, in queries of any length, with escaped quotes and strings
\* that never end (security.go:107-126).
THEOREM StatementsCountedForAll ==
  \A q \in Seq(Tokens) : CountBareStatements(q) = Statements(q)
<1> SUFFICES ASSUME NEW q \in Seq(Tokens) PROVE CountBareStatements(q) = Statements(q)
  OBVIOUS
<1> DEFINE N == Len(q) + 1
           at == CHOOSE f : IsWalk(f, q, Len(q))
<1>1. Len(q) \in Nat /\ N \in Nat /\ N > 0
  OBVIOUS
<1>2. IsWalk(at, q, Len(q))
  BY <1>1, WalkExists
<1>3. at = [i \in 1..N |-> IF i = 1 THEN "outside" ELSE Goes(q, Len(q), i, at[i - 1])]
  BY <1>2 DEF IsWalk
<1>4. CountBareStatements(q) = 1 + Cardinality({i \in DOMAIN q : q[i] = ";" /\ at[i] = "outside"})
  BY DEF CountBareStatements, Goes, IsWalk
<1> HIDE DEF at
<1> DEFINE Right(i) == \/ at[i] = "outside" /\ Quotes(q, i - 1) % 2 = 0
                       \/ at[i] = "inside" /\ Quotes(q, i - 1) % 2 = 1
                       \/ /\ at[i] = "skipped" /\ Quotes(q, i - 1) % 2 = 0
                          /\ i <= Len(q) /\ q[i] = "'"
           wrong == {i \in 1..N : ~Right(i)}
<1>5. wrong = {}
  <2>1. SUFFICES ASSUME wrong # {} PROVE FALSE
    OBVIOUS
  <2>2. PICK i \in wrong : \A m \in wrong : i <= m
    <3>1. wrong \in SUBSET Nat
      OBVIOUS
    <3> HIDE DEF wrong
    <3> QED BY <2>1, <3>1, LeastNumber
  <2>3. i \in 1..N /\ ~Right(i)
    OBVIOUS
  <2>4. i # 1
    BY <1>1, <1>3, <2>3, QuotesAddUp
  <2>5. i - 1 \in 1..Len(q) /\ i - 1 \in 1..N /\ i \in Nat
    BY <1>1, <2>3, <2>4
  <2>6. Right(i - 1)
    <3>1. i - 1 \notin wrong
      <4> HIDE DEF wrong
      <4> QED BY <2>2, <2>5
    <3> QED BY <2>5, <3>1
  <2>7. at[i] = Goes(q, Len(q), i, at[i - 1])
    BY <1>3, <2>3, <2>4
  <2>8. /\ Quotes(q, (i - 1) - 1) \in Nat
        /\ Quotes(q, i - 1) = Quotes(q, (i - 1) - 1) + (IF q[i - 1] = "'" THEN 1 ELSE 0)
    BY <2>5, QuotesAddUp
  <2> DEFINE p == Quotes(q, (i - 1) - 1)
             x == Quotes(q, i - 1)
  <2>9. (q[i - 1] = "'" => x = p + 1) /\ (q[i - 1] # "'" => x = p) /\ p \in Nat
    BY <2>8
  <2>10. /\ at[i - 1] \in {"outside", "skipped"} => p % 2 = 0
         /\ at[i - 1] = "inside" => p % 2 = 1
         /\ at[i - 1] = "skipped" => q[i - 1] = "'"
         /\ at[i - 1] \in {"outside", "inside", "skipped"}
    BY <2>6
  <2>11. ~ \/ at[i] = "outside" /\ x % 2 = 0
           \/ at[i] = "inside" /\ x % 2 = 1
           \/ at[i] = "skipped" /\ x % 2 = 0 /\ i <= Len(q) /\ q[i] = "'"
    BY <2>3
  <2> HIDE DEF p, x, Right, wrong
  <2>12. (x = p + 1 /\ p % 2 = 0 => x % 2 = 1) /\ (x = p + 1 /\ p % 2 = 1 => x % 2 = 0)
    BY <2>9
  <2> QED BY <1>1, <2>5, <2>7, <2>9, <2>10, <2>11, <2>12 DEF Goes
<1>6. ASSUME NEW i \in DOMAIN q, q[i] = ";"
      PROVE  at[i] = "outside" <=> Cardinality({j \in 1..i : q[j] = "'"}) % 2 = 0
  <2>1. i \in 1..Len(q) /\ i \in 1..N
    BY <1>1
  <2>2. Right(i)
    BY <1>5, <2>1
  <2>3. Quotes(q, i) = Quotes(q, i - 1)
    <3>1. /\ Quotes(q, i - 1) \in Nat
          /\ Quotes(q, i) = Quotes(q, i - 1) + (IF q[i] = "'" THEN 1 ELSE 0)
      BY <2>1, QuotesAddUp
    <3>2. q[i] # "'"
      BY <1>6
    <3> QED BY <3>1, <3>2
  <2>4. Quotes(q, i) = Cardinality({j \in 1..i : q[j] = "'"}) /\ q[i] # "'"
    BY <1>6 DEF Quotes
  <2> QED BY <2>2, <2>3, <2>4
<1>7. {i \in DOMAIN q : q[i] = ";" /\ at[i] = "outside"}
        = {i \in DOMAIN q : q[i] = ";" /\ Cardinality({j \in 1..i : q[j] = "'"}) % 2 = 0}
  BY <1>6
<1> QED BY <1>4, <1>7 DEF Statements

\* Where nothing is a comment, nothing is taken out.
LEMMA NothingToStrip ==
  ASSUME NEW q \in Seq(Tokens), ~HasCommentMarks(q)
  PROVE  StripSQLComments(q) = q
<1>1. ASSUME NEW firsts
      PROVE  Spaced(q, {}, {i \in {} : i \in firsts}) = q
  <2>1. Kept(q, {}) = 1..Len(q) /\ Len(q) \in Nat
    BY DEF Kept
  <2>2. Cardinality(1..Len(q)) = Len(q)
    <3>1. Len(q) \in Nat
      BY <2>1
    <3> QED BY <3>1, NumbersUpTo, Zenon
  <2> DEFINE w == Without(q, {})
  <2>3. DOMAIN w = DOMAIN q
    BY <2>1, <2>2, WithoutIsASequence
  <2>4. \A n \in DOMAIN q : w[n] = q[n]
    BY BeginningIsKept
  <2>5. PICK S : w \in Seq(S)
    BY WithoutIsASequence
  <2> HIDE DEF w
  <2>6. w = q
    BY <2>3, <2>4, <2>5
  <2>7. [i \in DOMAIN q |-> q[i]] = q
    OBVIOUS
  <2> QED BY <2>6, <2>7 DEF Spaced, w
<1>2. BlockComments(q) = {}
  <2>1. ASSUME NEW i \in BlockComments(q) PROVE FALSE
    <3>1. PICK j \in 1..i : q[j] = "/*" /\ i \in DOMAIN q
      BY <2>1, BlockCommentsBegin
    <3> QED BY <3>1 DEF HasCommentMarks
  <2> QED BY <2>1
<1>3. LineComments(q) = {}
  BY DEF LineComments, HasCommentMarks
<1>4. BlocksSpaced(q) = q
  <2>1. {i \in {} : q[i] = "/*" /\ (i - 1 \notin {} \/ q[i - 1] = "*/")} = {i \in {} : i \in {}}
    OBVIOUS
  <2> QED BY <1>1, <1>2, <2>1 DEF BlocksSpaced
<1>5. LinesSpaced(q) = q
  <2>1. {i \in {} : i - 1 \notin {}} = {i \in {} : i \in {}}
    OBVIOUS
  <2> QED BY <1>1, <1>3, <2>1 DEF LinesSpaced
<1> QED BY <1>4, <1>5 DEF StripSQLComments

\* A query without comments that a database has run, of any length, was one
\* statement: its gate counted the semicolons outside literals, and those only
\* (security.go:85-88).
THEOREM OneStatementAlways == Spec => []OneStatementIsRun
<1>1. IInv /\ RunAsAsked => OneStatementIsRun
  <2> SUFFICES ASSUME IInv, RunAsAsked, NEW c \in Calls, ran[c] \in {"query", "exec"},
                      ~HasCommentMarks(request[c].input)
               PROVE  Statements(request[c].input) = 1
    BY DEF OneStatementIsRun
  <2> DEFINE q == request[c].input
  <2>1. request[c] \in Requests /\ ran[c] = RunAs(request[c]) /\ request[c].tool = "db_query"
    BY DEF RunAsAsked, RunAs
  <2>2. q \in Seq(Tokens)
    BY <2>1, ToolServerAssumption
  <2>3. CountBareStatements(StripSQLComments(q)) <= 1
    <3>1. Accepts(request[c])
      BY DEF IInv, OnlyAcceptedIsRun
    <3> QED BY <2>1, <3>1 DEF Accepts, ValidateSQL
  <2>4. StripSQLComments(q) = q
    BY <2>2, NothingToStrip
  <2>5. Statements(q) <= 1
    BY <2>2, <2>3, <2>4, StatementsCountedForAll
  <2> DEFINE ends == {i \in DOMAIN q : q[i] = ";" /\ Cardinality({j \in 1..i : q[j] = "'"}) % 2 = 0}
  <2>6. Cardinality(ends) \in Nat
    <3> HIDE DEF q
    <3>1. Len(q) \in Nat /\ DOMAIN q = 1..Len(q)
      BY <2>2
    <3>2. ends \in SUBSET (1..Len(q))
      BY <3>1
    <3>3. IsFiniteSet(1..Len(q))
      BY <3>1, FS_Interval
    <3> HIDE DEF ends
    <3> QED BY <3>2, <3>3, FS_Subset, FS_CardinalityType
  <2>7. Statements(q) = 1 + Cardinality(ends)
    BY DEF Statements
  <2> HIDE DEF ends, q
  <2>8. Statements(q) = 1
    BY <2>5, <2>6, <2>7
  <2> QED BY <2>8 DEF q
<1>2. Init => RunAsAsked
  BY DEF Init, RunAsAsked
<1>3. IInv /\ RunAsAsked /\ [Next]_vars => RunAsAsked'
  BY NextRunAsAsked DEF IInv
<1> QED BY <1>1, <1>2, <1>3, InitIInv, NextIInv, PTL DEF Spec

-----------------------------------------------------------------------------
(***************************************************************************)
(* Compression leaves lines out, three times over.  What is left stands in *)
(* the order of the text, and each time it is known which places stay.     *)
(***************************************************************************)

\* w is what q has at the places K, in their order; e says where it was.
Embeds(e, w, q, K) ==
  /\ K \subseteq DOMAIN q
  /\ e \in [DOMAIN w -> K]
  /\ \A n \in DOMAIN w : w[n] = q[e[n]]
  /\ \A m \in DOMAIN w, n \in DOMAIN w : m < n => e[m] < e[n]
  /\ \A i \in K : \E n \in DOMAIN w : e[n] = i

\* What is left stood in the same order.
LEMMA WithoutEmbeds ==
  ASSUME NEW T, NEW q \in Seq(T), NEW places
  PROVE  /\ Without(q, places) \in Seq(T)
         /\ \E e : Embeds(e, Without(q, places), q, Kept(q, places))
<1> DEFINE K == Kept(q, places)
           C == Cardinality(K)
           w == Without(q, places)
           r == [i \in K |-> PlaceOf(i, q, places)]
<1>1. DOMAIN w = 1..C /\ C \in Nat /\ \E S : w \in Seq(S)
  BY WithoutIsASequence
<1>2. K \subseteq DOMAIN q /\ K \subseteq Nat /\ \A i \in K : i \notin places
  BY DEF Kept
<1>3. IsFiniteSet(K)
  <2>1. Len(q) \in Nat /\ DOMAIN q = 1..Len(q)
    OBVIOUS
  <2>2. IsFiniteSet(1..Len(q))
    BY <2>1, FS_Interval
  <2> HIDE DEF K
  <2> QED BY <1>2, <2>1, <2>2, FS_Subset
<1>4. \A i \in K : r[i] \in 1..C /\ w[r[i]] = q[i]
  BY <1>2, KeptInOrder
<1>5. ASSUME NEW i \in K, NEW j \in K, i < j PROVE r[i] < r[j]
  <2> DEFINE upTo(k) == {l \in K : l <= k}
  <2>1. upTo(i) \subseteq upTo(j) /\ j \in upTo(j) /\ j \notin upTo(i) /\ upTo(j) \subseteq K
    BY <1>2, <1>5
  <2>2. r[i] = Cardinality(upTo(i)) /\ r[j] = Cardinality(upTo(j))
    BY DEF PlaceOf
  <2> HIDE DEF upTo, r
  <2>3. IsFiniteSet(upTo(j))
    BY <1>3, <2>1, FS_Subset
  <2>4. /\ Cardinality(upTo(i)) <= Cardinality(upTo(j))
        /\ Cardinality(upTo(j)) = Cardinality(upTo(i)) => upTo(j) = upTo(i)
    BY <2>1, <2>3, FS_Subset
  <2>5. r[i] \in Nat /\ r[j] \in Nat
    <3> HIDE DEF K, C
    <3> QED BY <1>1, <1>4
  <2> QED BY <2>1, <2>2, <2>4, <2>5
<1> HIDE DEF r, K, C, w
<1>6. r \in Injection(K, 1..C)
  <2>1. r \in [K -> 1..C]
    BY <1>4 DEF r
  <2>2. ASSUME NEW i \in K, NEW j \in K, r[i] = r[j] PROVE i = j
    <3>1. i \in Nat /\ j \in Nat /\ r[i] \in Nat
      BY <1>1, <1>2, <1>4
    <3>2. ~ (i < j) /\ ~ (j < i)
      BY <1>5, <2>2, <3>1
    <3> QED BY <3>1, <3>2
  <2> QED BY <2>1, <2>2 DEF Injection, IsInjective
<1>7. r \in Surjection(K, 1..C)
  <2>1. IsFiniteSet(1..C) /\ Cardinality(1..C) = C
    BY <1>1, FS_Interval
  <2>2. Cardinality(K) = Cardinality(1..C)
    BY <2>1 DEF C
  <2> QED BY <1>6, <2>1, <2>2, FS_Injection
<1>8. \A n \in 1..C : \E i \in K : r[i] = n
  BY <1>7 DEF Surjection
<1> DEFINE e == [n \in 1..C |-> CHOOSE i \in K : r[i] = n]
<1>9. \A n \in 1..C : e[n] \in K /\ r[e[n]] = n
  BY <1>8
<1>10. \A i \in K : e[r[i]] = i
  BY <1>4, <1>6, <1>9 DEF Injection, IsInjective
<1>11. ASSUME NEW m \in 1..C, NEW n \in 1..C, m < n PROVE e[m] < e[n]
  <2>1. e[m] \in K /\ e[n] \in K /\ r[e[m]] = m /\ r[e[n]] = n
    BY <1>9
  <2> HIDE DEF e
  <2>2. e[m] \in Nat /\ e[n] \in Nat /\ m \in Nat /\ n \in Nat
    BY <1>1, <1>2, <2>1
  <2>3. e[m] # e[n] /\ ~ (e[n] < e[m])
    BY <1>5, <1>11, <2>1, <2>2
  <2> QED BY <2>2, <2>3
<1>12. \A n \in 1..C : w[n] = q[e[n]]
  BY <1>4, <1>9
<1>13. e \in [1..C -> K]
  BY <1>9
<1> HIDE DEF e
<1>14. Embeds(e, w, q, K)
  BY <1>1, <1>2, <1>4, <1>10, <1>11, <1>12, <1>13 DEF Embeds
<1>15. w \in Seq(T)
  <2>1. \A n \in 1..C : w[n] \in T
    BY <1>2, <1>12, <1>13
  <2>2. w = [n \in 1..C |-> w[n]]
    BY <1>1
  <2> QED BY <1>1, <2>1, <2>2
<1> QED BY <1>14, <1>15 DEF K, w

\* Leaving out from what is left: where it was in the end, and what stays.
Along(e, f, x) == [n \in DOMAIN x |-> e[f[n]]]
Places(e, J) == {e[j] : j \in J}

LEMMA EmbedsTwice ==
  ASSUME NEW q, NEW w, NEW x, NEW e, NEW f, NEW K, NEW J, K \subseteq Nat,
         Embeds(e, w, q, K), Embeds(f, x, w, J)
  PROVE  Embeds(Along(e, f, x), x, q, Places(e, J))
<1> DEFINE g == Along(e, f, x)
<1>1. /\ K \subseteq DOMAIN q /\ e \in [DOMAIN w -> K] /\ J \subseteq DOMAIN w /\ f \in [DOMAIN x -> J]
  BY DEF Embeds
<1>2. \A n \in DOMAIN x : x[n] = q[g[n]]
  BY <1>1 DEF Embeds, Along
<1>3. \A m \in DOMAIN x, n \in DOMAIN x : m < n => g[m] < g[n]
  BY <1>1 DEF Embeds, Along
<1>4. \A i \in {e[j] : j \in J} : \E n \in DOMAIN x : g[n] = i
  BY <1>1 DEF Embeds, Along
<1>5. g \in [DOMAIN x -> Places(e, J)] /\ Places(e, J) \subseteq DOMAIN q
  BY <1>1 DEF Along, Places
<1> QED BY <1>2, <1>3, <1>4, <1>5 DEF Embeds, Places

\* Nothing is left out.
LEMMA NothingLeftOut ==
  ASSUME NEW T, NEW q \in Seq(T), NEW places, \A i \in DOMAIN q : i \notin places
  PROVE  Without(q, places) = q
<1>1. Kept(q, places) = 1..Len(q) /\ Len(q) \in Nat
  BY DEF Kept
<1>2. Cardinality(1..Len(q)) = Len(q)
  BY <1>1, FS_Interval
<1>3. DOMAIN Without(q, places) = 1..Len(q)
  BY <1>1, <1>2, WithoutIsASequence
<1>4. \A n \in 1..Len(q) : Without(q, places)[n] = q[n]
  BY BeginningIsKept
<1>5. Without(q, places) \in Seq(T)
  BY WithoutEmbeds
<1> DEFINE w == Without(q, places)
<1> HIDE DEF w
<1>6. w = [n \in 1..Len(q) |-> w[n]] /\ q = [n \in 1..Len(q) |-> q[n]]
  BY <1>3, <1>5 DEF w
<1> QED BY <1>4, <1>6 DEF w

\* A text: the indent, the mark of a comment or none, the words of each line.
LinesOf(W) == [indent : Nat, mark : {"", "//", "#", "--"}, words : SUBSET W]

\* A list embeds into itself.
LEMMA EmbedsInItself ==
  ASSUME NEW T, NEW q \in Seq(T)
  PROVE  Embeds([n \in DOMAIN q |-> n], q, q, DOMAIN q)
BY DEF Embeds

\* After DedupLines no line but blank ones is there twice; of each line the
\* first one stays.
LEMMA DedupKeepsFirst ==
  ASSUME NEW W, NEW text \in Seq(LinesOf(W))
  PROVE  /\ DedupLines(text) \in Seq(LinesOf(W))
         /\ text # <<>> => DedupLines(text) # <<>>
         /\ \E e, K :
              /\ Embeds(e, DedupLines(text), text, K)
              /\ \A i \in K, j \in K :
                   i < j /\ Trimmed(text[i]) = Trimmed(text[j]) => Trimmed(text[j]) = BlankLine
              /\ \A i \in DOMAIN text :
                   (\A j \in 1..i - 1 : Trimmed(text[j]) # Trimmed(text[i])) => i \in K
<1>0. Len(text) \in Nat /\ DOMAIN text = 1..Len(text)
  OBVIOUS
<1>1. CASE Len(text) <= 1
  <2>1. DedupLines(text) = text
    BY <1>1 DEF DedupLines
  <2>2. Embeds([n \in DOMAIN text |-> n], text, text, DOMAIN text)
    BY EmbedsInItself
  <2>3. \A i \in DOMAIN text, j \in DOMAIN text : ~ (i < j)
    BY <1>0, <1>1
  <2> QED BY <2>1, <2>2, <2>3
<1>2. CASE ~ (Len(text) <= 1)
  <2> DEFINE again == {i \in DOMAIN text :
                        /\ Trimmed(text[i]) # BlankLine
                        /\ \E j \in 1..i - 1 : Trimmed(text[j]) = Trimmed(text[i])}
             K == Kept(text, again)
  <2>1. DedupLines(text) = Without(text, again)
    BY <1>2 DEF DedupLines
  <2>2. K \subseteq DOMAIN text /\ \A i \in DOMAIN text : i \in K <=> i \notin again
    BY DEF Kept
  <2>3. \A i \in K, j \in K :
          i < j /\ Trimmed(text[i]) = Trimmed(text[j]) => Trimmed(text[j]) = BlankLine
    <3> SUFFICES ASSUME NEW i \in K, NEW j \in K, i < j, Trimmed(text[i]) = Trimmed(text[j])
                 PROVE  Trimmed(text[j]) = BlankLine
      OBVIOUS
    <3>1. i \in 1..j - 1 /\ j \in DOMAIN text /\ j \notin again
      BY <1>0, <2>2
    <3> QED BY <3>1
  <2>4. \A i \in DOMAIN text : (\A j \in 1..i - 1 : Trimmed(text[j]) # Trimmed(text[i])) => i \in K
    BY <2>2
  <2> HIDE DEF again, K
  <2>5. Without(text, again) \in Seq(LinesOf(W)) /\ \E e : Embeds(e, Without(text, again), text, K)
    BY WithoutEmbeds DEF K
  <2>6. DedupLines(text) # <<>>
    <3>1. 1 \in K
      BY <1>0, <1>2, <2>4
    <3>2. PICK e : Embeds(e, DedupLines(text), text, K)
      BY <2>1, <2>5
    <3>3. \E n \in DOMAIN DedupLines(text) : e[n] = 1
      BY <3>1, <3>2 DEF Embeds
    <3> QED BY <3>3
  <2> QED BY <2>1, <2>3, <2>4, <2>5, <2>6
<1> QED BY <1>1, <1>2

\* The marks that Compress takes for comments.
Marks == {"//", "#", "--"}

\* DedupLines and what RemoveComments leaves, before it is put together.
Uncommented(text) ==
  LET d == DedupLines(text) IN Without(d, {i \in DOMAIN d : d[i].mark \in Marks})

\* The places of the lines that are no comments and the first of their kind
\* are all kept so far; and of what is kept no two lines are the same.
LEMMA UncommentedKeeps ==
  ASSUME NEW W, NEW text \in Seq(LinesOf(W))
  PROVE  /\ Uncommented(text) \in Seq(LinesOf(W))
         /\ \A n \in DOMAIN Uncommented(text) : Uncommented(text)[n].mark = ""
         /\ \E e, K :
              /\ Embeds(e, Uncommented(text), text, K)
              /\ \A i \in K, j \in K :
                   i < j /\ Trimmed(text[i]) = Trimmed(text[j]) => Trimmed(text[j]) = BlankLine
              /\ \A i \in DOMAIN text :
                   /\ text[i].mark = ""
                   /\ \A j \in 1..i - 1 : Trimmed(text[j]) # Trimmed(text[i])
                   => i \in K
<1> DEFINE d == DedupLines(text)
           comments == {i \in DOMAIN d : d[i].mark \in Marks}
           J == Kept(d, comments)
           u == Without(d, comments)
<1>1. d \in Seq(LinesOf(W))
  BY DedupKeepsFirst
<1>2. PICK e, K :
        /\ Embeds(e, d, text, K)
        /\ \A i \in K, j \in K :
             i < j /\ Trimmed(text[i]) = Trimmed(text[j]) => Trimmed(text[j]) = BlankLine
        /\ \A i \in DOMAIN text :
             (\A j \in 1..i - 1 : Trimmed(text[j]) # Trimmed(text[i])) => i \in K
  BY DedupKeepsFirst
<1> HIDE DEF d
<1>3. J \subseteq DOMAIN d /\ \A i \in DOMAIN d : i \in J <=> d[i].mark \notin Marks
  BY DEF Kept
<1>4. \A i \in DOMAIN d : d[i].mark \in {"", "//", "#", "--"}
  <2>1. \A i \in DOMAIN d : d[i] \in LinesOf(W)
    BY <1>1
  <2> QED BY <2>1 DEF LinesOf
<1> HIDE DEF J, comments
<1>5. u \in Seq(LinesOf(W)) /\ \E f : Embeds(f, u, d, J)
  BY <1>1, WithoutEmbeds DEF J
<1>6. PICK f : Embeds(f, u, d, J)
  BY <1>5
<1> HIDE DEF u
<1>7. K \subseteq DOMAIN text /\ K \subseteq Nat
  BY <1>2 DEF Embeds
<1> DEFINE g == Along(e, f, u)
           H == Places(e, J)
<1>8. Embeds(g, u, text, H)
  BY <1>2, <1>6, <1>7, EmbedsTwice
<1>9. H \subseteq K
  BY <1>2, <1>3 DEF Embeds, Places
<1>10. \A i \in DOMAIN text :
         /\ text[i].mark = ""
         /\ \A j \in 1..i - 1 : Trimmed(text[j]) # Trimmed(text[i])
         => i \in H
  <2> SUFFICES ASSUME NEW i \in DOMAIN text, text[i].mark = "",
                      \A j \in 1..i - 1 : Trimmed(text[j]) # Trimmed(text[i])
               PROVE  i \in H
    OBVIOUS
  <2>1. i \in K
    BY <1>2
  <2>2. PICK n \in DOMAIN d : e[n] = i
    BY <1>2, <2>1 DEF Embeds
  <2>2a. d[n] = text[i]
    BY <1>2, <2>2 DEF Embeds
  <2>3. n \in J
    BY <1>3, <2>2a DEF Marks
  <2> QED BY <2>2, <2>3 DEF Places
<1>11. \A n \in DOMAIN u : u[n].mark = ""
  <2> SUFFICES ASSUME NEW n \in DOMAIN u PROVE u[n].mark = ""
    OBVIOUS
  <2>1. f[n] \in J /\ u[n] = d[f[n]]
    BY <1>6 DEF Embeds
  <2> QED BY <1>3, <1>4, <2>1 DEF Marks
<1>12. \A i \in H, j \in H :
         i < j /\ Trimmed(text[i]) = Trimmed(text[j]) => Trimmed(text[j]) = BlankLine
  BY <1>2, <1>9
<1>13. Uncommented(text) = u
  BY DEF Uncommented, d, comments, u
<1> HIDE DEF g, H
<1> QED BY <1>5, <1>8, <1>10, <1>11, <1>12, <1>13

\* Steps in order are no closer where they come from.
LEMMA NoCloser ==
  ASSUME NEW e, NEW w, NEW q, NEW K \in SUBSET Nat, NEW T, w \in Seq(T), Embeds(e, w, q, K),
         NEW m \in DOMAIN w, NEW n \in DOMAIN w, m <= n
  PROVE  e[m] \in Nat /\ e[n] \in Nat /\ n - m <= e[n] - e[m]
<1>0. /\ DOMAIN w = 1..Len(w) /\ Len(w) \in Nat
      /\ \A k \in DOMAIN w : e[k] \in Nat
      /\ \A k \in DOMAIN w, l \in DOMAIN w : k < l => e[k] < e[l]
  <2>1. DOMAIN w = 1..Len(w) /\ Len(w) \in Nat
    OBVIOUS
  <2>2. \A k \in DOMAIN w : e[k] \in Nat
    BY DEF Embeds
  <2>3. \A k \in DOMAIN w, l \in DOMAIN w : k < l => e[k] < e[l]
    BY DEF Embeds
  <2> QED BY <2>1, <2>2, <2>3
<1> DEFINE bad == {k \in Nat : k \in DOMAIN w /\ m <= k /\ ~ (k - m <= e[k] - e[m])}
<1>1. bad = {}
  <2> SUFFICES ASSUME bad # {} PROVE FALSE
    OBVIOUS
  <2>1. PICK k \in bad : \A l \in bad : k <= l
    <3>1. bad \in SUBSET Nat
      OBVIOUS
    <3> HIDE DEF bad
    <3> QED BY <3>1, LeastNumber
  <2>2. k \in Nat /\ k \in DOMAIN w /\ m <= k /\ ~ (k - m <= e[k] - e[m])
    OBVIOUS
  <2>3. k # m
    BY <1>0, <2>2
  <2>4. k - 1 \in Nat /\ k - 1 \in DOMAIN w /\ m <= k - 1 /\ k - 1 < k
    BY <1>0, <2>2, <2>3
  <2>5. k - 1 \notin bad
    <3> HIDE DEF bad
    <3> QED BY <2>1, <2>2, <2>4
  <2>6. (k - 1) - m <= e[k - 1] - e[m]
    BY <2>4, <2>5
  <2>7. e[k - 1] < e[k] /\ e[k - 1] \in Nat /\ e[k] \in Nat /\ e[m] \in Nat
    BY <1>0, <2>2, <2>4
  <2>8. m \in Nat
    BY <1>0
  <2>9. k - m <= e[k] - e[m]
    BY <2>2, <2>6, <2>7, <2>8, StaysAhead
  <2> QED BY <2>2, <2>9
<1>2. n \notin bad
  BY <1>1
<1> QED BY <1>0, <1>2

\* The places with a keyword.
Matching(v, keywords) == {i \in DOMAIN v : v[i].words \cap keywords # {}}

\* ExtractRelevant leaves the places with a keyword and those near one, or all.
LEMMA ExtractKeepsNear ==
  ASSUME NEW W, NEW v \in Seq(LinesOf(W)), v # <<>>, NEW keywords
  PROVE  /\ ExtractRelevant(v, keywords, 3) \in Seq(LinesOf(W))
         /\ ExtractRelevant(v, keywords, 3) # <<>>
         /\ \E f, J :
              /\ Embeds(f, ExtractRelevant(v, keywords, 3), v, J)
              /\ Matching(v, keywords) \subseteq J
              /\ Matching(v, keywords) = {} => J = DOMAIN v
              /\ Matching(v, keywords) # {} =>
                   \A i \in J : \E m \in Matching(v, keywords) : i <= m + 3 /\ m <= i + 3
<1> DEFINE M == Matching(v, keywords)
           x == ExtractRelevant(v, keywords, 3)
<1>1. CASE M = {}
  <2>1. x = v
    BY <1>1 DEF ExtractRelevant, Matching
  <2>2. Embeds([n \in DOMAIN v |-> n], v, v, DOMAIN v)
    BY EmbedsInItself
  <2> QED BY <1>1, <2>1, <2>2
<1>2. CASE M # {}
  <2> DEFINE far == {i \in DOMAIN v : ~ \E m \in M : i <= m + 3 /\ m <= i + 3}
             J == Kept(v, far)
  <2>1. keywords # {}
    BY <1>2 DEF Matching
  <2>2. x = Without(v, far)
    BY <1>2, <2>1 DEF ExtractRelevant, Matching
  <2>3. \A i \in J : i \in DOMAIN v /\ \E m \in M : i <= m + 3 /\ m <= i + 3
    BY DEF Kept
  <2>4. M \subseteq J
    <3>1. \A m \in M : m \in DOMAIN v /\ m \in Nat /\ m <= m + 3
      BY DEF Matching
    <3> HIDE DEF M
    <3> QED BY <3>1 DEF Kept
  <2> HIDE DEF far, J, M, x
  <2>5. x \in Seq(LinesOf(W)) /\ \E f : Embeds(f, x, v, J)
    BY <2>2, WithoutEmbeds DEF J
  <2>6. PICK f : Embeds(f, x, v, J)
    BY <2>5
  <2>7. x # <<>>
    <3>1. PICK m \in J : TRUE
      BY <1>2, <2>4
    <3>2. \E n \in DOMAIN x : f[n] = m
      BY <2>6 DEF Embeds
    <3> QED BY <3>2
  <2> QED BY <1>2, <2>3, <2>4, <2>5, <2>6, <2>7 DEF M, x
<1> QED BY <1>1, <1>2

\* A second time it leaves all.
LEMMA ExtractAgain ==
  ASSUME NEW W, NEW v \in Seq(LinesOf(W)), v # <<>>, NEW keywords
  PROVE  ExtractRelevant(ExtractRelevant(v, keywords, 3), keywords, 3)
           = ExtractRelevant(v, keywords, 3)
<1> DEFINE M == Matching(v, keywords)
           x == ExtractRelevant(v, keywords, 3)
           N == Matching(x, keywords)
<1>1. x \in Seq(LinesOf(W))
  BY ExtractKeepsNear
<1>2. PICK f, J : /\ Embeds(f, x, v, J)
                  /\ M \subseteq J
                  /\ M # {} => \A i \in J : \E m \in M : i <= m + 3 /\ m <= i + 3
  BY ExtractKeepsNear
<1>3. J \in SUBSET Nat /\ J \subseteq DOMAIN v
  BY <1>2 DEF Embeds
<1> HIDE DEF x
<1>4. \A n \in DOMAIN x : x[n] = v[f[n]] /\ f[n] \in J
  BY <1>2 DEF Embeds
<1>5. \A n \in DOMAIN x : n \in N <=> f[n] \in M
  BY <1>3, <1>4 DEF Matching
<1>6. ASSUME N = {} PROVE ExtractRelevant(x, keywords, 3) = x
  BY <1>6 DEF ExtractRelevant, Matching
<1>7. ASSUME N # {} PROVE ExtractRelevant(x, keywords, 3) = x
  <2> DEFINE far == {i \in DOMAIN x : ~ \E m \in N : i <= m + 3 /\ m <= i + 3}
  <2>1. keywords # {}
    BY <1>7 DEF Matching
  <2>2. ExtractRelevant(x, keywords, 3) = Without(x, far)
    BY <1>7, <2>1 DEF ExtractRelevant, Matching
  <2>3. M # {} /\ N \subseteq DOMAIN x
    BY <1>5, <1>7 DEF Matching
  <2>4. ASSUME NEW n \in DOMAIN x PROVE n \notin far
    <3>1. PICK m \in M : f[n] <= m + 3 /\ m <= f[n] + 3
      <4> HIDE DEF M
      <4> QED BY <1>2, <1>4, <2>3
    <3>2. PICK k \in DOMAIN x : f[k] = m
      BY <1>2 DEF Embeds
    <3>3. k \in N
      BY <1>5, <3>2
    <3>4. k \in Nat /\ n \in Nat
      BY <1>1
    <3>5. k <= n => f[n] \in Nat /\ m \in Nat /\ n - k <= f[n] - m
      BY <1>1, <1>2, <1>3, <3>2, NoCloser
    <3>6. n <= k => f[n] \in Nat /\ m \in Nat /\ k - n <= m - f[n]
      BY <1>1, <1>2, <1>3, <3>2, NoCloser
    <3>7. n <= k + 3 /\ k <= n + 3
      <4> HIDE DEF M, N
      <4>1. CASE k <= n
        BY <3>1, <3>4, <3>5, <4>1
      <4>2. CASE n <= k
        BY <3>1, <3>4, <3>6, <4>2
      <4> QED BY <3>4, <4>1, <4>2
    <3> QED BY <3>3, <3>7
  <2> HIDE DEF far
  <2>5. Without(x, far) = x
    BY <1>1, <2>4, NothingLeftOut
  <2> QED BY <2>2, <2>5
<1>8. ExtractRelevant(x, keywords, 3) = x
  BY <1>6, <1>7
<1> QED BY <1>8 DEF x

\* No comments, and no line but blank ones twice.
Clean(v) ==
  /\ \A n \in DOMAIN v : v[n].mark = ""
  /\ \A m \in DOMAIN v, n \in DOMAIN v :
       m < n /\ Trimmed(v[m]) = Trimmed(v[n]) => Trimmed(v[n]) = BlankLine

\* What is put together after RemoveComments is clean.
LEMMA UncommentedIsClean ==
  ASSUME NEW W, NEW text \in Seq(LinesOf(W))
  PROVE  /\ Joined(Uncommented(text)) \in Seq(LinesOf(W))
         /\ Joined(Uncommented(text)) # <<>>
         /\ Clean(Joined(Uncommented(text)))
<1> DEFINE u == Uncommented(text)
<1>1. u \in Seq(LinesOf(W)) /\ \A n \in DOMAIN u : u[n].mark = ""
  BY UncommentedKeeps
<1>2. PICK e, K : /\ Embeds(e, u, text, K)
                  /\ \A i \in K, j \in K :
                       i < j /\ Trimmed(text[i]) = Trimmed(text[j]) => Trimmed(text[j]) = BlankLine
  BY UncommentedKeeps
<1> HIDE DEF u
<1>3. CASE u = <<>>
  <2>1. Joined(u) = <<BlankLine>>
    BY <1>3 DEF Joined
  <2>2. BlankLine \in LinesOf(W) /\ BlankLine.mark = ""
    BY DEF BlankLine, Line, LinesOf
  <2>3. DOMAIN <<BlankLine>> = {1} /\ <<BlankLine>>[1] = BlankLine /\ <<BlankLine>> # <<>>
    OBVIOUS
  <2>4. \A m \in {1}, n \in {1} : ~ (m < n)
    OBVIOUS
  <2>5. Clean(<<BlankLine>>)
    BY <2>2, <2>3, <2>4 DEF Clean
  <2>6. <<BlankLine>> \in Seq(LinesOf(W))
    <3> DEFINE S == LinesOf(W)
               b == BlankLine
    <3>1. b \in S
      BY <2>2
    <3> HIDE DEF S, b
    <3>2. <<b>> \in Seq(S)
      BY <3>1
    <3> QED BY <3>2 DEF S, b
  <2> QED BY <2>1, <2>3, <2>5, <2>6 DEF u
<1>4. CASE u # <<>>
  <2>1. Joined(u) = u
    BY <1>4 DEF Joined
  <2>2. \A m \in DOMAIN u, n \in DOMAIN u :
          m < n /\ Trimmed(u[m]) = Trimmed(u[n]) => Trimmed(u[n]) = BlankLine
    BY <1>2 DEF Embeds
  <2> QED BY <1>1, <1>4, <2>1, <2>2 DEF Clean, u
<1> QED BY <1>3, <1>4

\* A part of what is clean is clean.
LEMMA PartsAreClean ==
  ASSUME NEW v, NEW x, NEW f, NEW J, Clean(v), Embeds(f, x, v, J)
  PROVE  Clean(x)
<1>1. \A n \in DOMAIN x : f[n] \in DOMAIN v /\ x[n] = v[f[n]]
  BY DEF Embeds
<1>2. \A m \in DOMAIN x, n \in DOMAIN x : m < n => f[m] < f[n]
  BY DEF Embeds
<1>3. \A n \in DOMAIN x : x[n].mark = ""
  BY <1>1 DEF Clean
<1>4. ASSUME NEW m \in DOMAIN x, NEW n \in DOMAIN x, m < n, Trimmed(x[m]) = Trimmed(x[n])
      PROVE  Trimmed(x[n]) = BlankLine
  <2>1. f[m] \in DOMAIN v /\ f[n] \in DOMAIN v /\ f[m] < f[n]
    BY <1>1, <1>2, <1>4
  <2>2. Trimmed(v[f[m]]) = Trimmed(v[f[n]])
    BY <1>1, <1>4
  <2>3. Trimmed(v[f[n]]) = BlankLine
    BY <2>1, <2>2 DEF Clean
  <2> QED BY <1>1, <2>3
<1> QED BY <1>3, <1>4 DEF Clean

\* What is clean stays as it is.
LEMMA CleanStays ==
  ASSUME NEW W, NEW x \in Seq(LinesOf(W)), x # <<>>, Clean(x)
  PROVE  Joined(Uncommented(x)) = x
<1>1. DedupLines(x) = x
  <2> DEFINE again == {i \in DOMAIN x :
                        /\ Trimmed(x[i]) # BlankLine
                        /\ \E j \in 1..i - 1 : Trimmed(x[j]) = Trimmed(x[i])}
  <2>1. ASSUME NEW i \in DOMAIN x PROVE i \notin again
    <3>1. \A j \in 1..i - 1 : j \in DOMAIN x /\ j < i
      OBVIOUS
    <3> QED BY <3>1 DEF Clean
  <2> HIDE DEF again
  <2>2. Without(x, again) = x
    BY <2>1, NothingLeftOut
  <2> QED BY <2>2 DEF DedupLines, again
<1>2. \A i \in DOMAIN x : i \notin {j \in DOMAIN x : x[j].mark \in Marks}
  BY DEF Clean, Marks
<1>3. Without(x, {j \in DOMAIN x : x[j].mark \in Marks}) = x
  BY <1>2, NothingLeftOut
<1> QED BY <1>1, <1>3 DEF Uncommented, Joined

\* Compress in these terms.
LEMMA CompressIs ==
  ASSUME NEW text, NEW keywords
  PROVE  Compress(text, keywords) = ExtractRelevant(Joined(Uncommented(text)), keywords, 3)
BY DEF Compress, RemoveComments, Uncommented, Marks

\* What is compressed once is not compressed further, whatever the text and the
\* keywords (compressor.go:124-134).
THEOREM CompressionIsStable ==
  ASSUME NEW W, NEW text \in Seq(LinesOf(W)), NEW keywords
  PROVE  IsStable(text, keywords)
<1> DEFINE v == Joined(Uncommented(text))
           x == ExtractRelevant(v, keywords, 3)
<1>1. v \in Seq(LinesOf(W)) /\ v # <<>> /\ Clean(v)
  BY UncommentedIsClean
<1> HIDE DEF v
<1>2. x \in Seq(LinesOf(W)) /\ x # <<>> /\ \E f, J : Embeds(f, x, v, J)
  BY <1>1, ExtractKeepsNear
<1>3. ExtractRelevant(x, keywords, 3) = x
  BY <1>1, ExtractAgain
<1> HIDE DEF x
<1>4. Clean(x)
  BY <1>1, <1>2, PartsAreClean
<1>5. Joined(Uncommented(x)) = x
  BY <1>2, <1>4, CleanStays
<1>6. Compress(text, keywords) = x
  BY CompressIs DEF v, x
<1>7. Compress(x, keywords) = x
  BY <1>3, <1>5, CompressIs
<1> QED BY <1>6, <1>7 DEF IsStable

\* Of equal lines the first is no comment if the others are none.
LEMMA FirstOfItsKind ==
  ASSUME NEW W, NEW text \in Seq(LinesOf(W)), NEW i \in DOMAIN text
  PROVE  \E j \in DOMAIN text :
           /\ j <= i /\ Trimmed(text[j]) = Trimmed(text[i])
           /\ text[j].mark = text[i].mark /\ text[j].words = text[i].words
           /\ \A k \in 1..j - 1 : Trimmed(text[k]) # Trimmed(text[j])
<1> DEFINE alike == {j \in DOMAIN text : Trimmed(text[j]) = Trimmed(text[i])}
<1>1. PICK j \in alike : \A k \in alike : j <= k
  <2>1. alike \in SUBSET Nat /\ alike # {}
    OBVIOUS
  <2> HIDE DEF alike
  <2> QED BY <2>1, LeastNumber
<1>2. j \in DOMAIN text /\ Trimmed(text[j]) = Trimmed(text[i]) /\ j <= i
  BY <1>1
<1>3. \A k \in 1..j - 1 : Trimmed(text[k]) # Trimmed(text[j])
  <2> SUFFICES ASSUME NEW k \in 1..j - 1, Trimmed(text[k]) = Trimmed(text[j]) PROVE FALSE
    OBVIOUS
  <2>1. k \in DOMAIN text /\ k \in Nat /\ j \in Nat /\ k < j
    BY <1>2
  <2>2. k \in alike
    BY <1>2, <2>1
  <2> HIDE DEF alike
  <2> QED BY <1>1, <2>1, <2>2
<1>4. text[i] \in LinesOf(W) /\ text[j] \in LinesOf(W)
  BY <1>2
<1>5. text[j].mark = text[i].mark /\ text[j].words = text[i].words
  <2>1. Trimmed(text[j]).mark = Trimmed(text[i]).mark /\ Trimmed(text[j]).words = Trimmed(text[i]).words
    BY <1>2
  <2> HIDE DEF alike
  <2> QED BY <1>4, <2>1 DEF Trimmed, LinesOf
<1> QED BY <1>2, <1>3, <1>5

\* A relevant line is in the result, in one place, where an order-preserving map
\* has put it.
LEMMA RelevantIsThere ==
  ASSUME NEW W, NEW text \in Seq(LinesOf(W)), NEW keywords
  PROVE  \E g \in [DOMAIN Compress(text, keywords) -> Nat] :
           /\ \A m \in DOMAIN Compress(text, keywords), n \in DOMAIN Compress(text, keywords) :
                m < n => g[m] < g[n]
           /\ \A i \in Relevant(text, keywords) : \E k \in DOMAIN Compress(text, keywords) :
                /\ g[k] = i
                /\ \A l \in DOMAIN Compress(text, keywords) :
                     Compress(text, keywords)[l] = text[i] <=> l = k
<1> DEFINE u == Uncommented(text)
           x == Compress(text, keywords)
<1>1. u \in Seq(LinesOf(W)) /\ \A n \in DOMAIN u : u[n].mark = ""
  BY UncommentedKeeps
<1>2. PICK e, K :
        /\ Embeds(e, u, text, K)
        /\ \A i \in K, j \in K :
             i < j /\ Trimmed(text[i]) = Trimmed(text[j]) => Trimmed(text[j]) = BlankLine
        /\ \A i \in DOMAIN text :
             /\ text[i].mark = ""
             /\ \A j \in 1..i - 1 : Trimmed(text[j]) # Trimmed(text[i])
             => i \in K
  BY UncommentedKeeps
<1>3. x = ExtractRelevant(Joined(u), keywords, 3)
  BY CompressIs
<1> HIDE DEF u, x
<1>4. K \subseteq DOMAIN text /\ K \subseteq Nat
  <2>1. Embeds(e, u, text, K)
    BY <1>2
  <2>2. K \subseteq DOMAIN text
    BY <2>1 DEF Embeds
  <2>3. DOMAIN text \subseteq Nat
    OBVIOUS
  <2> QED BY <2>2, <2>3
<1>5. \A i \in Relevant(text, keywords) : i \in K /\ text[i].words # {}
  BY <1>2 DEF Relevant
<1>6. CASE u = <<>>
  <2>1. K = {}
    <3>1. DOMAIN u = {}
      BY <1>6
    <3>2. \A i \in K : \E n \in DOMAIN u : e[n] = i
      BY <1>2 DEF Embeds
    <3> QED BY <3>1, <3>2
  <2>2. Relevant(text, keywords) = {}
    BY <1>5, <2>1
  <2>3. x \in Seq(LinesOf(W))
    BY <1>3, UncommentedIsClean, ExtractKeepsNear DEF u
  <2> DEFINE g == [n \in DOMAIN x |-> n]
  <2>4. g \in [DOMAIN x -> Nat] /\ \A m \in DOMAIN x, n \in DOMAIN x : m < n => g[m] < g[n]
    BY <2>3
  <2> HIDE DEF g
  <2> QED BY <2>2, <2>4 DEF x
<1>7. CASE u # <<>>
  <2>1. Joined(u) = u
    BY <1>7 DEF Joined
  <2> DEFINE M == Matching(u, keywords)
  <2>2. PICK f, J : /\ Embeds(f, x, u, J)
                    /\ M \subseteq J
                    /\ M = {} => J = DOMAIN u
    BY <1>1, <1>3, <1>7, <2>1, ExtractKeepsNear
  <2> DEFINE g == [n \in DOMAIN x |-> e[f[n]]]
  <2>3. Embeds(g, x, text, {e[j] : j \in J})
    <3>1. Embeds(e, u, text, K) /\ Embeds(f, x, u, J) /\ K \subseteq Nat
      BY <1>2, <1>4, <2>2
    <3>2. Embeds(Along(e, f, x), x, text, Places(e, J))
      BY <3>1, EmbedsTwice
    <3> QED BY <3>2 DEF Along, Places
  <2>4. J \subseteq DOMAIN u /\ \A j \in J : e[j] \in K
    BY <1>2, <2>2 DEF Embeds
  <2>5. /\ g \in [DOMAIN x -> K]
        /\ \A n \in DOMAIN x : x[n] = text[g[n]]
        /\ \A m \in DOMAIN x, n \in DOMAIN x : m < n => g[m] < g[n]
    <3>1. \A n \in DOMAIN x : g[n] \in {e[j] : j \in J}
      BY <2>3 DEF Embeds
    <3> QED BY <2>3, <2>4, <3>1 DEF Embeds
  <2>6. \A i \in {e[j] : j \in J} : \E n \in DOMAIN x : g[n] = i
    BY <2>3 DEF Embeds
  <2> HIDE DEF g
  <2>7. ASSUME NEW m \in M
        PROVE  \E i \in DOMAIN text :
                 /\ text[i].mark = "" /\ text[i].words \cap keywords # {}
                 /\ \A j \in 1..i - 1 : Trimmed(text[j]) # Trimmed(text[i])
    <3>1. m \in DOMAIN u /\ u[m].words \cap keywords # {} /\ u[m].mark = ""
      BY <1>1 DEF Matching
    <3>2. e[m] \in DOMAIN text /\ text[e[m]] = u[m]
      BY <1>2, <3>1 DEF Embeds
    <3>3. PICK i \in DOMAIN text :
            /\ text[i].mark = text[e[m]].mark /\ text[i].words = text[e[m]].words
            /\ \A k \in 1..i - 1 : Trimmed(text[k]) # Trimmed(text[i])
      <4>1. \A h \in DOMAIN text : \E j \in DOMAIN text :
              /\ text[j].mark = text[h].mark /\ text[j].words = text[h].words
              /\ \A k \in 1..j - 1 : Trimmed(text[k]) # Trimmed(text[j])
        BY FirstOfItsKind
      <4> QED BY <3>2, <4>1
    <3> QED BY <3>1, <3>2, <3>3
  <2>8. ASSUME NEW i \in Relevant(text, keywords) PROVE i \in {e[j] : j \in J}
    <3>1. PICK n \in DOMAIN u : e[n] = i
      BY <1>2, <1>5 DEF Embeds
    <3>2. u[n] = text[i]
      BY <1>2, <3>1 DEF Embeds
    <3>3. CASE M = {}
      BY <2>2, <3>1, <3>3
    <3>4. CASE M # {}
      <4>1. PICK h \in DOMAIN text :
              /\ text[h].mark = "" /\ text[h].words \cap keywords # {}
              /\ \A j \in 1..h - 1 : Trimmed(text[j]) # Trimmed(text[h])
        <5> HIDE DEF M
        <5> QED BY <2>7, <3>4
      <4>2. text[i].words \cap keywords # {}
        BY <4>1 DEF Relevant
      <4>3. n \in M
        BY <3>2, <4>2 DEF Matching
      <4> QED BY <2>2, <3>1, <4>3
    <3> QED BY <3>3, <3>4
  <2>9. ASSUME NEW i \in Relevant(text, keywords)
        PROVE  \E k \in DOMAIN x : g[k] = i /\ \A l \in DOMAIN x : x[l] = text[i] <=> l = k
    <3>1. PICK k \in DOMAIN x : g[k] = i
      BY <2>6, <2>8
    <3>2. x[k] = text[i]
      BY <2>5, <3>1
    <3>3. ASSUME NEW l \in DOMAIN x, x[l] = text[i] PROVE l = k
      <4>1. g[l] \in K /\ text[g[l]] = text[i] /\ i \in K /\ g[l] \in Nat /\ i \in Nat
        BY <1>4, <1>5, <2>5, <3>3
      <4>2. Trimmed(text[i]) # BlankLine
        <5>1. text[i] \in LinesOf(W) /\ text[i].words # {}
          BY <1>4, <1>5
        <5>2. Trimmed(text[i]).words = text[i].words
          BY <5>1 DEF Trimmed, LinesOf
        <5>3. BlankLine.words = {}
          BY DEF BlankLine, Line
        <5> QED BY <5>1, <5>2, <5>3
      <4>3. ~ (g[l] < i) /\ ~ (i < g[l])
        BY <1>2, <4>1, <4>2
      <4>4. g[l] = g[k]
        BY <3>1, <4>1, <4>3
      <4>5. ~ (l < k) /\ ~ (k < l)
        <5>1. \A m \in DOMAIN x : g[m] \in Nat
          BY <1>4, <2>5
        <5> QED BY <2>5, <4>4, <5>1
      <4>6. x \in Seq(LinesOf(W))
        BY <1>1, <1>3, <1>7, <2>1, ExtractKeepsNear
      <4>7. l \in Nat /\ k \in Nat
        BY <4>6
      <4> QED BY <4>5, <4>7
    <3> QED BY <3>1, <3>2, <3>3
  <2>10. g \in [DOMAIN x -> Nat]
    BY <1>4, <2>5
  <2> QED BY <2>5, <2>9, <2>10 DEF x
<1> QED BY <1>6, <1>7

\* Every line that is no comment and the first of its kind, or each of those
\* with a keyword if there are any, is in the result, in the order of the text,
\* for texts of any length (compressor.go:124-134).
THEOREM CompressionKeepsRelevant ==
  ASSUME NEW W, NEW text \in Seq(LinesOf(W)), NEW keywords
  PROVE  Keeps(text, keywords)
<1> DEFINE x == Compress(text, keywords)
           R == Relevant(text, keywords)
           Place(i) == CHOOSE k \in DOMAIN x : x[k] = text[i]
<1>1. PICK g \in [DOMAIN x -> Nat] :
        /\ \A m \in DOMAIN x, n \in DOMAIN x : m < n => g[m] < g[n]
        /\ \A i \in R : \E k \in DOMAIN x :
             g[k] = i /\ \A l \in DOMAIN x : x[l] = text[i] <=> l = k
  BY RelevantIsThere
<1>2. DOMAIN x \subseteq Nat
  <2>1. x \in Seq(LinesOf(W))
    BY CompressIs, UncommentedIsClean, ExtractKeepsNear
  <2> HIDE DEF x
  <2> QED BY <2>1
<1> HIDE DEF x, R
<1>3. \A i \in R : Place(i) \in DOMAIN x /\ x[Place(i)] = text[i] /\ g[Place(i)] = i
  <2> SUFFICES ASSUME NEW i \in R
               PROVE  Place(i) \in DOMAIN x /\ x[Place(i)] = text[i] /\ g[Place(i)] = i
    OBVIOUS
  <2>1. PICK k \in DOMAIN x : g[k] = i /\ \A l \in DOMAIN x : x[l] = text[i] <=> l = k
    BY <1>1
  <2>2. Place(i) = k
    BY <2>1
  <2> QED BY <2>1, <2>2
<1>4. ASSUME NEW i \in R, NEW j \in R, i < j PROVE Place(i) < Place(j)
  <2>1. /\ Place(i) \in DOMAIN x /\ Place(j) \in DOMAIN x
        /\ g[Place(i)] = i /\ g[Place(j)] = j
    BY <1>3
  <2> DEFINE a == Place(i)
             b == Place(j)
  <2> HIDE DEF Place
  <2>2. a \in Nat /\ b \in Nat /\ i \in Nat /\ j \in Nat
    BY <1>1, <1>2, <2>1
  <2>3. a # b /\ ~ (b < a)
    BY <1>1, <1>4, <2>1, <2>2
  <2> QED BY <2>2, <2>3
<1>5. \A i \in R : (\E k \in DOMAIN x : x[k] = text[i]) /\ \A j \in R : i < j => Place(i) < Place(j)
  <2> HIDE DEF Place
  <2> QED BY <1>3, <1>4
<1> QED BY <1>5 DEF Keeps, x, R

-----------------------------------------------------------------------------
(***************************************************************************)
(* The instance of the runs.                                               *)
(***************************************************************************)

\* What compress_context answers has every relevant line, in order, and is not
\* compressed further (compressor.go:124-134).
THEOREM RelevantLinesAlwaysKept == Spec => []RelevantLinesAreKept
<1>1. RelevantLinesAreKept
  <2>1. Lines \subseteq LinesOf({"x", "y", "k"})
    BY DEF Lines, BlankLine, Line, LinesOf
  <2>2. SomeTexts \subseteq Seq(LinesOf({"x", "y", "k"}))
    <3> SUFFICES ASSUME NEW n \in 1..5, NEW text \in [1..n -> Lines]
                 PROVE  text \in Seq(LinesOf({"x", "y", "k"}))
      BY DEF SomeTexts
    <3> DEFINE S == LinesOf({"x", "y", "k"})
    <3>1. \A i \in 1..n : text[i] \in S
      BY <2>1
    <3> HIDE DEF S
    <3>2. text \in [1..n -> S] /\ n \in Nat
      BY <3>1
    <3> QED BY <3>2 DEF S
  <2> QED
    BY <2>2, CompressionKeepsRelevant, CompressionIsStable DEF RelevantLinesAreKept, CompressionIsSafe
<1> QED BY <1>1, PTL
=============================================================================
