-------------------------- MODULE ServiceLifecycle --------------------------
(***************************************************************************)
(* The life of the server process around its connection registries:        *)
(* internal/bootstrap/lifecycle.go and config/reload.go.  Four kinds of    *)
(* actors run at once: the start-up, which connects the configured         *)
(* services; the reload goroutine, woken by SIGHUP; the OnStop hook; and   *)
(* the tool calls, which get a connection from a registry and then use it. *)
(*                                                                         *)
(* The configuration is read from the environment, which a running process *)
(* keeps: a reload validates, and connects, the services the process       *)
(* started with.                                                           *)
(***************************************************************************)
EXTENDS ConnRegistry

CONSTANTS
  Calls,       \* tool calls that may be in progress at once
  MaxSignals   \* bound on the SIGHUPs sent

ASSUME SignalAssumption == MaxSignals \in Nat

VARIABLES
  process,    \* "starting", "serving", "stopping", "gone"
  pending,    \* SIGHUPs in the channel, whose capacity is one
  signals,    \* SIGHUPs sent
  reloader,   \* the goroutine: "waiting", "closing", "adding" or "ended"
  turn,       \* the registry the goroutine has reached
  left,       \* services whose Add has not returned (start-up or reload)
  reloadMark, \* history: connections opened before this reload
  heard,      \* history: SIGHUPs sent when the goroutine last took one
  stopTurn,   \* OnStop: 0 the store, 1..3 the registries, 4 done
  stopMark,   \* history: connections opened before the stop
  storeOpen,  \* the mapping store's database is open
  call        \* tool call -> what it is doing

lifeVars == <<process, pending, signals, reloader, turn, left, reloadMark,
              heard, stopTurn, stopMark, storeOpen, call>>
allVars == <<handles, conns, adding, process, pending, signals, reloader, turn,
             left, reloadMark, heard, stopTurn, stopMark, storeOpen, call>>
reloaderVars == <<reloader, turn, left, reloadMark, heard>>
stopperVars == <<stopTurn, stopMark, storeOpen>>

ReloadOrder == <<"sql", "redis", "mongo">>
StopOrder == <<"sql", "mongo", "redis">>

Idle == [at |-> "idle"]
Waiting(n) == [at |-> "waiting", service |-> n]
Holding(h) == [at |-> "holding", handle |-> h]

Alive == process # "gone"
ServicesOf(r) == {n \in Services : RegistryOf[n] = r}

Init ==
  /\ RegistryInit
  /\ process = "starting"
  /\ pending = 0 /\ signals = 0
  /\ reloader = "waiting" /\ turn = 1
  /\ left = Services
  /\ reloadMark = 0 /\ heard = 0
  /\ stopTurn = 0 /\ stopMark = 0
  /\ storeOpen = TRUE
  /\ call = [c \in Calls |-> Idle]

-----------------------------------------------------------------------------
(***************************************************************************)
(* Start-up and reload: the Add calls.  What an Add returns is ignored, or *)
(* only logged.                                                            *)
(***************************************************************************)

\* The services the current provider or reload loop still has to add.
ToAdd ==
  IF process = "starting" THEN left
  ELSE IF reloader = "adding" THEN left \cap ServicesOf(ReloadOrder[turn])
  ELSE {}

\* The providers run one after the other, and so do the reload's loops.
StartAdd(n) ==
  /\ Alive
  /\ n \in ToAdd
  /\ adding = {}
  /\ BeginAdd(n)
  /\ UNCHANGED lifeVars

SkipAdd(n) ==
  /\ Alive
  /\ n \in ToAdd
  /\ adding = {}
  /\ AddRefused(n)
  /\ left' = left \ {n}
  /\ UNCHANGED <<process, pending, signals, reloader, turn, reloadMark,
                 heard, stopperVars, call>>

FinishAdd(n) ==
  /\ Alive
  /\ AddSucceeds(n) \/ AddFails(n)
  /\ left' = left \ {n}
  /\ UNCHANGED <<process, pending, signals, reloader, turn, reloadMark,
                 heard, stopperVars, call>>

\* fx has built every dependency and calls OnStart.
Serve ==
  /\ process = "starting"
  /\ left = {}
  /\ process' = "serving"
  /\ UNCHANGED <<registryVars, pending, signals, reloaderVars, stopperVars, call>>

\* Mutant: a signal that finds the goroutine busy is dropped.
SignalUnbuffered ==
  /\ process \in {"serving", "stopping"}
  /\ reloader # "ended"
  /\ signals < MaxSignals
  /\ signals' = signals + 1
  /\ pending' = IF reloader = "waiting" THEN 1 ELSE pending
  /\ UNCHANGED <<registryVars, process, reloaderVars, stopperVars, call>>

\* signal.Notify never blocks: a second signal is merged with the pending one.
Signal ==
  /\ process \in {"serving", "stopping"}
  /\ reloader # "ended"
  /\ signals < MaxSignals
  /\ signals' = signals + 1
  /\ pending' = 1
  /\ UNCHANGED <<registryVars, process, reloaderVars, stopperVars, call>>

\* Mutant: the first registry is skipped.
TakeSignalLate ==
  /\ Alive
  /\ reloader = "waiting"
  /\ pending = 1
  /\ pending' = 0
  /\ reloader' = "closing"
  /\ turn' = 2
  /\ left' = Services
  /\ reloadMark' = Len(handles)
  /\ heard' = signals
  /\ UNCHANGED <<registryVars, process, signals, stopperVars, call>>

\* The select takes the signal, also when the context is cancelled as well.
TakeSignal ==
  /\ Alive
  /\ reloader = "waiting"
  /\ pending = 1
  /\ pending' = 0
  /\ reloader' = "closing"
  /\ turn' = 1
  /\ left' = Services
  /\ reloadMark' = Len(handles)
  /\ heard' = signals
  /\ UNCHANGED <<registryVars, process, signals, stopperVars, call>>

\* The select takes ctx.Done.
EndReloader ==
  /\ process = "stopping"
  /\ reloader = "waiting"
  /\ reloader' = "ended"
  /\ UNCHANGED <<registryVars, process, pending, signals, turn, left, reloadMark,
                 heard, stopperVars, call>>

ReloadCloseAll ==
  /\ Alive
  /\ reloader = "closing"
  /\ CloseAll(ReloadOrder[turn])
  /\ reloader' = "adding"
  /\ UNCHANGED <<process, pending, signals, turn, left, reloadMark, heard,
                 stopperVars, call>>

\* The loop over one kind of service ends; after the last kind the callback
\* returns.
ReloadNext ==
  /\ Alive
  /\ reloader = "adding"
  /\ ToAdd = {}
  /\ IF turn < Len(ReloadOrder)
     THEN reloader' = "closing" /\ turn' = turn + 1
     ELSE reloader' = "waiting" /\ UNCHANGED turn
  /\ UNCHANGED <<registryVars, process, pending, signals, left, reloadMark,
                 heard, stopperVars, call>>

-----------------------------------------------------------------------------
(***************************************************************************)
(* OnStop, and the end of the process.                                     *)
(***************************************************************************)

\* SIGTERM, SIGINT, or the transport has ended: OnStop cancels the context.
\* Nothing waits for the reload goroutine, for tool calls or for the HTTP
\* server, which goes on serving.
BeginStop ==
  /\ process = "serving"
  /\ process' = "stopping"
  /\ stopMark' = Len(handles)
  /\ UNCHANGED <<registryVars, pending, signals, reloaderVars, stopTurn,
                 storeOpen, call>>

CloseStore ==
  /\ process = "stopping"
  /\ stopTurn = 0
  /\ storeOpen' = FALSE
  /\ stopTurn' = 1
  /\ UNCHANGED <<registryVars, process, pending, signals, reloaderVars,
                 stopMark, call>>

\* Mutant: one registry is never reached.
StopTooEarly ==
  /\ process = "stopping"
  /\ stopTurn \in 1..2
  /\ CloseAll(StopOrder[stopTurn])
  /\ stopTurn' = IF stopTurn = 2 THEN 4 ELSE stopTurn + 1
  /\ UNCHANGED <<process, pending, signals, reloaderVars, stopMark, storeOpen, call>>

StopCloseAll ==
  /\ process = "stopping"
  /\ stopTurn \in 1..3
  /\ CloseAll(StopOrder[stopTurn])
  /\ stopTurn' = stopTurn + 1
  /\ UNCHANGED <<process, pending, signals, reloaderVars, stopMark, storeOpen, call>>

Leave ==
  /\ process' = "gone"
  /\ UNCHANGED <<registryVars, pending, signals, reloaderVars, stopperVars, call>>

\* OnStop has returned.
Exit == process = "stopping" /\ stopTurn = 4 /\ Leave

\* Mutant: the timeout only covers the store.
StopTimeoutOnce == process = "stopping" /\ stopTurn = 0 /\ Leave

\* StopTimeout: fx gives up on a hook after ten seconds.
StopTimeout == process = "stopping" /\ stopTurn < 4 /\ Leave

\* The goroutine has called signal.Stop: a SIGHUP now ends the process.
Hangup == process = "stopping" /\ reloader = "ended" /\ Leave

-----------------------------------------------------------------------------
(***************************************************************************)
(* Tool calls.                                                             *)
(***************************************************************************)

BeginCall(c) ==
  /\ process \in {"serving", "stopping"}
  /\ call[c] = Idle
  /\ \E n \in Services : call' = [call EXCEPT ![c] = Waiting(n)]
  /\ UNCHANGED <<registryVars, process, pending, signals, reloaderVars, stopperVars>>

\* Get: an unknown name is an error result at once.
GetConnection(c) ==
  /\ Alive
  /\ call[c].at = "waiting"
  /\ CanGet(call[c].service)
  /\ call' = [call EXCEPT ![c] =
                IF Registered(@.service) THEN Holding(conns[@.service]) ELSE Idle]
  /\ UNCHANGED <<registryVars, process, pending, signals, reloaderVars, stopperVars>>

\* The query runs and the call returns: with rows if the connection is open,
\* with an error if it has been closed since.
UseConnection(c) ==
  /\ Alive
  /\ call[c].at = "holding"
  /\ call' = [call EXCEPT ![c] = Idle]
  /\ UNCHANGED <<registryVars, process, pending, signals, reloaderVars, stopperVars>>

-----------------------------------------------------------------------------
Reload == TakeSignal \/ EndReloader \/ ReloadCloseAll \/ ReloadNext

Next ==
  \/ \E n \in Services : StartAdd(n) \/ SkipAdd(n) \/ FinishAdd(n)
  \/ Serve
  \/ Signal
  \/ Reload
  \/ BeginStop \/ CloseStore \/ StopCloseAll \/ Exit \/ StopTimeout \/ Hangup
  \/ \E c \in Calls : BeginCall(c) \/ GetConnection(c) \/ UseConnection(c)

Spec == Init /\ [][Next]_allVars

\* Goroutines that can run do, mutexes are not starved, fx's timer fires, a
\* query has a deadline, and so have the pings of MongoDB and Redis.  The ping
\* of a SQL database has none: db.Ping takes no context.
Fairness ==
  /\ WF_allVars(Serve)
  /\ WF_allVars(Reload)
  /\ WF_allVars(CloseStore) /\ WF_allVars(StopCloseAll)
  /\ WF_allVars(Exit) /\ WF_allVars(StopTimeout)
  /\ \A n \in Services :
       /\ WF_allVars(StartAdd(n)) /\ WF_allVars(SkipAdd(n))
       /\ RegistryOf[n] # "sql" => WF_allVars(FinishAdd(n))
  /\ \A c \in Calls : WF_allVars(GetConnection(c)) /\ WF_allVars(UseConnection(c))

FairSpec == Spec /\ Fairness

\* Every ping is answered or refused in the end, also that of a SQL database.
PingsReturn == \A n \in Services : WF_allVars(FinishAdd(n))

-----------------------------------------------------------------------------
(***************************************************************************)
(* Properties.                                                             *)
(***************************************************************************)

TypeOK ==
  /\ RegistryTypeOK
  /\ process \in {"starting", "serving", "stopping", "gone"}
  /\ pending \in 0..1 /\ signals \in 0..MaxSignals
  /\ reloader \in {"waiting", "closing", "adding", "ended"}
  /\ turn \in 1..3 /\ heard \in 0..MaxSignals
  /\ left \subseteq Services
  /\ reloadMark \in 0..MaxHandles /\ stopMark \in 0..MaxHandles
  /\ stopTurn \in 0..4
  /\ storeOpen \in BOOLEAN
  /\ call \in [Calls -> {Idle} \cup {Waiting(n) : n \in Services}
                               \cup {Holding(h) : h \in DOMAIN handles}]

\* The registries the last reload has closed so far.
Reloaded ==
  {ReloadOrder[i] : i \in
     {j \in 1..3 : j < turn \/ (j = turn /\ reloader # "closing")}}

\* Once a reload has passed a registry, what is registered there is closed or
\* was opened by this reload.
ReloadClosesOld ==
  \A n \in DOMAIN conns :
    RegistryOf[n] \in Reloaded => ~IsOpen(conns[n]) \/ conns[n] > reloadMark

\* When OnStop has returned, what was connected before the stop is closed.
\* Redis clients whose ping failed are the exception: no registry knows them.
StopClosesOld ==
  stopTurn = 4 =>
    \A h \in OpenHandles :
      \/ h > stopMark
      \/ RegistryOf[handles[h].service] = "redis" /\ h \notin
           {conns[n] : n \in DOMAIN conns}

\* No connection of an earlier configuration is left in use by a reload, and
\* none from before the stop by OnStop, also not one that a tool call still
\* holds, whatever the other goroutine did meanwhile (lifecycle.go:49-103).
OldConnectionsAreClosed == ReloadClosesOld /\ StopClosesOld

\* If pings return, every SIGHUP is followed by a reload, also one that arrives
\* during a reload or together with others, unless the process begins to stop
\* (reload.go:13-33).
SignalsAreServed ==
  PingsReturn => \A k \in 1..MaxSignals :
    signals = k ~> (heard >= k \/ process # "serving")

\* Once it begins to stop, the process ends: even when a registry's mutex is
\* held by an Add that never returns, which keeps CloseAll waiting
\* (bootstrap/config.go:28-30, lifecycle.go:95-103).
StopEnds == process = "stopping" ~> process = "gone"

\* If pings return, a tool call is answered, or the process stops: neither
\* reloads nor other calls keep Get waiting for ever (registry.go:224-229).
CallsAreAnswered ==
  PingsReturn => \A c \in Calls : call[c] # Idle ~> (call[c] = Idle \/ process = "gone")

\* What is to be seen of a service is its registered connection, and of a call
\* the service whose connection it holds.
LifeOf(n) == IF ~Registered(n) THEN "none" ELSE IF IsOpen(conns[n]) THEN "open" ELSE "closed"

WorkOf(c) ==
  IF call[c].at = "holding"
  THEN [at |-> "using", service |-> handles[call[c].handle].service] ELSE call[c]

Lives == INSTANCE ConnectionLives
  WITH life <- [n \in Services |-> LifeOf(n)],
       work <- [c \in Calls |-> WorkOf(c)]

\* Reloads, failed pings, signals and the stop are not to be seen in that: a
\* service is connected at most once, also by reloads, and no call works with
\* the connection of a service it has not asked for (registry.go:159-229,
\* lifecycle.go:49-103).
ServicesHaveOneLife == Lives!Spec

-----------------------------------------------------------------------------
(***************************************************************************)
(* What the code's own words promise without those conditions.             *)
(***************************************************************************)

\* "services reconnected": after a reload the registered services are usable.
ServicesReconnected ==
  reloader = "waiting" /\ reloadMark > 0 /\ process = "serving" =>
    \A n \in DOMAIN conns : IsOpen(conns[n])

\* "close DB before store": no database is open once the store is closed.
DBsClosedBeforeStore ==
  ~storeOpen => \A n \in DOMAIN conns : ~IsOpen(conns[n])
=============================================================================
