----------------------- MODULE ServiceLifecycleProofs -----------------------
(***************************************************************************)
(* Proofs about ServiceLifecycle and the registries, for any services, any *)
(* number of tool calls, signals and connections.                          *)
(*                                                                         *)
(* OldConnectionsAreClosed speaks of the end of a loop that other          *)
(* goroutines interrupt.  Its inductive form says it of every prefix of    *)
(* the loop: what is registered in the registries passed so far is closed, *)
(* or was opened after the loop began.                                     *)
(*                                                                         *)
(* A tool call sees of all this one life per service: the process is shown *)
(* to implement ConnectionLives, step by step.                             *)
(*                                                                         *)
(* How a configuration is read is proved for any words, names and          *)
(* settings, how a connection is inspected for any DSN and any column.     *)
(***************************************************************************)
EXTENDS MCServiceLifecycle, SequenceTheorems, TLAPS

\* In the registries of X, what is registered is closed or younger than mark.
ClosedUpTo(X, mark) ==
  \A n \in DOMAIN conns :
    RegistryOf[n] \in X => ~IsOpen(conns[n]) \/ conns[n] > mark

\* The registries OnStop has closed so far.
Stopped == {StopOrder[j] : j \in {j \in 1..3 : j < stopTurn}}

MarksAreReached == reloadMark <= Len(handles) /\ stopMark <= Len(handles)

StopHasNotBegun == process \in {"starting", "serving"} => stopTurn = 0

LifeInv ==
  /\ TypeOK
  /\ NoConnectionIsLeaked
  /\ MarksAreReached
  /\ StopHasNotBegun
  /\ ClosedUpTo(Reloaded, reloadMark)
  /\ ClosedUpTo(Stopped, stopMark)

(***************************************************************************)
(* What the registries' operations do to the connections.                  *)
(***************************************************************************)

\* Nothing is reopened, and what is registered anew is new.
OnlyNewIsOpened ==
  /\ Len(handles) <= Len(handles')
  /\ \A n \in DOMAIN conns' :
       \/ conns'[n] > Len(handles)
       \/ /\ n \in DOMAIN conns
          /\ conns'[n] = conns[n]
          /\ handles'[conns[n]].open => handles[conns[n]].open

\* The end of an Add, whether the ping was answered or not.
LEMMA AddEnds ==
  ASSUME RegistryTypeOK, NoConnectionIsLeaked, NEW n \in Services,
         AddSucceeds(n) \/ AddFails(n)
  PROVE  RegistryTypeOK' /\ NoConnectionIsLeaked' /\ OnlyNewIsOpened
         /\ DOMAIN handles \subseteq DOMAIN handles'
<1> DEFINE new == Len(handles) + 1
<1>1. /\ handles \in Seq(Handle) /\ Len(handles) \in Nat /\ Len(handles) < MaxHandles
      /\ n \in adding /\ n \notin DOMAIN conns /\ n \in Services
      /\ adding' = adding \ {n}
      /\ IsMap(conns, Services, DOMAIN handles)
      /\ Opened(n) \in Handle /\ Opened(n).service = n /\ Opened(n).open
  BY DEF AddSucceeds, AddFails, RegistryTypeOK, Opened, Handle
<1>2. MaxHandles \in Nat
  BY HandleAssumption
<1>3. \A m \in DOMAIN conns : conns[m] \in 1..Len(handles)
  BY <1>1 DEF IsMap
<1>4. CASE handles' = Append(handles, Opened(n)) /\ conns' = Put(conns, n, new)
  <2>1. /\ handles' \in Seq(Handle) /\ Len(handles') = new
        /\ handles'[new] = Opened(n) /\ new \in DOMAIN handles'
        /\ \A h \in DOMAIN handles : handles'[h] = handles[h]
        /\ DOMAIN handles' = DOMAIN handles \cup {new}
    BY <1>1, <1>4
  <2>2. /\ DOMAIN conns' = DOMAIN conns \cup {n} /\ conns'[n] = new
        /\ \A m \in DOMAIN conns : conns'[m] = conns[m]
    BY <1>1, <1>4 DEF Put
  <2>3. IsMap(conns', Services, DOMAIN handles')
    BY <1>1, <1>4, <2>1, <2>2 DEF IsMap, Put
  <2>4. RegistryTypeOK'
    BY <1>1, <1>2, <1>3, <2>1, <2>2, <2>3 DEF RegistryTypeOK
  <2>5. NoConnectionIsLeaked'
    BY <1>1, <2>1, <2>2 DEF NoConnectionIsLeaked, OpenHandles, Registered
  <2>6. OnlyNewIsOpened
    BY <1>1, <1>3, <2>1, <2>2 DEF OnlyNewIsOpened
  <2>7. QED BY <2>1, <2>4, <2>5, <2>6
<1>5. CASE /\ handles' = Append(handles, Opened(n)) /\ conns' = conns
           /\ RegistryOf[n] = "redis"
  <2>1. /\ handles' \in Seq(Handle) /\ Len(handles') = new
        /\ handles'[new] = Opened(n)
        /\ \A h \in DOMAIN handles : handles'[h] = handles[h]
        /\ DOMAIN handles' = DOMAIN handles \cup {new}
    BY <1>1, <1>5
  <2>2. RegistryTypeOK'
    BY <1>1, <1>2, <1>3, <1>5, <2>1 DEF RegistryTypeOK, IsMap
  <2>3. NoConnectionIsLeaked'
    BY <1>1, <1>5, <2>1 DEF NoConnectionIsLeaked, OpenHandles, Registered
  <2>4. OnlyNewIsOpened
    BY <1>1, <1>3, <1>5, <2>1 DEF OnlyNewIsOpened
  <2>5. QED BY <2>1, <2>2, <2>3, <2>4
<1>6. CASE handles' = handles /\ conns' = conns
  BY <1>1, <1>6 DEF RegistryTypeOK, NoConnectionIsLeaked, OpenHandles, Registered,
     OnlyNewIsOpened
<1>7. QED
  BY <1>4, <1>5, <1>6 DEF AddSucceeds, AddFails

\* CloseAll closes what is registered there, and nothing else changes.
LEMMA CloseAllCloses ==
  ASSUME RegistryTypeOK, NoConnectionIsLeaked, NEW r, CloseAll(r)
  PROVE  /\ RegistryTypeOK' /\ NoConnectionIsLeaked' /\ OnlyNewIsOpened
         /\ DOMAIN handles' = DOMAIN handles /\ Len(handles') = Len(handles)
         /\ UNCHANGED <<conns, adding>>
         /\ \A n \in DOMAIN conns : RegistryOf[n] = r => ~handles'[conns[n]].open
<1>1. /\ handles \in Seq(Handle) /\ Len(handles) \in Nat
      /\ DOMAIN handles = 1..Len(handles)
      /\ IsMap(conns, Services, DOMAIN handles)
      /\ UNCHANGED <<conns, adding>>
  BY DEF RegistryTypeOK, CloseAll
<1>2. /\ handles' \in Seq(Handle) /\ DOMAIN handles' = DOMAIN handles
      /\ Len(handles') = Len(handles)
  <2>1. ASSUME NEW h \in 1..Len(handles)
        PROVE  handles[h] \in Handle /\ [handles[h] EXCEPT !.open = FALSE] \in Handle
    <3>1. handles[h] \in Handle
      BY <1>1
    <3>2. QED BY <3>1 DEF Handle
  <2>2. handles' = [h \in 1..Len(handles) |->
          IF \E n \in DOMAIN conns : RegistryOf[n] = r /\ conns[n] = h
          THEN [handles[h] EXCEPT !.open = FALSE] ELSE handles[h]]
    BY <1>1 DEF CloseAll
  <2>3. QED BY <1>1, <2>1, <2>2
<1>3. \A h \in DOMAIN handles :
        /\ handles'[h].service = handles[h].service
        /\ handles'[h].open => handles[h].open
        /\ (\E n \in DOMAIN conns : RegistryOf[n] = r /\ conns[n] = h) =>
             ~handles'[h].open
  BY <1>1 DEF CloseAll, Handle
<1>4. RegistryTypeOK'
  BY <1>1, <1>2, <1>3 DEF RegistryTypeOK, IsMap
<1>5. NoConnectionIsLeaked'
  BY <1>1, <1>2, <1>3 DEF NoConnectionIsLeaked, OpenHandles, Registered
<1>6. OnlyNewIsOpened
  BY <1>1, <1>2, <1>3 DEF OnlyNewIsOpened, IsMap
<1>7. QED
  BY <1>1, <1>2, <1>3, <1>4, <1>5, <1>6 DEF IsMap

\* What was closed up to a mark stays closed up to it.
LEMMA OldStaysClosed ==
  ASSUME RegistryTypeOK, RegistryTypeOK', OnlyNewIsOpened,
         NEW X, NEW mark \in Nat, mark <= Len(handles), ClosedUpTo(X, mark)
  PROVE  /\ mark <= Len(handles')
         /\ \A n \in DOMAIN conns' : RegistryOf[n] \in X =>
              ~handles'[conns'[n]].open \/ conns'[n] > mark
<1>1. /\ Len(handles) \in Nat /\ Len(handles') \in Nat
      /\ \A n \in DOMAIN conns' : conns'[n] \in Nat
  BY DEF RegistryTypeOK, IsMap
<1>2. QED
  BY <1>1 DEF OnlyNewIsOpened, ClosedUpTo, IsOpen

(***************************************************************************)
(* The goroutines' steps.                                                  *)
(***************************************************************************)

\* The loops go on where they are: the step moved no loop and set no mark.
LEMMA LoopsStand ==
  ASSUME LifeInv, TypeOK', NoConnectionIsLeaked', OnlyNewIsOpened,
         UNCHANGED <<turn, reloadMark, stopTurn, stopMark>>,
         (reloader' = "closing") = (reloader = "closing"),
         process' \in {"starting", "serving"} => process \in {"starting", "serving"}
  PROVE  LifeInv'
<1>1. /\ reloadMark \in Nat /\ stopMark \in Nat /\ MarksAreReached
      /\ RegistryTypeOK /\ RegistryTypeOK'
  BY HandleAssumption DEF LifeInv, TypeOK
<1>2. Reloaded' = Reloaded /\ Stopped' = Stopped
  BY DEF Reloaded, Stopped
<1>3. ClosedUpTo(Reloaded, reloadMark)' /\ reloadMark <= Len(handles')
  BY <1>1, <1>2, OldStaysClosed DEF LifeInv, MarksAreReached, ClosedUpTo, IsOpen
<1>4. ClosedUpTo(Stopped, stopMark)' /\ stopMark <= Len(handles')
  BY <1>1, <1>2, OldStaysClosed DEF LifeInv, MarksAreReached, ClosedUpTo, IsOpen
<1>5. QED
  BY <1>3, <1>4 DEF LifeInv, MarksAreReached, StopHasNotBegun

\* No step of this kind opens or closes anything.
LEMMA RegistryStands ==
  ASSUME LifeInv, UNCHANGED registryVars
  PROVE  /\ RegistryTypeOK' /\ NoConnectionIsLeaked' /\ OnlyNewIsOpened
         /\ DOMAIN handles' = DOMAIN handles
<1>1. RegistryTypeOK /\ NoConnectionIsLeaked
  BY DEF LifeInv, TypeOK
<1>2. UNCHANGED handles /\ UNCHANGED conns /\ UNCHANGED adding
  BY DEF registryVars
<1>3. RegistryTypeOK' /\ NoConnectionIsLeaked'
  BY <1>1, <1>2 DEF RegistryTypeOK, NoConnectionIsLeaked, OpenHandles, Registered,
     IsOpen
<1>4. Len(handles) \in Nat
  BY <1>1 DEF RegistryTypeOK
<1>5. QED
  BY <1>2, <1>3, <1>4 DEF OnlyNewIsOpened

LEMMA AddLifeInv ==
  ASSUME LifeInv, NEW n \in Services, StartAdd(n) \/ SkipAdd(n) \/ FinishAdd(n)
  PROVE  LifeInv'
<1>1. CASE StartAdd(n)
  <2>1. /\ UNCHANGED <<handles, conns, process, pending, signals, reloader, turn,
                       left, reloadMark, heard, stopTurn, stopMark, storeOpen, call>>
        /\ n \notin DOMAIN conns /\ adding' = adding \cup {n}
    BY <1>1 DEF StartAdd, BeginAdd, Registered, lifeVars
  <2>2. RegistryTypeOK' /\ NoConnectionIsLeaked' /\ OnlyNewIsOpened
    BY <2>1 DEF LifeInv, TypeOK, RegistryTypeOK, NoConnectionIsLeaked, OpenHandles,
       Registered, OnlyNewIsOpened
  <2>3. TypeOK'
    BY <2>1, <2>2 DEF LifeInv, TypeOK
  <2>4. QED
    BY <2>1, <2>2, <2>3, LoopsStand
<1>2. CASE SkipAdd(n)
  <2>1. /\ UNCHANGED registryVars
        /\ UNCHANGED <<process, pending, signals, reloader, turn, reloadMark,
                       heard, stopTurn, stopMark, storeOpen, call>>
        /\ left' \subseteq left
    BY <1>2 DEF SkipAdd, AddRefused, stopperVars
  <2>2. /\ RegistryTypeOK' /\ NoConnectionIsLeaked' /\ OnlyNewIsOpened
        /\ DOMAIN handles' = DOMAIN handles
    BY <2>1, RegistryStands
  <2>3. TypeOK'
    BY <2>1, <2>2 DEF LifeInv, TypeOK
  <2>4. QED
    BY <2>1, <2>2, <2>3, LoopsStand
<1>3. CASE FinishAdd(n)
  <2>1. /\ AddSucceeds(n) \/ AddFails(n)
        /\ UNCHANGED <<process, pending, signals, reloader, turn, reloadMark,
                       heard, stopTurn, stopMark, storeOpen, call>>
        /\ left' \subseteq left
    BY <1>3 DEF FinishAdd, stopperVars
  <2>2. /\ RegistryTypeOK' /\ NoConnectionIsLeaked' /\ OnlyNewIsOpened
        /\ DOMAIN handles \subseteq DOMAIN handles'
    BY <2>1, AddEnds DEF LifeInv, TypeOK
  <2>3. TypeOK'
    BY <2>1, <2>2 DEF LifeInv, TypeOK
  <2>4. QED
    BY <2>1, <2>2, <2>3, LoopsStand
<1>4. QED BY <1>1, <1>2, <1>3

\* The steps that neither touch a connection nor move a loop.
LEMMA QuietLifeInv ==
  ASSUME LifeInv,
         \/ Serve \/ Signal \/ EndReloader \/ Exit \/ StopTimeout \/ Hangup
         \/ \E c \in Calls : BeginCall(c) \/ GetConnection(c) \/ UseConnection(c)
  PROVE  LifeInv'
<1>1. /\ UNCHANGED registryVars
      /\ UNCHANGED <<turn, left, reloadMark, heard, stopTurn, stopMark, storeOpen>>
  BY DEF Serve, Signal, EndReloader, Exit, StopTimeout, Hangup, Leave, BeginCall,
     GetConnection, UseConnection, reloaderVars, stopperVars
<1>2. /\ RegistryTypeOK' /\ NoConnectionIsLeaked' /\ OnlyNewIsOpened
      /\ DOMAIN handles' = DOMAIN handles
  BY <1>1, RegistryStands
<1>3. CASE Serve
  <2>1. TypeOK'
    BY <1>1, <1>2, <1>3 DEF Serve, reloaderVars, LifeInv, TypeOK
  <2>2. QED
    BY <1>1, <1>2, <1>3, <2>1, LoopsStand DEF Serve, reloaderVars
<1>4. CASE Signal
  <2>1. signals' \in 0..MaxSignals
    BY <1>4, SignalAssumption DEF Signal, LifeInv, TypeOK
  <2>2. TypeOK'
    BY <1>1, <1>2, <1>4, <2>1 DEF Signal, reloaderVars, LifeInv, TypeOK
  <2>3. QED
    BY <1>1, <1>2, <1>4, <2>2, LoopsStand DEF Signal, reloaderVars
<1>5. CASE EndReloader
  <2>1. TypeOK'
    BY <1>1, <1>2, <1>5 DEF EndReloader, LifeInv, TypeOK
  <2>2. QED
    BY <1>1, <1>2, <1>5, <2>1, LoopsStand DEF EndReloader
<1>6. CASE Exit \/ StopTimeout \/ Hangup
  <2>1. process' = "gone" /\ UNCHANGED <<pending, signals, reloader, call>>
    BY <1>6 DEF Exit, StopTimeout, Hangup, Leave, reloaderVars
  <2>2. TypeOK'
    BY <1>1, <1>2, <2>1 DEF LifeInv, TypeOK
  <2>3. QED
    BY <1>1, <1>2, <2>1, <2>2, LoopsStand
<1>7. ASSUME NEW c \in Calls, BeginCall(c) \/ GetConnection(c) \/ UseConnection(c)
      PROVE  LifeInv'
  <2>1. UNCHANGED <<process, pending, signals, reloader>>
    BY <1>7 DEF BeginCall, GetConnection, UseConnection, reloaderVars
  <2> DEFINE Doing == {Idle} \cup {Waiting(n) : n \in Services}
                             \cup {Holding(h) : h \in DOMAIN handles}
  <2>2. call \in [Calls -> Doing]
    BY DEF LifeInv, TypeOK
  <2>3. call' \in [Calls -> Doing]
    <3>1. CASE BeginCall(c)
      BY <2>2, <3>1 DEF BeginCall
    <3>2. CASE UseConnection(c)
      BY <2>2, <3>2 DEF UseConnection
    <3>3. CASE GetConnection(c)
      <4>1. call' = [call EXCEPT ![c] =
                       IF Registered(@.service) THEN Holding(conns[@.service])
                       ELSE Idle]
        BY <3>3 DEF GetConnection
      <4>2. \A n \in DOMAIN conns : conns[n] \in DOMAIN handles
        BY DEF LifeInv, TypeOK, RegistryTypeOK, IsMap
      <4>3. QED
        BY <2>2, <4>1, <4>2 DEF Registered
    <3>4. QED BY <1>7, <3>1, <3>2, <3>3
  <2>4. TypeOK'
    BY <1>1, <1>2, <2>1, <2>3 DEF LifeInv, TypeOK
  <2>5. QED
    BY <1>1, <1>2, <2>1, <2>4, LoopsStand
<1>8. QED
  BY <1>3, <1>4, <1>5, <1>6, <1>7

(***************************************************************************)
(* The steps that move a loop.                                             *)
(***************************************************************************)

\* A loop that begins has closed nothing yet, and its mark is the last
\* connection opened so far.
LEMMA TakeSignalLifeInv ==
  ASSUME LifeInv, TakeSignal
  PROVE  LifeInv'
<1>1. /\ UNCHANGED <<handles, conns, adding, process, signals, stopTurn, stopMark,
                     storeOpen, call>>
      /\ reloader' = "closing" /\ turn' = 1 /\ pending' = 0
      /\ left' = Services /\ reloadMark' = Len(handles) /\ heard' = signals
  BY DEF TakeSignal, registryVars, stopperVars
<1>2. /\ RegistryTypeOK' /\ NoConnectionIsLeaked'
      /\ Len(handles) \in 0..MaxHandles
  BY <1>1, RegistryStands DEF registryVars, LifeInv, TypeOK, RegistryTypeOK
<1>3. TypeOK'
  BY <1>1, <1>2 DEF LifeInv, TypeOK
<1>4. Reloaded' = {}
  BY <1>1 DEF Reloaded
<1>5. ClosedUpTo(Reloaded, reloadMark)' /\ ClosedUpTo(Stopped, stopMark)'
  BY <1>1, <1>4 DEF LifeInv, ClosedUpTo, Stopped, IsOpen
<1>6. MarksAreReached' /\ StopHasNotBegun'
  BY <1>1, <1>2 DEF LifeInv, MarksAreReached, StopHasNotBegun
<1>7. QED
  BY <1>2, <1>3, <1>5, <1>6 DEF LifeInv

LEMMA ReloadCloseAllLifeInv ==
  ASSUME LifeInv, ReloadCloseAll
  PROVE  LifeInv'
<1>1. /\ CloseAll(ReloadOrder[turn])
      /\ reloader = "closing" /\ reloader' = "adding"
      /\ UNCHANGED <<process, pending, signals, turn, left, reloadMark, heard,
                     stopTurn, stopMark, storeOpen, call>>
  BY DEF ReloadCloseAll, stopperVars
<1>2. /\ RegistryTypeOK' /\ NoConnectionIsLeaked' /\ OnlyNewIsOpened
      /\ DOMAIN handles' = DOMAIN handles /\ Len(handles') = Len(handles)
      /\ conns' = conns
      /\ \A n \in DOMAIN conns :
           RegistryOf[n] = ReloadOrder[turn] => ~handles'[conns[n]].open
  BY <1>1, CloseAllCloses DEF LifeInv, TypeOK
<1>3. TypeOK'
  BY <1>1, <1>2 DEF LifeInv, TypeOK
<1>4. Reloaded' = Reloaded \cup {ReloadOrder[turn]} /\ Stopped' = Stopped
  <2>1. turn \in 1..3
    BY DEF LifeInv, TypeOK
  <2>2. {j \in 1..3 : j < turn \/ (j = turn /\ "adding" # "closing")} =
          {j \in 1..3 : j < turn \/ (j = turn /\ "closing" # "closing")} \cup {turn}
    BY <2>1
  <2>3. QED
    BY <1>1, <2>2 DEF Reloaded, Stopped
<1>5. /\ reloadMark \in Nat /\ stopMark \in Nat /\ RegistryTypeOK
      /\ MarksAreReached /\ ClosedUpTo(Reloaded, reloadMark)
      /\ ClosedUpTo(Stopped, stopMark)
  BY HandleAssumption DEF LifeInv, TypeOK
<1>6. \A n \in DOMAIN conns' : RegistryOf[n] \in Reloaded =>
        ~handles'[conns'[n]].open \/ conns'[n] > reloadMark
  BY <1>2, <1>5, OldStaysClosed DEF MarksAreReached
<1>7. \A n \in DOMAIN conns' : RegistryOf[n] \in Stopped =>
        ~handles'[conns'[n]].open \/ conns'[n] > stopMark
  BY <1>2, <1>5, OldStaysClosed DEF MarksAreReached
<1>8. ClosedUpTo(Reloaded, reloadMark)' /\ ClosedUpTo(Stopped, stopMark)'
  BY <1>1, <1>2, <1>4, <1>6, <1>7 DEF ClosedUpTo, IsOpen
<1>9. MarksAreReached' /\ StopHasNotBegun'
  BY <1>1, <1>2 DEF LifeInv, MarksAreReached, StopHasNotBegun
<1>10. QED
  BY <1>2, <1>3, <1>8, <1>9 DEF LifeInv

\* Going on to the next registry, or ending the loop, passes none.
LEMMA ReloadNextLifeInv ==
  ASSUME LifeInv, ReloadNext
  PROVE  LifeInv'
<1>1. /\ UNCHANGED <<handles, conns, adding, process, pending, signals, left,
                     reloadMark, heard, stopTurn, stopMark, storeOpen, call>>
      /\ reloader = "adding"
      /\ \/ turn < 3 /\ reloader' = "closing" /\ turn' = turn + 1
         \/ reloader' = "waiting" /\ turn' = turn
  BY DEF ReloadNext, ReloadOrder, registryVars, stopperVars
<1>2. RegistryTypeOK' /\ NoConnectionIsLeaked' /\ turn \in 1..3
  BY <1>1, RegistryStands DEF registryVars, LifeInv, TypeOK
<1>3. TypeOK'
  BY <1>1, <1>2 DEF LifeInv, TypeOK
<1>4. Reloaded' = Reloaded
  BY <1>1, <1>2 DEF Reloaded
<1>5. QED
  BY <1>1, <1>2, <1>3, <1>4 DEF LifeInv, ClosedUpTo, Stopped, IsOpen,
     MarksAreReached, StopHasNotBegun

LEMMA BeginStopLifeInv ==
  ASSUME LifeInv, BeginStop
  PROVE  LifeInv'
<1>1. /\ UNCHANGED <<handles, conns, adding, pending, signals, reloader, turn, left,
                     reloadMark, heard, stopTurn, storeOpen, call>>
      /\ process = "serving" /\ process' = "stopping"
      /\ stopMark' = Len(handles)
  BY DEF BeginStop, registryVars, reloaderVars
<1>2. /\ RegistryTypeOK' /\ NoConnectionIsLeaked'
      /\ Len(handles) \in 0..MaxHandles
  BY <1>1, RegistryStands DEF registryVars, LifeInv, TypeOK, RegistryTypeOK
<1>3. TypeOK'
  BY <1>1, <1>2 DEF LifeInv, TypeOK
<1>4. stopTurn = 0
  BY <1>1 DEF LifeInv, StopHasNotBegun
<1>5. Stopped' = {} /\ Reloaded' = Reloaded
  BY <1>1, <1>4 DEF Stopped, Reloaded
<1>6. QED
  BY <1>1, <1>2, <1>3, <1>5 DEF LifeInv, ClosedUpTo, IsOpen, MarksAreReached,
     StopHasNotBegun

LEMMA CloseStoreLifeInv ==
  ASSUME LifeInv, CloseStore
  PROVE  LifeInv'
<1>1. /\ UNCHANGED <<handles, conns, adding, process, pending, signals, reloader,
                     turn, left, reloadMark, heard, stopMark, call>>
      /\ process = "stopping" /\ stopTurn = 0 /\ stopTurn' = 1 /\ storeOpen' = FALSE
  BY DEF CloseStore, registryVars, reloaderVars
<1>2. RegistryTypeOK' /\ NoConnectionIsLeaked'
  BY <1>1, RegistryStands DEF registryVars
<1>3. TypeOK'
  <2>1. stopTurn' \in 0..4
    BY <1>1
  <2>2. storeOpen' \in BOOLEAN
    BY DEF CloseStore
  <2>3. QED
    BY <1>1, <1>2, <2>1, <2>2 DEF LifeInv, TypeOK
<1>4. Stopped' = {} /\ Reloaded' = Reloaded
  BY <1>1 DEF Stopped, Reloaded
<1>5. QED
  BY <1>1, <1>2, <1>3, <1>4 DEF LifeInv, ClosedUpTo, IsOpen, MarksAreReached,
     StopHasNotBegun

LEMMA StopCloseAllLifeInv ==
  ASSUME LifeInv, StopCloseAll
  PROVE  LifeInv'
<1>1. /\ CloseAll(StopOrder[stopTurn])
      /\ process = "stopping" /\ stopTurn \in 1..3 /\ stopTurn' = stopTurn + 1
      /\ UNCHANGED <<process, pending, signals, reloader, turn, left, reloadMark,
                     heard, stopMark, storeOpen, call>>
  BY DEF StopCloseAll, reloaderVars
<1>2. /\ RegistryTypeOK' /\ NoConnectionIsLeaked' /\ OnlyNewIsOpened
      /\ DOMAIN handles' = DOMAIN handles /\ Len(handles') = Len(handles)
      /\ conns' = conns
      /\ \A n \in DOMAIN conns :
           RegistryOf[n] = StopOrder[stopTurn] => ~handles'[conns[n]].open
  BY <1>1, CloseAllCloses DEF LifeInv, TypeOK
<1>3. TypeOK'
  BY <1>1, <1>2 DEF LifeInv, TypeOK
<1>4. Stopped' = Stopped \cup {StopOrder[stopTurn]} /\ Reloaded' = Reloaded
  <2>1. {j \in 1..3 : j < stopTurn'} = {j \in 1..3 : j < stopTurn} \cup {stopTurn}
    BY <1>1
  <2>2. QED
    BY <1>1, <2>1 DEF Reloaded, Stopped
<1>5. /\ reloadMark \in Nat /\ stopMark \in Nat /\ RegistryTypeOK
      /\ MarksAreReached /\ ClosedUpTo(Reloaded, reloadMark)
      /\ ClosedUpTo(Stopped, stopMark)
  BY HandleAssumption DEF LifeInv, TypeOK
<1>6. \A n \in DOMAIN conns' : RegistryOf[n] \in Reloaded =>
        ~handles'[conns'[n]].open \/ conns'[n] > reloadMark
  BY <1>2, <1>5, OldStaysClosed DEF MarksAreReached
<1>7. \A n \in DOMAIN conns' : RegistryOf[n] \in Stopped =>
        ~handles'[conns'[n]].open \/ conns'[n] > stopMark
  BY <1>2, <1>5, OldStaysClosed DEF MarksAreReached
<1>8. ClosedUpTo(Reloaded, reloadMark)' /\ ClosedUpTo(Stopped, stopMark)'
  BY <1>1, <1>2, <1>4, <1>6, <1>7 DEF ClosedUpTo, IsOpen
<1>9. MarksAreReached' /\ StopHasNotBegun'
  BY <1>1, <1>2 DEF LifeInv, MarksAreReached, StopHasNotBegun
<1>10. QED
  BY <1>2, <1>3, <1>8, <1>9 DEF LifeInv

(***************************************************************************)
(* The invariant, and what follows from it.                                *)
(***************************************************************************)

\* Before anything is opened every loop has passed only empty registries.
LEMMA LifeInitInv == Init => LifeInv
<1> SUFFICES ASSUME Init PROVE LifeInv
  OBVIOUS
<1>1. /\ handles = <<>> /\ DOMAIN conns = {} /\ adding = {}
      /\ conns \in [{} -> DOMAIN handles]
  BY DEF Init, RegistryInit, EmptyMap
<1>2. RegistryTypeOK /\ NoConnectionIsLeaked
  BY <1>1, HandleAssumption DEF RegistryTypeOK, IsMap, NoConnectionIsLeaked,
     OpenHandles
<1>3. TypeOK
  BY <1>2, HandleAssumption, SignalAssumption DEF Init, TypeOK
<1>4. QED
  BY <1>1, <1>2, <1>3 DEF Init, LifeInv, ClosedUpTo, MarksAreReached,
     StopHasNotBegun

\* Every step keeps the inductive invariant.
LEMMA LifeNextInv == LifeInv /\ [Next]_allVars => LifeInv'
<1> SUFFICES ASSUME LifeInv, [Next]_allVars PROVE LifeInv'
  OBVIOUS
<1>1. ASSUME NEW n \in Services, StartAdd(n) \/ SkipAdd(n) \/ FinishAdd(n)
      PROVE  LifeInv'
  BY <1>1, AddLifeInv
<1>2. CASE \/ Serve \/ Signal \/ EndReloader \/ Exit \/ StopTimeout \/ Hangup
           \/ \E c \in Calls : BeginCall(c) \/ GetConnection(c) \/ UseConnection(c)
  BY <1>2, QuietLifeInv
<1>3. CASE TakeSignal
  BY <1>3, TakeSignalLifeInv
<1>4. CASE ReloadCloseAll
  BY <1>4, ReloadCloseAllLifeInv
<1>5. CASE ReloadNext
  BY <1>5, ReloadNextLifeInv
<1>6. CASE BeginStop
  BY <1>6, BeginStopLifeInv
<1>7. CASE CloseStore
  BY <1>7, CloseStoreLifeInv
<1>8. CASE StopCloseAll
  BY <1>8, StopCloseAllLifeInv
<1>9. CASE UNCHANGED allVars
  BY <1>9 DEF allVars, LifeInv, TypeOK, RegistryTypeOK, NoConnectionIsLeaked,
     OpenHandles, Registered, MarksAreReached, StopHasNotBegun, ClosedUpTo, Reloaded,
     Stopped, IsOpen
<1>10. QED
  BY <1>1, <1>2, <1>3, <1>4, <1>5, <1>6, <1>7, <1>8, <1>9 DEF Next, Reload

\* The inductive invariant holds of every reachable state.
THEOREM LifeInvariance == Spec => []LifeInv
<1>1. QED
  BY LifeInitInv, LifeNextInv, PTL DEF Spec

\* Every variable is well typed: a registered connection is one to the service
\* it is registered under, and a tool call holds one that was opened.
THEOREM LifeTypeCorrect == Spec => []TypeOK
<1>1. LifeInv => TypeOK
  BY DEF LifeInv
<1>2. QED BY <1>1, LifeInvariance, PTL

\* No open SQL or MongoDB connection is unknown to its registry, however Adds,
\* reloads, calls and the stop interleave.
THEOREM ConnectionsAreNotLeaked == Spec => []NoConnectionIsLeaked
<1>1. LifeInv => NoConnectionIsLeaked
  BY DEF LifeInv
<1>2. QED BY <1>1, LifeInvariance, PTL

\* A reload leaves no connection of before it in use, and OnStop none of before
\* the stop, whatever runs between their steps.
THEOREM ReloadAndStopCloseOld == Spec => []OldConnectionsAreClosed
<1>1. LifeInv => ReloadClosesOld
  BY DEF LifeInv, ReloadClosesOld, ClosedUpTo
<1>2. ASSUME LifeInv PROVE StopClosesOld
  <2> SUFFICES ASSUME stopTurn = 4, NEW h \in OpenHandles, ~ (h > stopMark)
               PROVE  /\ RegistryOf[handles[h].service] = "redis"
                      /\ h \notin {conns[n] : n \in DOMAIN conns}
    BY DEF StopClosesOld
  <2>1. Stopped = Registries
    <3>1. {j \in 1..3 : j < stopTurn} = {1, 2, 3}
      OBVIOUS
    <3>2. QED BY <3>1 DEF Stopped, StopOrder, Registries
  <2>2. /\ IsMap(conns, Services, DOMAIN handles)
        /\ handles \in Seq(Handle)
        /\ ClosedUpTo(Stopped, stopMark) /\ NoConnectionIsLeaked
    BY <1>2 DEF LifeInv, TypeOK, RegistryTypeOK
  <2>3. h \notin {conns[n] : n \in DOMAIN conns}
    <3> SUFFICES ASSUME NEW n \in DOMAIN conns, conns[n] = h PROVE FALSE
      OBVIOUS
    <3>1. RegistryOf[n] \in Stopped
      BY <2>1, <2>2, RegistryAssumption DEF IsMap
    <3>2. QED BY <2>2, <3>1 DEF ClosedUpTo, IsOpen, OpenHandles
  <2>4. RegistryOf[handles[h].service] = "redis"
    BY <2>2, <2>3 DEF NoConnectionIsLeaked, Registered
  <2>5. QED BY <2>3, <2>4
<1>3. QED
  BY <1>1, <1>2, LifeInvariance, PTL DEF OldConnectionsAreClosed

-----------------------------------------------------------------------------
(***************************************************************************)
(* Signals: the channel holds one, and signal.Notify drops what finds it   *)
(* full.  What liveness adds is fairness alone.                            *)
(***************************************************************************)

\* A signal that no reload has begun after is still in the channel.
SignalsWait ==
  /\ heard <= signals
  /\ heard < signals => pending = 1

\* A reload takes all the signals sent before it began.
LEMMA SignalsStep == TypeOK /\ SignalsWait /\ [Next]_allVars => SignalsWait'
<1> SUFFICES ASSUME TypeOK, SignalsWait, [Next]_allVars PROVE SignalsWait'
  OBVIOUS
<1>1. signals \in Nat /\ heard \in Nat
  BY SignalAssumption DEF TypeOK
<1>2. ASSUME UNCHANGED <<pending, signals, heard>> PROVE SignalsWait'
  BY <1>2 DEF SignalsWait
<1>3. CASE Signal
  BY <1>1, <1>3 DEF Signal, SignalsWait, reloaderVars
<1>4. CASE TakeSignal
  BY <1>1, <1>4 DEF TakeSignal, SignalsWait
<1>5. CASE \E n \in Services : StartAdd(n) \/ SkipAdd(n) \/ FinishAdd(n)
  BY <1>2, <1>5 DEF StartAdd, SkipAdd, FinishAdd, lifeVars
<1>6. CASE \E c \in Calls : BeginCall(c) \/ GetConnection(c) \/ UseConnection(c)
  BY <1>2, <1>6 DEF BeginCall, GetConnection, UseConnection, reloaderVars
<1>7. CASE Serve \/ EndReloader \/ ReloadCloseAll \/ ReloadNext
  BY <1>2, <1>7 DEF Serve, EndReloader, ReloadCloseAll, ReloadNext, reloaderVars
<1>8. CASE BeginStop \/ CloseStore \/ StopCloseAll \/ Exit \/ StopTimeout \/ Hangup
  BY <1>2, <1>8 DEF BeginStop, CloseStore, StopCloseAll, Exit, StopTimeout, Hangup, Leave,
                    reloaderVars
<1>9. CASE UNCHANGED allVars
  BY <1>2, <1>9 DEF allVars
<1> QED BY <1>3, <1>4, <1>5, <1>6, <1>7, <1>8, <1>9 DEF Next, Reload

\* No signal is forgotten: one that comes during a reload, or with others, waits
\* in the channel until a reload begins after it (reload.go:13-33).
THEOREM NoSignalIsForgotten == Spec => []SignalsWait
<1>1. Init => SignalsWait
  BY DEF Init, SignalsWait
<1> QED BY <1>1, SignalsStep, LifeTypeCorrect, PTL DEF Spec

-----------------------------------------------------------------------------
(***************************************************************************)
(* What a tool call may expect of the registries: every step maps to a     *)
(* step of ConnectionLives or to a stutter.                                *)
(***************************************************************************)

LEMMA CallsListed ==
  ASSUME TypeOK, NEW c \in Calls
  PROVE  \/ call[c] = Idle
         \/ \E n \in Services : call[c] = Waiting(n)
         \/ \E h \in DOMAIN handles : call[c] = Holding(h)
  BY DEF TypeOK

\* What a call holds is of the same service after every step that does not
\* touch the calls.
LEMMA WorkStands ==
  ASSUME TypeOK, UNCHANGED call,
         \A h \in DOMAIN handles : handles'[h].service = handles[h].service
  PROVE  [c \in Calls |-> WorkOf(c)]' = [c \in Calls |-> WorkOf(c)]
<1>1. ASSUME NEW c \in Calls PROVE WorkOf(c)' = WorkOf(c)
  <2>1. CASE call[c].at = "holding"
    <3>1. Idle.at # "holding" /\ \A n \in Services : Waiting(n).at # "holding"
      BY DEF Idle, Waiting
    <3>3. PICK h \in DOMAIN handles : call[c] = Holding(h)
      BY <2>1, <3>1, CallsListed
    <3>2. call[c].handle \in DOMAIN handles
      BY <3>3 DEF Holding
    <3> QED BY <2>1, <3>2 DEF WorkOf
  <2>2. CASE call[c].at # "holding"
    BY <2>2 DEF WorkOf
  <2> QED BY <2>1, <2>2
<1> QED BY <1>1

LEMMA LivesStand ==
  ASSUME UNCHANGED <<handles, conns>>
  PROVE  [n \in Services |-> LifeOf(n)]' = [n \in Services |-> LifeOf(n)]
<1>1. ASSUME NEW n \in Services PROVE LifeOf(n)' = LifeOf(n)
  BY DEF LifeOf, Registered, IsOpen
<1> QED BY <1>1

\* An Add that has ended has connected its service, or nothing is to be seen.
LEMMA AddLives ==
  ASSUME LifeInv, NEW n \in Services, FinishAdd(n)
  PROVE  Lives!Connect(n) \/ UNCHANGED Lives!vars
<1> DEFINE new == Len(handles) + 1
           life == [m \in Services |-> LifeOf(m)]
<1>1. /\ TypeOK /\ handles \in Seq(Handle) /\ Len(handles) \in Nat
      /\ n \notin DOMAIN conns
      /\ \A m \in DOMAIN conns : conns[m] \in DOMAIN handles
      /\ UNCHANGED call
      /\ Opened(n).open
  BY DEF LifeInv, TypeOK, RegistryTypeOK, FinishAdd, AddSucceeds, AddFails, IsMap, Opened
<1>2. /\ \A h \in DOMAIN handles : handles'[h] = handles[h]
      /\ handles' = Append(handles, Opened(n)) => handles'[new] = Opened(n)
  <2>1. handles' = Append(handles, Opened(n)) \/ handles' = handles
    BY DEF FinishAdd, AddSucceeds, AddFails
  <2>2. Opened(n) \in Handle
    BY DEF Opened, Handle
  <2> QED BY <1>1, <2>1, <2>2
<1>3. [c \in Calls |-> WorkOf(c)]' = [c \in Calls |-> WorkOf(c)]
  BY <1>1, <1>2, WorkStands
<1>4. CASE AddFails(n)
  <2>1. ASSUME NEW m \in Services PROVE LifeOf(m)' = LifeOf(m)
    BY <1>1, <1>2, <1>4 DEF AddFails, LifeOf, Registered, IsOpen
  <2>2. life' = life
    BY <2>1
  <2> QED BY <1>3, <2>2 DEF Lives!vars
<1>5. CASE AddSucceeds(n)
  <2>1. /\ conns' = Put(conns, n, new) /\ handles'[new].open
        /\ DOMAIN conns' = DOMAIN conns \cup {n} /\ conns'[n] = new
        /\ \A m \in DOMAIN conns : m # n /\ conns'[m] = conns[m]
    BY <1>1, <1>2, <1>5 DEF AddSucceeds, Put
  <2>2. LifeOf(n) = "none" /\ LifeOf(n)' = "open"
    BY <1>1, <2>1 DEF LifeOf, Registered, IsOpen
  <2>3. ASSUME NEW m \in Services, m # n PROVE LifeOf(m)' = LifeOf(m)
    BY <1>1, <1>2, <2>1, <2>3 DEF LifeOf, Registered, IsOpen
  <2>4. life' = [life EXCEPT ![n] = "open"] /\ life[n] = "none"
    BY <2>2, <2>3
  <2> QED BY <1>3, <2>4 DEF Lives!Connect
<1> QED BY <1>4, <1>5 DEF FinishAdd

\* CloseAll closes what its registry has open, and nothing of another one.
LEMMA CloseAllLives ==
  ASSUME LifeInv, NEW r, CloseAll(r), UNCHANGED call
  PROVE  Lives!Close(r)
<1> DEFINE life == [m \in Services |-> LifeOf(m)]
<1>1. /\ TypeOK /\ handles \in Seq(Handle)
      /\ \A m \in DOMAIN conns : conns[m] \in DOMAIN handles /\ handles[conns[m]].service = m
      /\ UNCHANGED conns
  BY DEF LifeInv, TypeOK, RegistryTypeOK, IsMap, CloseAll
<1>2. \A h \in DOMAIN handles :
        /\ handles'[h].service = handles[h].service
        /\ handles'[h].open =
             IF \E n \in DOMAIN conns : RegistryOf[n] = r /\ conns[n] = h
             THEN FALSE ELSE handles[h].open
  <2> SUFFICES ASSUME NEW h \in DOMAIN handles
               PROVE  /\ handles'[h].service = handles[h].service
                      /\ handles'[h].open =
                           IF \E n \in DOMAIN conns : RegistryOf[n] = r /\ conns[n] = h
                           THEN FALSE ELSE handles[h].open
    OBVIOUS
  <2>1. handles[h] \in Handle
    BY <1>1
  <2> QED BY <2>1 DEF CloseAll, Handle
<1>3. [c \in Calls |-> WorkOf(c)]' = [c \in Calls |-> WorkOf(c)]
  BY <1>1, <1>2, WorkStands
\* A connection is registered under one name, so it is closed by its registry.
<1>4. ASSUME NEW m \in DOMAIN conns
      PROVE  handles'[conns[m]].open =
               IF RegistryOf[m] = r THEN FALSE ELSE handles[conns[m]].open
  <2>1. (\E n \in DOMAIN conns : RegistryOf[n] = r /\ conns[n] = conns[m]) <=> RegistryOf[m] = r
    BY <1>1
  <2> QED BY <1>1, <1>2, <2>1
<1>5. ASSUME NEW m \in Services
      PROVE  LifeOf(m)' = IF RegistryOf[m] = r /\ LifeOf(m) = "open" THEN "closed" ELSE LifeOf(m)
  BY <1>1, <1>4 DEF LifeOf, Registered, IsOpen
<1>6. life' = [m \in Services |-> IF RegistryOf[m] = r /\ life[m] = "open" THEN "closed" ELSE life[m]]
  BY <1>5
<1> QED BY <1>3, <1>6 DEF Lives!Close

\* A tool call is given the connection of the service it waits for.
LEMMA CallLives ==
  ASSUME LifeInv, NEW c \in Calls, BeginCall(c) \/ GetConnection(c) \/ UseConnection(c)
  PROVE  \E n \in Services : Lives!Ask(c, n) \/ Lives!Answer(c, n) \/ Lives!Finish(c, n)
<1> DEFINE life == [m \in Services |-> LifeOf(m)]
           work == [b \in Calls |-> WorkOf(b)]
<1>1. /\ TypeOK
      /\ call \in [Calls -> {Idle} \cup {Waiting(n) : n \in Services}
                                   \cup {Holding(h) : h \in DOMAIN handles}]
      /\ UNCHANGED <<handles, conns>>
      /\ \A m \in DOMAIN conns : conns[m] \in DOMAIN handles /\ handles[conns[m]].service = m
  BY DEF LifeInv, TypeOK, RegistryTypeOK, IsMap, BeginCall, GetConnection, UseConnection,
     registryVars
<1>2. life' = life
  BY <1>1, LivesStand
<1>3. \A b \in Calls :
        /\ call[b] = Idle => WorkOf(b) = Lives!Idle
        /\ \A n \in Services : call[b] = Waiting(n) => WorkOf(b) = Lives!Waiting(n)
        /\ \A h \in DOMAIN handles :
             call[b] = Holding(h) => WorkOf(b) = Lives!Using(handles[h].service)
  BY DEF WorkOf, Idle, Waiting, Holding, Lives!Idle, Lives!Waiting, Lives!Using
<1>4. ASSUME NEW x, call' = [call EXCEPT ![c] = x], NEW y, WorkOf(c)' = y
      PROVE  work' = [work EXCEPT ![c] = y]
  <2>1. ASSUME NEW b \in Calls, b # c PROVE WorkOf(b)' = WorkOf(b)
    BY <1>1, <1>4, <2>1 DEF WorkOf
  <2> QED BY <1>4, <2>1
<1>5. CASE BeginCall(c)
  <2>1. PICK n \in Services : call' = [call EXCEPT ![c] = Waiting(n)]
    BY <1>5 DEF BeginCall
  <2>2. call'[c] = Waiting(n)
    BY <1>1, <2>1
  <2>3. WorkOf(c)' = Lives!Waiting(n)
    BY <2>2 DEF WorkOf, Waiting, Lives!Waiting
  <2>4. work[c] = Lives!Idle
    BY <1>3, <1>5 DEF BeginCall
  <2>5. work' = [work EXCEPT ![c] = Lives!Waiting(n)]
    BY <1>4, <2>1, <2>3
  <2> QED BY <1>2, <2>4, <2>5 DEF Lives!Ask
<1>6. CASE GetConnection(c)
  <2>1. PICK n \in Services : call[c] = Waiting(n)
    <3>1. Idle.at # "waiting" /\ \A h \in DOMAIN handles : Holding(h).at # "waiting"
      BY DEF Idle, Holding
    <3> QED BY <1>1, <1>6, <3>1, CallsListed DEF GetConnection
  <2>2. call[c].service = n
    BY <2>1 DEF Waiting
  <2> DEFINE x == IF Registered(n) THEN Holding(conns[n]) ELSE Idle
             y == IF life[n] = "none" THEN Lives!Idle ELSE Lives!Using(n)
  <2>3. call' = [call EXCEPT ![c] = x]
    BY <1>6, <2>2 DEF GetConnection
  <2>4. call'[c] = x
    BY <1>1, <2>3
  <2>5. life[n] = "none" <=> ~Registered(n)
    BY DEF LifeOf
  <2>6. WorkOf(c)' = y
    <3>1. CASE Registered(n)
      <4>1. call'[c] = Holding(conns[n]) /\ handles'[conns[n]].service = n
        BY <1>1, <2>4, <3>1 DEF Registered
      <4>2. WorkOf(c)' = Lives!Using(n)
        BY <4>1 DEF WorkOf, Holding, Lives!Using
      <4> QED BY <2>5, <3>1, <4>2
    <3>2. CASE ~Registered(n)
      <4>1. call'[c] = Idle
        BY <2>4, <3>2
      <4>2. WorkOf(c)' = Lives!Idle
        BY <4>1 DEF WorkOf, Idle, Lives!Idle
      <4> QED BY <2>5, <3>2, <4>2
    <3> QED BY <3>1, <3>2
  <2>7. work[c] = Lives!Waiting(n)
    BY <1>3, <2>1
  <2>8. work' = [work EXCEPT ![c] = y]
    <3> HIDE DEF x, y, work
    <3> QED BY <1>4, <2>3, <2>6
  <2> QED BY <1>2, <2>7, <2>8 DEF Lives!Answer
<1>7. CASE UseConnection(c)
  <2>1. PICK h \in DOMAIN handles : call[c] = Holding(h)
    <3>1. Idle.at # "holding" /\ \A n \in Services : Waiting(n).at # "holding"
      BY DEF Idle, Waiting
    <3> QED BY <1>1, <1>7, <3>1, CallsListed DEF UseConnection
  <2> DEFINE n == handles[h].service
  <2>2. n \in Services
    <3>1. handles[h] \in Handle
      BY <1>1 DEF TypeOK, RegistryTypeOK
    <3> QED BY <3>1 DEF Handle
  <2>3. call' = [call EXCEPT ![c] = Idle]
    BY <1>7 DEF UseConnection
  <2>4. call'[c] = Idle
    BY <1>1, <2>3
  <2>5. WorkOf(c)' = Lives!Idle
    BY <2>4 DEF WorkOf, Idle, Lives!Idle
  <2>6. work[c] = Lives!Using(n)
    BY <1>3, <2>1
  <2>7. work' = [work EXCEPT ![c] = Lives!Idle]
    BY <1>4, <2>3, <2>5
  <2> QED BY <1>2, <2>2, <2>6, <2>7 DEF Lives!Finish
<1> QED BY <1>5, <1>6, <1>7

\* Every step of the process is a step of ConnectionLives, or changes nothing
\* there: the start of an Add, a signal, the loops, the stop.
LEMMA StepLives == LifeInv /\ [Next]_allVars => [Lives!Next]_(Lives!vars)
<1> SUFFICES ASSUME LifeInv, [Next]_allVars PROVE [Lives!Next]_(Lives!vars)
  OBVIOUS
<1>1. ASSUME UNCHANGED <<handles, conns, call>> PROVE UNCHANGED Lives!vars
  <2>1. TypeOK /\ \A h \in DOMAIN handles : handles'[h].service = handles[h].service
    BY <1>1 DEF LifeInv
  <2>2. [c \in Calls |-> WorkOf(c)]' = [c \in Calls |-> WorkOf(c)]
    BY <1>1, <2>1, WorkStands
  <2>3. [n \in Services |-> LifeOf(n)]' = [n \in Services |-> LifeOf(n)]
    BY <1>1, LivesStand
  <2> QED BY <2>2, <2>3 DEF Lives!vars
<1>2. ASSUME NEW n \in Services, StartAdd(n) \/ SkipAdd(n) \/ FinishAdd(n)
      PROVE  [Lives!Next]_(Lives!vars)
  <2>1. CASE StartAdd(n)
    BY <1>1, <2>1 DEF StartAdd, BeginAdd, lifeVars
  <2>2. CASE SkipAdd(n)
    BY <1>1, <2>2 DEF SkipAdd, AddRefused, registryVars
  <2>3. CASE FinishAdd(n)
    BY <2>3, AddLives DEF Lives!Next
  <2> QED BY <1>2, <2>1, <2>2, <2>3
<1>3. ASSUME NEW r, CloseAll(r), UNCHANGED call PROVE [Lives!Next]_(Lives!vars)
  <2>1. Lives!Close(r)
    BY <1>3, CloseAllLives
  <2>2. CASE \E n \in Services : RegistryOf[n] = r
    BY <2>1, <2>2 DEF Lives!Next
  <2>3. CASE \A n \in Services : RegistryOf[n] # r
    BY <2>1, <2>3 DEF Lives!Close, Lives!vars
  <2> QED BY <2>2, <2>3
<1>4. ASSUME NEW c \in Calls, BeginCall(c) \/ GetConnection(c) \/ UseConnection(c)
      PROVE  [Lives!Next]_(Lives!vars)
  BY <1>4, CallLives DEF Lives!Next
<1>5. CASE ReloadCloseAll
  BY <1>3, <1>5 DEF ReloadCloseAll
<1>6. CASE StopCloseAll
  BY <1>3, <1>6 DEF StopCloseAll
<1>7. CASE \/ Serve \/ Signal \/ TakeSignal \/ EndReloader \/ ReloadNext \/ BeginStop
           \/ CloseStore \/ Exit \/ StopTimeout \/ Hangup \/ UNCHANGED allVars
  <2>1. UNCHANGED <<handles, conns, call>>
    BY <1>7 DEF Serve, Signal, TakeSignal, EndReloader, ReloadNext, BeginStop, CloseStore,
       Exit, StopTimeout, Hangup, Leave, allVars, registryVars
  <2> QED BY <1>1, <2>1
<1> QED BY <1>2, <1>4, <1>5, <1>6, <1>7 DEF Next, Reload

\* Whatever signals, reloads, failed pings and the stop do between them, a
\* service is connected at most once, what is closed stays closed, and a call
\* works with the connection of the service it has asked for: the process
\* implements ConnectionLives (registry.go:190-229, lifecycle.go:49-103).
THEOREM ServicesLiveOnce == Spec => ServicesHaveOneLife
<1>1. Init => Lives!Init
  <2> SUFFICES ASSUME Init PROVE Lives!Init
    OBVIOUS
  <2>1. ASSUME NEW n \in Services PROVE LifeOf(n) = "none"
    BY DEF Init, RegistryInit, EmptyMap, LifeOf, Registered
  <2>2. ASSUME NEW c \in Calls PROVE WorkOf(c) = Lives!Idle
    BY DEF Init, WorkOf, Idle, Lives!Idle
  <2> QED BY <2>1, <2>2 DEF Lives!Init
<1>2. LifeInv /\ [Next]_allVars => [Lives!Next]_(Lives!vars)
  BY StepLives
<1> QED BY <1>1, <1>2, LifeInvariance, PTL DEF Spec, ServicesHaveOneLife, Lives!Spec

-----------------------------------------------------------------------------
(***************************************************************************)
(* How a connection is inspected.                                          *)
(***************************************************************************)

\* The tables, one driver at a time: no text is an alias of two.
LEMMA DriversListed ==
  /\ Drivers = {"postgres", "mysql", "sqlserver", "sqlite", "oracle", "clickhouse"}
  /\ Aliases["postgres"] = {"postgres", "pg", "postgresql"}
  /\ Aliases["mysql"] = {"mysql", "mariadb", "maria"}
  /\ Aliases["sqlserver"] = {"sqlserver", "mssql", "microsoft", "azuresql"}
  /\ Aliases["sqlite"] = {"sqlite", "sqlite3"}
  /\ Aliases["oracle"] = {"oracle", "ora", "oci"}
  /\ Aliases["clickhouse"] = {"clickhouse", "ch"}
  BY DEF Drivers, Aliases

LEMMA DialectsListed ==
  \A d \in Drivers : DialectNames[d] = Aliases[d] \ {"microsoft"}
<1>1. /\ DialectNames["sqlserver"] = {"sqlserver", "mssql", "azuresql"}
      /\ \A d \in Drivers \ {"sqlserver"} : DialectNames[d] = Aliases[d]
  BY DEF DialectNames, Aliases, Drivers
<1>2. \A d \in Drivers \ {"sqlserver"} : "microsoft" \notin Aliases[d]
  BY DriversListed
<1>3. ASSUME NEW d \in Drivers PROVE DialectNames[d] = Aliases[d] \ {"microsoft"}
  <2>1. CASE d = "sqlserver"
    BY <1>1, <2>1, DriversListed
  <2>2. CASE d # "sqlserver"
    BY <1>1, <1>2, <2>2
  <2> QED BY <2>1, <2>2
<1> QED BY <1>3

LEMMA OneDriverPerText ==
  ASSUME NEW d \in Drivers, NEW e \in Drivers, NEW text, text \in Aliases[d], text \in Aliases[e]
  PROVE  d = e
  BY DriversListed

\* A row is told as it was read, or not at all.
Tells(told, col, key) ==
  told.nullable = YesNo(~col.notnull) /\ told.default = col.default /\ told.key = key

LEMMA EntriesRead ==
  ASSUME NEW col, NEW key, NEW told \in Read(Entry(YesNo(~col.notnull), col.default, key))
  PROVE  told = Skipped \/ Tells(told, col, key)
<1> DEFINE n == YesNo(~col.notnull)
<1>1. CASE told = Skipped
  BY <1>1
<1>2. CASE told = Entry(n, col.default, key)
  <2> HIDE DEF n
  <2>1. told.nullable = n /\ told.default = col.default /\ told.key = key
    BY <1>2 DEF Entry
  <2> QED BY <2>1 DEF Tells, n
<1> QED BY <1>1, <1>2 DEF Read

\* Whichever alias a connection is configured by, whatever its DSN, it is asked
\* in the dialect of the driver it is opened with - but for "microsoft".  A
\* server of the four first kinds answers, and what is told of any column that
\* is not left out is as the server has it (registry.go:130-151, :301-319,
\* :461-690).
THEOREM EveryDialectFits ==
  ASSUME NEW c, NEW k \in Drivers, c.driver \in Aliases[k], c.driver # "microsoft",
         NEW col, col.notnull \in BOOLEAN, col.primary \in Nat,
         NEW told \in DescribeTable(c, col)
  PROVE  /\ OpenedWith(c) = k /\ DriverDialect(c) = k
         /\ \/ told = Refusal /\ k \in {"oracle", "clickhouse"}
            \/ told = Skipped
            \/ Describes(told, col, k)
<1>1. c.driver # "MySQL" /\ k # ""
  BY DriversListed
<1>2. KnownAs(Aliases, c.driver) = k
  <2>1. (CHOOSE d \in Drivers : c.driver \in Aliases[d]) = k
    BY OneDriverPerText
  <2> QED BY <2>1 DEF KnownAs
<1>3. KnownAs(DialectNames, c.driver) = k
  <2>1. (CHOOSE d \in Drivers : c.driver \in DialectNames[d]) = k
    BY OneDriverPerText, DialectsListed
  <2>2. c.driver \in DialectNames[k]
    BY DialectsListed
  <2> QED BY <2>1, <2>2 DEF KnownAs
<1>4. OpenedWith(c) = k
  BY <1>1, <1>2 DEF OpenedWith, ResolveDriver, Lower, None
<1>5. DriverDialect(c) = k
  BY <1>1, <1>3 DEF DriverDialect, None
<1>6. /\ k = "postgres" => told \in DescribePostgres(col)
      /\ k = "mysql" => told \in DescribeMySQL(col)
      /\ k = "sqlserver" => told \in DescribeSQLServer(col)
      /\ k = "sqlite" => told \in DescribeSQLite(col)
      /\ k = "oracle" => told \in DescribeOracle(col)
      /\ k = "clickhouse" => told \in DescribeClickHouse(col)
  BY <1>4, <1>5 DEF DescribeTable
<1> DEFINE Fits == \/ told = Refusal /\ k \in {"oracle", "clickhouse"}
                   \/ told = Skipped
                   \/ Describes(told, col, k)
<1> SUFFICES Fits
  BY <1>4, <1>5
<1>7. CASE k \in {"postgres", "sqlserver"}
  <2>1. told \in Read(Entry(YesNo(~col.notnull), col.default, ""))
    BY <1>6, <1>7 DEF DescribePostgres, DescribeSQLServer
  <2> DEFINE key == ""
  <2>3. told = Skipped \/ Tells(told, col, key)
    BY <2>1, EntriesRead
  <2> QED BY <1>7, <2>3 DEF Describes, Tells
<1>8. CASE k = "mysql"
  <2>1. told \in Read(Entry(YesNo(~col.notnull), col.default, IF col.primary > 0 THEN "PRI" ELSE ""))
    BY <1>6, <1>8 DEF DescribeMySQL
  <2> DEFINE key == IF col.primary > 0 THEN "PRI" ELSE ""
  <2>3. told = Skipped \/ Tells(told, col, key)
    BY <2>1, EntriesRead
  <2>4. col.primary = 1 => key = "PRI"
    OBVIOUS
  <2> HIDE DEF key
  <2> QED BY <1>8, <2>3, <2>4 DEF Describes, Tells
<1>9. CASE k = "sqlite"
  <2>1. (IF (IF col.notnull THEN 1 ELSE 0) = 1 THEN "NO" ELSE "YES") = YesNo(~col.notnull)
    BY DEF YesNo
  <2>2. told \in Read(Entry(YesNo(~col.notnull), col.default, IF col.primary = 1 THEN "PRI" ELSE ""))
    BY <1>6, <1>9, <2>1 DEF DescribeSQLite
  <2> DEFINE key == IF col.primary = 1 THEN "PRI" ELSE ""
  <2>3. told = Skipped \/ Tells(told, col, key)
    BY <2>2, EntriesRead
  <2> QED BY <1>9, <2>3 DEF Describes, Tells
<1>10. CASE k = "oracle"
  <2>1. (IF (IF col.notnull THEN "N" ELSE "Y") = "Y" THEN "YES" ELSE "NO") = YesNo(~col.notnull)
    BY DEF YesNo
  <2>2. told \in {Refusal, Skipped} \/ told \in Read(Entry(YesNo(~col.notnull), col.default, ""))
    BY <1>6, <1>10, <2>1 DEF DescribeOracle
  <2> DEFINE key == ""
  <2>3. told = Refusal \/ told = Skipped \/ Tells(told, col, key)
    BY <2>2, EntriesRead
  <2> QED BY <1>10, <2>3 DEF Describes, Tells
<1>11. CASE k = "clickhouse"
  BY <1>6, <1>11 DEF DescribeClickHouse
<1> QED
  <2> HIDE DEF Fits
  <2> QED BY <1>7, <1>8, <1>9, <1>10, <1>11, DriversListed

\* A SQL connection that is registered is inspected in its own dialect, and its
\* columns are told of truly or left out, in the instance of the runs
\* (registry.go:461-690).
THEOREM InspectionAlwaysFits == Spec => []InspectionFitsTheDriver
<1>1. InspectionFits
  <2> SUFFICES ASSUME NEW c \in Usable,
                      c.driver \in (UNION {Aliases[k] : k \in Drivers}) \ {"microsoft"}
               PROVE  /\ DriverDialect(c) = OpenedWith(c)
                      /\ \A col \in Columns : \A told \in DescribeTable(c, col) :
                           \/ told = Refusal /\ OpenedWith(c) \in {"oracle", "clickhouse"}
                           \/ told = Skipped
                           \/ Describes(told, col, OpenedWith(c))
    BY DEF InspectionFits
  <2>1. PICK k \in Drivers : c.driver \in Aliases[k]
    OBVIOUS
  <2>2. c.driver # "microsoft"
    OBVIOUS
  <2>3. ASSUME NEW col \in Columns
        PROVE  col.notnull \in BOOLEAN /\ col.primary \in Nat
    <3> DEFINE P == 0..2
    <3>1. P \subseteq Nat
      OBVIOUS
    <3> HIDE DEF P
    <3>2. col \in [notnull : BOOLEAN, default : {"", "now"}, primary : P]
      BY <2>3 DEF Columns, P
    <3>3. col.notnull \in BOOLEAN /\ col.primary \in P
      BY <3>2
    <3> QED BY <3>1, <3>3
  <2>4. ASSUME NEW col \in Columns, NEW told \in DescribeTable(c, col)
        PROVE  /\ OpenedWith(c) = k /\ DriverDialect(c) = k
               /\ \/ told = Refusal /\ k \in {"oracle", "clickhouse"}
                  \/ told = Skipped
                  \/ Describes(told, col, k)
    BY <2>1, <2>2, <2>3, <2>4, EveryDialectFits
  <2>5. PICK col \in Columns : TRUE
    <3> DEFINE one == [notnull |-> TRUE, default |-> "", primary |-> 0]
    <3>1. one \in Columns
      BY DEF Columns
    <3> QED BY <3>1
  <2>6. PICK told \in DescribeTable(c, col) : TRUE
    <3>1. DriverDialect(c) \in Drivers
      <4>1. KnownAs(DialectNames, c.driver) \in Drivers \cup {None}
        BY DialectsListed DEF KnownAs, None
      <4> QED BY <4>1, DriversListed DEF DriverDialect, None
    <3> QED BY <3>1, DriversListed DEF DescribeTable, DescribePostgres, DescribeMySQL,
                 DescribeSQLServer, DescribeSQLite, DescribeOracle, DescribeClickHouse, Read
  <2> QED BY <2>4, <2>5, <2>6
<1>2. InspectionFitsTheDriver
  BY <1>1 DEF InspectionFitsTheDriver
<1> QED BY <1>2, PTL

-----------------------------------------------------------------------------
(***************************************************************************)
(* How a configuration that was written down is read.  The words of the    *)
(* names are those of any set.                                             *)
(***************************************************************************)

Names(W) == Seq(W) \ {<<>>}

\* What can be written down: services of any names, each with the settings it
\* needs and any others of its kind; only an API has headers.
IsDeclaration(d, W) ==
  \A s \in DOMAIN d :
    /\ s \in Kinds \X Names(W)
    /\ Required[s[1]] \subseteq d[s].settings /\ d[s].settings \subseteq Settings[s[1]]
    /\ d[s].headers \subseteq (IF s[1] = "API" THEN Names(W) ELSE {})

ConfigWords ==
  {"DRIVER", "DSN", "MAX", "CONNS", "IDLE", "CONN", "LIFETIME", "TIME", "URI", "DATABASE",
   "ADDR", "USERNAME", "PASSWORD", "DB", "TLS", "POOL", "SIZE", "MIN", "URL", "AUTH", "ENV",
   "BASE", "API", "KEY", "MODELS", "HEADER"}

\* The tables, one kind at a time.
LEMMA SettingsListed ==
  /\ Settings["DB"] = {<<"DRIVER">>, <<"DSN">>, <<"MAX", "CONNS">>, <<"MAX", "IDLE", "CONNS">>,
                       <<"CONN", "MAX", "LIFETIME">>, <<"CONN", "MAX", "IDLE", "TIME">>}
  /\ Settings["MONGO"] = {<<"URI">>, <<"DATABASE">>}
  /\ Settings["REDIS"] = {<<"ADDR">>, <<"USERNAME">>, <<"PASSWORD">>, <<"DB">>, <<"TLS">>,
                          <<"POOL", "SIZE">>, <<"MIN", "IDLE", "CONNS">>,
                          <<"CONN", "MAX", "IDLE", "TIME">>}
  /\ Settings["API"] = {<<"URL">>, <<"AUTH">>, <<"AUTH", "ENV">>}
  /\ Settings["AI"] = {<<"BASE", "URL">>, <<"API", "KEY", "ENV">>, <<"MODELS">>}
  BY DEF Settings

LEMMA RequiredListed ==
  /\ Required["DB"] = {<<"DSN">>}
  /\ Required["MONGO"] = {<<"URI">>, <<"DATABASE">>}
  /\ Required["REDIS"] = {<<"ADDR">>}
  /\ Required["API"] = {<<"URL">>}
  /\ Required["AI"] = {<<"BASE", "URL">>}
  BY DEF Required

LEMMA RequiredAreSettings ==
  ASSUME NEW k \in Kinds
  PROVE  Required[k] \subseteq Settings[k] /\ Required[k] # {}
  BY SettingsListed, RequiredListed DEF Kinds

LEMMA TuplesAreNames ==
  ASSUME NEW W
  PROVE  /\ \A a \in W : <<a>> \in Names(W)
         /\ \A a, b \in W : <<a, b>> \in Names(W)
         /\ \A a, b, c \in W : <<a, b, c>> \in Names(W)
         /\ \A a, b, c, e \in W : <<a, b, c, e>> \in Names(W)
<1>1. ASSUME NEW a \in W PROVE <<a>> \in Names(W)
  BY DEF Names
<1>2. ASSUME NEW a \in W, NEW b \in W PROVE <<a, b>> \in Names(W)
  BY DEF Names
<1>3. ASSUME NEW a \in W, NEW b \in W, NEW c \in W PROVE <<a, b, c>> \in Names(W)
  BY DEF Names
<1>4. ASSUME NEW a \in W, NEW b \in W, NEW c \in W, NEW e \in W
      PROVE  <<a, b, c, e>> \in Names(W)
  BY DEF Names
<1> QED BY <1>1, <1>2, <1>3, <1>4

LEMMA SettingsAreNames ==
  ASSUME NEW W, ConfigWords \subseteq W, NEW k \in Kinds
  PROVE  Settings[k] \subseteq Names(W)
<1>1. CASE k = "DB"
  <2>1. {"DRIVER", "DSN", "MAX", "CONNS", "IDLE", "CONN", "LIFETIME", "TIME"} \subseteq W
    BY DEF ConfigWords
  <2>2. /\ <<"DRIVER">> \in Names(W)
        /\ <<"DSN">> \in Names(W)
        /\ <<"MAX", "CONNS">> \in Names(W)
        /\ <<"MAX", "IDLE", "CONNS">> \in Names(W)
        /\ <<"CONN", "MAX", "LIFETIME">> \in Names(W)
        /\ <<"CONN", "MAX", "IDLE", "TIME">> \in Names(W)
    BY <2>1, TuplesAreNames
  <2> QED BY <1>1, <2>2, SettingsListed
<1>2. CASE k = "MONGO"
  <2>1. {"URI", "DATABASE"} \subseteq W
    BY DEF ConfigWords
  <2>2. /\ <<"URI">> \in Names(W)
        /\ <<"DATABASE">> \in Names(W)
    BY <2>1, TuplesAreNames
  <2> QED BY <1>2, <2>2, SettingsListed
<1>3. CASE k = "REDIS"
  <2>1. {"ADDR", "USERNAME", "PASSWORD", "DB", "TLS", "POOL", "SIZE", "MIN", "IDLE",
         "CONNS", "CONN", "MAX", "TIME"} \subseteq W
    BY DEF ConfigWords
  <2>2. /\ <<"ADDR">> \in Names(W)
        /\ <<"USERNAME">> \in Names(W)
        /\ <<"PASSWORD">> \in Names(W)
        /\ <<"DB">> \in Names(W)
        /\ <<"TLS">> \in Names(W)
        /\ <<"POOL", "SIZE">> \in Names(W)
        /\ <<"MIN", "IDLE", "CONNS">> \in Names(W)
        /\ <<"CONN", "MAX", "IDLE", "TIME">> \in Names(W)
    BY <2>1, TuplesAreNames
  <2> QED BY <1>3, <2>2, SettingsListed
<1>4. CASE k = "API"
  <2>1. {"URL", "AUTH", "ENV"} \subseteq W
    BY DEF ConfigWords
  <2>2. /\ <<"URL">> \in Names(W)
        /\ <<"AUTH">> \in Names(W)
        /\ <<"AUTH", "ENV">> \in Names(W)
    BY <2>1, TuplesAreNames
  <2> QED BY <1>4, <2>2, SettingsListed
<1>5. CASE k = "AI"
  <2>1. {"BASE", "URL", "API", "KEY", "ENV", "MODELS"} \subseteq W
    BY DEF ConfigWords
  <2>2. /\ <<"BASE", "URL">> \in Names(W)
        /\ <<"API", "KEY", "ENV">> \in Names(W)
        /\ <<"MODELS">> \in Names(W)
    BY <2>1, TuplesAreNames
  <2> QED BY <1>5, <2>2, SettingsListed
<1> QED BY <1>1, <1>2, <1>3, <1>4, <1>5 DEF Kinds

\* A required setting has one word, or two that differ.
LEMMA RequiredIsShort ==
  ASSUME NEW k \in Kinds, NEW w \in Required[k]
  PROVE  Len(w) = 1 \/ (Len(w) = 2 /\ w[1] # w[2])
  BY RequiredListed DEF Kinds

\* The last word of a required setting is that of no other setting.
LEMMA LastWordDecides ==
  ASSUME NEW k \in Kinds, NEW w \in Required[k], NEW x \in Settings[k], Last(w) = Last(x)
  PROVE  w = x
<1>1. CASE k = "DB"
  <2>1. w = <<"DSN">>
    BY <1>1, RequiredListed
  <2>2. x # <<"DSN">> => x[Len(x)] # "DSN"
    BY <1>1, SettingsListed
  <2> QED BY <2>1, <2>2 DEF Last
<1>2. CASE k = "REDIS"
  <2>1. w = <<"ADDR">>
    BY <1>2, RequiredListed
  <2>2. x # <<"ADDR">> => x[Len(x)] # "ADDR"
    BY <1>2, SettingsListed
  <2> QED BY <2>1, <2>2 DEF Last
<1>3. CASE k = "MONGO"
  BY <1>3, SettingsListed, RequiredListed DEF Last
<1>4. CASE k = "API"
  <2>1. w = <<"URL">>
    BY <1>4, RequiredListed
  <2>2. x # <<"URL">> => x[Len(x)] # "URL"
    BY <1>4, SettingsListed
  <2> QED BY <2>1, <2>2 DEF Last
<1>5. CASE k = "AI"
  <2>1. w = <<"BASE", "URL">>
    BY <1>5, RequiredListed
  <2>2. CASE x = <<"API", "KEY", "ENV">>
    <3>1. x[Len(x)] = "ENV"
      BY <2>2
    <3> QED BY <2>1, <3>1 DEF Last
  <2>3. CASE x = <<"MODELS">>
    <3>1. x[Len(x)] = "MODELS"
      BY <2>3
    <3> QED BY <2>1, <3>1 DEF Last
  <2> QED BY <1>5, <2>1, <2>2, <2>3, SettingsListed
<1> QED BY <1>1, <1>2, <1>3, <1>4, <1>5 DEF Kinds

LEMMA NoSettingHoldsHeader ==
  ASSUME NEW x \in Settings["API"], NEW i \in 1..Len(x)
  PROVE  x[i] # "HEADER"
  BY SettingsListed

\* Paths: a name followed by a setting.
LEMMA PathProperties ==
  ASSUME NEW W, NEW n \in Seq(W), NEW w \in Seq(W)
  PROVE  /\ n \o w \in Seq(W)
         /\ Len(n) \in Nat /\ Len(w) \in Nat
         /\ Len(n \o w) = Len(n) + Len(w)
         /\ \A i \in 1..Len(n) : (n \o w)[i] = n[i]
         /\ \A i \in 1..Len(w) : (n \o w)[Len(n) + i] = w[i]
<1>1. /\ n \o w \in Seq(W)
      /\ Len(n \o w) = Len(n) + Len(w)
      /\ \A i \in 1..Len(n) + Len(w) : (n \o w)[i] = IF i <= Len(n) THEN n[i] ELSE w[i - Len(n)]
  BY ConcatProperties
<1>2. Len(n) \in Nat /\ Len(w) \in Nat
  OBVIOUS
<1> DEFINE p == n \o w
<1> HIDE DEF p
<1>3. \A i \in 1..Len(n) + Len(w) : p[i] = IF i <= Len(n) THEN n[i] ELSE w[i - Len(n)]
  BY <1>1 DEF p
<1>4. ASSUME NEW i \in 1..Len(n) PROVE p[i] = n[i]
  BY <1>2, <1>3
<1>5. ASSUME NEW i \in 1..Len(w) PROVE p[Len(n) + i] = w[i]
  <2>1. Len(n) + i \in 1..Len(n) + Len(w) /\ ~(Len(n) + i <= Len(n)) /\ (Len(n) + i) - Len(n) = i
    BY <1>2
  <2> QED BY <1>3, <2>1
<1> QED BY <1>1, <1>2, <1>4, <1>5 DEF p

LEMMA NamesEndInAWord ==
  ASSUME NEW W, NEW n \in Names(W)
  PROVE  /\ n \in Seq(W) /\ Len(n) \in Nat \ {0}
         /\ Last(n) = n[Len(n)] /\ Last(n) \in W
  BY EmptySeq, ElementOfSeq DEF Names, Last

\* Two paths that are equal end in the same word.
LEMMA PathEndsInSetting ==
  ASSUME NEW W, NEW n \in Seq(W), NEW w \in Names(W)
  PROVE  Last(n \o w) = Last(w) /\ n \o w # <<>>
<1> DEFINE p == n \o w
<1>1. Len(w) \in Nat \ {0} /\ Last(w) = w[Len(w)] /\ w \in Seq(W)
  BY NamesEndInAWord
<1>2. Len(p) = Len(n) + Len(w) /\ p[Len(n) + Len(w)] = w[Len(w)] /\ Len(n) \in Nat
  BY <1>1, PathProperties
<1> HIDE DEF p
<1>3. Last(p) = Last(w) /\ Len(p) # 0
  BY <1>1, <1>2 DEF Last
<1>4. p # <<>>
  BY <1>3
<1> QED BY <1>3, <1>4 DEF p

\* A segment of a path, word by word.
LEMMA SegmentWordByWord ==
  ASSUME NEW W, NEW p \in Seq(W), NEW w \in Seq(W), Len(w) <= Len(p)
  PROVE  SubSeq(p, 1, Len(w)) = w <=> \A j \in 1..Len(w) : p[j] = w[j]
<1> DEFINE m == Len(w)
           q == SubSeq(p, 1, m)
<1>1. m \in Nat /\ Len(p) \in Nat
  OBVIOUS
<1>2. \A j \in 1..m : p[j] \in W
  BY <1>1, ElementOfSeq
<1>3. q \in Seq(W) /\ Len(q) = m /\ \A j \in 1..m : q[j] = p[j]
  <2>1. /\ q \in Seq(W)
        /\ Len(q) = IF 1 <= m THEN m - 1 + 1 ELSE 0
        /\ \A j \in 1..m - 1 + 1 : q[j] = p[1 + j - 1]
    BY <1>1, <1>2, SubSeqProperties
  <2> HIDE DEF q, m
  <2> QED BY <1>1, <2>1
<1> HIDE DEF q
<1>4. ASSUME \A j \in 1..m : p[j] = w[j] PROVE q = w
  <2>1. \A j \in 1..Len(q) : q[j] = w[j]
    BY <1>3, <1>4
  <2> QED BY <1>3, <2>1, SeqEqual
<1> QED BY <1>3, <1>4 DEF q

\* The words of a required setting are no longer forms of one another.
LEMMA RequiredWords ==
  ASSUME NEW k \in Kinds, NEW w \in Required[k], NEW i \in 1..Len(w), NEW j \in 1..Len(w),
         Begins(w[i], w[j])
  PROVE  w[i] = w[j]
<1>1. w \in UNION {Settings[x] : x \in Kinds} /\ DOMAIN w = 1..Len(w)
  <2>1. w \in Settings[k] /\ w \in Seq(ConfigWords)
    BY RequiredAreSettings, SettingsAreNames, NamesEndInAWord
  <2> QED BY <2>1
<1>2. w[i] \in SettingWords /\ w[j] \in SettingWords
  BY <1>1 DEF SettingWords
<1> QED BY <1>2, LongerAssumption DEF Begins

\* A name is what stands before the required setting in a path, if the name
\* itself does not hold the setting.
LEMMA NameIsCut ==
  ASSUME NEW W, ConfigWords \subseteq W, NEW k \in Kinds, NEW n \in Names(W),
         NEW w \in Required[k], Places(w, n) = {}
  PROVE  n \in NamesIn(k, n \o w)
<1> DEFINE p == n \o w
           l == Len(n)
<1>1. /\ n \in Seq(W) /\ l \in Nat \ {0}
      /\ w \in Settings[k] /\ w \in Seq(W) /\ Len(w) \in Nat \ {0}
  BY NamesEndInAWord, RequiredAreSettings, SettingsAreNames
<1>2. /\ p \in Seq(W) /\ Len(p) = l + Len(w)
      /\ \A i \in 1..l : p[i] = n[i]
      /\ \A i \in 1..Len(w) : p[l + i] = w[i]
  BY <1>1, PathProperties
<1>3. SubSeq(p, 1, l) = n
  <2>1. \A i \in 1..l : p[i] \in W
    BY <1>1, <1>2, ElementOfSeq
  <2> DEFINE q == SubSeq(p, 1, l)
  <2>2. q \in Seq(W) /\ Len(q) = l /\ \A i \in 1..l : q[i] = p[i]
    <3> HIDE DEF p, l
    <3> QED BY <1>1, <2>1, SubSeqProperties
  <2> HIDE DEF p, q
  <2>3. q = n
    BY <1>1, <1>2, <2>2, SeqEqual
  <2> QED BY <2>3 DEF q
<1> HIDE DEF p
<1>4. l + 1 \in Places(w, p)
  <2>1. OccursAt(w, p, l + 1)
    <3>1. \A j \in 1..Len(w) : p[l + 1 + j - 1] = w[j] /\ l + 1 + Len(w) - 1 <= Len(p)
      BY <1>1, <1>2
    <3> QED BY <1>1, <3>1 DEF OccursAt, Begins
  <2> QED BY <1>1, <1>2, <2>1 DEF Places
<1>5. ASSUME NEW j \in Places(w, p) PROVE l + 1 <= j
  <2>1. /\ j \in 2..Len(p) /\ j + Len(w) - 1 <= Len(p)
        /\ \A i \in 1..Len(w) :
             IF i = Len(w) THEN Begins(w[i], p[j + i - 1]) ELSE w[i] = p[j + i - 1]
    BY DEF Places, OccursAt
  <2> SUFFICES ASSUME j <= l PROVE FALSE
    BY <1>1, <1>2, <2>1
  <2>2. CASE j + Len(w) - 1 <= l
    <3>1. \A i \in 1..Len(w) : j + i - 1 \in 1..l
      BY <1>1, <2>1, <2>2
    <3>2. OccursAt(w, n, j)
      BY <1>2, <2>1, <2>2, <3>1 DEF OccursAt
    <3> QED BY <1>1, <2>1, <3>2 DEF Places
  <2>3. CASE j + Len(w) - 1 > l
    <3>1. Len(w) = 2 /\ j = l /\ w[1] # w[2]
      BY <1>1, <2>1, <2>3, RequiredIsShort
    <3>2. p[l + 1] = w[1] /\ Begins(w[2], p[l + 1])
      BY <1>1, <1>2, <2>1, <3>1
    <3>3. 1 \in 1..Len(w) /\ 2 \in 1..Len(w)
      BY <3>1
    <3>4. w[2] # w[1] => ~Begins(w[2], w[1])
      BY <3>3, RequiredWords
    <3> QED BY <3>1, <3>2, <3>4
  <2> QED BY <1>1, <2>1, <2>2, <2>3
<1>6. n = SubSeq(p, 1, (l + 1) - 1)
  BY <1>1, <1>3
<1>7. l + 1 \in 2..Len(p) /\ \A j \in Places(w, p) : l + 1 <= j
  BY <1>4, <1>5 DEF Places
<1>8. n \in NamesIn(k, p)
  <2> HIDE DEF l
  <2> QED BY <1>1, <1>4, <1>6, <1>7 DEF NamesIn
<1> QED BY <1>8 DEF p

\* The variable holds one of the service's settings, or one of its headers.
IsVariableOf(v, s, d) ==
  /\ v[1] = s[1]
  /\ \/ \E w \in d[s].settings : v[2] = s[2] \o w
     \/ \E h \in d[s].headers : v[2] = s[2] \o <<"HEADER">> \o h

\* The variables that a declaration is written down in, and no others.
LEMMA WrittenVariables ==
  ASSUME NEW d
  PROVE  /\ \A s \in DOMAIN d : \A w \in d[s].settings :
              <<s[1], s[2] \o w>> \in DOMAIN Written(d)
         /\ \A s \in DOMAIN d : \A h \in d[s].headers :
              <<s[1], s[2] \o <<"HEADER">> \o h>> \in DOMAIN Written(d)
         /\ \A v \in DOMAIN Written(d) :
              \E s \in DOMAIN d : IsVariableOf(v, s, d)
         /\ \A v \in DOMAIN Written(d) :
              v[1] # "AI" \/ Last(v[2]) = "URL" => Written(d)[v] = "5"
<1> DEFINE A == UNION {{<<s[1], s[2] \o w>> : w \in d[s].settings} : s \in DOMAIN d}
           B == UNION {{<<s[1], s[2] \o <<"HEADER">> \o h>> : h \in d[s].headers} : s \in DOMAIN d}
           IsList(v) == v[1] = "AI" /\ Last(v[2]) \in {"ENV", "MODELS"}
<1>1. Written(d) = [v \in A \cup B |-> IF IsList(v) THEN <<"w">> ELSE "5"]
  BY DEF Written
<1>2. ASSUME NEW s \in DOMAIN d, NEW w \in d[s].settings PROVE <<s[1], s[2] \o w>> \in A
  <2> DEFINE S == {<<s[1], s[2] \o x>> : x \in d[s].settings}
  <2>1. <<s[1], s[2] \o w>> \in S
    OBVIOUS
  <2> HIDE DEF S
  <2>2. S \subseteq A
    BY DEF S
  <2> QED BY <2>1, <2>2
<1>3. ASSUME NEW s \in DOMAIN d, NEW h \in d[s].headers
      PROVE  <<s[1], s[2] \o <<"HEADER">> \o h>> \in B
  <2> DEFINE S == {<<s[1], s[2] \o <<"HEADER">> \o x>> : x \in d[s].headers}
  <2>1. <<s[1], s[2] \o <<"HEADER">> \o h>> \in S
    OBVIOUS
  <2> HIDE DEF S
  <2>2. S \subseteq B
    BY DEF S
  <2> QED BY <2>1, <2>2
<1>4. ASSUME NEW v \in A
      PROVE  \E s \in DOMAIN d : IsVariableOf(v, s, d)
  <2>1. PICK s \in DOMAIN d : \E w \in d[s].settings : v = <<s[1], s[2] \o w>>
    OBVIOUS
  <2>2. PICK w \in d[s].settings : v = <<s[1], s[2] \o w>>
    BY <2>1
  <2>3. v[1] = s[1] /\ v[2] = s[2] \o w
    BY <2>2
  <2> QED BY <2>3 DEF IsVariableOf
<1>5. ASSUME NEW v \in B
      PROVE  \E s \in DOMAIN d : IsVariableOf(v, s, d)
  <2>1. PICK s \in DOMAIN d : \E h \in d[s].headers : v = <<s[1], s[2] \o <<"HEADER">> \o h>>
    OBVIOUS
  <2>2. PICK h \in d[s].headers : v = <<s[1], s[2] \o <<"HEADER">> \o h>>
    BY <2>1
  <2>3. v[1] = s[1] /\ v[2] = s[2] \o <<"HEADER">> \o h
    BY <2>2
  <2> QED BY <2>3 DEF IsVariableOf
<1> HIDE DEF A, B
<1>6. DOMAIN Written(d) = A \cup B
  BY <1>1
<1>7. ASSUME NEW v \in A \cup B, v[1] # "AI" \/ Last(v[2]) = "URL" PROVE Written(d)[v] = "5"
  <2>1. ~IsList(v)
    BY <1>7
  <2> HIDE DEF IsList
  <2> QED BY <1>1, <2>1
<1> QED BY <1>2, <1>3, <1>4, <1>5, <1>6, <1>7

LEMMA DeclaredService ==
  ASSUME NEW W, NEW d, IsDeclaration(d, W), NEW s \in DOMAIN d
  PROVE  /\ s = <<s[1], s[2]>> /\ s[1] \in Kinds /\ s[2] \in Names(W)
         /\ Required[s[1]] \subseteq d[s].settings /\ d[s].settings \subseteq Settings[s[1]]
         /\ \A h \in d[s].headers : s[1] = "API" /\ h \in Names(W)
<1>1. s \in Kinds \X Names(W)
  BY DEF IsDeclaration
<1>2. Required[s[1]] \subseteq d[s].settings /\ d[s].settings \subseteq Settings[s[1]]
  BY DEF IsDeclaration
<1>3. \A h \in d[s].headers : s[1] = "API" /\ h \in Names(W)
  BY DEF IsDeclaration
<1> QED BY <1>1, <1>2, <1>3

LEMMA NameAndHeader ==
  ASSUME NEW W, ConfigWords \subseteq W, NEW n \in Names(W)
  PROVE  LET m == n \o <<"HEADER">>
         IN  /\ m \in Seq(W) /\ Len(m) = Len(n) + 1
             /\ \A i \in 1..Len(n) : m[i] = n[i]
             /\ m[Len(n) + 1] = "HEADER"
<1> DEFINE w == <<"HEADER">>
           m == n \o w
<1>1. w \in Seq(W) /\ Len(w) = 1 /\ w[1] = "HEADER"
  <2>1. "HEADER" \in W
    BY DEF ConfigWords
  <2> QED BY <2>1
<1>2. n \in Seq(W) /\ Len(n) \in Nat
  BY NamesEndInAWord
<1>3. /\ m \in Seq(W) /\ Len(m) = Len(n) + Len(w)
      /\ \A i \in 1..Len(n) : m[i] = n[i]
      /\ \A i \in 1..Len(w) : m[Len(n) + i] = w[i]
  BY <1>1, <1>2, PathProperties
<1> HIDE DEF m, w
<1>4. m[Len(n) + 1] = "HEADER"
  BY <1>1, <1>3
<1> QED BY <1>1, <1>3, <1>4 DEF m, w

LEMMA HeaderPath ==
  ASSUME NEW W, ConfigWords \subseteq W, NEW n \in Names(W), NEW h \in Names(W)
  PROVE  LET p == n \o <<"HEADER">> \o h
         IN  /\ p \in Seq(W) /\ Len(p) = Len(n) + 1 + Len(h)
             /\ \A i \in 1..Len(n) : p[i] = n[i]
             /\ p[Len(n) + 1] = "HEADER"
             /\ \A i \in 1..Len(h) : p[Len(n) + 1 + i] = h[i]
             /\ Last(p) = Last(h)
<1> DEFINE m == n \o <<"HEADER">>
           p == m \o h
<1>1. h \in Seq(W) /\ Len(n) \in Nat /\ Len(h) \in Nat
  BY NamesEndInAWord
<1>2. /\ m \in Seq(W) /\ Len(m) = Len(n) + 1
      /\ \A i \in 1..Len(n) : m[i] = n[i]
      /\ m[Len(n) + 1] = "HEADER"
  BY NameAndHeader
<1>3. ASSUME NEW x \in Seq(W)
      PROVE  /\ x \o h \in Seq(W) /\ Len(x \o h) = Len(x) + Len(h)
             /\ \A i \in 1..Len(x) : (x \o h)[i] = x[i]
             /\ \A i \in 1..Len(h) : (x \o h)[Len(x) + i] = h[i]
  BY <1>1, PathProperties
<1> HIDE DEF m
<1>4. /\ p \in Seq(W) /\ Len(p) = Len(m) + Len(h)
      /\ \A i \in 1..Len(m) : p[i] = m[i]
      /\ \A i \in 1..Len(h) : p[Len(m) + i] = h[i]
  BY <1>2, <1>3
<1>5. Last(p) = Last(h)
  BY <1>2, PathEndsInSetting
<1> HIDE DEF p
<1>6. \A i \in 1..Len(n) : p[i] = n[i]
  BY <1>1, <1>2, <1>4
<1>7. p[Len(n) + 1] = "HEADER"
  BY <1>1, <1>2, <1>4
<1>8. Len(p) = Len(n) + 1 + Len(h) /\ \A i \in 1..Len(h) : p[Len(n) + 1 + i] = h[i]
  BY <1>1, <1>2, <1>4
<1> QED BY <1>4, <1>5, <1>6, <1>7, <1>8 DEF m, p

LEMMA HeaderIsCut ==
  ASSUME NEW W, ConfigWords \subseteq W, NEW n \in Names(W), NEW h \in Names(W)
  PROVE  LET p == n \o <<"HEADER">> \o h IN SubSeq(p, Len(n) + 2, Len(p)) = h
<1> DEFINE p == n \o <<"HEADER">> \o h
           q == SubSeq(p, Len(n) + 2, Len(p))
<1>1. /\ p \in Seq(W) /\ Len(p) = Len(n) + 1 + Len(h)
      /\ \A i \in 1..Len(h) : p[Len(n) + 1 + i] = h[i]
  BY HeaderPath
<1>2. h \in Seq(W) /\ Len(n) \in Nat /\ Len(h) \in Nat \ {0}
  BY NamesEndInAWord
<1> HIDE DEF p
<1>3. \A i \in (Len(n) + 2)..Len(p) : p[i] \in W
  BY <1>1, <1>2, ElementOfSeq
<1>4. /\ q \in Seq(W) /\ Len(q) = Len(h)
      /\ \A i \in 1..Len(h) : q[i] = p[Len(n) + 1 + i]
  <2>1. /\ q \in Seq(W)
        /\ Len(q) = IF Len(n) + 2 <= Len(p) THEN Len(p) - (Len(n) + 2) + 1 ELSE 0
        /\ \A i \in 1..Len(p) - (Len(n) + 2) + 1 : q[i] = p[Len(n) + 2 + i - 1]
    BY <1>1, <1>2, <1>3, SubSeqProperties
  <2> HIDE DEF q
  <2>2. Len(p) - (Len(n) + 2) + 1 = Len(h) /\ Len(n) + 2 <= Len(p)
    BY <1>1, <1>2
  <2>3. ASSUME NEW i \in 1..Len(h) PROVE Len(n) + 2 + i - 1 = Len(n) + 1 + i
    BY <1>2
  <2> QED BY <2>1, <2>2, <2>3
<1> HIDE DEF q
<1>5. q = h
  BY <1>1, <1>2, <1>4, SeqEqual
<1> QED BY <1>5 DEF p, q

\* The variable of a required setting belongs to the service whose name stands
\* before it: another setting ends in another word, and so does a header.
LEMMA OneOwner ==
  ASSUME NEW W, ConfigWords \subseteq W, NEW d, IsDeclaration(d, W), Unambiguous(d),
         NEW k \in Kinds, NEW n \in Seq(W), NEW w \in Required[k],
         <<k, n \o w>> \in DOMAIN Written(d)
  PROVE  <<k, n>> \in DOMAIN d
<1> DEFINE p == n \o w
<1>1. PICK s \in DOMAIN d :
        /\ k = s[1]
        /\ \/ \E x \in d[s].settings : p = s[2] \o x
           \/ \E h \in d[s].headers : p = s[2] \o <<"HEADER">> \o h
  <2> DEFINE v == <<k, p>>
  <2>1. PICK s \in DOMAIN d : IsVariableOf(v, s, d)
    <3> HIDE DEF p
    <3> QED BY WrittenVariables DEF p
  <2>2. v[1] = k /\ v[2] = p
    OBVIOUS
  <2> HIDE DEF v, p
  <2> QED BY <2>1, <2>2 DEF IsVariableOf
<1>2. /\ k = s[1] /\ s = <<k, s[2]>> /\ s[2] \in Names(W) /\ s[2] \in Seq(W)
      /\ d[s].settings \subseteq Settings[k]
      /\ \A h \in d[s].headers : k = "API" /\ h \in Names(W)
  BY <1>1, DeclaredService, NamesEndInAWord
<1>3. w \in Names(W) /\ w \in Seq(W) /\ w \in Settings[k]
  BY RequiredAreSettings, SettingsAreNames, NamesEndInAWord
<1>4. Last(p) = Last(w)
  BY <1>3, PathEndsInSetting
<1>5. CASE \E x \in d[s].settings : p = s[2] \o x
  <2>1. PICK x \in d[s].settings : p = s[2] \o x
    BY <1>5
  <2>2. x \in Settings[k] /\ x \in Names(W)
    BY <1>2, SettingsAreNames
  <2>3. Last(p) = Last(x)
    BY <1>2, <2>1, <2>2, PathEndsInSetting
  <2>4. w = x
    BY <1>4, <2>2, <2>3, LastWordDecides
  <2>5. n = s[2]
    BY <1>2, <1>3, <2>1, <2>4, ConcatSimplifications
  <2> QED BY <1>2, <2>5
<1>6. CASE \E h \in d[s].headers : p = s[2] \o <<"HEADER">> \o h
  <2>1. PICK h \in d[s].headers : p = s[2] \o <<"HEADER">> \o h
    BY <1>6
  <2>2. k = "API" /\ h \in Names(W)
    BY <1>2
  <2>3. Last(p) = Last(h)
    BY <1>2, <2>1, <2>2, HeaderPath
  <2>4. w = <<"URL">>
    BY <2>2, RequiredListed
  <2>5. Last(w) = "URL"
    BY <2>4 DEF Last
  <2>6. Last(h) # "URL"
    BY <2>1 DEF Unambiguous
  <2> QED BY <1>4, <2>3, <2>5, <2>6
<1> QED BY <1>1, <1>5, <1>6

LEMMA VariablesArePaths ==
  ASSUME NEW W, ConfigWords \subseteq W, NEW d, IsDeclaration(d, W), NEW v \in DOMAIN Written(d)
  PROVE  v[1] \in Kinds /\ v[2] \in Seq(W)
<1>1. PICK s \in DOMAIN d : IsVariableOf(v, s, d)
  BY WrittenVariables
<1>2. s[1] \in Kinds /\ s[2] \in Names(W) /\ s[2] \in Seq(W)
  BY DeclaredService, NamesEndInAWord
<1>3. ASSUME NEW w \in d[s].settings PROVE s[2] \o w \in Seq(W)
  <2>1. w \in Seq(W)
    BY <1>2, DeclaredService, SettingsAreNames, NamesEndInAWord
  <2> QED BY <1>2, <2>1, PathProperties
<1>4. ASSUME NEW h \in d[s].headers PROVE s[2] \o <<"HEADER">> \o h \in Seq(W)
  <2>1. h \in Names(W)
    BY DeclaredService
  <2> QED BY <1>2, <2>1, HeaderPath
<1> QED BY <1>1, <1>2, <1>3, <1>4 DEF IsVariableOf

LEMMA NamesAreSequences ==
  ASSUME NEW W, NEW p \in Seq(W), NEW k, NEW n \in NamesIn(k, p)
  PROVE  n \in Seq(W)
<1>1. PICK i \in 2..Len(p) : n = SubSeq(p, 1, i - 1)
  BY DEF NamesIn
<1>2. \A j \in 1..i - 1 : p[j] \in W
  BY <1>1, ElementOfSeq
<1> QED BY <1>1, <1>2, SubSeqProperties

LEMMA CollectedAreSequences ==
  ASSUME NEW W, ConfigWords \subseteq W, NEW d, IsDeclaration(d, W), NEW k,
         NEW n \in CollectNames(Written(d), k)
  PROVE  n \in Seq(W)
<1>1. PICK v \in DOMAIN Written(d) : n \in NamesIn(k, v[2])
  BY DEF CollectNames
<1>2. v[2] \in Seq(W)
  BY VariablesArePaths
<1> QED BY <1>1, <1>2, NamesAreSequences

\* What a required setting's variable holds.
LEMMA RequiredIsWritten ==
  ASSUME NEW W, ConfigWords \subseteq W, NEW d, IsDeclaration(d, W),
         NEW s \in DOMAIN d, NEW w \in Required[s[1]]
  PROVE  /\ <<s[1], s[2] \o w>> \in DOMAIN Written(d)
         /\ Written(d)[<<s[1], s[2] \o w>>] = "5"
<1> DEFINE k == s[1]
           p == s[2] \o w
           v == <<k, p>>
<1>1. s[1] \in Kinds /\ s[2] \in Seq(W) /\ w \in d[s].settings
  BY DeclaredService, NamesEndInAWord
<1>2. w \in Names(W)
  BY <1>1, RequiredAreSettings, SettingsAreNames
<1>3. v \in DOMAIN Written(d)
  BY <1>1, WrittenVariables
<1>4. k # "AI" \/ Last(p) = "URL"
  <2>1. Last(p) = Last(w)
    BY <1>1, <1>2, PathEndsInSetting
  <2>2. k = "AI" => w = <<"BASE", "URL">>
    BY RequiredListed
  <2>3. Last(<<"BASE", "URL">>) = "URL"
    BY DEF Last
  <2> HIDE DEF p
  <2> QED BY <2>1, <2>2, <2>3
<1>5. v[1] = k /\ v[2] = p
  OBVIOUS
<1>6. Written(d)[v] = "5"
  <2> HIDE DEF v, p, k
  <2> QED BY <1>3, <1>4, <1>5, WrittenVariables
<1> QED BY <1>3, <1>6

\* The names that are found are those of the services that were written down.
LEMMA FoundAreDeclared ==
  ASSUME NEW W, ConfigWords \subseteq W, NEW d, IsDeclaration(d, W), Unambiguous(d),
         NEW k \in Kinds
  PROVE  Found(Written(d), k) = {s[2] : s \in {s \in DOMAIN d : s[1] = k}}
<1> DEFINE env == Written(d)
           D == {s[2] : s \in {s \in DOMAIN d : s[1] = k}}
<1>1. ASSUME NEW n \in Found(env, k) PROVE n \in D
  <2>1. n \in Seq(W)
    BY CollectedAreSequences DEF Found
  <2>2. PICK w \in Required[k] : TRUE
    BY RequiredAreSettings
  <2>3. GetEnv(env, <<k, n \o w>>, "") # ""
    BY DEF Found
  <2>4. <<k, n \o w>> \in DOMAIN env
    BY <2>3 DEF GetEnv
  <2>5. <<k, n>> \in DOMAIN d
    BY <2>1, <2>4, OneOwner
  <2>6. <<k, n>>[1] = k /\ <<k, n>>[2] = n
    OBVIOUS
  <2> QED BY <2>5, <2>6
<1>2. ASSUME NEW n \in D PROVE n \in Found(env, k)
  <2>1. PICK s \in DOMAIN d : s[1] = k /\ s[2] = n
    OBVIOUS
  <2>2. n \in Names(W)
    BY <2>1, DeclaredService
  <2>3. ASSUME NEW w \in Required[k]
        PROVE  <<k, n \o w>> \in DOMAIN env /\ env[<<k, n \o w>>] = "5"
    BY <2>1, RequiredIsWritten
  <2>4. n \in CollectNames(env, k)
    <3>1. PICK w \in Required[k] : TRUE
      BY RequiredAreSettings
    <3>2. Places(w, n) = {}
      BY <2>1 DEF Unambiguous
    <3>3. n \in NamesIn(k, n \o w)
      BY <2>2, <3>2, NameIsCut
    <3> DEFINE v == <<k, n \o w>>
    <3>4. v \in DOMAIN env /\ v[1] = k /\ v[2] = n \o w
      BY <2>3
    <3> HIDE DEF v, env
    <3> QED BY <3>3, <3>4 DEF CollectNames
  <2>5. \A w \in Required[k] : GetEnv(env, <<k, n \o w>>, "") # ""
    <3> HIDE DEF env
    <3> QED BY <2>3 DEF GetEnv
  <2> QED BY <2>4, <2>5 DEF Found
<1> QED BY <1>1, <1>2

\* An API's headers are its own, whatever another API is called.
LEMMA HeadersAreDeclared ==
  ASSUME NEW W, ConfigWords \subseteq W, NEW d, IsDeclaration(d, W), Unambiguous(d),
         NEW s \in DOMAIN d, s[1] = "API"
  PROVE  Headers(Written(d), s[2]) = d[s].headers
<1> DEFINE n == s[2]
           env == Written(d)
           l == Len(n)
           m == n \o <<"HEADER">>
<1>1. n \in Names(W) /\ n \in Seq(W) /\ l \in Nat \ {0}
  BY DeclaredService, NamesEndInAWord
<1>2. "HEADER" \in W
  BY DEF ConfigWords
<1>3. /\ m \in Seq(W) /\ Len(m) = l + 1
      /\ \A i \in 1..l : m[i] = n[i]
      /\ m[l + 1] = "HEADER"
  BY <1>1, NameAndHeader
\* No name of an API holds the word after its first.
<1>4. ASSUME NEW t \in DOMAIN d, t[1] = "API", NEW i \in 2..Len(t[2]) PROVE t[2][i] # "HEADER"
  BY <1>4 DEF Unambiguous
\* A variable is one of its headers when it begins with m and goes on.
<1>5. ASSUME NEW p \in Seq(W)
      PROVE  IsPrefix(m, p) <=> l + 1 <= Len(p) /\ \A i \in 1..l + 1 : p[i] = m[i]
  <2>1. ASSUME Len(m) <= Len(p)
        PROVE  SubSeq(p, 1, Len(m)) = m <=> \A i \in 1..Len(m) : p[i] = m[i]
    <3>1. ASSUME NEW x \in Seq(W), Len(x) <= Len(p)
          PROVE  SubSeq(p, 1, Len(x)) = x <=> \A i \in 1..Len(x) : p[i] = x[i]
      BY <3>1, SegmentWordByWord
    <3> HIDE DEF m
    <3> QED BY <1>3, <2>1, <3>1
  <2>2. SubSeq(m, 1, Len(m)) = m
    <3> HIDE DEF m
    <3> QED BY <1>3, SubSeqFull
  <2> HIDE DEF m, l
  <2> QED BY <1>1, <1>3, <2>1, <2>2 DEF IsPrefix
<1>6. ASSUME NEW h \in d[s].headers PROVE h \in Headers(env, n)
  <2> DEFINE p == m \o h
             v == <<"API", p>>
  <2>1. h \in Names(W) /\ Len(h) \in Nat \ {0}
    BY DeclaredService, NamesEndInAWord
  <2>2. /\ p \in Seq(W) /\ Len(p) = l + 1 + Len(h)
        /\ \A i \in 1..l : p[i] = n[i]
        /\ p[l + 1] = "HEADER"
    BY <1>1, <2>1, HeaderPath
  <2>6. SubSeq(p, l + 2, Len(p)) = h
    BY <1>1, <2>1, HeaderIsCut
  <2>3. v \in DOMAIN env /\ v[1] = "API" /\ v[2] = p
    BY WrittenVariables, s[1] = "API"
  <2> HIDE DEF p, v, m, l, env
  <2>4. IsPrefix(m, p)
    <3>1. ASSUME NEW i \in 1..l + 1 PROVE p[i] = m[i]
      <4>1. i \in 1..l \/ i = l + 1
        BY <1>1
      <4> QED BY <1>3, <2>2, <4>1
    <3>2. l + 1 <= Len(p)
      BY <1>1, <2>1, <2>2
    <3> QED BY <1>5, <2>2, <3>1, <3>2
  <2>5. Len(v[2]) > l + 1
    BY <1>1, <2>1, <2>2, <2>3
  <2> QED BY <2>2, <2>3, <2>4, <2>5, <2>6 DEF Headers, m, l
<1>7. ASSUME NEW v \in DOMAIN env, v[1] = "API", Len(v[2]) > l + 1, IsPrefix(m, v[2])
      PROVE  SubSeq(v[2], l + 2, Len(v[2])) \in d[s].headers
  <2> DEFINE p == v[2]
  <2>1. PICK t \in DOMAIN d : IsVariableOf(v, t, d)
    BY WrittenVariables
  <2> DEFINE q == t[2]
             k == Len(q)
  <2>2. t[1] = "API" /\ t = <<"API", q>> /\ q \in Names(W) /\ q \in Seq(W) /\ k \in Nat \ {0}
    BY <1>7, <2>1, DeclaredService, NamesEndInAWord DEF IsVariableOf
  <2>3. p \in Seq(W)
    BY VariablesArePaths
  <2>4. /\ \A i \in 1..l : p[i] = n[i]
        /\ p[l + 1] = "HEADER"
        /\ l + 1 < Len(p) /\ Len(p) \in Nat
    <3> HIDE DEF m, l, p
    <3> QED BY <1>1, <1>3, <1>5, <1>7, <2>3 DEF p
  <2>5. \A i \in 2..k : q[i] # "HEADER"
    BY <1>4, <2>2
  <2>6. CASE \E x \in d[t].settings : p = q \o x
    <3>1. PICK x \in d[t].settings : p = q \o x
      BY <2>6
    <3>2. x \in Settings["API"] /\ x \in Seq(W) /\ Len(x) \in Nat \ {0}
      BY <2>2, DeclaredService, SettingsAreNames, NamesEndInAWord
    <3>3. /\ Len(p) = k + Len(x)
          /\ \A i \in 1..k : p[i] = q[i]
          /\ \A i \in 1..Len(x) : p[k + i] = x[i]
      BY <2>2, <3>1, <3>2, PathProperties
    <3> HIDE DEF p, q, k, l, m
    <3>4. CASE l + 1 <= k
      <4>1. l + 1 \in 2..k /\ l + 1 \in 1..k
        BY <1>1, <2>2, <3>4
      <4> QED BY <2>4, <2>5, <3>3, <4>1
    <3>5. CASE ~(l + 1 <= k)
      <4>1. (l + 1) - k \in 1..Len(x) /\ k + ((l + 1) - k) = l + 1
        BY <1>1, <2>2, <2>4, <3>2, <3>3, <3>5
      <4>2. x[(l + 1) - k] = "HEADER"
        BY <2>4, <3>3, <4>1
      <4> QED BY <3>2, <4>1, <4>2, NoSettingHoldsHeader
    <3> QED BY <3>4, <3>5
  <2>7. CASE \E h \in d[t].headers : p = q \o <<"HEADER">> \o h
    <3>1. PICK h \in d[t].headers : p = q \o <<"HEADER">> \o h
      BY <2>7
    <3>2. h \in Names(W)
      BY DeclaredService
    <3>3. /\ \A i \in 1..k : p[i] = q[i]
          /\ p[k + 1] = "HEADER"
          /\ SubSeq(p, k + 2, Len(p)) = h
      BY <2>2, <3>1, <3>2, HeaderPath, HeaderIsCut
    <3>4. l = k
      <4> HIDE DEF p, q, k, l, m, n
      <4>1. CASE l < k
        <5>1. l + 1 \in 2..k /\ l + 1 \in 1..k
          BY <1>1, <2>2, <4>1
        <5> QED BY <2>4, <2>5, <3>3, <5>1
      <4>2. CASE k < l
        <5>1. k + 1 \in 2..l /\ k + 1 \in 1..l
          BY <1>1, <2>2, <4>2
        <5>2. n[k + 1] = "HEADER"
          BY <2>4, <3>3, <5>1
        <5>3. n[k + 1] # "HEADER"
          BY <1>4, <5>1, s[1] = "API" DEF n, l
        <5> QED BY <5>2, <5>3
      <4> QED BY <1>1, <2>2, <4>1, <4>2
    <3>5. n = q
      <4> HIDE DEF p, q, n
      <4> QED BY <1>1, <2>2, <2>4, <3>3, <3>4, SeqEqual
    <3>6. s = t
      BY <2>2, <3>5, DeclaredService
    <3>7. SubSeq(p, l + 2, Len(p)) = h
      <4> HIDE DEF p, k, l
      <4> QED BY <3>3, <3>4
    <3> QED BY <3>6, <3>7
  <2> QED BY <2>1, <2>6, <2>7 DEF IsVariableOf
<1> QED
  <2>1. Headers(env, n) \subseteq d[s].headers
    <3> HIDE DEF env, m, n
    <3> QED BY <1>7 DEF Headers, m, l
  <2>2. d[s].headers \subseteq Headers(env, n)
    <3> HIDE DEF env, n
    <3> QED BY <1>6
  <2> QED BY <2>1, <2>2

\* Every service that is found has its required settings, as they are written.
LEMMA FoundIsWritten ==
  ASSUME NEW W, ConfigWords \subseteq W, NEW d, IsDeclaration(d, W), Unambiguous(d),
         NEW k \in Kinds, NEW n \in Found(Written(d), k), NEW w \in Required[k]
  PROVE  /\ GetEnv(Written(d), <<k, n \o w>>, "") = "5"
         /\ Written(d)[<<k, n \o w>>] = "5"
<1> DEFINE D == {s[2] : s \in {s \in DOMAIN d : s[1] = k}}
<1>1. n \in D
  <2> HIDE DEF D
  <2> QED BY FoundAreDeclared DEF D
<1>2. PICK s \in DOMAIN d : s[1] = k /\ s[2] = n
  BY <1>1
<1>3. <<k, n \o w>> \in DOMAIN Written(d) /\ Written(d)[<<k, n \o w>>] = "5"
  BY <1>2, RequiredIsWritten
<1> DEFINE env == Written(d)
           v == <<k, n \o w>>
<1>4. v \in DOMAIN env /\ env[v] = "5"
  BY <1>3
<1> HIDE DEF env, v
<1>5. GetEnv(env, v, "") = "5"
  BY <1>4 DEF GetEnv
<1> QED BY <1>4, <1>5 DEF env, v

LEMMA ParsersReadFound ==
  ASSUME NEW env
  PROVE  /\ DOMAIN ParseDatabases(env) = Found(env, "DB")
         /\ DOMAIN ParseMongoDBs(env) = Found(env, "MONGO")
         /\ DOMAIN ParseRedisDBs(env) = Found(env, "REDIS")
         /\ DOMAIN ParseAPIs(env) = Found(env, "API")
         /\ DOMAIN ParseAIProviders(env) = Found(env, "AI")
         /\ \A n \in Found(env, "DB") :
              ParseDatabases(env)[n].dsn = GetEnv(env, <<"DB", n \o <<"DSN">>>>, "")
         /\ \A n \in Found(env, "MONGO") :
              /\ ParseMongoDBs(env)[n].uri = env[<<"MONGO", n \o <<"URI">>>>]
              /\ ParseMongoDBs(env)[n].database = env[<<"MONGO", n \o <<"DATABASE">>>>]
         /\ \A n \in Found(env, "REDIS") :
              ParseRedisDBs(env)[n].addr = GetEnv(env, <<"REDIS", n \o <<"ADDR">>>>, "")
         /\ \A n \in Found(env, "API") :
              /\ ParseAPIs(env)[n].baseURL = GetEnv(env, <<"API", n \o <<"URL">>>>, "")
              /\ ParseAPIs(env)[n].headers = Headers(env, n)
         /\ \A n \in Found(env, "AI") :
              ParseAIProviders(env)[n].baseURL = GetEnv(env, <<"AI", n \o <<"BASE", "URL">>>>, "")
<1>1. /\ DOMAIN ParseDatabases(env) = Found(env, "DB")
      /\ \A n \in Found(env, "DB") :
           ParseDatabases(env)[n].dsn = GetEnv(env, <<"DB", n \o <<"DSN">>>>, "")
  BY DEF ParseDatabases
<1>2. /\ DOMAIN ParseMongoDBs(env) = Found(env, "MONGO")
      /\ \A n \in Found(env, "MONGO") :
           /\ ParseMongoDBs(env)[n].uri = env[<<"MONGO", n \o <<"URI">>>>]
           /\ ParseMongoDBs(env)[n].database = env[<<"MONGO", n \o <<"DATABASE">>>>]
  BY DEF ParseMongoDBs
<1>3. /\ DOMAIN ParseRedisDBs(env) = Found(env, "REDIS")
      /\ \A n \in Found(env, "REDIS") :
           ParseRedisDBs(env)[n].addr = GetEnv(env, <<"REDIS", n \o <<"ADDR">>>>, "")
  BY DEF ParseRedisDBs
<1>4. /\ DOMAIN ParseAPIs(env) = Found(env, "API")
      /\ \A n \in Found(env, "API") :
           /\ ParseAPIs(env)[n].baseURL = GetEnv(env, <<"API", n \o <<"URL">>>>, "")
           /\ ParseAPIs(env)[n].headers = Headers(env, n)
  BY DEF ParseAPIs
<1>5. /\ DOMAIN ParseAIProviders(env) = Found(env, "AI")
      /\ \A n \in Found(env, "AI") :
           ParseAIProviders(env)[n].baseURL = GetEnv(env, <<"AI", n \o <<"BASE", "URL">>>>, "")
  BY DEF ParseAIProviders
<1> QED BY <1>1, <1>2, <1>3, <1>4, <1>5

\* Whatever is written down as documented - any services, any names, any of
\* their settings, any headers - is read as it is written: every service, no
\* other, each API's own headers; and it is valid.  What it takes is that no
\* name holds a required setting of its kind after its first word, not as the
\* beginning of a longer word either, nor an API's name HEADER, and that no
\* header ends in URL (config.go:187-411, :481-517).
THEOREM WrittenIsRead ==
  ASSUME NEW W, NEW d, IsDeclaration(d, W), Unambiguous(d)
  PROVE  Reads(d)
<1> DEFINE V == W \cup ConfigWords
           env == Written(d)
           c == Load(env)
<1>1. ConfigWords \subseteq V /\ IsDeclaration(d, V)
  <2>1. Names(W) \subseteq Names(V)
    BY SeqMonotonic DEF Names
  <2> HIDE DEF V
  <2>2. IsDeclaration(d, V)
    BY <2>1 DEF IsDeclaration
  <2> QED BY <2>2 DEF V
<1> HIDE DEF V
<1>2. \A k \in Kinds : Found(env, k) = {s[2] : s \in {s \in DOMAIN d : s[1] = k}}
  BY <1>1, FoundAreDeclared
<1>3. /\ c.DB = ParseDatabases(env) /\ c.MONGO = ParseMongoDBs(env)
      /\ c.REDIS = ParseRedisDBs(env) /\ c.API = ParseAPIs(env)
      /\ c.AI = ParseAIProviders(env)
      /\ c["DB"] = ParseDatabases(env) /\ c["MONGO"] = ParseMongoDBs(env)
      /\ c["REDIS"] = ParseRedisDBs(env) /\ c["API"] = ParseAPIs(env)
      /\ c["AI"] = ParseAIProviders(env)
      /\ c.port = GetEnv(env, <<"", <<"MCP", "PORT">>>>, "8530")
  BY DEF Load
<1>4. ASSUME NEW k \in Kinds
      PROVE  DOMAIN c[k] = {s[2] : s \in {s \in DOMAIN d : s[1] = k}}
  <2>1. DOMAIN c[k] = Found(env, k)
    <3> HIDE DEF c, env
    <3> QED BY <1>3, ParsersReadFound DEF Kinds
  <2> QED BY <1>2, <2>1
<1>5. ASSUME NEW s \in DOMAIN d, s[1] = "API" PROVE c.API[s[2]].headers = d[s].headers
  <2>1. s[2] \in Found(env, "API")
    <3>1. "API" \in Kinds
      BY DEF Kinds
    <3>2. s[2] \in {t[2] : t \in {t \in DOMAIN d : t[1] = "API"}}
      BY <1>5
    <3> QED BY <1>2, <3>1, <3>2
  <2>2. c.API[s[2]].headers = Headers(env, s[2])
    <3> HIDE DEF c, env
    <3> QED BY <1>3, <2>1, ParsersReadFound
  <2>3. Headers(env, s[2]) = d[s].headers
    BY <1>1, <1>5, HeadersAreDeclared
  <2> QED BY <2>2, <2>3
<1>6. Validate(c)
  <2>1. c.port = "8530"
    <3> DEFINE v == <<"", <<"MCP", "PORT">>>>
    <3>1. v \notin DOMAIN env
      <4>1. v[1] \notin Kinds
        BY DEF Kinds
      <4> HIDE DEF v, env
      <4> QED BY <1>1, <4>1, VariablesArePaths DEF env
    <3> HIDE DEF v, env, c
    <3> QED BY <1>3, <3>1 DEF GetEnv, v
  <2>2. ValidPort("8530")
    BY DEF ValidPort, Number
  <2>3. /\ \A n \in Found(env, "DB") : c.DB[n].dsn = "5"
        /\ \A n \in Found(env, "MONGO") : c.MONGO[n].uri = "5" /\ c.MONGO[n].database = "5"
        /\ \A n \in Found(env, "REDIS") : c.REDIS[n].addr = "5"
        /\ \A n \in Found(env, "API") : c.API[n].baseURL = "5"
        /\ \A n \in Found(env, "AI") : c.AI[n].baseURL = "5"
    <3>1. /\ "DB" \in Kinds /\ "MONGO" \in Kinds /\ "REDIS" \in Kinds /\ "API" \in Kinds
          /\ "AI" \in Kinds
          /\ <<"DSN">> \in Required["DB"] /\ <<"URI">> \in Required["MONGO"]
          /\ <<"DATABASE">> \in Required["MONGO"] /\ <<"ADDR">> \in Required["REDIS"]
          /\ <<"URL">> \in Required["API"] /\ <<"BASE", "URL">> \in Required["AI"]
      BY RequiredListed DEF Kinds
    <3>2. ASSUME NEW k \in Kinds, NEW n \in Found(env, k), NEW w \in Required[k]
          PROVE  GetEnv(env, <<k, n \o w>>, "") = "5" /\ env[<<k, n \o w>>] = "5"
      BY <1>1, FoundIsWritten
    <3> HIDE DEF env, c
    <3>3. ASSUME NEW n \in Found(env, "DB") PROVE c.DB[n].dsn = "5"
      <4>1. GetEnv(env, <<"DB", n \o <<"DSN">>>>, "") = "5"
        BY <3>1, <3>2
      <4> QED BY <1>3, <4>1, ParsersReadFound
    <3>4. ASSUME NEW n \in Found(env, "MONGO") PROVE c.MONGO[n].uri = "5" /\ c.MONGO[n].database = "5"
      <4>1. env[<<"MONGO", n \o <<"URI">>>>] = "5"
        BY <3>1, <3>2
      <4>2. env[<<"MONGO", n \o <<"DATABASE">>>>] = "5"
        BY <3>1, <3>2
      <4> QED BY <1>3, <4>1, <4>2, ParsersReadFound
    <3>5. ASSUME NEW n \in Found(env, "REDIS") PROVE c.REDIS[n].addr = "5"
      <4>1. GetEnv(env, <<"REDIS", n \o <<"ADDR">>>>, "") = "5"
        BY <3>1, <3>2
      <4> QED BY <1>3, <4>1, ParsersReadFound
    <3>6. ASSUME NEW n \in Found(env, "API") PROVE c.API[n].baseURL = "5"
      <4>1. GetEnv(env, <<"API", n \o <<"URL">>>>, "") = "5"
        BY <3>1, <3>2
      <4> QED BY <1>3, <4>1, ParsersReadFound
    <3>7. ASSUME NEW n \in Found(env, "AI") PROVE c.AI[n].baseURL = "5"
      <4>1. GetEnv(env, <<"AI", n \o <<"BASE", "URL">>>>, "") = "5"
        BY <3>1, <3>2
      <4> QED BY <1>3, <4>1, ParsersReadFound
    <3> QED BY <3>3, <3>4, <3>5, <3>6, <3>7
  <2>4. /\ DOMAIN c.DB = Found(env, "DB") /\ DOMAIN c.MONGO = Found(env, "MONGO")
        /\ DOMAIN c.REDIS = Found(env, "REDIS") /\ DOMAIN c.API = Found(env, "API")
        /\ DOMAIN c.AI = Found(env, "AI")
    <3> HIDE DEF env, c
    <3> QED BY <1>3, ParsersReadFound
  <2> HIDE DEF env, c
  <2> QED BY <2>1, <2>2, <2>3, <2>4 DEF Validate
<1> QED
  <2> HIDE DEF env
  <2>1. \A k \in Kinds : DOMAIN c[k] = {s[2] : s \in {s \in DOMAIN d : s[1] = k}}
    BY <1>4
  <2>2. \A s \in DOMAIN d : s[1] = "API" => c.API[s[2]].headers = d[s].headers
    BY <1>5
  <2> HIDE DEF c
  <2> QED BY <1>6, <2>1, <2>2 DEF Reads, c, env

\* What the run enumerates is written down as documented.
LEMMA DeclarationsAreWrittenDown ==
  ASSUME NEW services \in SUBSET Declarable, NEW d \in Declarations(services)
  PROVE  IsDeclaration(d, {"A", "B", "DRIVER", "DB", "AUTH", "AUTHOR", "MODELS"})
<1> DEFINE W == {"A", "B", "DRIVER", "DB", "AUTH", "AUTHOR", "MODELS"}
<1>1. DOMAIN d = services /\ \A s \in services : d[s] \in {Minimal(s[1]), Full(s[1])}
  BY DEF Declarations
<1>2. ASSUME NEW s \in Declarable PROVE s \in Kinds \X Names(W)
  <2>1. /\ "A" \in W /\ "B" \in W /\ "DRIVER" \in W /\ "DB" \in W /\ "AUTH" \in W
        /\ "MODELS" \in W /\ "AUTHOR" \in W
    OBVIOUS
  <2> HIDE DEF W
  <2>2. /\ <<"A">> \in Names(W) /\ <<"A", "DRIVER">> \in Names(W)
        /\ <<"A", "DB">> \in Names(W) /\ <<"A", "AUTH">> \in Names(W)
        /\ <<"A", "AUTHOR">> \in Names(W) /\ <<"A", "MODELS">> \in Names(W)
    BY <2>1, TuplesAreNames
  <2> QED BY <2>2 DEF Declarable, Kinds
<1>3. {<<"B">>, <<"AUTH">>} \subseteq Names(W)
  <2>1. "B" \in W /\ "AUTH" \in W
    OBVIOUS
  <2> HIDE DEF W
  <2> QED BY <2>1, TuplesAreNames
<1> HIDE DEF W
<1>4. ASSUME NEW s \in services
      PROVE  /\ Required[s[1]] \subseteq d[s].settings /\ d[s].settings \subseteq Settings[s[1]]
             /\ d[s].headers \subseteq (IF s[1] = "API" THEN Names(W) ELSE {})
  <2>1. s[1] \in Kinds
    BY <1>2
  <2>2. CASE d[s] = Minimal(s[1])
    BY <2>1, <2>2, RequiredAreSettings DEF Minimal
  <2>3. CASE d[s] = Full(s[1])
    BY <1>3, <2>1, <2>3, RequiredAreSettings DEF Full
  <2> QED BY <1>1, <2>2, <2>3
<1>5. IsDeclaration(d, W)
  BY <1>1, <1>2, <1>4 DEF IsDeclaration
<1> QED BY <1>5 DEF W

\* What start-up goes through is what was written down, in the instance of the
\* runs (config.go:187-411, :481-517).
THEOREM DocumentationIsFollowed == Spec => []ReadAsWritten
<1>1. DocumentedIsRead
  BY DeclarationsAreWrittenDown, WrittenIsRead DEF DocumentedIsRead
<1>2. ReadAsWritten
  BY <1>1 DEF ReadAsWritten
<1> QED BY <1>2, PTL
=============================================================================
