--------------------------- MODULE ConnectionLives ---------------------------
(***************************************************************************)
(* What a tool call may expect of the registries: a service is connected   *)
(* at most once while the process lives, connections are closed a whole    *)
(* registry at a time and never opened again, and a call works with the    *)
(* connection of the service it has asked for, or not at all.              *)
(***************************************************************************)
CONSTANTS Services, RegistryOf, Calls

VARIABLES
  life,  \* service -> "none", "open" or "closed"
  work   \* call -> what it is doing

vars == <<life, work>>

Idle == [at |-> "idle"]
Waiting(n) == [at |-> "waiting", service |-> n]
Using(n) == [at |-> "using", service |-> n]

Init ==
  /\ life = [n \in Services |-> "none"]
  /\ work = [c \in Calls |-> Idle]

Connect(n) ==
  /\ life[n] = "none"
  /\ life' = [life EXCEPT ![n] = "open"]
  /\ UNCHANGED work

Close(r) ==
  /\ life' = [n \in Services |->
       IF RegistryOf[n] = r /\ life[n] = "open" THEN "closed" ELSE life[n]]
  /\ UNCHANGED work

Ask(c, n) ==
  /\ work[c] = Idle
  /\ work' = [work EXCEPT ![c] = Waiting(n)]
  /\ UNCHANGED life

\* A closed connection is handed out as well.
Answer(c, n) ==
  /\ work[c] = Waiting(n)
  /\ work' = [work EXCEPT ![c] = IF life[n] = "none" THEN Idle ELSE Using(n)]
  /\ UNCHANGED life

Finish(c, n) ==
  /\ work[c] = Using(n)
  /\ work' = [work EXCEPT ![c] = Idle]
  /\ UNCHANGED life

Next ==
  \/ \E n \in Services : Connect(n) \/ Close(RegistryOf[n])
  \/ \E c \in Calls, n \in Services : Ask(c, n) \/ Answer(c, n) \/ Finish(c, n)

Spec == Init /\ [][Next]_vars
=============================================================================
