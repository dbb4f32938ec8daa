---------------------------- MODULE ConnRegistry ----------------------------
(***************************************************************************)
(* The three connection registries of internal/db: Registry (SQL),         *)
(* MongoRegistry and RedisRegistry.  Each is a map from a service name to  *)
(* a connection under an RWMutex; they differ only in what Add does with a *)
(* connection whose ping failed.                                           *)
(*                                                                         *)
(* A connection is the index of its entry in handles, so that a tool call  *)
(* can hold one after the registry has closed it.                          *)
(***************************************************************************)
EXTENDS Naturals, Sequences, GoMaps

CONSTANTS
  Services,    \* configured services, all kinds together
  RegistryOf,  \* service -> "sql", "mongo" or "redis"
  MaxHandles   \* bound on the connections ever opened

Registries == {"sql", "mongo", "redis"}

ASSUME RegistryAssumption == RegistryOf \in [Services -> Registries]
ASSUME HandleAssumption == MaxHandles \in Nat

VARIABLES
  handles,  \* every connection opened: its service and whether it is open
  conns,    \* service -> its registered connection, the three maps as one
  adding    \* services whose Add holds its registry's mutex, waiting for a ping

registryVars == <<handles, conns, adding>>

Handle == [service : Services, open : BOOLEAN]

RegistryInit ==
  /\ handles = <<>>
  /\ conns = EmptyMap
  /\ adding = {}

Opened(n) == [service |-> n, open |-> TRUE]

Registered(n) == n \in DOMAIN conns
IsOpen(h) == handles[h].open
OpenHandles == {h \in DOMAIN handles : handles[h].open}

\* The registries whose mutex is held.
Locked == {RegistryOf[n] : n \in adding}

\* Add takes the mutex and, unless the name is taken, starts to connect.
BeginAdd(n) ==
  /\ RegistryOf[n] \notin Locked
  /\ ~Registered(n)
  /\ adding' = adding \cup {n}
  /\ UNCHANGED <<handles, conns>>

\* "already registered": nothing changes.
AddRefused(n) ==
  /\ RegistryOf[n] \notin Locked
  /\ Registered(n)
  /\ UNCHANGED registryVars

\* The ping is answered: the connection is registered.
AddSucceeds(n) ==
  /\ n \in adding
  /\ Len(handles) < MaxHandles
  /\ handles' = Append(handles, Opened(n))
  /\ conns' = Put(conns, n, Len(handles) + 1)
  /\ adding' = adding \ {n}

\* Mutant: the connection is left open whatever the registry.
AddFailsLeaking(n) ==
  /\ n \in adding
  /\ Len(handles) < MaxHandles
  /\ handles' = Append(handles, Opened(n))
  /\ adding' = adding \ {n}
  /\ UNCHANGED conns

\* Mutant: the mutex is not released on the error return.
AddFailsLocked(n) ==
  /\ n \in adding
  /\ Len(handles) < MaxHandles
  /\ handles' = IF RegistryOf[n] = "redis" THEN Append(handles, Opened(n)) ELSE handles
  /\ UNCHANGED <<conns, adding>>

\* The ping fails.  SQL and MongoDB close the connection; the Redis client,
\* which keeps a pool of its own, is dropped without a Close.
AddFails(n) ==
  /\ n \in adding
  /\ Len(handles) < MaxHandles
  /\ handles' = IF RegistryOf[n] = "redis" THEN Append(handles, Opened(n)) ELSE handles
  /\ adding' = adding \ {n}
  /\ UNCHANGED conns

\* Every registered connection is closed and stays registered.
CloseAll(r) ==
  /\ r \notin Locked
  /\ handles' = [h \in DOMAIN handles |->
       IF \E n \in DOMAIN conns : RegistryOf[n] = r /\ conns[n] = h
       THEN [handles[h] EXCEPT !.open = FALSE] ELSE handles[h]]
  /\ UNCHANGED <<conns, adding>>

\* Get takes the read lock, so it waits for an Add in progress.
CanGet(n) == RegistryOf[n] \notin Locked

-----------------------------------------------------------------------------
(***************************************************************************)
(* Properties.                                                             *)
(***************************************************************************)

\* A registered connection is one to the service it is registered under.
RegistryTypeOK ==
  /\ handles \in Seq(Handle)
  /\ Len(handles) <= MaxHandles
  /\ IsMap(conns, Services, DOMAIN handles)
  /\ \A n \in DOMAIN conns : handles[conns[n]].service = n
  /\ adding \subseteq Services \ DOMAIN conns

\* No SQL or MongoDB connection is open that CloseAll would not find: every
\* failed Add has closed its own, and no Add has replaced a registered one
\* (registry.go:205-218, mongo.go:62-93).
NoConnectionIsLeaked ==
  \A h \in OpenHandles :
    LET n == handles[h].service IN
      RegistryOf[n] # "redis" => Registered(n) /\ conns[n] = h
=============================================================================
