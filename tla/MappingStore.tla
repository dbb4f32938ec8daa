---------------------------- MODULE MappingStore ----------------------------
(***************************************************************************)
(* The placeholder store of internal/store/mapping.go: two in-memory maps  *)
(* and a counter per detection type, all guarded by one RWMutex, and a     *)
(* SQLite table that survives the process.  Every exported method holds    *)
(* the mutex from its first map access to its last, so one method call is  *)
(* one step.                                                               *)
(*                                                                         *)
(* A placeholder "[LABEL_n]" is the pair of its label and its number: no   *)
(* label ends in "_<digits>", so Sprintf loses nothing.                    *)
(***************************************************************************)
EXTENDS Naturals, GoMaps

CONSTANTS
  Originals,   \* sensitive values a detector can report
  Types,       \* detection types (Finding.Type)
  Labels,      \* the labels placeholderLabel can return
  LabelOf,     \* placeholderLabel as a function of the detection type
  Keys,        \* encryption keys the process can be started with
  MaxNum,      \* bound on the counter of a type
  MaxSessions  \* bound on the number of process starts

ASSUME LabelAssumption == LabelOf \in [Types -> Labels]
ASSUME BoundAssumption == MaxNum \in Nat /\ MaxSessions \in Nat \ {0}

VARIABLES
  phase,       \* "open", "closed" (Close has run, handlers may go on), "down"
  key,         \* the key s.enc was built from
  inMemory,    \* placeholder -> mapping
  byOriginal,  \* original -> placeholder
  counter,     \* type -> last number used
  rows,        \* the SQLite table: placeholder -> encrypted row
  snapshot,    \* the last string Snapshot returned, held by its caller
  session,     \* number of process starts
  restored,    \* history: RestoreFromSnapshot has run in this process
  fresh,       \* history: originals GetOrCreate created in this process
  unseen       \* history: rows this process has the key of but has neither
               \* loaded nor written

memory == <<inMemory, byOriginal, counter>>
history == <<session, restored, fresh, unseen>>
vars == <<phase, key, inMemory, byOriginal, counter, rows, snapshot,
          session, restored, fresh, unseen>>

Placeholder == [label : Labels, num : 1..MaxNum]
Mapping == [placeholder : Placeholder, original : Originals, type : Types]
Row == [original : Originals, type : Types, key : Keys]

NoSnapshot == [taken |-> FALSE]

Running == phase # "down"

-----------------------------------------------------------------------------
(***************************************************************************)
(* NewMappingStore and loadFromDB.                                         *)
(***************************************************************************)

\* The rows DecryptString accepts: the others are skipped by loadFromDB.
ReadableWith(k) == {ph \in DOMAIN rows : rows[ph].key = k}

LoadedMapping(ph) ==
  [placeholder |-> ph, original |-> rows[ph].original, type |-> rows[ph].type]

\* Mutant: a value is filed under some row that was loaded.
ReverseOfAny(phs) == [{rows[ph].original : ph \in phs} -> phs]

\* The SELECT has no ORDER BY: when two rows hold one value, either may come
\* last and win the reverse index.
ReverseOf(phs) ==
  {f \in [{rows[ph].original : ph \in phs} -> phs] :
     \A o \in DOMAIN f : rows[f[o]].original = o}

\* Mutant: a load that forgets the reverse index.
LoadMappingsOnly(k) ==
  \E phs \in SUBSET ReadableWith(k) :
    /\ inMemory' = [ph \in phs |-> LoadedMapping(ph)]
    /\ byOriginal' = EmptyMap
    /\ counter' = [t \in Types |-> 0]
    /\ unseen' = ReadableWith(k) \ phs

\* Any of the rows may be left out, and nobody is told: the SELECT fails, the
\* iteration breaks off (rows.Err() is not asked), or a row cannot be scanned.
\* counter starts at zero whatever the table holds.
LoadFromDB(k) ==
  \E phs \in SUBSET ReadableWith(k) :
    /\ inMemory' = [ph \in phs |-> LoadedMapping(ph)]
    /\ byOriginal' \in ReverseOf(phs)
    /\ counter' = [t \in Types |-> 0]
    /\ unseen' = ReadableWith(k) \ phs

Start(k) ==
  /\ phase = "down"
  /\ session < MaxSessions
  /\ LoadFromDB(k)
  /\ phase' = "open"
  /\ key' = k
  /\ session' = session + 1
  /\ restored' = FALSE
  /\ fresh' = {}
  /\ UNCHANGED <<rows, snapshot>>

-----------------------------------------------------------------------------
(***************************************************************************)
(* GetOrCreate.                                                            *)
(***************************************************************************)

\* Mutant: the number is the counter's value before it moves.
NewMappingFromZero(o, t) ==
  [placeholder |-> [label |-> LabelOf[t], num |-> counter[t]],
   original |-> o, type |-> t]

NewMapping(o, t) ==
  [placeholder |-> [label |-> LabelOf[t], num |-> counter[t] + 1],
   original |-> o, type |-> t]

\* INSERT OR REPLACE keyed on the placeholder.
PersistedRows(m) ==
  Put(rows, m.placeholder, [original |-> m.original, type |-> m.type, key |-> key])

\* The write may fail (always, once the database is closed): the error is
\* logged and the mapping stays in memory only.
PersistMapping(m) ==
  \/ /\ phase = "open"
     /\ rows' = PersistedRows(m)
     /\ unseen' = unseen \ {m.placeholder}
  \/ UNCHANGED <<rows, unseen>>

\* What a call for o with type t returns.
Answer(o, t) ==
  IF o \in DOMAIN byOriginal THEN inMemory[byOriginal[o]] ELSE NewMapping(o, t)

\* Mutant: the counter is never written back.
CreateWithoutCounting(o, t) ==
  LET m == NewMapping(o, t) IN
    /\ counter[t] < MaxNum
    /\ inMemory' = Put(inMemory, m.placeholder, m)
    /\ byOriginal' = Put(byOriginal, o, m.placeholder)
    /\ PersistMapping(m)
    /\ UNCHANGED counter

\* Mutant: a new value is not put into the reverse index.
CreateUnindexed(o, t) ==
  LET m == NewMapping(o, t) IN
    /\ counter[t] < MaxNum
    /\ counter' = [counter EXCEPT ![t] = @ + 1]
    /\ inMemory' = Put(inMemory, m.placeholder, m)
    /\ PersistMapping(m)
    /\ UNCHANGED byOriginal

\* Mutant: the reverse index gets the placeholder before the new one.
CreateMisindexed(o, t) ==
  LET m == NewMapping(o, t) IN
    /\ counter[t] < MaxNum
    /\ counter' = [counter EXCEPT ![t] = @ + 1]
    /\ inMemory' = Put(inMemory, m.placeholder, m)
    /\ byOriginal' =
         Put(byOriginal, o, IF counter[t] = 0 THEN m.placeholder
                            ELSE [m.placeholder EXCEPT !.num = @ - 1])
    /\ PersistMapping(m)

Create(o, t) ==
  LET m == NewMapping(o, t) IN
    /\ counter[t] < MaxNum
    /\ counter' = [counter EXCEPT ![t] = @ + 1]
    /\ inMemory' = Put(inMemory, m.placeholder, m)
    /\ byOriginal' = Put(byOriginal, o, m.placeholder)
    /\ PersistMapping(m)

\* Mutant: the reverse index is not consulted.
CreateAlways(o, t) ==
  /\ Running
  /\ Create(o, t)
  /\ fresh' = fresh \cup {o}
  /\ UNCHANGED <<phase, key, snapshot, session, restored>>

GetOrCreate(o, t) ==
  /\ Running
  /\ \/ /\ o \in DOMAIN byOriginal
        /\ UNCHANGED <<memory, rows, fresh, unseen>>
     \/ /\ o \notin DOMAIN byOriginal
        /\ Create(o, t)
        /\ fresh' = fresh \cup {o}
  /\ UNCHANGED <<phase, key, snapshot, session, restored>>

\* Lookup: the mapping a placeholder resolves to, if there is one.
Resolves(ph) == ph \in DOMAIN inMemory
Lookup(ph) == inMemory[ph]

-----------------------------------------------------------------------------
(***************************************************************************)
(* Snapshot, RestoreFromSnapshot, Close and the end of the process.        *)
(***************************************************************************)

TakeSnapshot ==
  /\ Running
  /\ snapshot' = [taken |-> TRUE, key |-> key, mappings |-> inMemory]
  /\ UNCHANGED <<phase, key, memory, rows, history>>

\* maps.Copy into inMemory, and nothing else: not into byOriginal, the
\* counters or the table.  A snapshot of another key is an error return.
RestoreFromSnapshot ==
  /\ Running
  /\ snapshot.taken
  /\ snapshot.key = key
  /\ inMemory' = Merge(inMemory, snapshot.mappings)
  /\ restored' = TRUE
  /\ UNCHANGED <<phase, key, byOriginal, counter, rows, snapshot, session, fresh,
                 unseen>>

Close ==
  /\ phase = "open"
  /\ phase' = "closed"
  /\ UNCHANGED <<key, memory, rows, snapshot, history>>

\* The process ends, after Close or without it: only the table is left.
Exit ==
  /\ Running
  /\ phase' = "down"
  /\ inMemory' = EmptyMap
  /\ byOriginal' = EmptyMap
  /\ counter' = [t \in Types |-> 0]
  /\ fresh' = {}
  /\ restored' = FALSE
  /\ unseen' = {}
  /\ UNCHANGED <<key, rows, snapshot, session>>

-----------------------------------------------------------------------------

\* The first start finds no table: migrate creates it empty.
Init ==
  /\ phase = "open"
  /\ key \in Keys
  /\ inMemory = EmptyMap
  /\ byOriginal = EmptyMap
  /\ counter = [t \in Types |-> 0]
  /\ rows = EmptyMap
  /\ snapshot = NoSnapshot
  /\ session = 1
  /\ restored = FALSE
  /\ fresh = {}
  /\ unseen = {}

Next ==
  \/ \E o \in Originals, t \in Types : GetOrCreate(o, t)
  \/ TakeSnapshot
  \/ RestoreFromSnapshot
  \/ Close
  \/ Exit
  \/ \E k \in Keys : Start(k)

Spec == Init /\ [][Next]_vars

-----------------------------------------------------------------------------
(***************************************************************************)
(* Properties.                                                             *)
(***************************************************************************)

\* Every variable has the shape the code declares, and a map entry is filed
\* under its own placeholder (mapping.go:21-28).
TypeOK ==
  /\ phase \in {"open", "closed", "down"}
  /\ key \in Keys
  /\ IsMap(inMemory, Placeholder, Mapping)
  /\ \A ph \in DOMAIN inMemory : inMemory[ph].placeholder = ph
  /\ IsMap(byOriginal, Originals, Placeholder)
  /\ counter \in [Types -> 0..MaxNum]
  /\ IsMap(rows, Placeholder, Row)
  /\ \/ snapshot = NoSnapshot
     \/ /\ snapshot = [taken |-> TRUE, key |-> snapshot.key,
                       mappings |-> snapshot.mappings]
        /\ snapshot.key \in Keys
        /\ IsMap(snapshot.mappings, Placeholder, Mapping)
        /\ \A ph \in DOMAIN snapshot.mappings :
             snapshot.mappings[ph].placeholder = ph
  /\ session \in 1..MaxSessions
  /\ restored \in BOOLEAN
  /\ fresh \subseteq DOMAIN byOriginal
  /\ unseen \subseteq ReadableWith(key)

\* A hit in GetOrCreate finds a mapping: whatever was loaded, restored or
\* overwritten, the placeholder of an indexed value is in inMemory, so no text
\* is ever rewritten with the zero Mapping's empty placeholder
\* (mapping.go:109-111).
HitsFindAMapping ==
  \A o \in DOMAIN byOriginal : byOriginal[o] \in DOMAIN inMemory

\* While the process runs, every row its key can read is in the maps, but for
\* those its load left out: a persisted value that was loaded or written by
\* this process gets no second placeholder, and its placeholder is known to
\* Lookup (mapping.go:76-101, 109, 136).
ReadableRowsAreKnown ==
  Running => \A ph \in ReadableWith(key) \ unseen :
               /\ ph \in DOMAIN inMemory
               /\ rows[ph].original \in DOMAIN byOriginal

\* A value gets a second row under a key only from a process that has not
\* loaded the row it had: neither a failed write nor a restart, nor a change
\* of key and back, doubles a value, only a load that came to less than the
\* table (mapping.go:77-100, 109-124, 206).
OnlyUnseenRowsAreDoubled ==
  [][\A p \in DOMAIN rows', q \in DOMAIN rows :
       /\ p # q
       /\ p \in DOMAIN rows => rows'[p] # rows[p]
       /\ rows[q].key = rows'[p].key
       /\ rows[q].original = rows'[p].original
       => q \in unseen]_vars

\* No two detection types share a label.
DistinctLabels ==
  \A t, u \in Types : LabelOf[t] = LabelOf[u] => t = u

\* The round trip: as long as labels are distinct and no snapshot was
\* restored, a value first seen by this process keeps resolving to itself,
\* through every later call of any type, failed writes, Close, and whatever an
\* earlier process left in the table (mapping.go:104-138).
FreshValuesResolve ==
  DistinctLabels /\ ~restored =>
    \A o \in fresh : inMemory[byOriginal[o]].original = o

\* The placeholders this process handed out for values it saw first.
Issued == {byOriginal[o] : o \in fresh}

\* A placeholder this process handed out never changes its meaning while the
\* process lives, except by a RestoreFromSnapshot: no create, failed write or
\* Close reassigns it, before or after a restore (mapping.go:114-124, 194).
IssuedNeverReassigned ==
  [][DistinctLabels /\ Running /\ Running' =>
       RestoreFromSnapshot \/ \A ph \in Issued : inMemory'[ph] = inMemory[ph]]_vars

Vault ==
  INSTANCE PlaceholderVault WITH
    Placeholders <- Placeholder,
    name <- byOriginal,
    value <- [ph \in DOMAIN inMemory |-> inMemory[ph].original]

\* With distinct labels the store is a placeholder vault for the life of the
\* first process on a new table, backups and restores of its own snapshots
\* included: every step is an Issue, a Restart or no step of the vault
\* (mapping.go:104-197).
ImplementsVault == Vault!Init /\ [][session' = 1 => Vault!Next]_(Vault!vars)

-----------------------------------------------------------------------------
(***************************************************************************)
(* What the code's own words promise without those conditions.             *)
(***************************************************************************)

\* The mapping GetOrCreate returns for a known value is that value's mapping.
AnswersAreForTheValue ==
  \A o \in DOMAIN byOriginal : inMemory[byOriginal[o]].original = o

\* Once a snapshot is restored, only another restore changes what a known
\* placeholder stands for.
RestoredNeverReassigned ==
  [][restored /\ Running' =>
       RestoreFromSnapshot
       \/ \A ph \in DOMAIN inMemory : inMemory'[ph].original = inMemory[ph].original]_vars
=============================================================================
