------------------------ MODULE RedactSessionProofs ------------------------
(***************************************************************************)
(* Proofs about MappingStore and about RedactSession, for any number of    *)
(* agents, any texts, values, types, labels and keys, and any interleaving *)
(* of their requests with each other and with restarts.                    *)
(*                                                                         *)
(* Part one is the store by itself.  Its inductive invariant IInv adds to  *)
(* the checked invariants that a fresh value's placeholder carries the     *)
(* label of some type and a number that type's counter has already passed: *)
(* that is why a later create, whose number is the counter plus one,       *)
(* cannot reuse it when labels are distinct.                               *)
(*                                                                         *)
(* Part two is the conversations over it, each step of which is a step of  *)
(* the store or leaves the store alone.                                    *)
(***************************************************************************)
EXTENDS RedactSession, TLAPS

(***************************************************************************)
(* Part one: the store.                                                    *)
(***************************************************************************)

(***************************************************************************)
(* Go maps.                                                                *)
(***************************************************************************)

\* Put keeps the type of a map.
LEMMA PutType ==
  ASSUME NEW D, NEW R, NEW m, IsMap(m, D, R), NEW k \in D, NEW v \in R
  PROVE  IsMap(Put(m, k, v), D, R)
BY DEF Put, IsMap

\* The empty map has every type.
LEMMA EmptyType ==
  ASSUME NEW D, NEW R
  PROVE  IsMap(EmptyMap, D, R) /\ DOMAIN EmptyMap = {}
BY DEF EmptyMap, IsMap

(***************************************************************************)
(* The inductive invariant.                                                *)
(***************************************************************************)

\* The placeholder p was numbered by this process.
Numbered(p) == \E t \in Types : p.label = LabelOf[t] /\ p.num <= counter[t]

FreshAreNumbered == \A o \in fresh : Numbered(byOriginal[o])

\* A value keeps the placeholder it was loaded with, and that placeholder its
\* value, until this process hands the placeholder out again.
HitsAreRightOrReissued ==
  DistinctLabels /\ ~restored =>
    \A o \in DOMAIN byOriginal :
      inMemory[byOriginal[o]].original = o \/ byOriginal[o] \in Issued

IInv ==
  /\ TypeOK
  /\ HitsFindAMapping
  /\ ReadableRowsAreKnown
  /\ FreshAreNumbered
  /\ FreshValuesResolve
  /\ HitsAreRightOrReissued

\* The mapping a create makes has the declared type.
LEMMA NewMappingType ==
  ASSUME TypeOK, NEW o \in Originals, NEW t \in Types, counter[t] < MaxNum
  PROVE  /\ NewMapping(o, t) \in Mapping
         /\ NewMapping(o, t).placeholder \in Placeholder
         /\ NewMapping(o, t).original = o
         /\ NewMapping(o, t).type = t
         /\ NewMapping(o, t).placeholder.label = LabelOf[t]
         /\ NewMapping(o, t).placeholder.num = counter[t] + 1
<1>1. counter[t] \in 0..MaxNum /\ LabelOf[t] \in Labels
  BY LabelAssumption DEF TypeOK
<1>2. counter[t] + 1 \in 1..MaxNum
  BY <1>1, BoundAssumption
<1>3. QED
  BY <1>1, <1>2 DEF NewMapping, Mapping, Placeholder

\* With distinct labels, no fresh value already has the placeholder a create
\* is about to hand out.
LEMMA NewPlaceholderIsNew ==
  ASSUME TypeOK, DistinctLabels, NEW t \in Types, NEW p, Numbered(p)
  PROVE  ~(p.label = LabelOf[t] /\ p.num = counter[t] + 1)
<1>1. PICK u \in Types : p.label = LabelOf[u] /\ p.num <= counter[u]
  BY DEF Numbered
<1>2. counter[t] \in Nat
  BY BoundAssumption DEF TypeOK
<1>3. CASE LabelOf[u] = LabelOf[t]
  BY <1>1, <1>2, <1>3 DEF DistinctLabels
<1>4. CASE LabelOf[u] # LabelOf[t]
  BY <1>1, <1>4
<1>5. QED BY <1>3, <1>4

LEMMA InitIInv == Init => IInv
<1> SUFFICES ASSUME Init PROVE IInv
  OBVIOUS
<1>0. /\ IsMap(EmptyMap, Placeholder, Mapping)
      /\ IsMap(EmptyMap, Originals, Placeholder)
      /\ IsMap(EmptyMap, Placeholder, Row)
      /\ DOMAIN EmptyMap = {}
  BY EmptyType
<1>a. [t \in Types |-> 0] \in [Types -> 0..MaxNum] /\ 1 \in 1..MaxSessions
  BY BoundAssumption
<1>1. TypeOK
  BY <1>0, <1>a DEF Init, TypeOK, ReadableWith
<1>2. DOMAIN byOriginal = {} /\ DOMAIN rows = {} /\ fresh = {}
  BY <1>0 DEF Init
<1>3. QED
  BY <1>1, <1>2 DEF IInv, HitsFindAMapping, ReadableRowsAreKnown,
     ReadableWith, FreshAreNumbered, FreshValuesResolve, HitsAreRightOrReissued

(***************************************************************************)
(* GetOrCreate.                                                            *)
(***************************************************************************)

LEMMA GetOrCreateIInv ==
  ASSUME IInv, NEW o \in Originals, NEW t \in Types, GetOrCreate(o, t)
  PROVE  IInv'
<1>a. CASE o \in DOMAIN byOriginal
  <2>1. UNCHANGED vars
    BY <1>a DEF GetOrCreate, vars, memory
  <2>2. QED
    BY <2>1 DEF IInv, TypeOK, HitsFindAMapping, ReadableRowsAreKnown,
       ReadableWith, FreshAreNumbered, Numbered, FreshValuesResolve,
       HitsAreRightOrReissued, Issued, Running, vars
<1>b. CASE o \notin DOMAIN byOriginal
  <2> DEFINE m == NewMapping(o, t)
             ph == m.placeholder
             row == [original |-> o, type |-> t, key |-> key]
  <2>1. /\ Running
        /\ counter[t] < MaxNum
        /\ counter' = [counter EXCEPT ![t] = @ + 1]
        /\ inMemory' = Put(inMemory, ph, m)
        /\ byOriginal' = Put(byOriginal, o, ph)
        /\ PersistMapping(m)
        /\ fresh' = fresh \cup {o}
        /\ UNCHANGED <<phase, key, snapshot, session, restored>>
    BY <1>b DEF GetOrCreate, Create
  <2>2. TypeOK
    BY DEF IInv
  <2>3. /\ m \in Mapping /\ ph \in Placeholder
        /\ m.original = o /\ m.type = t /\ m.placeholder = ph
        /\ ph.label = LabelOf[t] /\ ph.num = counter[t] + 1
    BY <2>1, <2>2, NewMappingType
  <2> HIDE DEF m, ph
  <2>4. \/ rows' = rows /\ unseen' = unseen
        \/ rows' = Put(rows, ph, row) /\ unseen' = unseen \ {ph}
    BY <2>1, <2>3 DEF PersistMapping, PersistedRows
  <2>5. row \in Row
    BY <2>2 DEF TypeOK, Row
  <2> HIDE DEF row
  <2>6. /\ DOMAIN inMemory' = DOMAIN inMemory \cup {ph}
        /\ inMemory'[ph] = m
        /\ \A x \in DOMAIN inMemory : x # ph => inMemory'[x] = inMemory[x]
    BY <2>1 DEF Put
  <2>7. /\ DOMAIN byOriginal' = DOMAIN byOriginal \cup {o}
        /\ byOriginal'[o] = ph
        /\ \A x \in DOMAIN byOriginal : byOriginal'[x] = byOriginal[x]
    BY <1>b, <2>1 DEF Put
  <2>8. /\ counter' \in [Types -> 0..MaxNum]
        /\ \A u \in Types : counter[u] <= counter'[u]
        /\ counter'[t] = counter[t] + 1
    BY <2>1, <2>2, BoundAssumption DEF TypeOK
  <2>10. TypeOK'
    <3>1. IsMap(inMemory', Placeholder, Mapping)
      BY <2>1, <2>2, <2>3, PutType DEF TypeOK
    <3>2. IsMap(byOriginal', Originals, Placeholder)
      BY <2>1, <2>2, <2>3, PutType DEF TypeOK
    <3>3. IsMap(rows', Placeholder, Row)
      BY <2>2, <2>3, <2>4, <2>5, PutType DEF TypeOK
    <3>4. \A x \in DOMAIN inMemory' : inMemory'[x].placeholder = x
      BY <2>2, <2>3, <2>6 DEF TypeOK
    <3>5. fresh' \subseteq DOMAIN byOriginal'
      BY <2>1, <2>2, <2>7 DEF TypeOK
    <3>6. unseen' \subseteq ReadableWith(key)'
      <4>1. unseen \subseteq ReadableWith(key) /\ key' = key
        BY <2>1, <2>2 DEF TypeOK
      <4>2. CASE rows' = rows /\ unseen' = unseen
        BY <4>1, <4>2 DEF ReadableWith
      <4>3. CASE rows' = Put(rows, ph, row) /\ unseen' = unseen \ {ph}
        BY <4>1, <4>3 DEF ReadableWith, Put
      <4> QED BY <2>4, <4>2, <4>3
    <3>7. QED
      BY <2>1, <2>2, <2>8, <3>1, <3>2, <3>3, <3>4, <3>5, <3>6 DEF TypeOK
  <2>11. HitsFindAMapping'
    BY <2>6, <2>7 DEF IInv, HitsFindAMapping
  <2>13. ASSUME rows' = Put(rows, ph, row)
         PROVE  /\ DOMAIN rows' = DOMAIN rows \cup {ph}
                /\ rows'[ph].original = o /\ rows'[ph].key = key
                /\ \A x \in DOMAIN rows : x # ph => rows'[x] = rows[x]
    BY <2>13 DEF Put, row
  <2>15. ReadableRowsAreKnown'
    <3>1. \A x \in DOMAIN rows : rows[x].key = key /\ x \notin unseen =>
            x \in DOMAIN inMemory' /\ rows[x].original \in DOMAIN byOriginal'
      BY <2>1, <2>6, <2>7 DEF IInv, ReadableRowsAreKnown, ReadableWith
    <3>2. CASE rows' = rows /\ unseen' = unseen
      BY <2>1, <3>1, <3>2 DEF ReadableRowsAreKnown, ReadableWith
    <3>3. CASE rows' = Put(rows, ph, row) /\ unseen' = unseen \ {ph}
      BY <2>1, <2>6, <2>7, <2>13, <3>1, <3>3 DEF ReadableRowsAreKnown, ReadableWith
    <3>4. QED BY <2>4, <3>2, <3>3
  <2>16. FreshAreNumbered'
    <3> SUFFICES ASSUME NEW x \in fresh'
                 PROVE  \E u \in Types : /\ byOriginal'[x].label = LabelOf[u]
                                         /\ byOriginal'[x].num <= counter'[u]
      BY DEF FreshAreNumbered, Numbered
    <3>1. CASE x = o
      <4>1. counter[t] + 1 <= counter'[t]
        BY <2>2, <2>8, BoundAssumption DEF TypeOK
      <4>2. QED
        BY <2>3, <2>7, <3>1, <4>1
    <3>2. CASE x # o
      <4>1. x \in fresh /\ x \in DOMAIN byOriginal /\ byOriginal'[x] = byOriginal[x]
        BY <2>1, <2>2, <2>7, <3>2 DEF TypeOK
      <4>2. PICK u \in Types :
              byOriginal[x].label = LabelOf[u] /\ byOriginal[x].num <= counter[u]
        BY <4>1 DEF IInv, FreshAreNumbered, Numbered
      <4>3. byOriginal[x].num \in Nat /\ counter[u] \in Nat /\ counter'[u] \in Nat
        BY <2>2, <2>8, <4>1, BoundAssumption DEF TypeOK, IsMap, Placeholder
      <4>4. byOriginal[x].num <= counter'[u]
        BY <2>8, <4>2, <4>3
      <4>5. QED BY <4>1, <4>2, <4>4
    <3>3. QED BY <3>1, <3>2
  <2>17. FreshValuesResolve'
    <3> SUFFICES ASSUME DistinctLabels, ~restored, NEW x \in fresh'
                 PROVE  inMemory'[byOriginal'[x]].original = x
      BY <2>1 DEF FreshValuesResolve, DistinctLabels
    <3>1. CASE x = o
      BY <2>3, <2>6, <2>7, <3>1
    <3>2. CASE x # o
      <4>1. x \in fresh /\ x \in DOMAIN byOriginal /\ byOriginal'[x] = byOriginal[x]
        BY <2>1, <2>2, <2>7, <3>2 DEF TypeOK
      <4>2. byOriginal[x] \in DOMAIN inMemory /\ Numbered(byOriginal[x])
        BY <4>1 DEF IInv, HitsFindAMapping, FreshAreNumbered
      <4>3. byOriginal[x] # ph
        BY <2>2, <2>3, <4>2, NewPlaceholderIsNew
      <4>4. QED
        BY <2>6, <4>1, <4>2, <4>3 DEF IInv, FreshValuesResolve
    <3>3. QED BY <3>1, <3>2
  <2>18. HitsAreRightOrReissued'
    <3> SUFFICES ASSUME DistinctLabels, ~restored, NEW x \in DOMAIN byOriginal'
                 PROVE  \/ inMemory'[byOriginal'[x]].original = x
                        \/ byOriginal'[x] \in Issued'
      BY <2>1 DEF HitsAreRightOrReissued, DistinctLabels
    <3>1. ph \in Issued'
      BY <2>1, <2>7 DEF Issued
    <3>2. Issued \subseteq Issued'
      BY <2>1, <2>2, <2>7 DEF Issued, TypeOK
    <3>3. CASE x # o /\ byOriginal[x] # ph
      <4>1. /\ x \in DOMAIN byOriginal /\ byOriginal'[x] = byOriginal[x]
            /\ byOriginal[x] \in DOMAIN inMemory
        BY <2>7, <3>3 DEF IInv, HitsFindAMapping
      <4>2. inMemory'[byOriginal[x]] = inMemory[byOriginal[x]]
        BY <2>6, <3>3, <4>1
      <4> QED BY <3>2, <4>1, <4>2 DEF IInv, HitsAreRightOrReissued
    <3>4. CASE x = o \/ byOriginal[x] = ph
      BY <2>7, <3>1, <3>4
    <3> QED BY <3>3, <3>4
  <2>19. QED
    BY <2>10, <2>11, <2>15, <2>16, <2>17, <2>18 DEF IInv
<1>c. QED BY <1>a, <1>b

(***************************************************************************)
(* The other steps.                                                        *)
(***************************************************************************)

LEMMA TakeSnapshotIInv ==
  ASSUME IInv, TakeSnapshot
  PROVE  IInv'
<1>1. /\ Running
      /\ snapshot' = [taken |-> TRUE, key |-> key, mappings |-> inMemory]
      /\ UNCHANGED <<phase, key, inMemory, byOriginal, counter, rows, session,
                     restored, fresh, unseen>>
  BY DEF TakeSnapshot, memory, history
<1>2. TypeOK'
  BY <1>1 DEF IInv, TypeOK, ReadableWith
<1>3. QED
  BY <1>1, <1>2 DEF IInv, HitsFindAMapping, ReadableRowsAreKnown, ReadableWith,
     FreshAreNumbered, Numbered, FreshValuesResolve, HitsAreRightOrReissued,
     Issued, Running

LEMMA RestoreFromSnapshotIInv ==
  ASSUME IInv, RestoreFromSnapshot
  PROVE  IInv'
<1>1. /\ Running
      /\ snapshot.taken
      /\ inMemory' = Merge(inMemory, snapshot.mappings)
      /\ restored' = TRUE
      /\ UNCHANGED <<phase, key, byOriginal, counter, rows, snapshot, session,
                     fresh, unseen>>
  BY DEF RestoreFromSnapshot
<1>2. /\ IsMap(inMemory, Placeholder, Mapping)
      /\ IsMap(snapshot.mappings, Placeholder, Mapping)
      /\ \A ph \in DOMAIN snapshot.mappings :
           snapshot.mappings[ph].placeholder = ph
  BY <1>1 DEF IInv, TypeOK, NoSnapshot
<1>3. /\ IsMap(inMemory', Placeholder, Mapping)
      /\ DOMAIN inMemory' = DOMAIN inMemory \cup DOMAIN snapshot.mappings
      /\ \A x \in DOMAIN snapshot.mappings : inMemory'[x] = snapshot.mappings[x]
      /\ \A x \in DOMAIN inMemory :
           x \notin DOMAIN snapshot.mappings => inMemory'[x] = inMemory[x]
  BY <1>1, <1>2 DEF Merge, IsMap
<1>4. TypeOK'
  <2>1. \A ph \in DOMAIN inMemory' : inMemory'[ph].placeholder = ph
    BY <1>2, <1>3 DEF IInv, TypeOK
  <2>2. QED
    BY <1>1, <1>3, <2>1 DEF IInv, TypeOK, ReadableWith
<1>5. QED
  BY <1>1, <1>3, <1>4 DEF IInv, HitsFindAMapping, ReadableRowsAreKnown,
     ReadableWith, FreshAreNumbered, Numbered, FreshValuesResolve,
     HitsAreRightOrReissued, Running

LEMMA CloseIInv ==
  ASSUME IInv, Close
  PROVE  IInv'
<1>1. /\ phase = "open" /\ phase' = "closed"
      /\ UNCHANGED <<key, inMemory, byOriginal, counter, rows, snapshot, session,
                     restored, fresh, unseen>>
  BY DEF Close, memory, history
<1>2. TypeOK'
  BY <1>1 DEF IInv, TypeOK, ReadableWith
<1>3. QED
  BY <1>1, <1>2 DEF IInv, HitsFindAMapping, ReadableRowsAreKnown, ReadableWith,
     FreshAreNumbered, Numbered, FreshValuesResolve, HitsAreRightOrReissued,
     Issued, Running

LEMMA ExitIInv ==
  ASSUME IInv, Exit
  PROVE  IInv'
<1>0. /\ IsMap(EmptyMap, Placeholder, Mapping)
      /\ IsMap(EmptyMap, Originals, Placeholder)
      /\ DOMAIN EmptyMap = {}
      /\ [t \in Types |-> 0] \in [Types -> 0..MaxNum]
  BY EmptyType, BoundAssumption
<1>1. TypeOK'
  BY <1>0 DEF Exit, IInv, TypeOK
<1>2. QED
  BY <1>0, <1>1 DEF Exit, IInv, HitsFindAMapping, ReadableRowsAreKnown,
     FreshAreNumbered, FreshValuesResolve, HitsAreRightOrReissued, Running

LEMMA StartIInv ==
  ASSUME IInv, NEW k \in Keys, Start(k)
  PROVE  IInv'
<1>1. /\ session < MaxSessions
      /\ phase' = "open" /\ key' = k /\ session' = session + 1
      /\ restored' = FALSE /\ fresh' = {}
      /\ UNCHANGED <<rows, snapshot>>
  BY DEF Start
<1>2. PICK phs \in SUBSET ReadableWith(k) :
        /\ inMemory' = [ph \in phs |-> LoadedMapping(ph)]
        /\ byOriginal' \in ReverseOf(phs)
        /\ counter' = [t \in Types |-> 0]
        /\ unseen' = ReadableWith(k) \ phs
  BY DEF Start, LoadFromDB
<1>3. /\ phs \subseteq Placeholder
      /\ \A ph \in phs : rows[ph] \in Row
  BY DEF IInv, TypeOK, IsMap, ReadableWith
<1>4. /\ IsMap(inMemory', Placeholder, Mapping)
      /\ DOMAIN inMemory' = phs
      /\ \A ph \in phs : /\ inMemory'[ph].placeholder = ph
                         /\ inMemory'[ph].original = rows[ph].original
  <2>1. \A ph \in phs : LoadedMapping(ph) \in Mapping
    BY <1>3 DEF LoadedMapping, Mapping, Row
  <2> QED BY <1>2, <1>3, <2>1 DEF IsMap, LoadedMapping
<1>5. /\ DOMAIN byOriginal' = {rows[ph].original : ph \in phs}
      /\ byOriginal' \in [DOMAIN byOriginal' -> phs]
      /\ \A o \in DOMAIN byOriginal' : rows[byOriginal'[o]].original = o
  BY <1>2 DEF ReverseOf
<1>6. IsMap(byOriginal', Originals, Placeholder)
  <2>1. DOMAIN byOriginal' \subseteq Originals
    BY <1>3, <1>5 DEF Row
  <2> QED BY <1>3, <1>5, <2>1 DEF IsMap
<1>7. counter' \in [Types -> 0..MaxNum] /\ session' \in 1..MaxSessions
  BY <1>1, <1>2, BoundAssumption DEF IInv, TypeOK
<1>8. ReadableWith(key)' = ReadableWith(k)
  BY <1>1 DEF ReadableWith
<1>9. TypeOK'
  <2>1. unseen' \subseteq ReadableWith(key)'
    BY <1>2, <1>8
  <2> QED BY <1>1, <1>4, <1>6, <1>7, <2>1 DEF IInv, TypeOK
<1>10. HitsFindAMapping'
  BY <1>4, <1>5 DEF HitsFindAMapping
<1>11. ReadableRowsAreKnown'
  BY <1>1, <1>2, <1>4, <1>5, <1>8 DEF ReadableRowsAreKnown
<1>12. HitsAreRightOrReissued'
  BY <1>4, <1>5 DEF HitsAreRightOrReissued
<1>13. QED
  BY <1>1, <1>9, <1>10, <1>11, <1>12 DEF IInv, FreshAreNumbered, FreshValuesResolve

\* Every step keeps the inductive invariant.
LEMMA NextIInv == IInv /\ [Next]_vars => IInv'
<1> SUFFICES ASSUME IInv, [Next]_vars PROVE IInv'
  OBVIOUS
<1>1. ASSUME NEW o \in Originals, NEW t \in Types, GetOrCreate(o, t) PROVE IInv'
  BY <1>1, GetOrCreateIInv
<1>2. CASE TakeSnapshot
  BY <1>2, TakeSnapshotIInv
<1>3. CASE RestoreFromSnapshot
  BY <1>3, RestoreFromSnapshotIInv
<1>4. CASE Close
  BY <1>4, CloseIInv
<1>5. CASE Exit
  BY <1>5, ExitIInv
<1>6. ASSUME NEW k \in Keys, Start(k) PROVE IInv'
  BY <1>6, StartIInv
<1>7. CASE UNCHANGED vars
  BY <1>7 DEF vars, IInv, TypeOK, HitsFindAMapping, ReadableRowsAreKnown,
     ReadableWith, FreshAreNumbered, Numbered, FreshValuesResolve,
     HitsAreRightOrReissued, Issued, Running
<1>8. QED
  BY <1>1, <1>2, <1>3, <1>4, <1>5, <1>6, <1>7 DEF Next

\* The inductive invariant holds of every reachable state.
THEOREM Invariance == Spec => []IInv
<1>1. QED
  BY InitIInv, NextIInv, PTL DEF Spec

(***************************************************************************)
(* The results.                                                            *)
(***************************************************************************)

\* Every map of the store is well typed, each entry under its own placeholder.
THEOREM TypeCorrect == Spec => []TypeOK
<1>1. IInv => TypeOK
  BY DEF IInv
<1>2. QED BY <1>1, Invariance, PTL

\* A reverse-index hit always finds a mapping.
THEOREM HitsAlwaysFind == Spec => []HitsFindAMapping
<1>1. IInv => HitsFindAMapping
  BY DEF IInv
<1>2. QED BY <1>1, Invariance, PTL

\* The maps cover every row the process can read, but for those its load has
\* left out and nothing has been written over.
THEOREM RowsAreKnown == Spec => []ReadableRowsAreKnown
<1>1. IInv => ReadableRowsAreKnown
  BY DEF IInv
<1>2. QED BY <1>1, Invariance, PTL

\* A value is given a second row only where the process has not loaded the
\* first: the other way to a new row is a create, and a create is for a value
\* that the maps do not know.
THEOREM RowsAreDoubledUnseen == Spec => OnlyUnseenRowsAreDoubled
<1> DEFINE Doubles(p, q) ==
             /\ p # q
             /\ p \in DOMAIN rows => rows'[p] # rows[p]
             /\ rows[q].key = rows'[p].key
             /\ rows[q].original = rows'[p].original
           Once == \A p \in DOMAIN rows', q \in DOMAIN rows :
                     Doubles(p, q) => q \in unseen
<1>1. IInv /\ [Next]_vars => [Once]_vars
  <2> SUFFICES ASSUME IInv, Next,
                      NEW p \in DOMAIN rows', NEW q \in DOMAIN rows, Doubles(p, q)
               PROVE  q \in unseen
    BY DEF vars
  <2>1. CASE rows' = rows
    BY <2>1
  <2>2. CASE rows' # rows
    <3>1. PICK o \in Originals, t \in Types : GetOrCreate(o, t)
      BY <2>2 DEF Next, TakeSnapshot, RestoreFromSnapshot, Close, Exit, Start
    <3>2. Running /\ o \notin DOMAIN byOriginal /\ Create(o, t)
      BY <2>2, <3>1 DEF GetOrCreate
    <3>3. rows' = Put(rows, NewMapping(o, t).placeholder,
                      [original |-> o, type |-> t, key |-> key])
      BY <2>2, <3>2 DEF Create, PersistMapping, PersistedRows, NewMapping
    <3>4. rows'[p].original = o /\ rows'[p].key = key
      BY <3>3 DEF Put
    <3>5. q \in ReadableWith(key) /\ rows[q].original \notin DOMAIN byOriginal
      BY <3>2, <3>4 DEF ReadableWith
    <3> QED BY <3>2, <3>5 DEF IInv, ReadableRowsAreKnown
  <2> QED BY <2>1, <2>2
<1>2. QED
  BY <1>1, Invariance, PTL DEF Spec, OnlyUnseenRowsAreDoubled, Once, Doubles

\* Values a process saw first keep resolving to themselves.
THEOREM FreshKeepResolving == Spec => []FreshValuesResolve
<1>1. IInv => FreshValuesResolve
  BY DEF IInv
<1>2. QED BY <1>1, Invariance, PTL

\* Outside a restore, no step of a running process gives a placeholder it has
\* handed out another meaning.
THEOREM IssuedIsStable == Spec => IssuedNeverReassigned
<1> DEFINE Stable == DistinctLabels /\ Running /\ Running' =>
                       \/ RestoreFromSnapshot
                       \/ \A ph \in Issued : inMemory'[ph] = inMemory[ph]
<1>1. IInv /\ [Next]_vars => [Stable]_vars
  <2> SUFFICES ASSUME IInv, Next, DistinctLabels, Running, Running',
                      ~RestoreFromSnapshot,
                      NEW ph \in Issued
               PROVE  inMemory'[ph] = inMemory[ph]
    BY DEF vars
  <2>1. PICK x \in fresh : ph = byOriginal[x]
    BY DEF Issued
  <2>2. ph \in DOMAIN inMemory /\ Numbered(ph)
    BY <2>1 DEF IInv, TypeOK, HitsFindAMapping, FreshAreNumbered
  <2>3. ASSUME NEW o \in Originals, NEW t \in Types, GetOrCreate(o, t)
        PROVE  inMemory'[ph] = inMemory[ph]
    <3>1. CASE o \in DOMAIN byOriginal
      BY <2>3, <3>1 DEF GetOrCreate, memory
    <3>2. CASE o \notin DOMAIN byOriginal
      <4> DEFINE new == NewMapping(o, t).placeholder
      <4>1. counter[t] < MaxNum /\ inMemory' = Put(inMemory, new, NewMapping(o, t))
        BY <2>3, <3>2 DEF GetOrCreate, Create
      <4>2. new.label = LabelOf[t] /\ new.num = counter[t] + 1
        BY <4>1, NewMappingType DEF IInv
      <4>3. ph # new
        BY <2>2, <4>2, NewPlaceholderIsNew DEF IInv
      <4>4. QED
        BY <2>2, <4>1, <4>3 DEF Put
    <3>3. QED BY <3>1, <3>2
  <2>4. CASE TakeSnapshot
    BY <2>4 DEF TakeSnapshot, memory
  <2>5. CASE Close
    BY <2>5 DEF Close, memory
  <2>6. CASE Exit
    BY <2>6 DEF Exit, Running
  <2>7. ASSUME NEW k \in Keys, Start(k) PROVE FALSE
    BY <2>7 DEF Start, Running
  <2>8. QED
    BY <2>3, <2>4, <2>5, <2>6, <2>7 DEF Next
<1>2. QED
  BY <1>1, Invariance, PTL DEF Spec, IssuedNeverReassigned, Stable

(***************************************************************************)
(* One process with distinct labels implements the vault.  The invariant   *)
(* drops the condition ~restored: every entry is numbered by this process, *)
(* and a snapshot it took is still part of its map, so restoring it        *)
(* changes nothing.                                                        *)
(***************************************************************************)

SnapshotIsKept ==
  Running /\ snapshot.taken =>
    \A ph \in DOMAIN snapshot.mappings :
      ph \in DOMAIN inMemory /\ inMemory[ph] = snapshot.mappings[ph]

VaultInv ==
  /\ IInv
  /\ \A ph \in DOMAIN inMemory : Numbered(ph)
  /\ SnapshotIsKept
  /\ AnswersAreForTheValue

\* A create in a state where every entry is numbered is an Issue of the vault.
LEMMA CreateIssues ==
  ASSUME VaultInv, DistinctLabels,
         NEW o \in Originals \ DOMAIN byOriginal, NEW t \in Types,
         GetOrCreate(o, t)
  PROVE  Vault!Issue(o) /\ VaultInv'
<1> DEFINE m == NewMapping(o, t)
           new == m.placeholder
<1>1. /\ counter[t] < MaxNum
      /\ Running
      /\ inMemory' = Put(inMemory, new, m)
      /\ byOriginal' = Put(byOriginal, o, new)
      /\ counter' = [counter EXCEPT ![t] = @ + 1]
      /\ UNCHANGED snapshot
  BY DEF GetOrCreate, Create
<1>2. /\ new \in Placeholder /\ m.original = o
      /\ new.label = LabelOf[t] /\ new.num = counter[t] + 1
  BY <1>1, NewMappingType DEF VaultInv, IInv
<1>3. new \notin DOMAIN inMemory
  BY <1>2, NewPlaceholderIsNew DEF VaultInv, IInv
<1> HIDE DEF m, new
<1>4. /\ DOMAIN inMemory' = DOMAIN inMemory \cup {new}
      /\ inMemory'[new] = m
      /\ \A ph \in DOMAIN inMemory : inMemory'[ph] = inMemory[ph]
  BY <1>1, <1>3 DEF Put
<1>5. /\ DOMAIN byOriginal' = DOMAIN byOriginal \cup {o}
      /\ byOriginal'[o] = new
      /\ \A x \in DOMAIN byOriginal : byOriginal'[x] = byOriginal[x]
  BY <1>1 DEF Put
<1>6. Vault!Issue(o)
  <2>1. byOriginal' =
          [x \in DOMAIN byOriginal \cup {o} |-> IF x = o THEN new ELSE byOriginal[x]]
    BY <1>1 DEF Put
  <2> DEFINE val == [ph \in DOMAIN inMemory |-> inMemory[ph].original]
  <2>2. [ph \in DOMAIN inMemory' |-> inMemory'[ph].original] =
          [p \in DOMAIN val \cup {new} |-> IF p = new THEN o ELSE val[p]]
    BY <1>2, <1>3, <1>4
  <2>3. QED
    BY <1>2, <1>3, <2>1, <2>2 DEF Vault!Issue
<1>7. IInv'
  BY GetOrCreateIInv DEF VaultInv
<1>8. (\A ph \in DOMAIN inMemory : Numbered(ph))'
  <2>1. counter[t] \in Nat /\ \A u \in Types : counter[u] \in Nat
    BY BoundAssumption DEF VaultInv, IInv, TypeOK
  <2>2. counter \in [Types -> 0..MaxNum]
    BY DEF VaultInv, IInv, TypeOK
  <2>3. counter'[t] = counter[t] + 1 /\ \A u \in Types : u # t => counter'[u] = counter[u]
    BY <1>1, <2>2
  <2>4. \A ph \in DOMAIN inMemory : ph.num \in Nat
    BY DEF VaultInv, IInv, TypeOK, IsMap, Placeholder
  <2>5. \A ph \in DOMAIN inMemory : \E u \in Types :
          ph.label = LabelOf[u] /\ ph.num <= counter'[u]
    <3> SUFFICES ASSUME NEW ph \in DOMAIN inMemory
                 PROVE  \E u \in Types : ph.label = LabelOf[u] /\ ph.num <= counter'[u]
      OBVIOUS
    <3>1. PICK u \in Types : ph.label = LabelOf[u] /\ ph.num <= counter[u]
      BY DEF VaultInv, Numbered
    <3>2. ph.num <= counter'[u]
      BY <2>1, <2>3, <2>4, <3>1
    <3>3. QED BY <3>1, <3>2
  <2>6. new.label = LabelOf[t] /\ new.num <= counter'[t]
    BY <1>2, <2>1, <2>3
  <2>7. QED
    BY <1>4, <2>5, <2>6 DEF Numbered
<1>9. SnapshotIsKept'
  BY <1>1, <1>4 DEF VaultInv, SnapshotIsKept
<1>10. AnswersAreForTheValue'
  BY <1>2, <1>3, <1>4, <1>5 DEF VaultInv, IInv, HitsFindAMapping,
     AnswersAreForTheValue
<1>11. QED
  BY <1>6, <1>7, <1>8, <1>9, <1>10 DEF VaultInv

\* Restoring a snapshot this process took changes nothing.
LEMMA RestoreChangesNothing ==
  ASSUME VaultInv, RestoreFromSnapshot
  PROVE  inMemory' = inMemory
<1>1. /\ inMemory' = Merge(inMemory, snapshot.mappings)
      /\ \A ph \in DOMAIN snapshot.mappings :
           ph \in DOMAIN inMemory /\ inMemory[ph] = snapshot.mappings[ph]
  BY DEF VaultInv, SnapshotIsKept, RestoreFromSnapshot
<1>2. inMemory = [ph \in DOMAIN inMemory |-> inMemory[ph]]
  BY DEF VaultInv, IInv, TypeOK, IsMap
<1>3. inMemory' = [ph \in DOMAIN inMemory |-> inMemory[ph]]
  BY <1>1 DEF Merge
<1>4. QED BY <1>2, <1>3

\* Every step of the first process is a step of the vault, or none.
LEMMA StepRefines ==
  ASSUME DistinctLabels, VaultInv, session = 1, session' = 1, [Next]_vars
  PROVE  VaultInv' /\ [Vault!Next]_(Vault!vars)
<1>0. IInv'
  BY NextIInv DEF VaultInv
<1>1. ASSUME UNCHANGED <<inMemory, byOriginal, counter>>, SnapshotIsKept'
      PROVE  VaultInv' /\ UNCHANGED Vault!vars
  BY <1>0, <1>1 DEF VaultInv, Numbered, AnswersAreForTheValue, Vault!vars
<1>2. ASSUME NEW o \in Originals, NEW t \in Types, GetOrCreate(o, t)
      PROVE  VaultInv' /\ [Vault!Next]_(Vault!vars)
  <2>1. CASE o \in DOMAIN byOriginal
    <3>1. UNCHANGED <<inMemory, byOriginal, counter, snapshot, phase>>
      BY <1>2, <2>1 DEF GetOrCreate, memory
    <3>2. QED
      BY <1>1, <3>1 DEF VaultInv, SnapshotIsKept, Running
  <2>2. CASE o \notin DOMAIN byOriginal
    BY <1>2, <2>2, CreateIssues DEF Vault!Next
  <2>3. QED BY <2>1, <2>2
<1>3. CASE TakeSnapshot
  <2>1. /\ UNCHANGED <<inMemory, byOriginal, counter>>
        /\ snapshot' = [taken |-> TRUE, key |-> key, mappings |-> inMemory]
    BY <1>3 DEF TakeSnapshot, memory
  <2>2. QED
    BY <1>1, <2>1 DEF SnapshotIsKept
<1>4. CASE RestoreFromSnapshot
  <2>1. UNCHANGED <<inMemory, byOriginal, counter, snapshot, phase>>
    BY <1>4, RestoreChangesNothing DEF RestoreFromSnapshot
  <2>2. QED
    BY <1>1, <2>1 DEF VaultInv, SnapshotIsKept, Running
<1>5. CASE Close
  <2>1. UNCHANGED <<inMemory, byOriginal, counter, snapshot>> /\ phase = "open"
    BY <1>5 DEF Close, memory
  <2>2. QED
    BY <1>1, <2>1 DEF VaultInv, SnapshotIsKept, Running
<1>6. CASE Exit
  <2>1. /\ DOMAIN inMemory' = {} /\ DOMAIN byOriginal' = {}
        /\ ~Running'
    BY <1>6 DEF Exit, EmptyMap, Running
  <2>2. VaultInv'
    BY <1>0, <2>1 DEF VaultInv, SnapshotIsKept, AnswersAreForTheValue
  <2>3. Vault!Restart
    BY <2>1 DEF Vault!Restart, Vault!Reversible
  <2>4. QED
    BY <2>2, <2>3 DEF Vault!Next
<1>7. ASSUME NEW k \in Keys, Start(k) PROVE FALSE
  BY <1>7 DEF Start
<1>8. CASE UNCHANGED vars
  BY <1>1, <1>8 DEF vars, VaultInv, SnapshotIsKept, Running
<1>9. QED
  BY <1>2, <1>3, <1>4, <1>5, <1>6, <1>7, <1>8 DEF Next

LEMMA InitRefines == Init => VaultInv /\ Vault!Init
<1> SUFFICES ASSUME Init PROVE VaultInv /\ Vault!Init
  OBVIOUS
<1>1. IInv
  BY InitIInv
<1>2. DOMAIN inMemory = {} /\ DOMAIN byOriginal = {} /\ ~snapshot.taken
  BY DEF Init, EmptyMap, NoSnapshot
<1>3. Vault!Init
  BY <1>2 DEF Init, EmptyMap, Vault!Init
<1>4. QED
  BY <1>1, <1>2, <1>3 DEF VaultInv, SnapshotIsKept, AnswersAreForTheValue

\* The first process is behind once another has started.
LEMMA FirstProcessWasFirst ==
  ASSUME IInv, [Next]_vars, session' = 1
  PROVE  session = 1
<1>1. session \in Nat /\ session >= 1
  BY BoundAssumption DEF IInv, TypeOK
<1>2. session' = session \/ session' = session + 1
  <2>1. ASSUME NEW o \in Originals, NEW t \in Types, GetOrCreate(o, t)
        PROVE  session' = session
    BY <2>1 DEF GetOrCreate
  <2>2. ASSUME TakeSnapshot \/ Close PROVE session' = session
    BY <2>2 DEF TakeSnapshot, Close, history
  <2>3. ASSUME RestoreFromSnapshot \/ Exit PROVE session' = session
    BY <2>3 DEF RestoreFromSnapshot, Exit
  <2>4. ASSUME NEW k \in Keys, Start(k) PROVE session' = session + 1
    BY <2>4 DEF Start
  <2>5. ASSUME UNCHANGED vars PROVE session' = session
    BY <2>5 DEF vars
  <2>6. QED
    BY <2>1, <2>2, <2>3, <2>4, <2>5 DEF Next
<1>3. QED BY <1>1, <1>2

\* While that process lasts the store stays a vault.
LEMMA FirstVaultInv ==
  ASSUME DistinctLabels, IInv, session = 1 => VaultInv, [Next]_vars
  PROVE  /\ IInv'
         /\ session' = 1 => VaultInv' /\ [Vault!Next]_(Vault!vars)
BY FirstProcessWasFirst, NextIInv, StepRefines

\* With distinct labels, the store of the first process is a placeholder vault.
THEOREM StoreIsAVault ==
  ASSUME DistinctLabels
  PROVE  Spec => ImplementsVault
<1> DEFINE FirstInv == IInv /\ (session = 1 => VaultInv)
<1>1. Init => FirstInv /\ Vault!Init
  BY InitRefines DEF VaultInv
<1>2. FirstInv /\ [Next]_vars => FirstInv' /\ [session' = 1 => Vault!Next]_(Vault!vars)
  BY FirstVaultInv
<1>3. QED
  BY <1>1, <1>2, PTL DEF Spec, ImplementsVault

\* Under the same conditions every answer of GetOrCreate is for the value that
\* was asked for.
THEOREM AnswersAreRight ==
  ASSUME DistinctLabels
  PROVE  Spec => [](session = 1 => AnswersAreForTheValue)
<1> DEFINE FirstInv == IInv /\ (session = 1 => VaultInv)
<1>1. Init => FirstInv
  BY InitRefines DEF VaultInv
<1>2. FirstInv /\ [Next]_vars => FirstInv'
  BY FirstVaultInv
<1>3. FirstInv => (session = 1 => AnswersAreForTheValue)
  BY DEF VaultInv
<1>4. QED
  BY <1>1, <1>2, <1>3, PTL DEF Spec

(***************************************************************************)
(* Part two: the conversations.                                            *)
(***************************************************************************)

(***************************************************************************)
(* The inductive invariant.  What a conversation's message and reply look  *)
(* like at each stage holds whatever the store does.  In the first process *)
(* with distinct labels the store is a vault (VaultInv), and then the      *)
(* placeholder in a message is the one the store has for the value now: it *)
(* stays so because a vault never forgets or reassigns a name.             *)
(***************************************************************************)

Piece ==
  {Raw(o) : o \in Originals \cup Matches} \cup {Masked(ph) : ph \in Placeholder}

TalkTypeOK ==
  /\ stage \in [Conversations ->
                  {"idle", "redacting", "sent", "restoring", "done"}]
  /\ text \in [Conversations -> Seq(Matches)]
  /\ message \in [Conversations -> Seq(Piece)]
  /\ reply \in [Conversations -> Seq(Piece)]
  /\ toDo \in [Conversations -> SUBSET Nat]

\* The first occurrences of c's text have been replaced, those the loop has
\* still to do excepted; everything else is as it was.
MessageIsScanned(c) ==
  /\ DOMAIN message[c] = DOMAIN text[c]
  /\ stage[c] = "redacting" => toDo[c] \subseteq Scan(text[c])
  /\ stage[c] # "idle" =>
       \A p \in DOMAIN text[c] :
         IF p \in Scan(text[c]) /\ ~ (stage[c] = "redacting" /\ p \in toDo[c])
         THEN ~message[c][p].raw
         ELSE message[c][p] = Raw(text[c][p])

\* What is still to be restored is as the message has it.
ReplyIsQuoted(c) ==
  /\ DOMAIN reply[c] = IF stage[c] \in {"restoring", "done"} THEN DOMAIN text[c] ELSE {}
  /\ stage[c] = "restoring" =>
       /\ toDo[c] \subseteq DOMAIN text[c]
       /\ \A p \in toDo[c] : ~message[c][p].raw /\ reply[c][p] = message[c][p]

\* The placeholders of c's message are those the store has for its values.
MessageIsKnown(c) ==
  Running =>
    \A p \in DOMAIN message[c] : ~message[c][p].raw =>
      /\ ValueAt(c, p) \in DOMAIN byOriginal
      /\ message[c][p] = Masked(byOriginal[ValueAt(c, p)])

\* What has been restored is what the agent's text gives back.
ReplyIsRight(c) ==
  /\ stage[c] = "restoring" =>
       \A p \in DOMAIN text[c] \ toDo[c] : reply[c][p] = Returned(text[c])[p]
  /\ stage[c] = "done" => reply[c] = Returned(text[c])

FirstProcessInv ==
  /\ VaultInv
  /\ \A c \in Conversations : MessageIsKnown(c) /\ ReplyIsRight(c)
  /\ PlaceholdersNameValues

SessionInv ==
  /\ IInv
  /\ TalkTypeOK
  /\ \A c \in Conversations : MessageIsScanned(c) /\ ReplyIsQuoted(c)
  /\ DistinctLabels /\ FirstProcess => FirstProcessInv

(***************************************************************************)
(* Lemmas.                                                                 *)
(***************************************************************************)

\* Pieces of a message can be told apart.
LEMMA PieceFields ==
  /\ \A o : Raw(o).raw /\ Raw(o).original = o
  /\ \A ph : ~Masked(ph).raw /\ Masked(ph).placeholder = ph
  /\ \A o \in Originals \cup Matches : Raw(o) \in Piece
  /\ \A ph \in Placeholder : Masked(ph) \in Piece
BY DEF Raw, Masked, Piece

\* An unredacted text has a raw piece for every match.
LEMMA RawTextPieces ==
  ASSUME NEW txt \in Seq(Matches)
  PROVE  /\ RawText(txt) \in Seq(Piece)
         /\ DOMAIN RawText(txt) = DOMAIN txt
         /\ \A p \in DOMAIN txt : RawText(txt)[p] = Raw(txt[p])
<1>1. \A p \in 1..Len(txt) : Raw(txt[p]) \in Piece
  BY PieceFields
<1>2. RawText(txt) = [p \in 1..Len(txt) |-> Raw(txt[p])]
  BY DEF RawText
<1>3. QED BY <1>1, <1>2

\* The store's own invariants are kept, and the process that was first goes on
\* being a vault.
LEMMA StoreKeepsInv ==
  ASSUME IInv, DistinctLabels /\ FirstProcess => VaultInv, [Next]_vars
  PROVE  /\ IInv'
         /\ FirstProcess' => FirstProcess
         /\ DistinctLabels /\ FirstProcess' => VaultInv'
<1>1. IInv' /\ (FirstProcess' => FirstProcess)
  BY NextIInv, FirstProcessWasFirst DEF FirstProcess
<1>2. ASSUME DistinctLabels, FirstProcess' PROVE VaultInv'
  BY <1>1, <1>2, FirstVaultInv DEF FirstProcess
<1>3. QED BY <1>1, <1>2

AllKnown ==
  VaultInv /\ Running /\ \A c \in Conversations : MessageIsKnown(c)

\* Where every message is as the store knows it, placeholders name values.
LEMMA KnownMessagesNameValues == AllKnown => PlaceholdersNameValues
<1> SUFFICES ASSUME VaultInv, Running, \A c \in Conversations : MessageIsKnown(c),
                    NEW c \in Conversations, NEW d \in Conversations,
                    NEW p \in DOMAIN message[c], NEW q \in DOMAIN message[d],
                    ~message[c][p].raw, ~message[d][q].raw
             PROVE  message[c][p] = message[d][q] <=> ValueAt(c, p) = ValueAt(d, q)
  BY DEF AllKnown, PlaceholdersNameValues, Out
<1>1. /\ ValueAt(c, p) \in DOMAIN byOriginal
      /\ message[c][p] = Masked(byOriginal[ValueAt(c, p)])
      /\ ValueAt(d, q) \in DOMAIN byOriginal
      /\ message[d][q] = Masked(byOriginal[ValueAt(d, q)])
  BY DEF MessageIsKnown
<1>2. byOriginal[ValueAt(c, p)] = byOriginal[ValueAt(d, q)]
        <=> ValueAt(c, p) = ValueAt(d, q)
  BY <1>1 DEF VaultInv, AnswersAreForTheValue
<1>3. QED BY <1>1, <1>2, PieceFields

\* A step that leaves the store alone and treats one conversation need only
\* be looked at there.
LEMMA OneConversation ==
  ASSUME SessionInv, Running, UNCHANGED vars, NEW c \in Conversations,
         TalkTypeOK',
         \A d \in Conversations \ {c} :
           /\ stage'[d] = stage[d] /\ text'[d] = text[d]
           /\ message'[d] = message[d] /\ reply'[d] = reply[d]
           /\ toDo'[d] = toDo[d],
         MessageIsScanned(c)', ReplyIsQuoted(c)',
         DistinctLabels /\ FirstProcess => MessageIsKnown(c)' /\ ReplyIsRight(c)'
  PROVE  SessionInv'
<1>1. /\ IInv' /\ Running' /\ (FirstProcess' => FirstProcess)
      /\ DistinctLabels /\ FirstProcess' => VaultInv'
  <2>1. [Next]_vars
    OBVIOUS
  <2>2. phase' = phase
    BY DEF vars
  <2>3. QED
    BY <2>1, <2>2, StoreKeepsInv DEF SessionInv, FirstProcessInv, Running
<1>2. ASSUME NEW d \in Conversations PROVE MessageIsScanned(d)' /\ ReplyIsQuoted(d)'
  <2>1. CASE d = c
    BY <2>1
  <2>2. CASE d # c
    BY <2>2 DEF SessionInv, MessageIsScanned, ReplyIsQuoted
  <2>3. QED BY <2>1, <2>2
<1>3. ASSUME DistinctLabels, FirstProcess'
      PROVE  FirstProcessInv'
  <2>1. FirstProcessInv
    BY <1>1, <1>3 DEF SessionInv
  <2>2. byOriginal' = byOriginal
    BY DEF vars
  <2>3. ASSUME NEW d \in Conversations PROVE MessageIsKnown(d)' /\ ReplyIsRight(d)'
    <3>1. CASE d = c
      BY <1>1, <1>3, <3>1
    <3>2. CASE d # c
      BY <2>1, <2>2, <3>2 DEF FirstProcessInv, MessageIsKnown, ReplyIsRight, ValueAt
    <3>3. QED BY <3>1, <3>2
  <2>4. AllKnown'
    BY <1>1, <1>3, <2>3 DEF AllKnown
  <2>5. PlaceholdersNameValues'
    BY <2>4, KnownMessagesNameValues, PTL
  <2>6. QED
    BY <1>1, <1>3, <2>3, <2>5 DEF FirstProcessInv
<1>4. QED
  BY <1>1, <1>2, <1>3 DEF SessionInv

(***************************************************************************)
(* The steps of a request that leave the store alone.                      *)
(***************************************************************************)

LEMMA BeginRedactInv ==
  ASSUME SessionInv, NEW c \in Conversations, BeginRedact(c)
  PROVE  SessionInv'
<1>1. PICK txt \in Texts :
        /\ text' = [text EXCEPT ![c] = txt]
        /\ toDo' = [toDo EXCEPT ![c] = Scan(txt)]
        /\ message' = [message EXCEPT ![c] = RawText(txt)]
  BY DEF BeginRedact
<1>2. /\ Running /\ UNCHANGED <<vars, reply>>
      /\ stage' = [stage EXCEPT ![c] = "redacting"]
      /\ TalkTypeOK
  BY DEF BeginRedact, SessionInv
<1>3. /\ txt \in Seq(Matches) /\ Scan(txt) \subseteq DOMAIN txt
      /\ Scan(txt) \in SUBSET Nat
  BY TextAssumption DEF Scan
<1>4. /\ RawText(txt) \in Seq(Piece) /\ DOMAIN RawText(txt) = DOMAIN txt
      /\ \A p \in DOMAIN txt : RawText(txt)[p] = Raw(txt[p])
  BY <1>3, RawTextPieces
<1>5. TalkTypeOK'
  BY <1>1, <1>2, <1>3, <1>4 DEF TalkTypeOK
<1>6. /\ stage'[c] = "redacting" /\ text'[c] = txt /\ toDo'[c] = Scan(txt)
      /\ message'[c] = RawText(txt)
  BY <1>1, <1>2 DEF TalkTypeOK
<1>7. MessageIsScanned(c)' /\ ReplyIsQuoted(c)'
  <2>1. ReplyIsQuoted(c) /\ stage[c] = "idle" /\ reply' = reply
    BY <1>2 DEF SessionInv, BeginRedact
  <2> QED BY <1>4, <1>6, <2>1 DEF MessageIsScanned, ReplyIsQuoted
<1>8. MessageIsKnown(c)' /\ ReplyIsRight(c)'
  BY <1>4, <1>6, PieceFields DEF MessageIsKnown, ReplyIsRight
<1>9. QED
  BY <1>1, <1>2, <1>5, <1>7, <1>8, OneConversation DEF TalkTypeOK

LEMMA SendInv ==
  ASSUME SessionInv, NEW c \in Conversations, Send(c)
  PROVE  SessionInv'
<1>1. /\ Running /\ stage[c] = "redacting" /\ toDo[c] = {}
      /\ stage' = [stage EXCEPT ![c] = "sent"]
      /\ UNCHANGED <<vars, text, message, reply, toDo>>
      /\ TalkTypeOK /\ MessageIsScanned(c) /\ ReplyIsQuoted(c)
  BY DEF Send, SessionInv
<1>2. TalkTypeOK' /\ stage'[c] = "sent"
  BY <1>1 DEF TalkTypeOK
<1>3. MessageIsScanned(c)' /\ ReplyIsQuoted(c)'
  BY <1>1, <1>2 DEF MessageIsScanned, ReplyIsQuoted
<1>4. DistinctLabels /\ FirstProcess => MessageIsKnown(c)' /\ ReplyIsRight(c)'
  BY <1>1, <1>2 DEF SessionInv, FirstProcessInv, MessageIsKnown, ReplyIsRight,
     ValueAt, vars
<1>5. QED
  BY <1>1, <1>2, <1>3, <1>4, OneConversation DEF TalkTypeOK

LEMMA BeginUnredactInv ==
  ASSUME SessionInv, NEW c \in Conversations, BeginUnredact(c)
  PROVE  SessionInv'
<1>1. /\ Running /\ stage[c] = "sent"
      /\ stage' = [stage EXCEPT ![c] = "restoring"]
      /\ reply' = [reply EXCEPT ![c] = message[c]]
      /\ toDo' = [toDo EXCEPT ![c] = {p \in DOMAIN message[c] : ~message[c][p].raw}]
      /\ UNCHANGED <<vars, text, message>>
      /\ TalkTypeOK /\ MessageIsScanned(c)
  BY DEF BeginUnredact, SessionInv
<1>2. /\ stage'[c] = "restoring" /\ reply'[c] = message[c]
      /\ toDo'[c] = {p \in DOMAIN message[c] : ~message[c][p].raw}
      /\ DOMAIN message[c] \subseteq Nat
  BY <1>1 DEF TalkTypeOK
<1>3. TalkTypeOK'
  BY <1>1, <1>2 DEF TalkTypeOK
<1>4. MessageIsScanned(c)' /\ ReplyIsQuoted(c)'
  BY <1>1, <1>2 DEF MessageIsScanned, ReplyIsQuoted
<1>5. \A p \in DOMAIN text[c] \ toDo'[c] : message[c][p] = Returned(text[c])[p]
  BY <1>1, <1>2 DEF MessageIsScanned, Returned
<1>6. DistinctLabels /\ FirstProcess => MessageIsKnown(c)' /\ ReplyIsRight(c)'
  BY <1>1, <1>2, <1>5 DEF SessionInv, FirstProcessInv, MessageIsKnown, ReplyIsRight,
     ValueAt, vars
<1>7. QED
  BY <1>1, <1>3, <1>4, <1>6, OneConversation DEF TalkTypeOK

\* A placeholder the first process knows is restored to the value it was
\* given for.
LEMMA RestoredIsRight ==
  ASSUME SessionInv, DistinctLabels, FirstProcess, Running,
         NEW c \in Conversations, NEW p \in DOMAIN message[c],
         ~message[c][p].raw
  PROVE  Restored(message[c][p]) = Raw(ValueAt(c, p))
<1> DEFINE ph == byOriginal[ValueAt(c, p)]
<1>1. ValueAt(c, p) \in DOMAIN byOriginal /\ message[c][p] = Masked(ph)
  BY DEF SessionInv, FirstProcessInv, MessageIsKnown
<1>2. ph \in DOMAIN inMemory /\ inMemory[ph].original = ValueAt(c, p)
  BY <1>1 DEF SessionInv, FirstProcessInv, VaultInv, IInv, HitsFindAMapping,
     AnswersAreForTheValue
<1>3. message[c][p].placeholder = ph
  BY <1>1, PieceFields
<1>4. QED
  BY <1>2, <1>3 DEF Restored, Resolves, Lookup

\* Restoring a piece gives a piece.
LEMMA RestoredType ==
  ASSUME SessionInv, NEW piece \in Piece
  PROVE  Restored(piece) \in Piece
<1>1. \A ph \in DOMAIN inMemory : inMemory[ph].original \in Originals
  BY DEF SessionInv, IInv, TypeOK, IsMap, Mapping
<1>2. QED
  BY <1>1, PieceFields DEF Restored, Resolves, Lookup

LEMMA RestoreNextInv ==
  ASSUME SessionInv, NEW c \in Conversations, RestoreNext(c)
  PROVE  SessionInv'
<1>1. PICK p \in toDo[c] :
        /\ reply' = [reply EXCEPT ![c][p] = Restored(@)]
        /\ toDo' = [toDo EXCEPT ![c] = @ \ {p}]
  BY DEF RestoreNext
<1>2. /\ Running /\ stage[c] = "restoring"
      /\ UNCHANGED <<vars, stage, text, message>>
      /\ TalkTypeOK /\ MessageIsScanned(c) /\ ReplyIsQuoted(c)
  BY DEF RestoreNext, SessionInv
<1>3. /\ p \in DOMAIN text[c] /\ p \in DOMAIN reply[c] /\ p \in DOMAIN message[c]
      /\ ~message[c][p].raw /\ reply[c][p] = message[c][p]
      /\ DOMAIN reply[c] = DOMAIN text[c] /\ reply[c] \in Seq(Piece)
  BY <1>1, <1>2 DEF MessageIsScanned, ReplyIsQuoted, TalkTypeOK
<1>4. Restored(reply[c][p]) \in Piece
  <2>1. reply[c][p] \in Piece
    BY <1>3
  <2>2. QED BY <2>1, RestoredType
<1>5. /\ reply'[c] = [reply[c] EXCEPT ![p] = Restored(reply[c][p])]
      /\ toDo'[c] = toDo[c] \ {p}
      /\ \A d \in Conversations \ {c} : reply'[d] = reply[d] /\ toDo'[d] = toDo[d]
  BY <1>1, <1>2 DEF TalkTypeOK
<1>6. /\ reply'[c] \in Seq(Piece) /\ DOMAIN reply'[c] = DOMAIN text[c]
      /\ reply'[c][p] = Restored(message[c][p])
      /\ \A q \in DOMAIN text[c] : q # p => reply'[c][q] = reply[c][q]
  BY <1>3, <1>4, <1>5
<1>7. TalkTypeOK'
  BY <1>1, <1>2, <1>5, <1>6 DEF TalkTypeOK
<1>8. MessageIsScanned(c)' /\ ReplyIsQuoted(c)'
  BY <1>2, <1>5, <1>6 DEF MessageIsScanned, ReplyIsQuoted
<1>9. ASSUME DistinctLabels, FirstProcess
      PROVE  MessageIsKnown(c)' /\ ReplyIsRight(c)'
  <2>1. MessageIsKnown(c) /\ ReplyIsRight(c)
    BY <1>9 DEF SessionInv, FirstProcessInv
  <2>2. reply'[c][p] = Returned(text[c])[p]
    <3>1. reply'[c][p] = Raw(ValueAt(c, p))
      BY <1>2, <1>3, <1>6, <1>9, RestoredIsRight
    <3>2. p \in Scan(text[c])
      BY <1>2, <1>3, PieceFields DEF MessageIsScanned
    <3> QED BY <1>3, <3>1, <3>2 DEF Returned, ValueAt
  <2>3. QED
    BY <1>2, <1>5, <1>6, <2>1, <2>2 DEF MessageIsKnown, ReplyIsRight, ValueAt, vars
<1>10. QED
  BY <1>2, <1>5, <1>7, <1>8, <1>9, OneConversation

LEMMA EndUnredactInv ==
  ASSUME SessionInv, NEW c \in Conversations, EndUnredact(c)
  PROVE  SessionInv'
<1>1. /\ Running /\ stage[c] = "restoring" /\ toDo[c] = {}
      /\ stage' = [stage EXCEPT ![c] = "done"]
      /\ UNCHANGED <<vars, text, message, reply, toDo>>
      /\ TalkTypeOK /\ MessageIsScanned(c) /\ ReplyIsQuoted(c)
  BY DEF EndUnredact, SessionInv
<1>2. TalkTypeOK' /\ stage'[c] = "done"
  BY <1>1 DEF TalkTypeOK
<1>3. MessageIsScanned(c)' /\ ReplyIsQuoted(c)'
  BY <1>1, <1>2 DEF MessageIsScanned, ReplyIsQuoted
<1>4. ASSUME DistinctLabels, FirstProcess
      PROVE  MessageIsKnown(c)' /\ ReplyIsRight(c)'
  <2>1. MessageIsKnown(c) /\ ReplyIsRight(c)
    BY <1>4 DEF SessionInv, FirstProcessInv
  <2>2. \A p \in DOMAIN text[c] : reply[c][p] = Returned(text[c])[p]
    BY <1>1, <2>1 DEF ReplyIsRight
  <2>3. reply[c] = Returned(text[c])
    <3>1. reply[c] \in Seq(Piece) /\ DOMAIN reply[c] = DOMAIN text[c]
      BY <1>1 DEF TalkTypeOK, ReplyIsQuoted
    <3>2. reply[c] = [p \in DOMAIN text[c] |-> reply[c][p]]
      BY <3>1
    <3>3. QED
      BY <2>2, <3>2 DEF Returned
  <2>4. QED
    BY <1>1, <1>2, <2>1, <2>3 DEF MessageIsKnown, ReplyIsRight, ValueAt, vars
<1>5. QED
  BY <1>1, <1>2, <1>3, <1>4, OneConversation DEF TalkTypeOK

(***************************************************************************)
(* The steps that change the store.                                        *)
(***************************************************************************)

\* GetOrCreate answers with the placeholder the value has from then on, and
\* no value loses its own.
LEMMA GetOrCreateNames ==
  ASSUME IInv, NEW o \in Originals, NEW t \in Types, GetOrCreate(o, t)
  PROVE  /\ Running' /\ [Next]_vars
         /\ o \in DOMAIN byOriginal'
         /\ byOriginal'[o] = Answer(o, t).placeholder
         /\ Answer(o, t).placeholder \in Placeholder
         /\ \A x \in DOMAIN byOriginal :
              x \in DOMAIN byOriginal' /\ byOriginal'[x] = byOriginal[x]
<1>1. Running' /\ [Next]_vars
  BY DEF GetOrCreate, Running, Next
<1>2. CASE o \in DOMAIN byOriginal
  <2>1. UNCHANGED byOriginal
    BY <1>2 DEF GetOrCreate, memory
  <2>2. byOriginal[o] \in DOMAIN inMemory /\ byOriginal[o] \in Placeholder
    BY <1>2 DEF IInv, HitsFindAMapping, TypeOK, IsMap
  <2>3. inMemory[byOriginal[o]].placeholder = byOriginal[o]
    BY <2>2 DEF IInv, TypeOK
  <2>4. QED
    BY <1>1, <1>2, <2>1, <2>2, <2>3 DEF Answer
<1>3. CASE o \notin DOMAIN byOriginal
  <2>1. /\ counter[t] < MaxNum
        /\ byOriginal' = Put(byOriginal, o, NewMapping(o, t).placeholder)
    BY <1>3 DEF GetOrCreate, Create
  <2>2. NewMapping(o, t).placeholder \in Placeholder
    BY <2>1, NewMappingType DEF IInv
  <2>3. QED
    BY <1>1, <1>3, <2>1, <2>2 DEF Answer, Put
<1>4. QED BY <1>2, <1>3

LEMMA ReplaceInv ==
  ASSUME SessionInv, NEW c \in Conversations, Replace(c)
  PROVE  SessionInv'
<1>1. PICK p \in toDo[c] :
        /\ \E t \in TypesOf[text[c][p]] :
             /\ GetOrCreate(ValueAt(c, p), t)
             /\ message' = [message EXCEPT
                  ![c][p] = Masked(Answer(ValueAt(c, p), t).placeholder)]
        /\ toDo' = [toDo EXCEPT ![c] = @ \ {p}]
  BY DEF Replace
<1> DEFINE o == ValueAt(c, p)
<1>2. /\ stage[c] = "redacting" /\ UNCHANGED <<stage, text, reply>>
      /\ TalkTypeOK /\ MessageIsScanned(c) /\ ReplyIsQuoted(c) /\ IInv
  BY DEF Replace, SessionInv
<1>3. /\ p \in Scan(text[c]) /\ p \in DOMAIN text[c] /\ p \in DOMAIN message[c]
      /\ text[c] \in Seq(Matches) /\ text[c][p] \in Matches /\ o \in Originals
  <2>1. p \in Scan(text[c]) /\ p \in DOMAIN text[c] /\ text[c] \in Seq(Matches)
    BY <1>1, <1>2 DEF MessageIsScanned, Scan, TalkTypeOK
  <2>2. text[c][p] \in Matches
    BY <2>1
  <2> QED BY <1>2, <2>1, <2>2, TextAssumption DEF MessageIsScanned, ValueAt
<1>4. PICK t \in Types :
        /\ GetOrCreate(o, t)
        /\ message' = [message EXCEPT ![c][p] = Masked(Answer(o, t).placeholder)]
  BY <1>1, <1>3, TextAssumption
<1> DEFINE ph == Answer(o, t).placeholder
<1>5. /\ Running' /\ [Next]_vars /\ ph \in Placeholder
      /\ o \in DOMAIN byOriginal' /\ byOriginal'[o] = ph
      /\ \A x \in DOMAIN byOriginal :
           x \in DOMAIN byOriginal' /\ byOriginal'[x] = byOriginal[x]
  BY <1>2, <1>3, <1>4, GetOrCreateNames
<1>6. Running
  BY <1>4 DEF GetOrCreate
<1> HIDE DEF o, ph
<1>7. /\ message'[c] = [message[c] EXCEPT ![p] = Masked(ph)]
      /\ toDo'[c] = toDo[c] \ {p}
      /\ \A d \in Conversations \ {c} :
           message'[d] = message[d] /\ toDo'[d] = toDo[d]
  BY <1>1, <1>2, <1>4 DEF TalkTypeOK, ph
<1>8. /\ message'[c] \in Seq(Piece) /\ DOMAIN message'[c] = DOMAIN message[c]
      /\ message'[c][p] = Masked(ph)
      /\ \A q \in DOMAIN message[c] : q # p => message'[c][q] = message[c][q]
  BY <1>2, <1>3, <1>5, <1>7, PieceFields DEF TalkTypeOK
<1>9. TalkTypeOK'
  BY <1>1, <1>2, <1>4, <1>7, <1>8 DEF TalkTypeOK
<1>10. ASSUME NEW d \in Conversations
       PROVE  MessageIsScanned(d)' /\ ReplyIsQuoted(d)'
  <2>1. CASE d = c
    <3>1. MessageIsScanned(c)'
      BY <1>2, <1>3, <1>7, <1>8, PieceFields DEF MessageIsScanned
    <3>2. QED
      BY <1>2, <2>1, <3>1 DEF ReplyIsQuoted
  <2>2. CASE d # c
    BY <1>2, <1>7, <2>2 DEF SessionInv, MessageIsScanned, ReplyIsQuoted
  <2>3. QED BY <2>1, <2>2
<1>11. /\ IInv' /\ (FirstProcess' => FirstProcess)
       /\ DistinctLabels /\ FirstProcess' => VaultInv'
  BY <1>5, StoreKeepsInv DEF SessionInv, FirstProcessInv
<1>12. ASSUME DistinctLabels, FirstProcess'
       PROVE  FirstProcessInv'
  <2>1. \A d \in Conversations : MessageIsKnown(d) /\ ReplyIsRight(d)
    BY <1>11, <1>12 DEF SessionInv, FirstProcessInv
  <2>2. ASSUME NEW d \in Conversations PROVE MessageIsKnown(d)' /\ ReplyIsRight(d)'
    <3>1. ReplyIsRight(d)'
      BY <1>2, <1>7, <2>1 DEF ReplyIsRight
    <3>2. CASE d = c
      <4>1. \A q \in DOMAIN message'[c] : ~message'[c][q].raw =>
              /\ ValueAt(c, q) \in DOMAIN byOriginal'
              /\ message'[c][q] = Masked(byOriginal'[ValueAt(c, q)])
        BY <1>2, <1>5, <1>6, <1>8, <2>1 DEF MessageIsKnown, o
      <4>2. QED
        BY <1>2, <3>1, <3>2, <4>1 DEF MessageIsKnown, ValueAt
    <3>3. CASE d # c
      BY <1>2, <1>5, <1>6, <1>7, <2>1, <3>1, <3>3 DEF MessageIsKnown, ValueAt
    <3>4. QED BY <3>2, <3>3
  <2>3. AllKnown'
    BY <1>5, <1>11, <1>12, <2>2 DEF AllKnown
  <2>4. PlaceholdersNameValues'
    BY <2>3, KnownMessagesNameValues, PTL
  <2>5. QED
    BY <1>11, <1>12, <2>2, <2>4 DEF FirstProcessInv
<1>13. QED
  BY <1>9, <1>10, <1>11, <1>12 DEF SessionInv

LEMMA CloseInv ==
  ASSUME SessionInv, Close, UNCHANGED talk
  PROVE  SessionInv'
<1>1. /\ Running /\ Running' /\ UNCHANGED byOriginal /\ [Next]_vars
      /\ UNCHANGED <<stage, text, message, reply, toDo>>
  BY DEF Close, Running, memory, talk, Next
<1>2. /\ IInv' /\ (FirstProcess' => FirstProcess)
      /\ DistinctLabels /\ FirstProcess' => VaultInv'
  BY <1>1, StoreKeepsInv DEF SessionInv, FirstProcessInv
<1>3. QED
  BY <1>1, <1>2 DEF SessionInv, TalkTypeOK, MessageIsScanned, ReplyIsQuoted,
     FirstProcessInv, MessageIsKnown, ReplyIsRight, PlaceholdersNameValues, Out,
     ValueAt, FirstProcess

\* Requests in progress end with the process: what they had made is dropped,
\* what is out stays as it is.
LEMMA StopInv ==
  ASSUME SessionInv, Stop
  PROVE  SessionInv'
<1>1. /\ Exit /\ [Next]_vars /\ ~Running' /\ TalkTypeOK
      /\ stage' = [c \in Conversations |->
                     IF stage[c] = "redacting" THEN "idle"
                     ELSE IF stage[c] = "restoring" THEN "sent" ELSE stage[c]]
      /\ text' = [c \in Conversations |->
                    IF stage[c] = "redacting" THEN <<>> ELSE text[c]]
      /\ message' = [c \in Conversations |->
                       IF stage[c] = "redacting" THEN <<>> ELSE message[c]]
      /\ reply' = [c \in Conversations |->
                     IF stage[c] = "restoring" THEN <<>> ELSE reply[c]]
      /\ toDo' = [c \in Conversations |-> {}]
  BY DEF Stop, Next, Exit, Running, SessionInv
<1>2. /\ IInv' /\ (FirstProcess' => FirstProcess)
      /\ DistinctLabels /\ FirstProcess' => VaultInv'
  BY <1>1, StoreKeepsInv DEF SessionInv, FirstProcessInv
<1>3. TalkTypeOK'
  BY <1>1 DEF TalkTypeOK
<1>4. ASSUME NEW c \in Conversations
      PROVE  MessageIsScanned(c)' /\ ReplyIsQuoted(c)'
  <2>1. MessageIsScanned(c) /\ ReplyIsQuoted(c)
    BY DEF SessionInv
  <2>2. CASE stage[c] = "redacting"
    BY <1>1, <2>1, <2>2 DEF MessageIsScanned, ReplyIsQuoted
  <2>3. CASE stage[c] = "restoring"
    BY <1>1, <2>1, <2>3 DEF MessageIsScanned, ReplyIsQuoted
  <2>4. CASE stage[c] \notin {"redacting", "restoring"}
    BY <1>1, <2>1, <2>4 DEF MessageIsScanned, ReplyIsQuoted
  <2>5. QED BY <2>2, <2>3, <2>4
<1>5. ASSUME DistinctLabels, FirstProcess'
      PROVE  FirstProcessInv'
  <2>1. FirstProcessInv
    BY <1>2, <1>5 DEF SessionInv
  <2>2. \A c \in Conversations : MessageIsKnown(c)' /\ ReplyIsRight(c)'
    BY <1>1, <2>1 DEF FirstProcessInv, MessageIsKnown, ReplyIsRight
  <2>3. /\ Out' \subseteq Out
        /\ \A c \in Out' : message'[c] = message[c] /\ text'[c] = text[c]
    BY <1>1 DEF Out
  <2>4. PlaceholdersNameValues'
    BY <1>2, <1>5, <2>1, <2>3 DEF FirstProcessInv, PlaceholdersNameValues, ValueAt
  <2>5. QED
    BY <1>2, <1>5, <2>2, <2>4 DEF FirstProcessInv
<1>6. QED
  BY <1>2, <1>3, <1>4, <1>5 DEF SessionInv

\* A later process is not the first.
LEMMA StartInv ==
  ASSUME SessionInv, NEW k \in Keys, Start(k), UNCHANGED talk
  PROVE  SessionInv'
<1>1. [Next]_vars /\ UNCHANGED <<stage, text, message, reply, toDo>>
  BY DEF Next, talk
<1>2. /\ IInv' /\ (FirstProcess' => FirstProcess)
  BY <1>1, StoreKeepsInv DEF SessionInv, FirstProcessInv
<1>3. ~FirstProcess'
  <2>1. session' = session + 1
    BY DEF Start
  <2>2. QED BY <1>2, <2>1 DEF FirstProcess
<1>4. QED
  BY <1>1, <1>2, <1>3 DEF SessionInv, TalkTypeOK, MessageIsScanned, ReplyIsQuoted

(***************************************************************************)
(* The invariant, and what follows from it.                                *)
(***************************************************************************)

LEMMA SessionInitInv == SessionInit => SessionInv
<1> SUFFICES ASSUME SessionInit PROVE SessionInv
  OBVIOUS
<1>1. IInv /\ VaultInv
  BY InitIInv, InitRefines DEF SessionInit
<1>2. TalkTypeOK
  BY DEF SessionInit, TalkTypeOK
<1>3. \A c \in Conversations : MessageIsScanned(c) /\ ReplyIsQuoted(c)
  BY DEF SessionInit, MessageIsScanned, ReplyIsQuoted
<1>4. \A c \in Conversations : MessageIsKnown(c) /\ ReplyIsRight(c)
  BY DEF SessionInit, MessageIsKnown, ReplyIsRight
<1>5. PlaceholdersNameValues
  BY DEF SessionInit, PlaceholdersNameValues, Out
<1>6. QED
  BY <1>1, <1>2, <1>3, <1>4, <1>5 DEF SessionInv, FirstProcessInv

\* Every step keeps the inductive invariant.
LEMMA SessionNextInv == SessionInv /\ [SessionNext]_allVars => SessionInv'
<1> SUFFICES ASSUME SessionInv, [SessionNext]_allVars PROVE SessionInv'
  OBVIOUS
<1>1. ASSUME NEW c \in Conversations, BeginRedact(c) PROVE SessionInv'
  BY <1>1, BeginRedactInv
<1>2. ASSUME NEW c \in Conversations, Replace(c) PROVE SessionInv'
  BY <1>2, ReplaceInv
<1>3. ASSUME NEW c \in Conversations, Send(c) PROVE SessionInv'
  BY <1>3, SendInv
<1>4. ASSUME NEW c \in Conversations, BeginUnredact(c) PROVE SessionInv'
  BY <1>4, BeginUnredactInv
<1>5. ASSUME NEW c \in Conversations, RestoreNext(c) PROVE SessionInv'
  BY <1>5, RestoreNextInv
<1>6. ASSUME NEW c \in Conversations, EndUnredact(c) PROVE SessionInv'
  BY <1>6, EndUnredactInv
<1>7. CASE Close /\ UNCHANGED talk
  BY <1>7, CloseInv
<1>8. CASE Stop
  BY <1>8, StopInv
<1>9. ASSUME NEW k \in Keys, Start(k) /\ UNCHANGED talk PROVE SessionInv'
  BY <1>9, StartInv
<1>10. CASE UNCHANGED allVars
  <2>1. /\ UNCHANGED <<stage, text, message, reply, toDo>> /\ UNCHANGED vars
        /\ UNCHANGED <<phase, byOriginal, session>>
    BY <1>10 DEF allVars, vars
  <2>2. /\ IInv' /\ (FirstProcess' => FirstProcess)
        /\ DistinctLabels /\ FirstProcess' => VaultInv'
    BY <2>1, StoreKeepsInv DEF SessionInv, FirstProcessInv
  <2>3. QED
    BY <2>1, <2>2 DEF SessionInv, TalkTypeOK, MessageIsScanned, ReplyIsQuoted,
       FirstProcessInv, MessageIsKnown, ReplyIsRight, PlaceholdersNameValues, Out,
       ValueAt, FirstProcess, Running
<1>11. QED
  BY <1>1, <1>2, <1>3, <1>4, <1>5, <1>6, <1>7, <1>8, <1>9, <1>10 DEF SessionNext

\* The inductive invariant holds of every reachable state.
THEOREM SessionInvariance == SessionSpec => []SessionInv
<1>1. QED
  BY SessionInitInv, SessionNextInv, PTL DEF SessionSpec

\* With distinct labels, in the first process, a restored reply has every value
\* of the text in its own place, whatever other agents did in between.
THEOREM RepliesRoundTrip == SessionSpec => []RoundTrip
<1>1. SessionInv => RoundTrip
  BY DEF SessionInv, FirstProcessInv, RoundTrip, ReplyIsRight
<1>2. QED BY <1>1, SessionInvariance, PTL

\* Under the same conditions placeholders in messages that are out are equal
\* exactly when their values are.
THEOREM MessagesNameValues == SessionSpec => []PlaceholdersNameValues
<1>1. SessionInv => PlaceholdersNameValues
  BY DEF SessionInv, FirstProcessInv, PlaceholdersNameValues
<1>2. QED BY <1>1, SessionInvariance, PTL

\* The conversations use the store only through its calls: each of their steps
\* is a step of the store or none, so what part one shows of the
\* store holds with any number of agents talking to it.
THEOREM ConversationsUseTheStore == SessionSpec => Spec
<1>1. SessionInit => Init
  BY DEF SessionInit
<1>2. SessionInv /\ [SessionNext]_allVars => [Next]_vars
  <2> SUFFICES ASSUME SessionInv, [SessionNext]_allVars PROVE [Next]_vars
    OBVIOUS
  <2>1. ASSUME NEW c \in Conversations, Replace(c) PROVE [Next]_vars
    <3>1. PICK p \in toDo[c] : \E t \in TypesOf[text[c][p]] : GetOrCreate(ValueAt(c, p), t)
      BY <2>1 DEF Replace
    <3>2. p \in DOMAIN text[c] /\ text[c] \in Seq(Matches)
      BY <2>1 DEF Replace, SessionInv, TalkTypeOK, MessageIsScanned, Scan
    <3>3. text[c][p] \in Matches /\ ValueAt(c, p) \in Originals
      BY <3>2, TextAssumption DEF ValueAt
    <3>4. TypesOf[text[c][p]] \subseteq Types
      BY <3>3, TextAssumption
    <3>5. QED BY <3>1, <3>3, <3>4 DEF Next
  <2>2. ASSUME NEW c \in Conversations,
               BeginRedact(c) \/ Send(c) \/ BeginUnredact(c) \/ RestoreNext(c)
                 \/ EndUnredact(c)
        PROVE  [Next]_vars
    BY <2>2 DEF BeginRedact, Send, BeginUnredact, RestoreNext, EndUnredact
  <2>3. CASE Close \/ Stop \/ \E k \in Keys : Start(k)
    BY <2>3 DEF Stop, Next
  <2>4. CASE UNCHANGED allVars
    BY <2>4 DEF allVars, vars
  <2>5. QED
    BY <2>1, <2>2, <2>3, <2>4 DEF SessionNext
<1>3. QED
  BY <1>1, <1>2, SessionInvariance, PTL DEF SessionSpec, Spec

\* A conversation holds one of the texts agents send or none, its message and
\* reply have a piece for each value of it, and a request that is not running
\* has nothing left to treat.
THEOREM SessionTypeCorrect == SessionSpec => []SessionTypeOK
<1> DEFINE Given ==
      /\ text \in [Conversations -> Texts \cup {<<>>}]
      /\ \A c \in Conversations :
           stage[c] \notin {"redacting", "restoring"} => toDo[c] = {}
<1>1. SessionInit => Given
  BY DEF SessionInit
<1>2. SessionInv /\ Given /\ [SessionNext]_allVars => Given'
  <2> SUFFICES ASSUME SessionInv, Given, [SessionNext]_allVars PROVE Given'
    OBVIOUS
  <2>0. TalkTypeOK
    BY DEF SessionInv
  <2>1. ASSUME NEW c \in Conversations, BeginRedact(c) PROVE Given'
    <3>1. PICK txt \in Texts :
            /\ text' = [text EXCEPT ![c] = txt]
            /\ toDo' = [toDo EXCEPT ![c] = Scan(txt)]
            /\ stage' = [stage EXCEPT ![c] = "redacting"]
      BY <2>1 DEF BeginRedact
    <3> QED BY <2>0, <3>1 DEF TalkTypeOK
  <2>2. ASSUME NEW c \in Conversations, Replace(c) \/ RestoreNext(c) PROVE Given'
    <3>1. /\ stage' = stage /\ text' = text /\ stage[c] \in {"redacting", "restoring"}
          /\ \E p \in toDo[c] : toDo' = [toDo EXCEPT ![c] = @ \ {p}]
      BY <2>2 DEF Replace, RestoreNext
    <3> QED BY <2>0, <3>1 DEF TalkTypeOK
  <2>3. ASSUME NEW c \in Conversations, Send(c) \/ EndUnredact(c) PROVE Given'
    <3>1. /\ text' = text /\ toDo' = toDo /\ toDo[c] = {}
          /\ \E s \in {"sent", "done"} : stage' = [stage EXCEPT ![c] = s]
      BY <2>3 DEF Send, EndUnredact
    <3> QED BY <2>0, <3>1 DEF TalkTypeOK
  <2>4. ASSUME NEW c \in Conversations, BeginUnredact(c) PROVE Given'
    <3>1. /\ text' = text /\ stage' = [stage EXCEPT ![c] = "restoring"]
          /\ \E s : toDo' = [toDo EXCEPT ![c] = s]
      BY <2>4 DEF BeginUnredact
    <3> QED BY <2>0, <3>1 DEF TalkTypeOK
  <2>5. CASE Stop
    BY <2>0, <2>5 DEF Stop, TalkTypeOK
  <2>6. CASE UNCHANGED talk /\ (Close \/ \E k \in Keys : Start(k))
    BY <2>6 DEF talk
  <2>7. CASE UNCHANGED allVars
    BY <2>7 DEF allVars
  <2> QED BY <2>1, <2>2, <2>3, <2>4, <2>5, <2>6, <2>7 DEF SessionNext
<1>3. SessionInv /\ Given => SessionTypeOK
  <2> SUFFICES ASSUME SessionInv, Given PROVE SessionTypeOK
    OBVIOUS
  <2>1. ASSUME NEW c \in Conversations PROVE toDo[c] \subseteq DOMAIN text[c]
    <3>1. MessageIsScanned(c) /\ ReplyIsQuoted(c) /\ Scan(text[c]) \subseteq DOMAIN text[c]
      BY DEF SessionInv, Scan
    <3> QED BY <3>1 DEF MessageIsScanned, ReplyIsQuoted
  <2> QED
    BY <2>1 DEF SessionInv, TalkTypeOK, SessionTypeOK, MessageIsScanned, ReplyIsQuoted
<1> QED
  BY <1>1, <1>2, <1>3, SessionInvariance, PTL DEF SessionSpec
(***************************************************************************)
(* The process after a restart.  What a message masks was in the table     *)
(* right, if it was there at all, when the first process ended; the next   *)
(* one knows it rightly, or not, until it hands the placeholder out again. *)
(***************************************************************************)

\* The first process has every row in its map.
RowsAreRemembered ==
  \A ph \in DOMAIN rows :
    ph \in DOMAIN inMemory /\ inMemory[ph].original = rows[ph].original

\* What is known of c's placeholder at p, while a process runs and between the
\* first and the second.
SentIsKnown(c, p) ==
  LET ph == message[c][p].placeholder IN
    /\ Running /\ ph \in DOMAIN inMemory =>
         inMemory[ph].original = ValueAt(c, p) \/ ph \in Issued
    /\ session = 1 /\ ~Running /\ ph \in DOMAIN rows =>
         rows[ph].original = ValueAt(c, p)

MisreadIsReissued(c, p) ==
  Misread(c, p) =>
    session = 2 /\ (Running => message[c][p].placeholder \in Issued)

LaterConversation(c) ==
  session <= 2 =>
    /\ \A p \in DOMAIN message[c] : ~message[c][p].raw => SentIsKnown(c, p)
    /\ \A p \in DOMAIN reply[c] : MisreadIsReissued(c, p)

LaterInv ==
  /\ ~restored
  /\ FirstProcess /\ Running => RowsAreRemembered
  /\ \A c \in Conversations : LaterConversation(c)

\* A step of one conversation that leaves the store alone.
LEMMA OneLaterConversation ==
  ASSUME LaterInv, NEW c \in Conversations, UNCHANGED vars,
         \A d \in Conversations \ {c} :
           text'[d] = text[d] /\ message'[d] = message[d] /\ reply'[d] = reply[d],
         LaterConversation(c)'
  PROVE  LaterInv'
<1>1. UNCHANGED <<phase, inMemory, byOriginal, rows, session, restored, fresh>>
  BY DEF vars
<1>2. ASSUME NEW d \in Conversations PROVE LaterConversation(d)'
  <2>1. CASE d = c
    BY <2>1
  <2>2. CASE d # c
    BY <1>1, <2>2 DEF LaterInv, LaterConversation, SentIsKnown, MisreadIsReissued,
       Misread, ValueAt, Issued, Running
  <2> QED BY <2>1, <2>2
<1> QED
  BY <1>1, <1>2 DEF LaterInv, RowsAreRemembered, FirstProcess, Running

\* Of the requests' own steps only a look-up can read a placeholder wrong.
LEMMA TalkLaterInv ==
  ASSUME SessionInv, LaterInv, NEW c \in Conversations,
         BeginRedact(c) \/ Send(c) \/ BeginUnredact(c) \/ EndUnredact(c)
  PROVE  LaterInv'
<1>1. /\ UNCHANGED vars /\ TalkTypeOK /\ ReplyIsQuoted(c) /\ LaterConversation(c)
      /\ UNCHANGED <<phase, inMemory, byOriginal, rows, session, restored, fresh>>
  BY DEF BeginRedact, Send, BeginUnredact, EndUnredact, SessionInv, LaterInv, vars
<1>2. /\ \A d \in Conversations \ {c} :
           text'[d] = text[d] /\ message'[d] = message[d] /\ reply'[d] = reply[d]
      /\ LaterConversation(c)'
  <2>1. CASE BeginRedact(c)
    <3>1. PICK txt \in Texts :
            /\ text' = [text EXCEPT ![c] = txt]
            /\ message' = [message EXCEPT ![c] = RawText(txt)]
      BY <2>1 DEF BeginRedact
    <3>2. reply' = reply /\ stage[c] = "idle" /\ DOMAIN reply[c] = {}
      BY <1>1, <2>1 DEF BeginRedact, ReplyIsQuoted
    <3>3. \A p \in DOMAIN message'[c] : message'[c][p].raw
      BY <1>1, <3>1, TextAssumption, RawTextPieces, PieceFields DEF TalkTypeOK
    <3> QED BY <1>1, <3>1, <3>2, <3>3 DEF LaterConversation, TalkTypeOK
  <2>2. CASE Send(c) \/ EndUnredact(c)
    <3>1. UNCHANGED <<text, message, reply>>
      BY <2>2 DEF Send, EndUnredact
    <3> QED BY <1>1, <3>1 DEF LaterConversation, SentIsKnown, MisreadIsReissued,
            Misread, ValueAt, Issued, Running
  <2>3. CASE BeginUnredact(c)
    <3>1. /\ UNCHANGED <<text, message>>
          /\ reply' = [reply EXCEPT ![c] = message[c]]
      BY <2>3 DEF BeginUnredact
    <3>2. \A p \in DOMAIN reply'[c] : ~Misread(c, p)'
      BY <1>1, <3>1 DEF Misread, TalkTypeOK
    <3> QED BY <1>1, <3>1, <3>2 DEF LaterConversation, SentIsKnown,
            MisreadIsReissued, ValueAt, Issued, Running, TalkTypeOK
  <2> QED BY <2>1, <2>2, <2>3
<1> QED BY <1>1, <1>2, OneLaterConversation

LEMMA RestoreNextLaterInv ==
  ASSUME SessionInv, LaterInv, DistinctLabels, NEW c \in Conversations,
         RestoreNext(c)
  PROVE  LaterInv'
<1>1. PICK p \in toDo[c] : reply' = [reply EXCEPT ![c][p] = Restored(@)]
  BY DEF RestoreNext
<1>2. /\ Running /\ stage[c] = "restoring"
      /\ UNCHANGED vars /\ UNCHANGED <<stage, text, message>>
      /\ UNCHANGED <<phase, inMemory, byOriginal, rows, session, restored, fresh>>
      /\ TalkTypeOK /\ MessageIsScanned(c) /\ ReplyIsQuoted(c) /\ LaterConversation(c)
  BY DEF RestoreNext, SessionInv, LaterInv, vars
<1>3. /\ p \in DOMAIN message[c] /\ p \in DOMAIN reply[c]
      /\ ~message[c][p].raw /\ reply[c][p] = message[c][p]
  BY <1>1, <1>2 DEF MessageIsScanned, ReplyIsQuoted
<1>4. /\ reply'[c] = [reply[c] EXCEPT ![p] = Restored(message[c][p])]
      /\ \A d \in Conversations \ {c} : reply'[d] = reply[d]
  BY <1>1, <1>2, <1>3 DEF TalkTypeOK
<1> DEFINE ph == message[c][p].placeholder
<1>5. ASSUME Misread(c, p)', session <= 2
      PROVE  session = 2 /\ ph \in Issued
  <2>1. reply'[c][p] = Restored(message[c][p])
    BY <1>3, <1>4
  <2>2. /\ ph \in DOMAIN inMemory
        /\ inMemory[ph].original # ValueAt(c, p)
    BY <1>2, <1>3, <1>5, <2>1, PieceFields
       DEF Misread, ValueAt, Restored, Resolves, Lookup
  <2>3. ph \in Issued
    BY <1>2, <1>3, <1>5, <2>2 DEF LaterConversation, SentIsKnown
  <2>4. session # 1
    BY <1>2, <1>3, <1>5, <2>1, RestoredIsRight, PieceFields
       DEF FirstProcess, Misread, ValueAt
  <2>5. session \in Nat /\ session >= 1
    BY BoundAssumption DEF SessionInv, IInv, TypeOK
  <2> QED BY <1>5, <2>3, <2>4, <2>5
<1> HIDE DEF ph
<1>6. ASSUME session <= 2, NEW q \in DOMAIN reply'[c]
      PROVE  MisreadIsReissued(c, q)'
  <2>1. CASE q = p
    BY <1>2, <1>5, <1>6, <2>1 DEF MisreadIsReissued, Issued, ph
  <2>2. CASE q # p
    <3>1. q \in DOMAIN reply[c] /\ reply'[c][q] = reply[c][q]
      BY <1>4, <1>6, <2>2
    <3> QED BY <1>2, <1>6, <3>1 DEF LaterConversation, MisreadIsReissued, Misread,
            ValueAt, Issued, Running
  <2> QED BY <2>1, <2>2
<1>7. LaterConversation(c)'
  BY <1>2, <1>6 DEF LaterConversation, SentIsKnown, ValueAt, Issued, Running
<1> QED
  BY <1>2, <1>4, <1>7, OneLaterConversation

\* A create makes a placeholder known wrongly only by handing it out.
LEMMA ReplaceLaterInv ==
  ASSUME SessionInv, LaterInv, DistinctLabels, NEW c \in Conversations, Replace(c)
  PROVE  LaterInv'
<1>1. PICK p \in toDo[c] : \E t \in TypesOf[text[c][p]] :
        /\ GetOrCreate(ValueAt(c, p), t)
        /\ message' = [message EXCEPT
             ![c][p] = Masked(Answer(ValueAt(c, p), t).placeholder)]
  BY DEF Replace
<1>2. /\ stage[c] = "redacting" /\ UNCHANGED <<stage, text, reply>>
      /\ TalkTypeOK /\ MessageIsScanned(c) /\ ReplyIsQuoted(c) /\ IInv
      /\ DOMAIN reply[c] = {}
  BY DEF Replace, SessionInv, ReplyIsQuoted
<1>3. /\ p \in DOMAIN text[c] /\ p \in DOMAIN message[c]
      /\ ValueAt(c, p) \in Originals /\ TypesOf[text[c][p]] \subseteq Types
  <2>1. p \in DOMAIN text[c] /\ text[c] \in Seq(Matches)
    BY <1>1, <1>2 DEF MessageIsScanned, Scan, TalkTypeOK
  <2>2. text[c][p] \in Matches
    BY <2>1
  <2> QED BY <1>1, <1>2, <2>1, <2>2, TextAssumption DEF MessageIsScanned, ValueAt
<1>4. PICK t \in Types :
        /\ GetOrCreate(ValueAt(c, p), t)
        /\ message' = [message EXCEPT
             ![c][p] = Masked(Answer(ValueAt(c, p), t).placeholder)]
  BY <1>1, <1>3
<1> DEFINE o == ValueAt(c, p)
           new == Answer(o, t).placeholder
<1>5. /\ Running' /\ [Next]_vars /\ new \in Placeholder
      /\ o \in DOMAIN byOriginal' /\ byOriginal'[o] = new
      /\ \A x \in DOMAIN byOriginal :
           x \in DOMAIN byOriginal' /\ byOriginal'[x] = byOriginal[x]
  BY <1>4, <1>2, <1>3, GetOrCreateNames
<1>6. /\ Running /\ session' = session /\ restored' = restored /\ phase' = phase
      /\ fresh \subseteq fresh' /\ fresh \subseteq DOMAIN byOriginal
  BY <1>4, <1>2 DEF GetOrCreate, IInv, TypeOK
<1>7. Issued \subseteq Issued'
  BY <1>5, <1>6 DEF Issued
<1>8. /\ \A ph \in DOMAIN inMemory' : ph # new =>
           ph \in DOMAIN inMemory /\ inMemory'[ph] = inMemory[ph]
      /\ new \in DOMAIN inMemory' /\ (inMemory'[new].original = o \/ new \in Issued')
      /\ \/ inMemory' = inMemory /\ rows' = rows
         \/ new \in Issued'
  <2>1. CASE o \in DOMAIN byOriginal
    <3>1. inMemory' = inMemory /\ byOriginal' = byOriginal /\ fresh' = fresh /\ rows' = rows
      BY <1>4, <2>1 DEF GetOrCreate, memory
    <3>2. new \in DOMAIN inMemory
      BY <1>2, <1>5, <2>1, <3>1 DEF IInv, HitsFindAMapping
    <3>3. inMemory[new].original = o \/ new \in Issued
      BY <1>2, <1>5, <2>1, <3>1 DEF IInv, HitsAreRightOrReissued, LaterInv
    <3> QED BY <1>7, <3>1, <3>2, <3>3
  <2>2. CASE o \notin DOMAIN byOriginal
    <3>1. /\ counter[t] < MaxNum /\ fresh' = fresh \cup {o}
          /\ inMemory' = Put(inMemory, NewMapping(o, t).placeholder, NewMapping(o, t))
          /\ new = NewMapping(o, t).placeholder
      BY <1>4, <2>2 DEF GetOrCreate, Create, Answer
    <3>2. new \in Issued'
      BY <1>5, <3>1 DEF Issued
    <3> QED BY <3>1, <3>2 DEF Put
  <2> QED BY <2>1, <2>2
<1>9. FirstProcess => RowsAreRemembered'
  <2>1. CASE inMemory' = inMemory /\ rows' = rows
    BY <1>6, <2>1 DEF LaterInv, RowsAreRemembered
  <2>2. CASE o \notin DOMAIN byOriginal
    <3> SUFFICES ASSUME FirstProcess PROVE RowsAreRemembered'
      OBVIOUS
    <3> DEFINE m == NewMapping(o, t)
    <3>1. /\ counter[t] < MaxNum /\ inMemory' = Put(inMemory, m.placeholder, m)
          /\ rows' = PersistedRows(m) \/ rows' = rows
      BY <1>4, <2>2 DEF GetOrCreate, Create, PersistMapping
    <3>2. m.placeholder.label = LabelOf[t] /\ m.placeholder.num = counter[t] + 1
      BY <1>2, <1>3, <3>1, NewMappingType DEF IInv
    <3>3. m.placeholder \notin DOMAIN inMemory
      BY <1>2, <1>3, <3>2, NewPlaceholderIsNew
         DEF SessionInv, FirstProcessInv, VaultInv, IInv
    <3>4. RowsAreRemembered
      BY <1>6 DEF LaterInv
    <3> HIDE DEF m
    <3> QED BY <3>1, <3>3, <3>4 DEF RowsAreRemembered, PersistedRows, Put
  <2>3. CASE o \in DOMAIN byOriginal
    BY <1>4, <2>1, <2>3 DEF GetOrCreate, memory
  <2> QED BY <2>2, <2>3
<1> HIDE DEF o, new
<1>10. /\ message'[c] = [message[c] EXCEPT ![p] = Masked(new)]
      /\ \A d \in Conversations \ {c} : message'[d] = message[d]
  BY <1>4, <1>2 DEF TalkTypeOK, new, o
<1>11. ASSUME NEW d \in Conversations, session <= 2
       PROVE  LaterConversation(d)'
  <2>1. ASSUME NEW q \in DOMAIN message'[d], ~message'[d][q].raw
        PROVE  SentIsKnown(d, q)'
    <3>1. CASE d = c /\ q = p
      <4>1. message'[d][q].placeholder = new
        BY <1>3, <1>10, <3>1, PieceFields
      <4> QED BY <1>2, <1>5, <1>8, <3>1, <4>1 DEF SentIsKnown, ValueAt, o
    <3>2. CASE ~(d = c /\ q = p)
      <4>1. q \in DOMAIN message[d] /\ message'[d][q] = message[d][q]
        BY <1>10, <2>1, <3>2
      <4>2. SentIsKnown(d, q)
        BY <1>11, <2>1, <4>1 DEF LaterInv, LaterConversation
      <4> DEFINE ph == message[d][q].placeholder
      <4>3. ASSUME ph \in DOMAIN inMemory'
            PROVE  inMemory'[ph].original = ValueAt(d, q) \/ ph \in Issued'
        <5>1. CASE ph \in DOMAIN inMemory /\ inMemory'[ph] = inMemory[ph]
          BY <1>6, <1>7, <4>2, <5>1 DEF SentIsKnown
        <5>2. CASE ph = new /\ new \in Issued'
          BY <5>2
        <5> QED BY <1>8, <4>3, <5>1, <5>2
      <4> QED BY <1>2, <1>5, <4>1, <4>3 DEF SentIsKnown, ValueAt
    <3> QED BY <3>1, <3>2
  <2>2. ASSUME NEW q \in DOMAIN reply'[d]
        PROVE  MisreadIsReissued(d, q)'
    <3>1. q \in DOMAIN reply[d] /\ d # c /\ MisreadIsReissued(d, q)
      BY <1>2, <1>11, <2>2 DEF LaterInv, LaterConversation
    <3> QED BY <1>2, <1>6, <1>7, <1>10, <3>1 DEF MisreadIsReissued, Misread, ValueAt
  <2> QED BY <2>1, <2>2 DEF LaterConversation
<1>12. ASSUME NEW d \in Conversations PROVE LaterConversation(d)'
  BY <1>6, <1>11 DEF LaterConversation
<1> QED
  BY <1>6, <1>9, <1>12 DEF LaterInv, FirstProcess

\* When the first process ends, what it told the agents is in the table right
\* or not at all.
LEMMA StopLaterInv ==
  ASSUME SessionInv, LaterInv, DistinctLabels, Stop
  PROVE  LaterInv'
<1>1. /\ Running /\ ~Running' /\ session' = session /\ ~restored' /\ rows' = rows
      /\ text' = [c \in Conversations |->
                    IF stage[c] = "redacting" THEN <<>> ELSE text[c]]
      /\ message' = [c \in Conversations |->
                       IF stage[c] = "redacting" THEN <<>> ELSE message[c]]
      /\ reply' = [c \in Conversations |->
                     IF stage[c] = "restoring" THEN <<>> ELSE reply[c]]
  BY DEF Stop, Exit, Running
<1>2. ASSUME NEW c \in Conversations, session <= 2
      PROVE  LaterConversation(c)'
  <2>1. ASSUME NEW p \in DOMAIN message'[c], ~message'[c][p].raw
        PROVE  SentIsKnown(c, p)'
    <3> DEFINE ph == message[c][p].placeholder
    <3>1. /\ message'[c] = message[c] /\ text'[c] = text[c]
          /\ p \in DOMAIN message[c] /\ ~message[c][p].raw
      BY <1>1, <2>1
    <3>2. ASSUME session = 1, ph \in DOMAIN rows
          PROVE  rows[ph].original = ValueAt(c, p)
      <4>1. /\ FirstProcessInv /\ RowsAreRemembered
        BY <1>1, <3>2 DEF SessionInv, LaterInv, FirstProcess
      <4>2. /\ ValueAt(c, p) \in DOMAIN byOriginal
            /\ message[c][p] = Masked(byOriginal[ValueAt(c, p)])
        BY <1>1, <3>1, <4>1 DEF FirstProcessInv, MessageIsKnown
      <4>3. ph = byOriginal[ValueAt(c, p)]
        BY <4>2, PieceFields
      <4>4. inMemory[ph].original = ValueAt(c, p)
        BY <4>1, <4>2, <4>3 DEF FirstProcessInv, VaultInv, AnswersAreForTheValue
      <4> QED BY <3>2, <4>1, <4>4 DEF RowsAreRemembered
    <3> QED BY <1>1, <3>1, <3>2 DEF SentIsKnown, ValueAt
  <2>2. ASSUME NEW p \in DOMAIN reply'[c]
        PROVE  MisreadIsReissued(c, p)'
    <3>1. ReplyIsQuoted(c)
      BY DEF SessionInv
    <3>2. /\ stage[c] \notin {"restoring", "redacting"}
          /\ reply'[c] = reply[c] /\ message'[c] = message[c] /\ text'[c] = text[c]
          /\ p \in DOMAIN reply[c]
      BY <1>1, <2>2, <3>1 DEF ReplyIsQuoted
    <3>3. MisreadIsReissued(c, p)
      BY <1>2, <3>2 DEF LaterInv, LaterConversation
    <3> QED BY <1>1, <3>2, <3>3 DEF MisreadIsReissued, Misread, ValueAt
  <2> QED BY <2>1, <2>2 DEF LaterConversation
<1>3. \A c \in Conversations : LaterConversation(c)'
  BY <1>1, <1>2 DEF LaterConversation
<1> QED BY <1>1, <1>3 DEF LaterInv

\* A start knows of the table's placeholders what the table says, and has
\* handed out none.
LEMMA StartLaterInv ==
  ASSUME SessionInv, LaterInv, NEW k \in Keys, Start(k), UNCHANGED talk
  PROVE  LaterInv'
<1>1. /\ ~Running /\ Running' /\ session' = session + 1 /\ ~restored' /\ rows' = rows
      /\ UNCHANGED <<text, message, reply>>
      /\ session \in Nat /\ session >= 1
  BY BoundAssumption DEF Start, Running, talk, SessionInv, IInv, TypeOK
<1>2. PICK phs \in SUBSET ReadableWith(k) : inMemory' = [ph \in phs |-> LoadedMapping(ph)]
  BY DEF Start, LoadFromDB
<1>3. \A ph \in DOMAIN inMemory' :
        ph \in DOMAIN rows /\ inMemory'[ph].original = rows[ph].original
  BY <1>2 DEF ReadableWith, LoadedMapping
<1>4. ASSUME NEW c \in Conversations PROVE LaterConversation(c)'
  <2> SUFFICES ASSUME session' <= 2 PROVE LaterConversation(c)'
    BY DEF LaterConversation
  <2>1. session = 1 /\ session' = 2 /\ LaterConversation(c)
    BY <1>1 DEF LaterInv
  <2>2. \A p \in DOMAIN message[c] : ~message[c][p].raw => SentIsKnown(c, p)'
    BY <1>1, <1>3, <2>1 DEF LaterConversation, SentIsKnown, ValueAt
  <2>3. \A p \in DOMAIN reply[c] : ~Misread(c, p)
    BY <2>1 DEF LaterConversation, MisreadIsReissued
  <2>4. \A p \in DOMAIN reply[c] : MisreadIsReissued(c, p)'
    BY <1>1, <2>3 DEF MisreadIsReissued, Misread, ValueAt
  <2> QED BY <1>1, <2>2, <2>4 DEF LaterConversation
<1> QED BY <1>1, <1>4 DEF LaterInv, FirstProcess

LEMMA CloseLaterInv ==
  ASSUME LaterInv, Close \/ UNCHANGED vars, UNCHANGED <<text, message, reply>>
  PROVE  LaterInv'
<1>1. /\ Running' = Running
      /\ UNCHANGED <<inMemory, byOriginal, rows, session, restored, fresh>>
  BY DEF Close, Running, memory, history, vars
<1> QED
  BY <1>1 DEF LaterInv, LaterConversation, SentIsKnown, MisreadIsReissued, Misread,
     ValueAt, Issued, FirstProcess, RowsAreRemembered

LEMMA LaterNextInv ==
  ASSUME SessionInv, LaterInv, DistinctLabels, [SessionNext]_allVars
  PROVE  LaterInv'
<1>1. ASSUME NEW c \in Conversations,
             BeginRedact(c) \/ Send(c) \/ BeginUnredact(c) \/ EndUnredact(c)
      PROVE  LaterInv'
  BY <1>1, TalkLaterInv
<1>2. ASSUME NEW c \in Conversations, Replace(c) PROVE LaterInv'
  BY <1>2, ReplaceLaterInv
<1>3. ASSUME NEW c \in Conversations, RestoreNext(c) PROVE LaterInv'
  BY <1>3, RestoreNextLaterInv
<1>4. CASE Stop
  BY <1>4, StopLaterInv
<1>5. ASSUME NEW k \in Keys, Start(k), UNCHANGED talk PROVE LaterInv'
  BY <1>5, StartLaterInv
<1>6. CASE UNCHANGED talk /\ Close
  BY <1>6, CloseLaterInv DEF talk
<1>7. CASE UNCHANGED allVars
  BY <1>7, CloseLaterInv DEF allVars, vars
<1> QED
  BY <1>1, <1>2, <1>3, <1>4, <1>5, <1>6, <1>7 DEF SessionNext

\* However little of the table a restarted server could load, and whichever
\* writes had failed, it restores a value wrong only where it has handed out
\* that placeholder anew.
THEOREM MisreadsAreReissued == SessionSpec => []OnlyReissuedAreMisread
<1> DEFINE Later == DistinctLabels => LaterInv
<1>1. SessionInit => Later
  <2> SUFFICES ASSUME SessionInit PROVE LaterInv
    OBVIOUS
  <2> QED
    BY DEF SessionInit, Init, EmptyMap, LaterInv, LaterConversation, RowsAreRemembered
<1>2. SessionInv /\ Later /\ [SessionNext]_allVars => Later'
  BY LaterNextInv
<1>3. Later => OnlyReissuedAreMisread
  BY DEF LaterInv, LaterConversation, MisreadIsReissued, OnlyReissuedAreMisread
<1>4. QED
  BY <1>1, <1>2, <1>3, SessionInvariance, PTL DEF SessionSpec
=============================================================================
