-------------------------- MODULE ResultSetProofs --------------------------
(***************************************************************************)
(* Proofs about what callers receive: whose connections and which rows     *)
(* (ResultSet), which values are reported and masked in them               *)
(* (DetectorScan), and what is left of a document or a reply (Documents).  *)
(*                                                                         *)
(* Part one is for every finite set of calls and every size of the pool.   *)
(* What a call keeps open follows from its stage, and the connections of   *)
(* the pool are counted by what is open; neither is inductive without the  *)
(* other, nor without the stages' type.                                    *)
(*                                                                         *)
(* Part two is for all texts, patterns, locales and context windows.  What *)
(* is reported is decided where a value is first met, because what has     *)
(* been seen is what earlier patterns and matches have met; and masking,   *)
(* one finding after the other in a text that is masked already, hides an  *)
(* occurrence of every reported value and nothing that is not part of one. *)
(*                                                                         *)
(* Part three is for all documents and replies: whatever leaves they have, *)
(* under whatever paths and keys.                                          *)
(***************************************************************************)
EXTENDS MCResultSet, DetectorScan, FiniteSetTheorems, WellFoundedInduction, TLAPS

(***************************************************************************)
(* Part one: connections and rows.                                         *)
(***************************************************************************)

Held == open \cap Pooled

PoolInv ==
  /\ stage \in [Calls -> Stages]
  /\ open \subseteq Calls
  /\ free \in Nat
  /\ PoolIsWhole

\* The connections in use can be counted.
LEMMA HeldFinite ==
  ASSUME open \subseteq Calls
  PROVE  IsFiniteSet(Held) /\ Cardinality(Held) \in Nat
<1>1. IsFiniteSet(Calls) /\ Held \subseteq Calls
  BY KindsAssumption DEF Calls, Held
<1> QED BY <1>1, FS_Subset, FS_CardinalityType

\* A step between two stages that keep nothing open, or two that do, and that
\* opens and closes nothing.
LEMMA SameOpen ==
  ASSUME PoolInv, NEW c \in Calls, NEW to \in Stages, Go(c, to),
         to \in {"running", "reading"} <=> stage[c] \in {"running", "reading"},
         UNCHANGED <<free, open>>
  PROVE  PoolInv'
<1>1. stage' \in [Calls -> Stages]
  BY DEF PoolInv, Go
<1>2. open' = {d \in Calls : stage'[d] \in {"running", "reading"}}
  BY DEF PoolInv, PoolIsWhole, Go
<1> QED BY <1>1, <1>2 DEF PoolInv, PoolIsWhole

\* A call that takes a connection.
LEMMA TakeKeeps ==
  ASSUME PoolInv, NEW c \in Calls, Take(c)
  PROVE  PoolInv'
<1>1. stage' \in [Calls -> Stages]
  BY DEF PoolInv, Take, Go, Stages
<1>2. open' = {d \in Calls : stage'[d] \in {"running", "reading"}}
  BY DEF PoolInv, PoolIsWhole, Take, Go
<1>3. c \notin open /\ open' = open \cup {c}
  BY DEF PoolInv, PoolIsWhole, Take
<1>4. IsFiniteSet(Held) /\ Cardinality(Held) \in Nat
  BY HeldFinite DEF PoolInv
<1>5. free' \in Nat /\ free' + Cardinality(Held') = maxOpen
  <2>1. CASE c \in Pooled
    <3>1. Held' = Held \cup {c} /\ c \notin Held
      BY <1>3, <2>1 DEF Held
    <3>2. Cardinality(Held') = Cardinality(Held) + 1
      BY <3>1, <1>4, FS_AddElement
    <3>3. free \in Nat /\ free > 0 /\ free' = free - 1
      BY <2>1 DEF PoolInv, Take
    <3>4. free + Cardinality(Held) = maxOpen
      BY DEF PoolInv, PoolIsWhole, Held
    <3> QED BY <3>2, <3>3, <3>4, <1>4, PoolAssumption
  <2>2. CASE c \notin Pooled
    <3>1. Held' = Held
      BY <1>3, <2>2 DEF Held
    <3> QED BY <3>1, <2>2 DEF PoolInv, PoolIsWhole, Take, Held
  <2> QED BY <2>1, <2>2
<1> QED BY <1>1, <1>2, <1>3, <1>5 DEF PoolInv, PoolIsWhole, Held

\* A call that is done gives back what it has, and only that.
LEMMA LeaveKeeps ==
  ASSUME PoolInv, NEW c \in Calls, NEW e \in BOOLEAN, Leave(c, e)
  PROVE  PoolInv'
<1>1. stage' \in [Calls -> Stages]
  BY DEF PoolInv, Leave, Go, Stages
<1>2. open' = open \ {c}
  BY DEF Leave
<1>3. open' = {d \in Calls : stage'[d] \in {"running", "reading"}}
  BY DEF PoolInv, PoolIsWhole, Leave, Go
<1>4. IsFiniteSet(Held) /\ Cardinality(Held) \in Nat
  BY HeldFinite DEF PoolInv
<1>5. free \in Nat /\ free + Cardinality(Held) = maxOpen
  BY DEF PoolInv, PoolIsWhole, Held
<1>6. free' \in Nat /\ free' + Cardinality(Held') = maxOpen
  <2>1. CASE c \in Held
    <3>1. Held' = Held \ {c}
      BY <1>2 DEF Held
    <3>2. Cardinality(Held') = Cardinality(Held) - 1
      BY <3>1, <2>1, <1>4, FS_RemoveElement
    <3>3. free' = free + 1
      BY <2>1 DEF Leave, Held
    <3> QED BY <3>2, <3>3, <1>4, <1>5, PoolAssumption
  <2>2. CASE c \notin Held
    <3>1. Held' = Held
      BY <1>2, <2>2 DEF Held
    <3>2. free' = free
      BY <2>2 DEF Leave, Held
    <3> QED BY <3>1, <3>2, <1>5
  <2> QED BY <2>1, <2>2
<1> QED BY <1>1, <1>2, <1>3, <1>6 DEF PoolInv, PoolIsWhole, Held

\* Nothing is open at first and every connection is free.
LEMMA InitPoolInv == Init => PoolInv
<1> SUFFICES ASSUME Init PROVE PoolInv
  OBVIOUS
<1>1. open \cap Pooled = {} /\ open = {c \in Calls : stage[c] \in {"running", "reading"}}
  BY DEF Init
<1>2. Cardinality(open \cap Pooled) = 0
  BY <1>1, FS_EmptySet
<1> QED BY <1>1, <1>2, PoolAssumption DEF Init, PoolInv, PoolIsWhole, Stages

\* Every step keeps the pool whole.
LEMMA NextPoolInv == PoolInv /\ [Next]_vars => PoolInv'
<1> SUFFICES ASSUME PoolInv, [Next]_vars PROVE PoolInv'
  OBVIOUS
<1>1. CASE UNCHANGED vars
  BY <1>1 DEF vars, PoolInv, PoolIsWhole
<1>2. ASSUME NEW c \in Calls, Begin(c) PROVE PoolInv'
  BY <1>2, SameOpen DEF Begin, Stages
<1>3. ASSUME NEW c \in Calls, Take(c) PROVE PoolInv'
  BY <1>3, TakeKeeps
<1>4. ASSUME NEW c \in Calls, Answered(c) PROVE PoolInv'
  <2>1. CASE c \in Execs
    BY <1>4, <2>1, LeaveKeeps DEF Answered
  <2>2. CASE c \notin Execs
    BY <1>4, <2>2, SameOpen DEF Answered, Stages
  <2> QED BY <2>1, <2>2
<1>5. ASSUME NEW c \in Calls, Refused(c) \/ Expire(c) \/ FailOnRow(c) \/ ReadEnd(c)
      PROVE  PoolInv'
  BY <1>5, LeaveKeeps DEF Refused, Expire, FailOnRow, ReadEnd
<1>6. ASSUME NEW c \in Calls, BreakOff(c) PROVE PoolInv'
  <2>1. CASE c \in Schemas
    <3>1. Leave(c, TRUE)
      BY <1>6, <2>1 DEF BreakOff, Leave
    <3> QED BY <3>1, LeaveKeeps
  <2>2. CASE c \notin Schemas
    <3>1. Leave(c, FALSE)
      BY <1>6, <2>2 DEF BreakOff, Leave
    <3> QED BY <3>1, LeaveKeeps
  <2> QED BY <2>1, <2>2
<1>7. ASSUME NEW c \in Calls, ReadRow(c) \/ SkipRow(c) PROVE PoolInv'
  BY <1>7 DEF ReadRow, SkipRow, PoolInv, PoolIsWhole
<1> QED BY <1>1, <1>2, <1>3, <1>4, <1>5, <1>6, <1>7 DEF Next, Step

\* On every way out of a call its connection is back in the pool, and none is
\* given back twice (registry.go:338, :444).
THEOREM PoolKeepsItsConnections == Spec => []PoolIsWhole
<1>1. PoolInv => PoolIsWhole
  BY DEF PoolInv
<1> QED BY <1>1, InitPoolInv, NextPoolInv, PTL DEF Spec

-----------------------------------------------------------------------------
(***************************************************************************)
(* The rows.  QueryDropsNoRow speaks of calls that are done; a call that   *)
(* still reads must have kept every row so far.                            *)
(***************************************************************************)
RowsType ==
  /\ rows \in [Calls -> Seq({"plain", "masked"})]
  /\ sent \in [Calls -> Seq(Rows)]
  /\ masked \in [Calls -> Seq(Nat)]
  /\ failed \subseteq Calls

Kept(c) ==
  /\ Len(rows[c]) = Len(sent[c])
  /\ \A i \in DOMAIN rows[c] : rows[c][i] = "plain" <=> sent[c][i] = "plain"

MaskedRows(s) == {i - 1 : i \in {j \in DOMAIN s : s[j] = "masked"}}
Elements(s) == {s[i] : i \in DOMAIN s}

RowsInv ==
  /\ RowsType
  /\ \A c \in Queries : c \notin failed => Kept(c)
  /\ \A c \in Calls : Elements(masked[c]) = MaskedRows(rows[c])

\* A row without a sensitive cell adds nothing to the masked ones.
LEMMA AppendPlain ==
  ASSUME NEW s \in Seq({"plain", "masked"})
  PROVE  MaskedRows(Append(s, "plain")) = MaskedRows(s)
BY DEF MaskedRows

\* A row with one adds its own index, counted from zero.
LEMMA AppendMasked ==
  ASSUME NEW s \in Seq({"plain", "masked"})
  PROVE  MaskedRows(Append(s, "masked")) = MaskedRows(s) \cup {Len(s)}
<1>1. \A j : j \in DOMAIN Append(s, "masked") <=> j \in DOMAIN s \/ j = Len(s) + 1
  OBVIOUS
<1>2. \A j \in DOMAIN s : Append(s, "masked")[j] = s[j]
  OBVIOUS
<1>3. Append(s, "masked")[Len(s) + 1] = "masked"
  OBVIOUS
<1>4. Len(s) = (Len(s) + 1) - 1
  OBVIOUS
<1> QED BY <1>1, <1>2, <1>3, <1>4 DEF MaskedRows

\* Appending adds one element.
LEMMA AppendElement ==
  ASSUME NEW s \in Seq(Nat), NEW n \in Nat
  PROVE  Elements(Append(s, n)) = Elements(s) \cup {n}
<1>1. \A j : j \in DOMAIN Append(s, n) <=> j \in DOMAIN s \/ j = Len(s) + 1
  OBVIOUS
<1>2. \A j \in DOMAIN s : Append(s, n)[j] = s[j]
  OBVIOUS
<1>3. Append(s, n)[Len(s) + 1] = n
  OBVIOUS
<1> QED BY <1>1, <1>2, <1>3 DEF Elements

\* Nothing has been sent at first.
LEMMA InitRowsInv == Init => RowsInv
BY DEF Init, RowsInv, RowsType, Kept, Elements, MaskedRows, Rows

\* A row that is read, masked or not, is kept and noted.
LEMMA ReadRowKeeps ==
  ASSUME RowsInv, NEW c \in Calls, ReadRow(c)
  PROVE  RowsInv'
<1>1. PICK r \in RowsOf(c) \ {"bad"} : Send(c, r) /\ Add(c, r)
  BY DEF ReadRow
<1> DEFINE x == IF r = "sensitive" THEN "masked" ELSE r
<1>2. r \in {"plain", "sensitive"} /\ r \in Rows
  BY DEF RowsOf, Rows
<1>3. /\ rows[c] \in Seq({"plain", "masked"})
      /\ sent[c] \in Seq(Rows)
      /\ masked[c] \in Seq(Nat)
      /\ Len(rows[c]) \in Nat
  BY DEF RowsInv, RowsType
<1>4. /\ rows' = [rows EXCEPT ![c] = Append(@, x)]
      /\ sent' = [sent EXCEPT ![c] = Append(@, r)]
      /\ masked' = [masked EXCEPT ![c] = IF r = "sensitive" THEN Append(@, Len(rows[c])) ELSE @]
      /\ failed' = failed
  BY <1>1 DEF Send, Add, ReadRow
<1>5. x \in {"plain", "masked"} /\ (x = "plain" <=> r = "plain")
  BY <1>2
<1> HIDE DEF x
<1>6. RowsType'
  <2>1. Append(rows[c], x) \in Seq({"plain", "masked"})
    BY <1>3, <1>5
  <2>2. Append(sent[c], r) \in Seq(Rows)
    BY <1>3, <1>2
  <2>3. Append(masked[c], Len(rows[c])) \in Seq(Nat)
    BY <1>3
  <2> QED BY <2>1, <2>2, <2>3, <1>4 DEF RowsInv, RowsType
<1>7. \A d \in Calls : d # c =>
        rows'[d] = rows[d] /\ sent'[d] = sent[d] /\ masked'[d] = masked[d]
  BY <1>4 DEF RowsInv, RowsType
<1>8. /\ rows'[c] = Append(rows[c], x)
      /\ sent'[c] = Append(sent[c], r)
      /\ masked'[c] = IF r = "sensitive" THEN Append(masked[c], Len(rows[c])) ELSE masked[c]
  BY <1>4 DEF RowsInv, RowsType
<1>9. ASSUME NEW d \in Queries, d \notin failed' PROVE Kept(d)'
  <2>1. d \in Calls /\ Kept(d)
    BY <1>9, <1>4 DEF RowsInv, Calls
  <2>2. CASE d # c
    BY <2>1, <2>2, <1>7 DEF Kept
  <2>3. CASE d = c
    <3>1. Len(rows[c]) = Len(sent[c])
      BY <2>1, <2>3 DEF Kept
    <3>2. Len(rows'[c]) = Len(sent'[c])
      BY <3>1, <1>8, <1>3
    <3>3. ASSUME NEW i \in DOMAIN rows'[c]
          PROVE  rows'[c][i] = "plain" <=> sent'[c][i] = "plain"
      <4>1. CASE i = Len(rows[c]) + 1
        BY <4>1, <3>1, <1>8, <1>3, <1>5
      <4>2. CASE i # Len(rows[c]) + 1
        <5>1. i \in DOMAIN rows[c] /\ i \in DOMAIN sent[c]
          BY <3>3, <4>2, <3>1, <1>8, <1>3
        <5>2. rows'[c][i] = rows[c][i] /\ sent'[c][i] = sent[c][i]
          BY <5>1, <1>8, <1>3
        <5> QED BY <5>1, <5>2, <2>1, <2>3 DEF Kept
      <4> QED BY <4>1, <4>2
    <3> QED BY <3>2, <3>3, <2>3 DEF Kept
  <2> QED BY <2>2, <2>3
<1>10. ASSUME NEW d \in Calls PROVE Elements(masked'[d]) = MaskedRows(rows'[d])
  <2>1. Elements(masked[d]) = MaskedRows(rows[d])
    BY DEF RowsInv
  <2>2. CASE d # c
    BY <2>1, <2>2, <1>7
  <2>3. CASE d = c /\ r = "sensitive"
    <3>1. x = "masked"
      BY <2>3 DEF x
    <3> QED BY <3>1, <2>1, <2>3, <1>8, <1>3, AppendMasked, AppendElement
  <2>4. CASE d = c /\ r # "sensitive"
    <3>1. x = "plain"
      BY <2>4, <1>2 DEF x
    <3> QED BY <3>1, <2>1, <2>4, <1>8, <1>3, AppendPlain
  <2> QED BY <2>2, <2>3, <2>4
<1> QED BY <1>6, <1>9, <1>10 DEF RowsInv

\* Every step keeps what has been read.
LEMMA NextRowsInv == RowsInv /\ [Next]_vars => RowsInv'
<1> SUFFICES ASSUME RowsInv, [Next]_vars PROVE RowsInv'
  OBVIOUS
<1>1. ASSUME UNCHANGED <<rows, sent, masked>>, failed \subseteq failed', failed' \subseteq Calls
      PROVE  RowsInv'
  BY <1>1 DEF RowsInv, RowsType, Kept
<1>2. ASSUME NEW c \in Calls, NEW e \in BOOLEAN, Leave(c, e), UNCHANGED <<rows, sent, masked>>
      PROVE  RowsInv'
  BY <1>1, <1>2 DEF Leave, RowsInv, RowsType
<1>3. CASE UNCHANGED vars
  BY <1>1, <1>3 DEF vars, RowsInv, RowsType
<1>4. ASSUME NEW c \in Calls, Begin(c) \/ Take(c) PROVE RowsInv'
  BY <1>1, <1>4 DEF Begin, Take, RowsInv, RowsType
<1>5. ASSUME NEW c \in Calls, Answered(c) PROVE RowsInv'
  <2>1. CASE c \in Execs
    BY <1>2, <1>5, <2>1 DEF Answered
  <2>2. CASE c \notin Execs
    BY <1>1, <1>5, <2>2 DEF Answered, RowsInv, RowsType
  <2> QED BY <2>1, <2>2
<1>6. ASSUME NEW c \in Calls, Refused(c) \/ Expire(c) \/ ReadEnd(c) PROVE RowsInv'
  BY <1>2, <1>6 DEF Refused, Expire, ReadEnd
<1>7. ASSUME NEW c \in Calls, BreakOff(c) PROVE RowsInv'
  <2>1. CASE c \in Schemas
    <3>1. Leave(c, TRUE)
      BY <1>7, <2>1 DEF BreakOff, Leave
    <3> QED BY <3>1, <1>2, <1>7 DEF BreakOff
  <2>2. CASE c \notin Schemas
    <3>1. Leave(c, FALSE)
      BY <1>7, <2>2 DEF BreakOff, Leave
    <3> QED BY <3>1, <1>2, <1>7 DEF BreakOff
  <2> QED BY <2>1, <2>2
<1>8. ASSUME NEW c \in Calls, ReadRow(c) PROVE RowsInv'
  BY <1>8, ReadRowKeeps
<1>9. ASSUME NEW c \in Calls, SkipRow(c) \/ FailOnRow(c) PROVE RowsInv'
  <2>1. /\ sent' = [sent EXCEPT ![c] = Append(@, "bad")]
        /\ UNCHANGED <<rows, masked>>
        /\ failed \subseteq failed' /\ failed' \subseteq Calls
        /\ c \in Queries => c \in failed'
    BY <1>9 DEF SkipRow, FailOnRow, Send, Leave, RowsInv, RowsType
  <2>2. RowsType'
    <3>1. Append(sent[c], "bad") \in Seq(Rows)
      BY DEF RowsInv, RowsType, Rows
    <3> QED BY <3>1, <2>1 DEF RowsInv, RowsType
  <2>3. ASSUME NEW d \in Queries, d \notin failed' PROVE Kept(d)'
    <3>1. d # c /\ Kept(d) /\ d \in Calls
      BY <2>1, <2>3 DEF RowsInv, Calls
    <3>2. sent'[d] = sent[d] /\ rows'[d] = rows[d]
      BY <3>1, <2>1 DEF RowsInv, RowsType
    <3> QED BY <3>1, <3>2 DEF Kept
  <2> QED BY <2>1, <2>2, <2>3 DEF RowsInv
<1> QED BY <1>3, <1>4, <1>5, <1>6, <1>7, <1>8, <1>9 DEF Next, Step

\* A Query that succeeds has a row for each one it was sent, in their order
\* (registry.go:349-379).
THEOREM QueryKeepsRows == Spec => []QueryDropsNoRow
<1>1. RowsInv => QueryDropsNoRow
  BY DEF RowsInv, QueryDropsNoRow, Kept
<1> QED BY <1>1, InitRowsInv, NextRowsInv, PTL DEF Spec

\* The indices of the masked cells are those of rows of the result, however
\* many rows have been skipped (registry.go:370-378, mongo.go:149-161).
THEOREM ReportIsAboutTheResult == Spec => []MaskedMatchesRows
<1>1. RowsInv => MaskedMatchesRows
  BY DEF RowsInv, MaskedMatchesRows, Elements, MaskedRows
<1> QED BY <1>1, InitRowsInv, NextRowsInv, PTL DEF Spec

\* Rows are read no faster than they are sent, within the bound on what is
\* sent.
RowsInBound ==
  /\ \A c \in Calls : Len(rows[c]) <= Len(sent[c]) /\ Len(sent[c]) <= MaxRows
  /\ whole \subseteq Calls

LEMMA NextRowsInBound == RowsInv /\ RowsInBound /\ [Next]_vars => RowsInBound'
<1> SUFFICES ASSUME RowsInv, RowsInBound, [Next]_vars PROVE RowsInBound'
  OBVIOUS
<1>1. CASE UNCHANGED <<rows, sent>> /\ whole' \subseteq Calls
  BY <1>1 DEF RowsInBound
<1>2. ASSUME NEW c \in Calls, NEW r \in Rows, CanSend(c), Send(c, r), whole' = whole,
             \/ rows' = rows
             \/ \E x \in {"plain", "masked"} : rows' = [rows EXCEPT ![c] = Append(@, x)]
      PROVE  RowsInBound'
  <2>1. rows[c] \in Seq({"plain", "masked"}) /\ sent[c] \in Seq(Rows)
    BY DEF RowsInv, RowsType
  <2>2. sent'[c] = Append(sent[c], r) /\ \A d \in Calls : d # c => sent'[d] = sent[d]
    BY <1>2 DEF Send, RowsInv, RowsType
  <2>3. /\ rows'[c] = rows[c] \/ \E x \in {"plain", "masked"} : rows'[c] = Append(rows[c], x)
        /\ \A d \in Calls : d # c => rows'[d] = rows[d]
    BY <1>2 DEF RowsInv, RowsType
  <2>4. /\ Len(sent'[c]) = Len(sent[c]) + 1 /\ Len(rows'[c]) <= Len(rows[c]) + 1
        /\ Len(rows'[c]) \in Nat
    BY <2>1, <2>2, <2>3
  <2>5. /\ Len(rows[c]) \in Nat /\ Len(sent[c]) \in Nat
        /\ Len(rows[c]) <= Len(sent[c]) /\ Len(sent[c]) < MaxRows
    BY <1>2, <2>1 DEF CanSend, RowsInBound
  <2>6. Len(rows'[c]) <= Len(sent'[c]) /\ Len(sent'[c]) <= MaxRows
    BY <2>4, <2>5, RowsAssumption
  <2> QED BY <1>2, <2>2, <2>3, <2>6 DEF RowsInBound
<1>3. ASSUME NEW c \in Calls, ReadRow(c) PROVE RowsInBound'
  <2>1. PICK r \in RowsOf(c) \ {"bad"} : Send(c, r) /\ Add(c, r)
    BY <1>3 DEF ReadRow
  <2>2. r \in Rows /\ (IF r = "sensitive" THEN "masked" ELSE r) \in {"plain", "masked"}
    BY DEF RowsOf, Rows
  <2> QED BY <1>2, <1>3, <2>1, <2>2 DEF ReadRow, Add
<1>4. ASSUME NEW c \in Calls, SkipRow(c) \/ FailOnRow(c) PROVE RowsInBound'
  BY <1>2, <1>4 DEF SkipRow, FailOnRow, Rows
<1>5. ASSUME NEW c \in Calls,
             \/ Begin(c) \/ Take(c) \/ Answered(c) \/ Refused(c) \/ Expire(c)
             \/ ReadEnd(c) \/ BreakOff(c)
      PROVE  RowsInBound'
  <2>1. UNCHANGED <<rows, sent>> /\ (whole' = whole \/ whole' = whole \cup {c})
    BY <1>5 DEF Begin, Take, Answered, Refused, Expire, ReadEnd, BreakOff
  <2> QED BY <1>1, <2>1 DEF RowsInBound
<1>6. CASE UNCHANGED vars
  BY <1>1, <1>6 DEF vars, RowsInBound
<1> QED BY <1>3, <1>4, <1>5, <1>6 DEF Next, Step

\* The pool never has more connections than it may open, and the report of
\* masked cells names row indices within what a server sends for one call.
THEOREM ResultTypeCorrect == Spec => []TypeOK
<1>1. Init => RowsInBound
  BY RowsAssumption DEF Init, RowsInBound
<1>2. PoolInv /\ RowsInv /\ RowsInBound => TypeOK
  <2> SUFFICES ASSUME PoolInv, RowsInv, RowsInBound PROVE TypeOK
    OBVIOUS
  <2>1. free \in 0..maxOpen
    <3>1. Cardinality(Held) \in Nat /\ free \in Nat /\ free + Cardinality(Held) = maxOpen
      BY HeldFinite DEF PoolInv, PoolIsWhole, Held
    <3> QED BY <3>1, PoolAssumption
  <2>2. ASSUME NEW c \in Calls PROVE masked[c] \in Seq(0..MaxRows)
    <3>1. /\ masked[c] \in Seq(Nat) /\ rows[c] \in Seq({"plain", "masked"})
          /\ sent[c] \in Seq(Rows) /\ Elements(masked[c]) = MaskedRows(rows[c])
          /\ Len(rows[c]) <= Len(sent[c]) /\ Len(sent[c]) <= MaxRows
      BY DEF RowsInv, RowsType, RowsInBound
    <3>2. MaskedRows(rows[c]) \subseteq 0..MaxRows
      <4>1. \A j \in DOMAIN rows[c] : j - 1 \in 0..MaxRows
        BY <3>1, RowsAssumption
      <4> QED BY <4>1 DEF MaskedRows
    <3>3. \A i \in DOMAIN masked[c] : masked[c][i] \in 0..MaxRows
      BY <3>1, <3>2 DEF Elements
    <3> DEFINE m == masked[c]
               n == Len(m)
    <3>4. n \in Nat /\ DOMAIN m = 1..n /\ m = [i \in 1..n |-> m[i]]
      BY <3>1
    <3>5. \A i \in 1..n : m[i] \in 0..MaxRows
      BY <3>3, <3>4
    <3> HIDE DEF m, n
    <3>6. m \in [1..n -> 0..MaxRows]
      BY <3>4, <3>5
    <3> QED BY <3>4, <3>6 DEF m
  <2>3. masked \in [Calls -> Seq(0..MaxRows)]
    BY <2>2 DEF RowsInv, RowsType
  <2> QED
    BY <2>1, <2>3 DEF TypeOK, PoolInv, RowsInv, RowsType, RowsInBound
<1> QED
  BY <1>1, <1>2, InitPoolInv, NextPoolInv, InitRowsInv, NextRowsInv, NextRowsInBound, PTL
  DEF Spec

(***************************************************************************)
(* Part two: the detectors and the masker.                                 *)
(***************************************************************************)

\* Every set of numbers has a least element.
LEMMA LeastNumber ==
  ASSUME NEW S \in SUBSET Nat, S # {}
  PROVE  \E n \in S : \A m \in S : n <= m
<1>1. PICK n \in S : \A m \in S : ~ (<<m, n>> \in OpToRel(<, Nat))
  BY WFMin, NatLessThanWellFounded
<1>2. ASSUME NEW m \in S PROVE n <= m
  <2>1. n \in Nat /\ m \in Nat
    OBVIOUS
  <2>2. ~ (m < n)
    BY <1>1, <2>1 DEF OpToRel
  <2> QED BY <2>1, <2>2
<1> QED BY <1>2

\* The last of some indices.
LEMMA LastIndex ==
  ASSUME NEW n \in Nat, NEW s \in SUBSET (1..n), s # {}
  PROVE  Max(s) \in s /\ \A i \in s : i <= Max(s)
<1> DEFINE gaps == {g \in Nat : \E i \in s : g = n - i}
<1>1. \A i \in s : i \in Nat /\ i <= n /\ n - i \in Nat
  <2> SUFFICES ASSUME NEW i \in s PROVE i \in Nat /\ i <= n /\ n - i \in Nat
    OBVIOUS
  <2>1. i \in 1..n
    OBVIOUS
  <2> QED BY <2>1
<1>2. PICK g \in gaps : \A h \in gaps : g <= h
  <2>1. gaps \in SUBSET Nat /\ gaps # {}
    BY <1>1
  <2> HIDE DEF gaps
  <2> QED BY <2>1, LeastNumber
<1>3. PICK i \in s : g = n - i
  OBVIOUS
<1>4. \A j \in s : i >= j
  <2> SUFFICES ASSUME NEW j \in s PROVE i >= j
    OBVIOUS
  <2>1. n - j \in gaps
    BY <1>1
  <2>2. n - i <= n - j
    <3> HIDE DEF gaps
    <3> QED BY <1>2, <1>3, <2>1
  <2> QED BY <1>1, <2>2
<1>5. Max(s) \in s /\ \A j \in s : Max(s) >= j
  BY <1>4 DEF Max
<1>6. \A j \in s : j <= Max(s)
  BY <1>1, <1>5
<1> QED BY <1>5, <1>6

(***************************************************************************)
(* FoldLeft, by which a list of matches and one of findings are gone       *)
(* through.  Fold is the function FoldLeft defines, of which only the      *)
(* values at 1..k matter.                                                  *)
(***************************************************************************)
IsFold(f, n, base, step) ==
  f = [s \in SUBSET (1..n) |-> IF s = {} THEN base ELSE step[Max(s)][f[s \ {Max(s)}]]]

\* There is one, whatever is folded.
LEMMA FoldExists ==
  ASSUME NEW n \in Nat, NEW A, NEW base \in A, NEW step \in [1..n -> [A -> A]]
  PROVE  \E f \in [SUBSET (1..n) -> A] : IsFold(f, n, base, step)
<1> DEFINE Good(f, k) == \A s \in SUBSET (1..k) : f[s] = IF s = {} THEN base ELSE step[Max(s)][f[s \ {Max(s)}]]
           bad == {k \in 0..n : ~ \E f \in [SUBSET (1..k) -> A] : Good(f, k)}
<1>1. bad = {}
  <2> SUFFICES ASSUME bad # {} PROVE FALSE
    OBVIOUS
  <2>1. PICK k \in bad : \A m \in bad : k <= m
    <3>1. bad \in SUBSET Nat
      OBVIOUS
    <3> HIDE DEF bad
    <3> QED BY <3>1, LeastNumber
  <2>2. k \in 0..n /\ ~ \E f \in [SUBSET (1..k) -> A] : Good(f, k)
    OBVIOUS
  <2>3. k # 0
    <3> SUFFICES ASSUME k = 0 PROVE FALSE
      OBVIOUS
    <3> DEFINE f == [s \in SUBSET (1..0) |-> base]
    <3>1. f \in [SUBSET (1..0) -> A]
      OBVIOUS
    <3>2. \A s \in SUBSET (1..0) : s = {} /\ f[s] = base
      OBVIOUS
    <3> HIDE DEF f
    <3> QED BY <2>2, <3>1, <3>2
  <2>4. k - 1 \in 0..n /\ k - 1 \notin bad /\ k \in 1..n
    <3>1. k - 1 \in 0..n /\ k - 1 < k /\ k \in 1..n
      BY <2>2, <2>3
    <3> HIDE DEF bad
    <3> QED BY <2>1, <3>1
  <2>5. PICK f \in [SUBSET (1..(k - 1)) -> A] : Good(f, k - 1)
    BY <2>4
  <2> DEFINE g == [s \in SUBSET (1..k) |->
                     IF k \in s THEN step[k][f[s \ {k}]] ELSE f[s]]
  <2>6. \A s \in SUBSET (1..k) : k \notin s => s \in SUBSET (1..(k - 1)) /\ f[s] \in A /\ g[s] = f[s]
    <3> SUFFICES ASSUME NEW s \in SUBSET (1..k), k \notin s
                 PROVE  s \in SUBSET (1..(k - 1)) /\ f[s] \in A /\ g[s] = f[s]
      OBVIOUS
    <3>1. \A i \in s : i \in 1..(k - 1)
      BY <2>4
    <3> QED BY <3>1
  <2>7. \A s \in SUBSET (1..k) : k \in s =>
           /\ s \ {k} \in SUBSET (1..(k - 1)) /\ f[s \ {k}] \in A
           /\ g[s \ {k}] = f[s \ {k}]
           /\ g[s] = step[k][f[s \ {k}]] /\ g[s] \in A /\ Max(s) = k
    <3> SUFFICES ASSUME NEW s \in SUBSET (1..k), k \in s
                 PROVE  /\ s \ {k} \in SUBSET (1..(k - 1)) /\ f[s \ {k}] \in A
                        /\ g[s \ {k}] = f[s \ {k}]
                        /\ g[s] = step[k][f[s \ {k}]] /\ g[s] \in A /\ Max(s) = k
      OBVIOUS
    <3>1. s \ {k} \in SUBSET (1..k) /\ k \notin s \ {k}
      OBVIOUS
    <3>2. s \ {k} \in SUBSET (1..(k - 1)) /\ f[s \ {k}] \in A /\ g[s \ {k}] = f[s \ {k}]
      BY <2>6, <3>1
    <3>3. g[s] = step[k][f[s \ {k}]]
      OBVIOUS
    <3>4. step[k][f[s \ {k}]] \in A
      BY <2>4, <3>2
    <3>5. k \in Nat /\ s # {} /\ Max(s) \in s /\ k <= Max(s)
      <4>1. k \in Nat /\ s # {}
        BY <2>4
      <4> HIDE DEF g
      <4> QED BY <4>1, LastIndex
    <3>6. Max(s) = k
      <4>1. Max(s) \in 1..k
        BY <3>5
      <4> QED BY <3>5, <4>1
    <3> HIDE DEF g
    <3> QED BY <3>2, <3>3, <3>4, <3>6
  <2>8. g \in [SUBSET (1..k) -> A]
    <3>1. \A s \in SUBSET (1..k) : g[s] \in A
      <4> HIDE DEF g
      <4> QED BY <2>6, <2>7
    <3>2. g = [s \in SUBSET (1..k) |-> g[s]]
      OBVIOUS
    <3> HIDE DEF g
    <3> QED BY <3>1, <3>2
  <2>9. Good(g, k)
    <3> SUFFICES ASSUME NEW s \in SUBSET (1..k)
                 PROVE  g[s] = IF s = {} THEN base ELSE step[Max(s)][g[s \ {Max(s)}]]
      OBVIOUS
    <3> HIDE DEF g
    <3>1. CASE k \in s
      BY <2>7, <3>1
    <3>2. CASE k \notin s
      <4>1. s \in SUBSET (1..(k - 1)) /\ g[s] = f[s]
        BY <2>6, <3>2
      <4>2. f[s] = IF s = {} THEN base ELSE step[Max(s)][f[s \ {Max(s)}]]
        BY <2>5, <4>1
      <4>3. g[s \ {Max(s)}] = f[s \ {Max(s)}]
        <5>1. s \ {Max(s)} \in SUBSET (1..k) /\ k \notin s \ {Max(s)}
          BY <3>2
        <5> QED BY <2>6, <5>1
      <4> QED BY <4>1, <4>2, <4>3
    <3> QED BY <3>1, <3>2
  <2> HIDE DEF g
  <2> QED BY <2>2, <2>8, <2>9
<1>2. n \in 0..n /\ n \notin bad
  <2> HIDE DEF bad
  <2> QED BY <1>1
<1>3. PICK f \in [SUBSET (1..n) -> A] : Good(f, n)
  BY <1>2
<1>4. IsFold(f, n, base, step)
  <2>1. f = [s \in SUBSET (1..n) |-> f[s]]
    OBVIOUS
  <2> QED BY <1>3, <2>1 DEF IsFold
<1> QED BY <1>4

\* The beginnings of a list, among the sets of its indices.
LEMMA Beginnings ==
  ASSUME NEW n \in Nat, NEW k \in 1..n
  PROVE  /\ 1..k \in SUBSET (1..n) /\ 1..k # {}
         /\ Max(1..k) = k /\ (1..k) \ {k} = 1..(k - 1)
<1>1. 1..k \in SUBSET (1..n) /\ k \in 1..k
  OBVIOUS
<1>2. 1..k # {}
  BY <1>1
<1>3. Max(1..k) \in 1..k /\ k <= Max(1..k)
  BY <1>1, <1>2, LastIndex
<1>4. Max(1..k) = k
  BY <1>3
<1>5. (1..k) \ {k} = 1..(k - 1)
  OBVIOUS
<1> QED BY <1>1, <1>2, <1>4, <1>5

(***************************************************************************)
(* FindAll.  The matches of a pattern stand in the text where they are     *)
(* said to, and there are no more of them than places.                     *)
(***************************************************************************)
Hits(p, txt) ==
  {h \in [pos : 1..Len(txt), match : p.matches] : StandsAt(h.match.span, txt, h.pos)}

\* What is found from i on.
Found(f, p, txt, i) ==
  IF i > Len(txt) THEN <<>>
  ELSE IF MatchesAt(p, txt, i) = {} THEN f[i + 1]
  ELSE LET m == Longest(MatchesAt(p, txt, i))
       IN <<[pos |-> i, match |-> m]>> \o f[i + Len(m.span)]

\* There is a longest match wherever there is one, and it does not reach
\* beyond the text.
LEMMA LongestIsOne ==
  ASSUME NEW p, IsPattern(p), NEW txt \in Seq(Atoms), NEW i \in 1..Len(txt),
         MatchesAt(p, txt, i) # {}
  PROVE  /\ Longest(MatchesAt(p, txt, i)) \in MatchesAt(p, txt, i)
         /\ Len(Longest(MatchesAt(p, txt, i)).span) \in 1..(Len(txt) - i + 1)
<1> DEFINE ms == MatchesAt(p, txt, i)
           n == Len(txt)
           short == {g \in Nat : \E m \in ms : g = n + 1 - Len(m.span)}
<1>1. n \in Nat /\ i \in Nat
  OBVIOUS
<1>2. \A m \in ms : Len(m.span) \in 1..(n - i + 1)
  <2> SUFFICES ASSUME NEW m \in ms PROVE Len(m.span) \in 1..(n - i + 1)
    OBVIOUS
  <2>1. m.span \in Seq(Atoms) /\ m.span # <<>> /\ i + Len(m.span) - 1 <= n
    BY DEF MatchesAt, StandsAt, IsPattern
  <2>2. Len(m.span) \in Nat /\ Len(m.span) # 0
    BY <2>1
  <2> HIDE DEF n
  <2> QED BY <1>1, <2>1, <2>2
<1>3. \A m \in ms : Len(m.span) \in Nat /\ Len(m.span) > 0 /\ n + 1 - Len(m.span) \in Nat
  <2> SUFFICES ASSUME NEW m \in ms
               PROVE  Len(m.span) \in Nat /\ Len(m.span) > 0 /\ n + 1 - Len(m.span) \in Nat
    OBVIOUS
  <2>1. Len(m.span) \in 1..(n - i + 1)
    BY <1>2
  <2> HIDE DEF n
  <2> QED BY <1>1, <2>1
<1>4. PICK g \in short : \A h \in short : g <= h
  <2>1. short \in SUBSET Nat /\ short # {}
    BY <1>3
  <2> HIDE DEF short
  <2> QED BY <2>1, LeastNumber
<1>5. PICK m \in ms : g = n + 1 - Len(m.span)
  OBVIOUS
<1>6. \A o \in ms : Len(o.span) <= Len(m.span)
  <2> SUFFICES ASSUME NEW o \in ms PROVE Len(o.span) <= Len(m.span)
    OBVIOUS
  <2>1. n + 1 - Len(o.span) \in short
    BY <1>3
  <2>2. n + 1 - Len(m.span) <= n + 1 - Len(o.span)
    <3> HIDE DEF short
    <3> QED BY <1>4, <1>5, <2>1
  <2>3. Len(o.span) \in Nat /\ Len(m.span) \in Nat
    BY <1>3
  <2> HIDE DEF n, ms
  <2> QED BY <1>1, <2>2, <2>3
<1>7. Longest(ms) \in ms
  <2> HIDE DEF ms
  <2> QED BY <1>6 DEF Longest
<1> QED BY <1>2, <1>7

\* The search from every place of the text.
IsSearch(f, p, txt) == f = [i \in 1..(Len(txt) + 1) |-> Found(f, p, txt, i)]

\* The function by which FindAll searches exists, whatever the pattern.
LEMMA SearchExists ==
  ASSUME NEW p, IsPattern(p), NEW txt \in Seq(Atoms)
  PROVE  \E f : IsSearch(f, p, txt)
<1> DEFINE n == Len(txt)
           Good(f, k) == \A i \in (n + 1 - k)..(n + 1) : f[i] = Found(f, p, txt, i)
           bad == {k \in 0..n : ~ \E f : Good(f, k)}
<1>1. n \in Nat
  OBVIOUS
<1>2. bad = {}
  <2> SUFFICES ASSUME bad # {} PROVE FALSE
    OBVIOUS
  <2>1. PICK k \in bad : \A m \in bad : k <= m
    <3>1. bad \in SUBSET Nat
      OBVIOUS
    <3> HIDE DEF bad
    <3> QED BY <3>1, LeastNumber
  <2>2. k \in 0..n /\ ~ \E f : Good(f, k)
    OBVIOUS
  <2>3. k # 0
    <3> SUFFICES ASSUME k = 0 PROVE FALSE
      OBVIOUS
    <3> DEFINE f == [i \in {n + 1} |-> <<>>]
    <3>1. ASSUME NEW i \in (n + 1 - 0)..(n + 1) PROVE f[i] = Found(f, p, txt, i)
      <4>1. i = n + 1 /\ i > n
        BY <1>1
      <4> QED BY <4>1 DEF Found
    <3> HIDE DEF f
    <3> QED BY <2>2, <3>1
  <2>4. k - 1 \in 0..n /\ k - 1 \notin bad /\ k \in 1..n
    <3>1. k - 1 \in 0..n /\ k - 1 < k /\ k \in 1..n
      BY <1>1, <2>2, <2>3
    <3> HIDE DEF bad
    <3> QED BY <2>1, <3>1
  <2>5. PICK f : Good(f, k - 1)
    BY <2>4
  <2> DEFINE b == n + 1 - k
             g == [i \in b..(n + 1) |-> IF i = b THEN Found(f, p, txt, b) ELSE f[i]]
  <2>6. b \in 1..n /\ (n + 1 - (k - 1)) = b + 1
    BY <1>1, <2>4
  <2>7. \A i \in (b + 1)..(n + 1) : g[i] = f[i]
    <3> HIDE DEF n, b
    <3> QED BY <1>1, <2>6
  <2>8. g[b] = Found(f, p, txt, b)
    <3> HIDE DEF n, b
    <3> QED BY <1>1, <2>6
  <2>9. ASSUME NEW i \in b..(n + 1)
        PROVE  Found(g, p, txt, i) = Found(f, p, txt, i)
    <3>1. CASE i > n
      BY <3>1 DEF Found
    <3>2. CASE i <= n
      <4>1. i \in 1..n /\ i + 1 \in (b + 1)..(n + 1)
        <5> HIDE DEF n, b
        <5> QED BY <1>1, <2>6, <3>2
      <4>2. g[i + 1] = f[i + 1]
        <5> HIDE DEF g, n, b
        <5> QED BY <2>7, <4>1
      <4>3. ASSUME MatchesAt(p, txt, i) # {}
            PROVE  g[i + Len(Longest(MatchesAt(p, txt, i)).span)] = f[i + Len(Longest(MatchesAt(p, txt, i)).span)]
        <5> DEFINE l == Len(Longest(MatchesAt(p, txt, i)).span)
        <5>1. l \in 1..(n - i + 1)
          BY <4>1, <4>3, LongestIsOne
        <5>2. i + l \in (b + 1)..(n + 1)
          <6> HIDE DEF n, b, l
          <6> QED BY <1>1, <2>6, <4>1, <5>1
        <5>3. g[i + l] = f[i + l]
          <6> HIDE DEF g, n, b, l
          <6> QED BY <2>7, <5>2
        <5> QED BY <5>3
      <4> HIDE DEF g, b
      <4> QED BY <4>2, <4>3 DEF Found
    <3>3. i \in Nat
      <4> HIDE DEF n, b
      <4> QED BY <1>1, <2>6
    <3> QED BY <1>1, <3>1, <3>2, <3>3
  <2>10. Good(g, k)
    <3> SUFFICES ASSUME NEW i \in b..(n + 1) PROVE g[i] = Found(g, p, txt, i)
      OBVIOUS
    <3>1. CASE i = b
      <4> HIDE DEF g, n, b
      <4> QED BY <2>8, <2>9, <3>1
    <3>2. CASE i # b
      <4>1. i \in (b + 1)..(n + 1)
        <5> HIDE DEF n, b, g
        <5> QED BY <1>1, <2>6, <3>2
      <4>2. f[i] = Found(f, p, txt, i)
        BY <2>5, <2>6, <4>1
      <4> HIDE DEF g, n, b
      <4> QED BY <2>7, <2>9, <4>1, <4>2
    <3> QED BY <3>1, <3>2
  <2> HIDE DEF g
  <2> QED BY <2>2, <2>10
<1>3. n \in 0..n /\ n + 1 - n = 1
  BY <1>1
<1>4. PICK f : Good(f, n)
  BY <1>2, <1>3
<1> DEFINE g == [i \in 1..(n + 1) |-> f[i]]
<1>5. ASSUME NEW i \in 1..(n + 1) PROVE Found(g, p, txt, i) = Found(f, p, txt, i)
  <2>1. CASE i > n
    BY <2>1 DEF Found
  <2>2. CASE i <= n
    <3>1. i \in 1..n /\ i + 1 \in 1..(n + 1)
      BY <1>1, <2>2
    <3>2. MatchesAt(p, txt, i) # {} => i + Len(Longest(MatchesAt(p, txt, i)).span) \in 1..(n + 1)
      <4> SUFFICES ASSUME MatchesAt(p, txt, i) # {}
                   PROVE  i + Len(Longest(MatchesAt(p, txt, i)).span) \in 1..(n + 1)
        OBVIOUS
      <4> DEFINE l == Len(Longest(MatchesAt(p, txt, i)).span)
      <4>1. l \in 1..(n - i + 1)
        BY <3>1, LongestIsOne
      <4>2. i + l \in 1..(n + 1)
        <5> HIDE DEF n, l
        <5> QED BY <1>1, <3>1, <4>1
      <4> QED BY <4>2
    <3>3. \A j \in 1..(n + 1) : g[j] = f[j]
      OBVIOUS
    <3> HIDE DEF g
    <3> QED BY <3>1, <3>2, <3>3 DEF Found
  <2> QED BY <1>1, <2>1, <2>2
<1>6. \A i \in 1..(n + 1) : f[i] = Found(f, p, txt, i)
  BY <1>3, <1>4
<1>7. g = [i \in 1..(n + 1) |-> Found(g, p, txt, i)]
  <2>1. \A i \in 1..(n + 1) : g[i] = Found(g, p, txt, i)
    <3> SUFFICES ASSUME NEW i \in 1..(n + 1) PROVE g[i] = Found(g, p, txt, i)
      OBVIOUS
    <3>1. g[i] = f[i]
      OBVIOUS
    <3> HIDE DEF g, n
    <3> QED BY <1>5, <1>6, <3>1
  <2>2. g = [i \in 1..(n + 1) |-> g[i]]
    OBVIOUS
  <2> HIDE DEF g, n
  <2> QED BY <2>1, <2>2
<1> HIDE DEF g
<1> QED BY <1>7 DEF IsSearch

\* FindAll is what such a function finds from the first place on.
LEMMA FindAllSearches ==
  ASSUME NEW p, IsPattern(p), NEW txt \in Seq(Atoms)
  PROVE  \E f : IsSearch(f, p, txt) /\ FindAll(p, txt) = f[1]
<1> DEFINE from == CHOOSE f : IsSearch(f, p, txt)
<1>1. IsSearch(from, p, txt)
  BY SearchExists
<1>2. FindAll(p, txt) = from[1]
  BY DEF FindAll, IsSearch, Found
<1> QED BY <1>1, <1>2

\* What FindAll returns are matches of the pattern in the text, at most one
\* for each of its places.
LEMMA FindAllFinds ==
  ASSUME NEW p, IsPattern(p), NEW txt \in Seq(Atoms)
  PROVE  FindAll(p, txt) \in Seq(Hits(p, txt)) /\ Len(FindAll(p, txt)) <= Len(txt)
<1>1. PICK f : IsSearch(f, p, txt) /\ FindAll(p, txt) = f[1]
  BY FindAllSearches
<1> DEFINE n == Len(txt)
           H == Hits(p, txt)
           Good(i) == f[i] \in Seq(H) /\ Len(f[i]) <= n + 1 - i
           bad == {k \in 0..n : ~ Good(n + 1 - k)}
<1>2. n \in Nat /\ \A i \in 1..(n + 1) : f[i] = Found(f, p, txt, i)
  BY <1>1 DEF IsSearch
<1>3. bad = {}
  <2> SUFFICES ASSUME bad # {} PROVE FALSE
    OBVIOUS
  <2>1. PICK k \in bad : \A m \in bad : k <= m
    <3>1. bad \in SUBSET Nat
      OBVIOUS
    <3> HIDE DEF bad
    <3> QED BY <3>1, LeastNumber
  <2> DEFINE b == n + 1 - k
  <2>2. k \in 0..n /\ ~ Good(b) /\ b \in 1..(n + 1)
    <3>1. k \in 0..n /\ ~ Good(b)
      OBVIOUS
    <3> HIDE DEF n, Good
    <3> QED BY <1>2, <3>1
  <2>3. \A i \in (b + 1)..(n + 1) : Good(i)
    <3> SUFFICES ASSUME NEW i \in (b + 1)..(n + 1) PROVE Good(i)
      OBVIOUS
    <3>1. n + 1 - i \in 0..n /\ n + 1 - i < k /\ n + 1 - (n + 1 - i) = i
      <4> HIDE DEF n, Good, bad
      <4> QED BY <1>2, <2>2
    <3>2. n + 1 - i \notin bad
      <4> HIDE DEF bad
      <4> QED BY <2>1, <2>2, <3>1
    <3> HIDE DEF Good, n
    <3> QED BY <3>1, <3>2
  <2>4. f[b] = Found(f, p, txt, b)
    <3> HIDE DEF n, b
    <3> QED BY <1>2, <2>2
  <2>5. CASE b > n
    <3>1. f[b] = <<>>
      BY <2>4, <2>5 DEF Found
    <3>2. n + 1 - b \in Nat
      <4> HIDE DEF n, b
      <4> QED BY <1>2, <2>2
    <3>3. Good(b)
      <4> HIDE DEF n, b, H
      <4> QED BY <3>1, <3>2
    <3> HIDE DEF Good
    <3> QED BY <2>2, <3>3
  <2>6. CASE b <= n /\ MatchesAt(p, txt, b) = {}
    <3>1. f[b] = f[b + 1]
      <4>1. ~ (b > Len(txt))
        <5> HIDE DEF b
        <5> QED BY <1>2, <2>2, <2>6
      <4> QED BY <2>4, <2>6, <4>1 DEF Found
    <3>2. Good(b + 1)
      <4>1. b + 1 \in (b + 1)..(n + 1)
        <5> HIDE DEF n, b
        <5> QED BY <1>2, <2>2, <2>6
      <4> HIDE DEF Good, n, b
      <4> QED BY <2>3, <4>1
    <3>3. Good(b)
      <4>1. f[b + 1] \in Seq(H) /\ Len(f[b + 1]) \in Nat /\ Len(f[b + 1]) <= n + 1 - (b + 1)
        BY <3>2
      <4> HIDE DEF n, b, H
      <4> QED BY <1>2, <2>2, <3>1, <4>1
    <3> HIDE DEF Good
    <3> QED BY <2>2, <3>3
  <2>7. CASE b <= n /\ MatchesAt(p, txt, b) # {}
    <3> DEFINE m == Longest(MatchesAt(p, txt, b))
               l == Len(m.span)
    <3>1. b \in 1..n
      <4> HIDE DEF n, b
      <4> QED BY <1>2, <2>2, <2>7
    <3>2. m \in MatchesAt(p, txt, b) /\ l \in 1..(n - b + 1)
      BY <2>7, <3>1, LongestIsOne
    <3>3. f[b] = <<[pos |-> b, match |-> m]>> \o f[b + l]
      <4>1. ~ (b > Len(txt))
        <5> HIDE DEF b
        <5> QED BY <1>2, <3>1
      <4> QED BY <2>4, <2>7, <4>1 DEF Found
    <3>4. [pos |-> b, match |-> m] \in H
      <4> HIDE DEF m, b
      <4> QED BY <3>1, <3>2 DEF Hits, MatchesAt
    <3>5. Good(b + l)
      <4>1. b + l \in (b + 1)..(n + 1)
        <5> HIDE DEF n, b, l
        <5> QED BY <1>2, <3>1, <3>2
      <4> HIDE DEF Good, n, b, l
      <4> QED BY <2>3, <4>1
    <3>6. Good(b)
      <4> DEFINE h == [pos |-> b, match |-> m]
                 t == f[b + l]
      <4>1. t \in Seq(H) /\ Len(t) \in Nat /\ Len(t) <= n + 1 - (b + l)
        <5>1. t \in Seq(H) /\ Len(t) <= n + 1 - (b + l)
          BY <3>5
        <5> HIDE DEF t, H, n, b, l
        <5> QED BY <5>1
      <4>2. h \in H /\ f[b] = <<h>> \o t
        BY <3>3, <3>4
      <4> HIDE DEF n, b, l, m, H, h, t
      <4>3. <<h>> \o t \in Seq(H) /\ Len(<<h>> \o t) = 1 + Len(t)
        BY <4>1, <4>2
      <4> QED BY <1>2, <3>1, <3>2, <4>1, <4>2, <4>3
    <3> HIDE DEF Good
    <3> QED BY <2>2, <3>6
  <2>8. b > n \/ b <= n
    <3> HIDE DEF n, b
    <3> QED BY <1>2, <2>2
  <2> HIDE DEF n, b
  <2> QED BY <2>5, <2>6, <2>7, <2>8
<1>4. Good(1)
  <2>1. n \in 0..n /\ n + 1 - n = 1
    BY <1>2
  <2> HIDE DEF Good, n
  <2> QED BY <1>3, <2>1
<1>5. n + 1 - 1 = n
  BY <1>2
<1> QED BY <1>1, <1>4, <1>5

(***************************************************************************)
(* One pattern.                                                            *)
(***************************************************************************)
Progress == [seen : SUBSET Seq(Atoms), found : Seq(Finding)]

\* What a match says of itself.
LEMMA HitTypes ==
  ASSUME NEW p, IsPattern(p), NEW txt \in Seq(Atoms), NEW h \in Hits(p, txt)
  PROVE  /\ h.match.value \in Seq(Atoms)
         /\ Report(p, h) \in Finding
         /\ Report(p, h).value = h.match.value
<1>1. /\ h.pos \in 1..Len(txt) /\ h.match \in p.matches
      /\ h.match.span \in Seq(Atoms) /\ h.match.value \in SubSeqs(h.match.span)
  BY DEF Hits, IsPattern
<1>2. h.match.value \in Seq(Atoms)
  <2>1. PICK i \in 0..Len(h.match.span), j \in 0..Len(h.match.span) :
          h.match.value = SubSeq(h.match.span, i + 1, j)
    BY <1>1 DEF SubSeqs
  <2> QED BY <1>1, <2>1
<1>3. h.pos \in Nat /\ Len(h.match.span) \in Nat /\ p.type \in STRING
  BY <1>1 DEF IsPattern
<1> QED BY <1>2, <1>3 DEF Report, Finding

\* One match keeps the types.
LEMMA LookTypes ==
  ASSUME NEW p, IsPattern(p), NEW txt \in Seq(Atoms), NEW h \in Hits(p, txt),
         NEW acc \in Progress
  PROVE  Look(p, acc, h) \in Progress
<1>1. h.match.value \in Seq(Atoms) /\ Report(p, h) \in Finding
  BY HitTypes
<1>2. acc.seen \in SUBSET Seq(Atoms) /\ acc.found \in Seq(Finding)
  BY DEF Progress
<1>3. Append(acc.found, Report(p, h)) \in Seq(Finding)
  BY <1>1, <1>2
<1>4. acc.seen \cup {h.match.value} \in SUBSET Seq(Atoms)
  BY <1>1, <1>2
<1> QED BY <1>2, <1>3, <1>4 DEF Look, Progress

\* The matches of a pattern are looked at one after the other.
LEMMA LookedAtInOrder ==
  ASSUME NEW p, IsPattern(p), NEW txt \in Seq(Atoms), NEW acc \in Progress
  PROVE  LET hits == FindAll(p, txt) IN
         \E it : /\ it[0] = acc
                 /\ \A k \in 1..Len(hits) : it[k] = Look(p, it[k - 1], hits[k])
                 /\ LookAtAll(p, txt, acc) = it[Len(hits)]
<1> DEFINE hits == FindAll(p, txt)
           n == Len(hits)
           IsIter(f) == f = [s \in SUBSET DOMAIN hits |->
                               IF s = {} THEN acc
                               ELSE Look(p, f[s \ {Max(s)}], hits[Max(s)])]
           step == [k \in 1..n |-> [a \in Progress |-> Look(p, a, hits[k])]]
<1>1. hits \in Seq(Hits(p, txt)) /\ n \in Nat /\ DOMAIN hits = 1..n /\ \A k \in 1..n : hits[k] \in Hits(p, txt)
  <2>1. hits \in Seq(Hits(p, txt))
    BY FindAllFinds
  <2> HIDE DEF hits
  <2> QED BY <2>1
<1>2. step \in [1..n -> [Progress -> Progress]]
  <2>1. \A k \in 1..n, a \in Progress : Look(p, a, hits[k]) \in Progress
    BY <1>1, LookTypes
  <2> HIDE DEF hits, n
  <2> QED BY <2>1
<1>3. PICK f \in [SUBSET (1..n) -> Progress] : IsFold(f, n, acc, step)
  <2> HIDE DEF step, n
  <2> QED BY <1>1, <1>2, FoldExists
<1>4. IsIter(f)
  <2>1. \A s \in SUBSET (1..n) :
          f[s] = IF s = {} THEN acc ELSE Look(p, f[s \ {Max(s)}], hits[Max(s)])
    <3> SUFFICES ASSUME NEW s \in SUBSET (1..n)
                 PROVE  f[s] = IF s = {} THEN acc ELSE Look(p, f[s \ {Max(s)}], hits[Max(s)])
      OBVIOUS
    <3>1. f[s] = IF s = {} THEN acc ELSE step[Max(s)][f[s \ {Max(s)}]]
      BY <1>3 DEF IsFold
    <3>2. ASSUME s # {} PROVE step[Max(s)][f[s \ {Max(s)}]] = Look(p, f[s \ {Max(s)}], hits[Max(s)])
      <4>1. Max(s) \in 1..n
        <5> HIDE DEF n
        <5> QED BY <1>1, <3>2, LastIndex
      <4>2. f[s \ {Max(s)}] \in Progress
        <5>1. s \ {Max(s)} \in SUBSET (1..n)
          OBVIOUS
        <5> HIDE DEF n
        <5> QED BY <5>1
      <4> HIDE DEF n, hits
      <4> QED BY <4>1, <4>2
    <3> HIDE DEF step
    <3> QED BY <3>1, <3>2
  <2>2. f = [s \in SUBSET (1..n) |-> f[s]]
    OBVIOUS
  <2> HIDE DEF n, hits
  <2> QED BY <1>1, <2>1, <2>2
<1> DEFINE g == CHOOSE h : IsIter(h)
<1>5. IsIter(g)
  <2> HIDE DEF IsIter
  <2> QED BY <1>4
<1>6. LookAtAll(p, txt, acc) = g[DOMAIN hits]
  BY DEF LookAtAll, FoldLeft, MapThenFoldSet
<1> HIDE DEF g
<1> DEFINE it == [k \in 0..n |-> g[1..k]]
<1>7. it[0] = acc
  <2>1. 1..0 = {} /\ {} \in SUBSET DOMAIN hits /\ 0 \in 0..n
    <3> HIDE DEF n
    <3> QED BY <1>1
  <2>2. g[{}] = acc
    BY <1>5, <2>1
  <2> HIDE DEF n
  <2> QED BY <2>1, <2>2
<1>8. ASSUME NEW k \in 1..n PROVE it[k] = Look(p, it[k - 1], hits[k])
  <2>1. 1..k \in SUBSET (1..n) /\ 1..k # {} /\ Max(1..k) = k /\ (1..k) \ {k} = 1..(k - 1)
    <3> HIDE DEF n
    <3> QED BY <1>1, Beginnings
  <2>2. g[1..k] = Look(p, g[(1..k) \ {Max(1..k)}], hits[Max(1..k)])
    <3> HIDE DEF n, hits
    <3> QED BY <1>1, <1>5, <2>1
  <2>3. k \in 0..n /\ k - 1 \in 0..n
    <3> HIDE DEF n
    <3> QED BY <1>1
  <2> HIDE DEF n, hits
  <2> QED BY <2>1, <2>2, <2>3
<1>9. LookAtAll(p, txt, acc) = it[n]
  <2>1. n \in 0..n
    <3> HIDE DEF n
    <3> QED BY <1>1
  <2> HIDE DEF n, hits
  <2> QED BY <1>1, <1>6, <2>1
<1> HIDE DEF it, hits
<1>10. /\ it[0] = acc
       /\ \A k \in 1..Len(hits) : it[k] = Look(p, it[k - 1], hits[k])
       /\ LookAtAll(p, txt, acc) = it[Len(hits)]
  BY <1>7, <1>8, <1>9
<1> USE DEF hits
<1> QED BY <1>10

\* The k-th of the hits has a value that is neither among those seen nor that
\* of an earlier one.
IsNew(hits, k, old) ==
  /\ hits[k].match.value \notin old
  /\ \A l \in 1..(k - 1) : hits[l].match.value # hits[k].match.value

\* The values of some matches.
ValuesOf(hits) == {hits[k].match.value : k \in DOMAIN hits}

\* What is put behind a list is one more element of it.
LEMMA OneMore ==
  ASSUME NEW S, NEW s \in Seq(S), NEW x \in S
  PROVE  ToSet(Append(s, x)) = ToSet(s) \cup {x}
<1>1. /\ DOMAIN s = 1..Len(s) /\ Len(s) \in Nat
      /\ DOMAIN Append(s, x) = 1..(Len(s) + 1)
      /\ \A i \in 1..Len(s) : Append(s, x)[i] = s[i]
      /\ Append(s, x)[Len(s) + 1] = x
  OBVIOUS
<1> QED BY <1>1 DEF ToSet

\* Looking at the matches of a pattern reports the new values it accepts, and
\* has seen them all.
LEMMA LookedAt ==
  ASSUME NEW p, IsPattern(p), NEW txt \in Seq(Atoms), NEW acc \in Progress
  PROVE  LET hits == FindAll(p, txt)
             after == LookAtAll(p, txt, acc)
         IN /\ after \in Progress
            /\ after.seen = acc.seen \cup ValuesOf(hits)
            /\ \A f : f \in ToSet(after.found) <=>
                 \/ f \in ToSet(acc.found)
                 \/ \E k \in DOMAIN hits :
                      /\ IsNew(hits, k, acc.seen)
                      /\ hits[k].match.value \notin p.rejects
                      /\ f = Report(p, hits[k])
<1> DEFINE hits == FindAll(p, txt)
           n == Len(hits)
           value(k) == hits[k].match.value
           Counts(k, f) == /\ IsNew(hits, k, acc.seen)
                           /\ value(k) \notin p.rejects
                           /\ f = Report(p, hits[k])
<1>1. hits \in Seq(Hits(p, txt)) /\ n \in Nat /\ DOMAIN hits = 1..n /\ \A k \in 1..n : hits[k] \in Hits(p, txt)
  <2>1. hits \in Seq(Hits(p, txt))
    BY FindAllFinds
  <2> HIDE DEF hits
  <2> QED BY <2>1
<1>2. PICK it : /\ it[0] = acc
                /\ \A k \in 1..n : it[k] = Look(p, it[k - 1], hits[k])
                /\ LookAtAll(p, txt, acc) = it[n]
  BY LookedAtInOrder
<1> HIDE DEF hits
<1>3. \A k \in 1..n : value(k) \in Seq(Atoms) /\ Report(p, hits[k]) \in Finding
  BY <1>1, HitTypes
<1> DEFINE Good(k) ==
      /\ it[k] \in Progress
      /\ it[k].seen = acc.seen \cup {value(l) : l \in 1..k}
      /\ \A f : f \in ToSet(it[k].found) <=>
           f \in ToSet(acc.found) \/ \E l \in 1..k : Counts(l, f)
<1>4. Good(0)
  <2>1. 1..0 = {}
    OBVIOUS
  <2> QED BY <1>2, <2>1
<1>5. ASSUME NEW k \in 1..n, Good(k - 1) PROVE Good(k)
  <2> DEFINE old == it[k - 1]
  <2>1. k \in Nat /\ k > 0 /\ k - 1 \in Nat /\ 1..k = (1..(k - 1)) \cup {k}
    BY <1>1
  <2>2. it[k] = Look(p, old, hits[k])
    BY <1>2
  <2>3. old \in Progress /\ old.found \in Seq(Finding) /\ hits[k] \in Hits(p, txt)
    <3>1. old \in Progress
      BY <1>5
    <3> QED BY <1>1, <3>1 DEF Progress
  <2>4. it[k] \in Progress
    <3> HIDE DEF old
    <3> QED BY <2>2, <2>3, LookTypes
  <2>5. value(k) \notin old.seen <=> IsNew(hits, k, acc.seen)
    BY <1>5, <2>1 DEF IsNew
  <2>6. {value(l) : l \in 1..k} = {value(l) : l \in 1..(k - 1)} \cup {value(k)}
    BY <2>1
  <2>7. \A f : (\E l \in 1..k : Counts(l, f)) <=> Counts(k, f) \/ \E l \in 1..(k - 1) : Counts(l, f)
    <3> HIDE DEF Counts
    <3> QED BY <2>1
  <2>8. CASE value(k) \in old.seen
    <3>1. it[k] = old
      BY <2>2, <2>8 DEF Look
    <3>2. \A f : ~ Counts(k, f)
      BY <2>5, <2>8
    <3>3. it[k].seen = acc.seen \cup {value(l) : l \in 1..k}
      BY <1>5, <2>6, <2>8, <3>1
    <3>4. \A f : f \in ToSet(it[k].found) <=> f \in ToSet(acc.found) \/ \E l \in 1..k : Counts(l, f)
      <4>1. \A f : f \in ToSet(old.found) <=> f \in ToSet(acc.found) \/ \E l \in 1..(k - 1) : Counts(l, f)
        BY <1>5
      <4> HIDE DEF Counts, old
      <4> QED BY <2>7, <3>1, <3>2, <4>1
    <3> HIDE DEF Counts
    <3> QED BY <2>4, <3>3, <3>4
  <2>9. CASE value(k) \notin old.seen
    <3>1. it[k].seen = old.seen \cup {value(k)}
      BY <2>2, <2>9 DEF Look
    <3>2. it[k].seen = acc.seen \cup {value(l) : l \in 1..k}
      BY <1>5, <2>6, <3>1
    <3>3. it[k].found = IF value(k) \in p.rejects THEN old.found
                        ELSE Append(old.found, Report(p, hits[k]))
      BY <2>2, <2>9 DEF Look
    <3>4. \A f : Counts(k, f) <=> value(k) \notin p.rejects /\ f = Report(p, hits[k])
      BY <2>5, <2>9
    <3>5. \A f : f \in ToSet(it[k].found) <=> f \in ToSet(old.found) \/ Counts(k, f)
      <4>1. CASE value(k) \in p.rejects
        <5>1. \A f : ~ Counts(k, f)
          BY <3>4, <4>1
        <5> HIDE DEF Counts
        <5> QED BY <3>3, <4>1, <5>1
      <4>2. CASE value(k) \notin p.rejects
        <5>1. ToSet(it[k].found) = ToSet(old.found) \cup {Report(p, hits[k])}
          <6> HIDE DEF old
          <6> QED BY <1>3, <2>3, <3>3, <4>2, OneMore
        <5> HIDE DEF Counts, old
        <5> QED BY <3>4, <4>2, <5>1
      <4> QED BY <4>1, <4>2
    <3>6. \A f : f \in ToSet(it[k].found) <=> f \in ToSet(acc.found) \/ \E l \in 1..k : Counts(l, f)
      <4>1. \A f : f \in ToSet(old.found) <=> f \in ToSet(acc.found) \/ \E l \in 1..(k - 1) : Counts(l, f)
        BY <1>5
      <4> HIDE DEF Counts, old
      <4> QED BY <2>7, <3>5, <4>1
    <3> HIDE DEF Counts
    <3> QED BY <2>4, <3>2, <3>6
  <2> HIDE DEF Good
  <2> QED BY <2>8, <2>9
<1> HIDE DEF Good
<1> DEFINE bad == {k \in 0..n : ~ Good(k)}
<1>6. bad = {}
  <2> SUFFICES ASSUME bad # {} PROVE FALSE
    OBVIOUS
  <2>1. PICK k \in bad : \A m \in bad : k <= m
    <3>1. bad \in SUBSET Nat
      OBVIOUS
    <3> HIDE DEF bad
    <3> QED BY <3>1, LeastNumber
  <2>2. k \in 0..n /\ ~ Good(k)
    OBVIOUS
  <2>3. k # 0
    BY <1>4, <2>2
  <2>4. k \in 1..n /\ k - 1 \in 0..n /\ k - 1 < k
    BY <1>1, <2>2, <2>3
  <2>5. k - 1 \notin bad
    <3> HIDE DEF bad
    <3> QED BY <2>1, <2>4
  <2>6. Good(k - 1)
    BY <2>4, <2>5
  <2> HIDE DEF bad
  <2> QED BY <1>5, <2>2, <2>4, <2>6
<1>7. Good(n)
  BY <1>1, <1>6
<1>8. {value(l) : l \in 1..n} = ValuesOf(hits)
  BY <1>1 DEF ValuesOf
<1>9. /\ LookAtAll(p, txt, acc) \in Progress
      /\ LookAtAll(p, txt, acc).seen = acc.seen \cup ValuesOf(hits)
      /\ \A f : f \in ToSet(LookAtAll(p, txt, acc).found) <=>
           f \in ToSet(acc.found) \/ \E k \in DOMAIN hits : Counts(k, f)
  <2>1. /\ it[n] \in Progress
        /\ it[n].seen = acc.seen \cup {value(l) : l \in 1..n}
        /\ \A f : f \in ToSet(it[n].found) <=>
             f \in ToSet(acc.found) \/ \E k \in 1..n : Counts(k, f)
    BY <1>7 DEF Good
  <2>2. LookAtAll(p, txt, acc) = it[n] /\ DOMAIN hits = 1..n
    BY <1>1, <1>2
  <2> HIDE DEF Counts, n
  <2> QED BY <1>8, <2>1, <2>2
<1> QED BY <1>9 DEF hits

\* What the context leaves are findings that were there.
LEMMA LeftInContext ==
  ASSUME NEW fs \in Seq(Finding)
  PROVE  InContext(fs) \in Seq(Finding) /\ ToSet(InContext(fs)) \subseteq ToSet(fs)
<1> DEFINE n == Len(fs)
           A == {s \in Seq(Finding) : ToSet(s) \subseteq ToSet(fs)}
           Keep(kept, f) == IF IsFalsePositive(f) THEN kept ELSE Append(kept, f)
           IsIter(h) == h = [s \in SUBSET DOMAIN fs |->
                               IF s = {} THEN <<>>
                               ELSE Keep(h[s \ {Max(s)}], fs[Max(s)])]
           step == [k \in 1..n |-> [a \in A |-> Keep(a, fs[k])]]
<1>1. n \in Nat /\ DOMAIN fs = 1..n /\ \A k \in 1..n : fs[k] \in Finding /\ fs[k] \in ToSet(fs)
  BY DEF ToSet
<1>2. \A a \in A, k \in 1..n : Keep(a, fs[k]) \in A
  <2> SUFFICES ASSUME NEW a \in A, NEW k \in 1..n PROVE Append(a, fs[k]) \in A
    OBVIOUS
  <2>1. fs[k] \in Finding /\ fs[k] \in ToSet(fs) /\ a \in Seq(Finding) /\ ToSet(a) \subseteq ToSet(fs)
    BY <1>1
  <2>2. ToSet(Append(a, fs[k])) = ToSet(a) \cup {fs[k]} /\ Append(a, fs[k]) \in Seq(Finding)
    BY <2>1, OneMore
  <2> QED BY <2>1, <2>2
<1>3. step \in [1..n -> [A -> A]] /\ <<>> \in A
  <2>1. <<>> \in A
    BY DEF ToSet
  <2> HIDE DEF A, n, Keep
  <2> QED BY <1>2, <2>1
<1>4. PICK f \in [SUBSET (1..n) -> A] : IsFold(f, n, <<>>, step)
  <2> HIDE DEF step, n, A
  <2> QED BY <1>1, <1>3, FoldExists
<1>5. IsIter(f)
  <2>1. \A s \in SUBSET (1..n) :
          f[s] = IF s = {} THEN <<>> ELSE Keep(f[s \ {Max(s)}], fs[Max(s)])
    <3> SUFFICES ASSUME NEW s \in SUBSET (1..n)
                 PROVE  f[s] = IF s = {} THEN <<>> ELSE Keep(f[s \ {Max(s)}], fs[Max(s)])
      OBVIOUS
    <3>1. f[s] = IF s = {} THEN <<>> ELSE step[Max(s)][f[s \ {Max(s)}]]
      BY <1>4 DEF IsFold
    <3>2. ASSUME s # {} PROVE step[Max(s)][f[s \ {Max(s)}]] = Keep(f[s \ {Max(s)}], fs[Max(s)])
      <4>1. Max(s) \in 1..n
        <5> HIDE DEF n
        <5> QED BY <1>1, <3>2, LastIndex
      <4>2. f[s \ {Max(s)}] \in A
        <5>1. s \ {Max(s)} \in SUBSET (1..n)
          OBVIOUS
        <5> HIDE DEF n, A
        <5> QED BY <5>1
      <4> HIDE DEF n, A, Keep
      <4> QED BY <4>1, <4>2
    <3> HIDE DEF step, Keep
    <3> QED BY <3>1, <3>2
  <2>2. f = [s \in SUBSET (1..n) |-> f[s]]
    OBVIOUS
  <2> HIDE DEF n, Keep
  <2> QED BY <1>1, <2>1, <2>2
<1> DEFINE g == CHOOSE h : IsIter(h)
<1>6. IsIter(g)
  <2> HIDE DEF IsIter
  <2> QED BY <1>5
<1>7. InContext(fs) = g[DOMAIN fs]
  BY DEF InContext, FoldLeft, MapThenFoldSet
<1> HIDE DEF g
<1> DEFINE bad == {k \in 0..n : g[1..k] \notin A}
<1>8. bad = {}
  <2> SUFFICES ASSUME bad # {} PROVE FALSE
    OBVIOUS
  <2>1. PICK k \in bad : \A m \in bad : k <= m
    <3>1. bad \in SUBSET Nat
      OBVIOUS
    <3> HIDE DEF bad
    <3> QED BY <3>1, LeastNumber
  <2>2. k \in 0..n /\ g[1..k] \notin A
    OBVIOUS
  <2>3. k # 0
    <3> SUFFICES ASSUME k = 0 PROVE FALSE
      OBVIOUS
    <3>1. 1..0 = {} /\ {} \in SUBSET DOMAIN fs
      OBVIOUS
    <3>2. g[{}] = <<>>
      BY <1>6, <3>1
    <3> HIDE DEF A, n
    <3> QED BY <1>3, <2>2, <3>1, <3>2
  <2>4. k \in 1..n /\ k - 1 \in 0..n /\ k - 1 < k
    <3> HIDE DEF n, A, bad
    <3> QED BY <1>1, <2>2, <2>3
  <2>5. k - 1 \notin bad
    <3> HIDE DEF bad
    <3> QED BY <2>1, <2>4
  <2>6. g[1..(k - 1)] \in A
    <3> HIDE DEF A
    <3> QED BY <2>4, <2>5
  <2>7. 1..k \in SUBSET (1..n) /\ 1..k # {} /\ Max(1..k) = k /\ (1..k) \ {k} = 1..(k - 1)
    <3> HIDE DEF n
    <3> QED BY <1>1, <2>4, Beginnings
  <2>8. g[1..k] = Keep(g[(1..k) \ {Max(1..k)}], fs[Max(1..k)])
    <3> HIDE DEF n, Keep
    <3> QED BY <1>1, <1>6, <2>7
  <2>9. g[1..k] = Keep(g[1..(k - 1)], fs[k])
    <3> HIDE DEF Keep, n
    <3> QED BY <2>7, <2>8
  <2>10. Keep(g[1..(k - 1)], fs[k]) \in A
    <3> HIDE DEF Keep, A, n
    <3> QED BY <1>2, <2>4, <2>6
  <2> HIDE DEF Keep, A, n, bad
  <2> QED BY <2>2, <2>9, <2>10
<1>9. g[1..n] \in A
  <2> HIDE DEF A
  <2> QED BY <1>1, <1>8
<1> QED BY <1>1, <1>7, <1>9

(***************************************************************************)
(* What a scan has decided.                                                *)
(***************************************************************************)
Matches(d, i) == FindAll(Patterns(d)[i], text)

\* The patterns before the n-th that are run.
Before(d, n) == {i \in Ran(d) : i < n}

\* The values met by them.
IsMet(d, n, v) == \E i \in Before(d, n) : v \in ValuesOf(Matches(d, i))

\* The k-th match of pattern i is reported as f.
Reports(d, i, k, f) ==
  /\ FirstMeeting(d, Ran(d), i, k)
  /\ Matches(d, i)[k].match.value \notin Patterns(d)[i].rejects
  /\ f = Report(Patterns(d)[i], Matches(d, i)[k])

\* f is a report of a pattern before the n-th.
IsReport(d, n, f) ==
  \E i \in Before(d, n) : \E k \in DOMAIN Matches(d, i) : Reports(d, i, k, f)

\* What the detector has done is due to its patterns before the n-th.
SeenSoFar(d, n) == \A v : v \in seen <=> IsMet(d, n, v)
ReportedSoFar(d, n) == \A f : f \in ToSet(reported[d]) <=> IsReport(d, n, f)

\* The types of the scan.
ScanTypes ==
  /\ text \in Seq(Atoms)
  /\ phase \in Detectors \cup {"masking", "done"}
  /\ next \in Nat \ {0}
  /\ phase \in Detectors => next <= Len(Patterns(phase)) + 1
  /\ reported \in [Detectors -> Seq(Finding)]

\* The running detector has seen the values its patterns have met, and reported
\* their first meetings; a detector that has ended has done so for all of its
\* patterns.  What is reported could not be kept without what is seen, which is
\* what decides whether a meeting is the first.
ScanInv ==
  /\ ScanTypes
  /\ \A d \in Detectors, n \in Nat :
       phase = d /\ next = n => SeenSoFar(d, n) /\ ReportedSoFar(d, n)
  /\ phase = "secrets" => reported["pii"] = <<>>
  /\ phase # "secrets" => ReportedSoFar("secrets", Len(SecretPatterns) + 1)
  /\ phase \in {"masking", "done"} => ReportedSoFar("pii", Len(PIIPatterns) + 1)

\* The patterns of a detector.
LEMMA PatternTypes ==
  ASSUME NEW d \in Detectors
  PROVE  /\ Len(Patterns(d)) \in Nat /\ DOMAIN Patterns(d) = 1..Len(Patterns(d))
         /\ \A i \in DOMAIN Patterns(d) : IsPattern(Patterns(d)[i])
<1>1. CASE d = "secrets"
  <2>1. Patterns(d) = SecretPatterns
    BY <1>1 DEF Patterns
  <2>2. \A i \in DOMAIN SecretPatterns : SecretPatterns[i] \in ToSet(SecretPatterns)
    BY DEF ToSet
  <2>3. Len(SecretPatterns) \in Nat /\ DOMAIN SecretPatterns = 1..Len(SecretPatterns)
    BY PatternsAssumption
  <2> QED BY PatternsAssumption, <2>1, <2>2, <2>3
<1>2. CASE d = "pii"
  <2>1. Patterns(d) = PIIPatterns
    BY <1>2 DEF Patterns
  <2>2. \A i \in DOMAIN PIIPatterns : PIIPatterns[i] \in ToSet(PIIPatterns)
    BY DEF ToSet
  <2>3. Len(PIIPatterns) \in Nat /\ DOMAIN PIIPatterns = 1..Len(PIIPatterns)
    BY PatternsAssumption
  <2> QED BY PatternsAssumption, <2>1, <2>2, <2>3
<1> QED BY <1>1, <1>2 DEF Detectors

\* What a pattern matches depends on the text and the locales only.
LEMMA SameText ==
  ASSUME text' = text, locales' = locales, NEW d, NEW n
  PROVE  /\ \A v : IsMet(d, n, v)' <=> IsMet(d, n, v)
         /\ \A f : IsReport(d, n, f)' <=> IsReport(d, n, f)
<1>1. \A i : Matches(d, i)' = Matches(d, i)
  BY DEF Matches
<1>2. Ran(d)' = Ran(d)
  BY DEF Ran, Applies
<1>3. Before(d, n)' = Before(d, n)
  BY <1>2 DEF Before
<1>4. \A i, k : FirstMeeting(d, Ran(d), i, k)' <=> FirstMeeting(d, Ran(d), i, k)
  BY <1>2 DEF FirstMeeting
<1>5. \A i, k, f : Reports(d, i, k, f)' <=> Reports(d, i, k, f)
  BY <1>1, <1>4 DEF Reports
<1> QED BY <1>1, <1>3, <1>5 DEF IsMet, IsReport

\* The first pattern has none before it, and a pattern that is left out none
\* that are new.
LEMMA NoneBefore ==
  ASSUME NEW d \in Detectors
  PROVE  Before(d, 1) = {}
<1>1. \A i \in DOMAIN Patterns(d) : i \in Nat /\ i >= 1
  BY PatternTypes
<1> QED BY <1>1 DEF Before, Ran

\* The n-th pattern is before the next one exactly if it is run.
LEMMA OneMoreBefore ==
  ASSUME NEW d \in Detectors, NEW n \in Nat
  PROVE  /\ n \in Ran(d) => Before(d, n + 1) = Before(d, n) \cup {n}
         /\ n \notin Ran(d) => Before(d, n + 1) = Before(d, n)
<1>1. \A i \in Ran(d) : i \in Nat
  BY PatternTypes DEF Ran
<1>2. \A i \in Ran(d) : i < n + 1 <=> i < n \/ i = n
  BY <1>1
<1> QED BY <1>2 DEF Before

\* All values met are texts.
LEMMA MetAreTexts ==
  ASSUME text \in Seq(Atoms), NEW d \in Detectors, NEW n \in Nat, NEW v, IsMet(d, n, v)
  PROVE  v \in Seq(Atoms)
<1>1. PICK i \in Before(d, n) : v \in ValuesOf(Matches(d, i))
  BY DEF IsMet
<1>2. i \in DOMAIN Patterns(d) /\ IsPattern(Patterns(d)[i])
  BY <1>1, PatternTypes DEF Before, Ran
<1>3. Matches(d, i) \in Seq(Hits(Patterns(d)[i], text))
  BY <1>2, FindAllFinds DEF Matches
<1>4. PICK k \in DOMAIN Matches(d, i) : v = Matches(d, i)[k].match.value
  BY <1>1 DEF ValuesOf
<1>5. Matches(d, i)[k] \in Hits(Patterns(d)[i], text)
  BY <1>3, <1>4
<1> QED BY <1>2, <1>4, <1>5, HitTypes

\* Nothing is decided before a detector is run.
LEMMA InitScan == ScanInit => ScanInv
<1> SUFFICES ASSUME ScanInit PROVE ScanInv
  OBVIOUS
<1>1. ScanTypes
  <2>1. text \in Seq(Atoms)
    BY PatternsAssumption DEF ScanInit
  <2>2. Len(Patterns("secrets")) \in Nat
    BY PatternTypes DEF Detectors
  <2>3. reported \in [Detectors -> Seq(Finding)]
    BY DEF ScanInit
  <2> QED BY <2>1, <2>2, <2>3 DEF ScanInit, ScanTypes, Detectors
<1>2. reported["secrets"] = <<>> /\ reported["pii"] = <<>> /\ seen = {}
  BY DEF ScanInit, Detectors
<1>3. ToSet(<<>>) = {}
  BY DEF ToSet
<1>4. Before("secrets", 1) = {}
  BY NoneBefore DEF Detectors
<1>5. SeenSoFar("secrets", 1) /\ ReportedSoFar("secrets", 1)
  BY <1>2, <1>3, <1>4 DEF SeenSoFar, ReportedSoFar, IsMet, IsReport
<1> QED BY <1>1, <1>2, <1>5 DEF ScanInv, ScanInit, Detectors

\* A pattern decides the values first met among its matches.
LEMMA ScanPatternScans ==
  ASSUME ScanInv, ScanPattern
  PROVE  ScanInv'
<1>0a. PICK d : d = phase
  OBVIOUS
<1>0b. PICK n : n = next
  OBVIOUS
<1> DEFINE p == Patterns(d)[n]
           acc == [seen |-> seen, found |-> reported[d]]
           after == LookAtAll(p, text, acc)
           hits == FindAll(p, text)
<1>1. /\ d \in Detectors /\ n <= Len(Patterns(d)) /\ Applies(d, p)
      /\ seen' = after.seen /\ reported' = [reported EXCEPT ![d] = after.found]
      /\ next' = n + 1 /\ phase' = d /\ text' = text /\ locales' = locales
  BY <1>0a, <1>0b DEF ScanPattern
<1>2. /\ text \in Seq(Atoms) /\ n \in Nat \ {0} /\ reported \in [Detectors -> Seq(Finding)]
      /\ SeenSoFar(d, n) /\ ReportedSoFar(d, n)
  <2>1. ScanTypes
    BY DEF ScanInv
  <2>2. text \in Seq(Atoms) /\ n \in Nat \ {0} /\ reported \in [Detectors -> Seq(Finding)]
    BY <1>0b, <2>1 DEF ScanTypes
  <2> QED BY <1>0a, <1>0b, <1>1, <2>2 DEF ScanInv
<1>3. n \in DOMAIN Patterns(d) /\ IsPattern(p) /\ n \in Ran(d) /\ n \in Nat
  <2>1. n \in DOMAIN Patterns(d)
    BY <1>1, <1>2, PatternTypes
  <2>2. IsPattern(p)
    BY <1>1, <2>1, PatternTypes
  <2> QED BY <1>1, <1>2, <2>1, <2>2 DEF Ran
<1>4. acc \in Progress
  <2>1. seen \in SUBSET Seq(Atoms)
    BY <1>1, <1>2, <1>3, MetAreTexts DEF SeenSoFar
  <2>2. reported[d] \in Seq(Finding)
    BY <1>1, <1>2
  <2> QED BY <2>1, <2>2 DEF Progress
<1>5. /\ after \in Progress
      /\ after.seen = seen \cup ValuesOf(hits)
      /\ \A f : f \in ToSet(after.found) <=>
           \/ f \in ToSet(reported[d])
           \/ \E k \in DOMAIN hits :
                IsNew(hits, k, seen) /\ hits[k].match.value \notin p.rejects /\ f = Report(p, hits[k])
  <2>1. acc.seen = seen /\ acc.found = reported[d]
    OBVIOUS
  <2>2. /\ after \in Progress
        /\ after.seen = acc.seen \cup ValuesOf(hits)
        /\ \A f : f \in ToSet(after.found) <=>
             \/ f \in ToSet(acc.found)
             \/ \E k \in DOMAIN hits :
                  IsNew(hits, k, acc.seen) /\ hits[k].match.value \notin p.rejects /\ f = Report(p, hits[k])
    <3>1. text \in Seq(Atoms) /\ IsPattern(p) /\ acc \in Progress
      BY <1>2, <1>3, <1>4
    <3> HIDE DEF acc, p
    <3> QED BY ONLY <3>1, LookedAt
  <2> HIDE DEF acc, after, hits, p
  <2> QED BY <2>1, <2>2
<1> HIDE DEF after, p
<1>6. Before(d, n + 1) = Before(d, n) \cup {n} /\ Matches(d, n) = hits
  BY <1>1, <1>3, OneMoreBefore DEF Matches, p
<1>7. \A k \in DOMAIN hits : IsNew(hits, k, seen) <=> FirstMeeting(d, Ran(d), n, k)
  <2> SUFFICES ASSUME NEW k \in DOMAIN hits
               PROVE  IsNew(hits, k, seen) <=> FirstMeeting(d, Ran(d), n, k)
    OBVIOUS
  <2> DEFINE v == hits[k].match.value
  <2>1. v \notin seen <=> \A j \in Ran(d) : j < n => v \notin ValuesOf(Matches(d, j))
    BY <1>2 DEF SeenSoFar, IsMet, Before
  <2>2. \A j : v \notin ValuesOf(Matches(d, j)) <=>
                 \A l \in DOMAIN FindAll(Patterns(d)[j], text) :
                   FindAll(Patterns(d)[j], text)[l].match.value # v
    BY DEF ValuesOf, Matches
  <2>3. FindAll(Patterns(d)[n], text) = hits
    BY DEF p
  <2> HIDE DEF hits
  <2> QED BY <2>1, <2>2, <2>3 DEF IsNew, FirstMeeting
<1>8. \A v : v \in after.seen <=> IsMet(d, n + 1, v)
  <2>1. \A v : v \in after.seen <=> v \in seen \/ v \in ValuesOf(hits)
    BY <1>5
  <2>2. \A v : IsMet(d, n + 1, v) <=> IsMet(d, n, v) \/ v \in ValuesOf(Matches(d, n))
    BY <1>6 DEF IsMet
  <2> HIDE DEF hits
  <2> QED BY <1>2, <1>6, <2>1, <2>2 DEF SeenSoFar
<1>9. \A f : f \in ToSet(after.found) <=> IsReport(d, n + 1, f)
  <2>1. \A f : IsReport(d, n + 1, f) <=>
          IsReport(d, n, f) \/ \E k \in DOMAIN Matches(d, n) : Reports(d, n, k, f)
    BY <1>6 DEF IsReport
  <2>2. \A k \in DOMAIN hits : \A f :
          Reports(d, n, k, f) <=>
            IsNew(hits, k, seen) /\ hits[k].match.value \notin p.rejects /\ f = Report(p, hits[k])
    <3> HIDE DEF hits
    <3> QED BY <1>6, <1>7 DEF Reports, p
  <2> HIDE DEF hits
  <2> QED BY <1>2, <1>5, <1>6, <2>1, <2>2 DEF ReportedSoFar
<1>10. \A v : v \in seen' <=> IsMet(d, n + 1, v)'
  <2> HIDE DEF after
  <2> QED BY <1>1, <1>8, SameText
<1>11. \A f : f \in ToSet(reported'[d]) <=> IsReport(d, n + 1, f)'
  <2>1. reported'[d] = after.found
    <3> HIDE DEF after
    <3> QED BY <1>1, <1>2
  <2> HIDE DEF after
  <2> QED BY <1>1, <1>9, <2>1, SameText
<1>12. ScanTypes'
  <2>1. after.found \in Seq(Finding)
    BY <1>5 DEF Progress
  <2>2. n + 1 \in Nat \ {0} /\ n + 1 <= Len(Patterns(d)) + 1
    BY <1>1, <1>2, PatternTypes
  <2> HIDE DEF after
  <2> QED BY <1>1, <1>2, <2>1, <2>2 DEF ScanTypes
<1>13. (phase = "secrets" => reported["pii"] = <<>>)'
  <2> HIDE DEF after
  <2> QED BY <1>0a, <1>1, <1>2 DEF ScanInv, Detectors
<1>14. (phase # "secrets" => ReportedSoFar("secrets", Len(SecretPatterns) + 1))'
  <2> SUFFICES ASSUME d # "secrets"
               PROVE  ReportedSoFar("secrets", Len(SecretPatterns) + 1)'
    BY <1>1
  <2>1. ReportedSoFar("secrets", Len(SecretPatterns) + 1)
    BY <1>0a DEF ScanInv
  <2>2. reported'["secrets"] = reported["secrets"]
    <3> HIDE DEF after
    <3> QED BY <1>1, <1>2 DEF Detectors
  <2> QED BY <1>1, <2>1, <2>2, SameText DEF ReportedSoFar
<1>15. (phase \in {"masking", "done"} => ReportedSoFar("pii", Len(PIIPatterns) + 1))'
  BY <1>1 DEF Detectors
<1>16. (\A e \in Detectors, m \in Nat :
         phase = e /\ next = m => SeenSoFar(e, m) /\ ReportedSoFar(e, m))'
  <2> SUFFICES ASSUME NEW e \in Detectors, NEW m \in Nat, e = d, m = n + 1
               PROVE  SeenSoFar(e, m)' /\ ReportedSoFar(e, m)'
    BY <1>1
  <2> QED BY <1>10, <1>11 DEF SeenSoFar, ReportedSoFar
<1> QED BY <1>12, <1>13, <1>14, <1>15, <1>16 DEF ScanInv

\* A step that leaves the detectors' reports alone.
LEMMA ReportsStay ==
  ASSUME text' = text, locales' = locales, reported' = reported, NEW d, NEW n,
         ReportedSoFar(d, n)
  PROVE  ReportedSoFar(d, n)'
BY SameText DEF ReportedSoFar

\* A pattern for other locales decides nothing.
LEMMA SkipPatternScans ==
  ASSUME ScanInv, SkipPattern
  PROVE  ScanInv'
<1>1. PICK n : n = next
  OBVIOUS
<1>2. /\ phase = "pii" /\ n <= Len(PIIPatterns) /\ ~ Applies("pii", PIIPatterns[n])
      /\ next' = n + 1 /\ phase' = "pii" /\ text' = text /\ locales' = locales
      /\ seen' = seen /\ reported' = reported
  BY <1>1 DEF SkipPattern
<1>3. ScanTypes /\ n \in Nat \ {0} /\ SeenSoFar("pii", n) /\ ReportedSoFar("pii", n)
  <2>1. ScanTypes /\ n \in Nat \ {0}
    BY <1>1 DEF ScanInv, ScanTypes
  <2> QED BY <1>1, <1>2, <2>1 DEF ScanInv, Detectors
<1>4. n \notin Ran("pii") /\ n <= Len(Patterns("pii"))
  BY <1>2 DEF Ran, Patterns
<1>5. Before("pii", n + 1) = Before("pii", n)
  BY <1>3, <1>4, OneMoreBefore DEF Detectors
<1>6. SeenSoFar("pii", n + 1) /\ ReportedSoFar("pii", n + 1)
  BY <1>3, <1>5 DEF SeenSoFar, ReportedSoFar, IsMet, IsReport
<1>7. SeenSoFar("pii", n + 1)' /\ ReportedSoFar("pii", n + 1)'
  BY <1>2, <1>6, SameText DEF SeenSoFar, ReportedSoFar
<1>8. ScanTypes'
  <2>1. n + 1 \in Nat \ {0} /\ n + 1 <= Len(Patterns("pii")) + 1
    BY <1>3, <1>4, PatternTypes DEF Detectors
  <2> QED BY <1>2, <1>3, <2>1 DEF ScanTypes
<1>9. ReportedSoFar("secrets", Len(SecretPatterns) + 1)'
  <2>1. ReportedSoFar("secrets", Len(SecretPatterns) + 1)
    BY <1>2 DEF ScanInv
  <2> QED BY <1>2, <2>1, ReportsStay
<1>10. (\A e \in Detectors, m \in Nat :
         phase = e /\ next = m => SeenSoFar(e, m) /\ ReportedSoFar(e, m))'
  <2> SUFFICES ASSUME NEW e \in Detectors, NEW m \in Nat, e = "pii", m = n + 1
               PROVE  SeenSoFar(e, m)' /\ ReportedSoFar(e, m)'
    BY <1>2
  <2> QED BY <1>7
<1> QED BY <1>2, <1>8, <1>9, <1>10 DEF ScanInv

\* The second detector begins with nothing seen.
LEMMA EndSecretsScans ==
  ASSUME ScanInv, EndSecrets
  PROVE  ScanInv'
<1>1. /\ phase = "secrets" /\ next > Len(SecretPatterns)
      /\ next' = 1 /\ phase' = "pii" /\ text' = text /\ locales' = locales
      /\ seen' = {} /\ reported' = reported
  BY DEF EndSecrets
<1>2. ScanTypes /\ reported["pii"] = <<>>
  BY <1>1 DEF ScanInv
<1>3. next = Len(SecretPatterns) + 1 /\ next \in Nat
  <2>1. next \in Nat /\ next <= Len(SecretPatterns) + 1
    BY <1>1, <1>2 DEF ScanTypes, Patterns, Detectors
  <2>2. Len(SecretPatterns) \in Nat
    BY PatternsAssumption
  <2> QED BY <1>1, <2>1, <2>2
<1>4. ReportedSoFar("secrets", Len(SecretPatterns) + 1)
  BY <1>1, <1>3 DEF ScanInv, Detectors
<1>5. ReportedSoFar("secrets", Len(SecretPatterns) + 1)'
  BY <1>1, <1>4, ReportsStay
<1>6. ReportedSoFar("pii", 1) /\ \A v : ~ IsMet("pii", 1, v)
  <2>1. Before("pii", 1) = {}
    BY NoneBefore DEF Detectors
  <2>2. ToSet(<<>>) = {}
    BY DEF ToSet
  <2> QED BY <1>2, <2>1, <2>2 DEF ReportedSoFar, IsReport, IsMet
<1>7. SeenSoFar("pii", 1)' /\ ReportedSoFar("pii", 1)'
  BY <1>1, <1>6, ReportsStay, SameText DEF SeenSoFar
<1>8. ScanTypes'
  <2>1. Len(Patterns("pii")) \in Nat
    BY PatternTypes DEF Detectors
  <2>2. 1 <= Len(Patterns("pii")) + 1
    BY <2>1
  <2> QED BY <1>1, <1>2, <2>2 DEF ScanTypes, Detectors
<1>9. (\A e \in Detectors, m \in Nat :
         phase = e /\ next = m => SeenSoFar(e, m) /\ ReportedSoFar(e, m))'
  BY <1>1, <1>7
<1> QED BY <1>1, <1>5, <1>8, <1>9 DEF ScanInv

\* After both detectors their reports stay.
LEMMA EndPIIScans ==
  ASSUME ScanInv, EndPII
  PROVE  ScanInv'
<1>1. /\ phase = "pii" /\ next > Len(PIIPatterns)
      /\ next' = 1 /\ phase' \in {"masking", "done"} /\ text' = text /\ locales' = locales
      /\ reported' = reported
  BY DEF EndPII
<1>2. ScanTypes /\ ReportedSoFar("secrets", Len(SecretPatterns) + 1)
  BY <1>1 DEF ScanInv
<1>3. next = Len(PIIPatterns) + 1 /\ next \in Nat
  <2>1. next \in Nat /\ next <= Len(PIIPatterns) + 1
    BY <1>1, <1>2 DEF ScanTypes, Patterns, Detectors
  <2>2. Len(PIIPatterns) \in Nat
    BY PatternsAssumption
  <2> QED BY <1>1, <2>1, <2>2
<1>4. ReportedSoFar("pii", Len(PIIPatterns) + 1)
  BY <1>1, <1>3 DEF ScanInv, Detectors
<1>5. ReportedSoFar("secrets", Len(SecretPatterns) + 1)' /\ ReportedSoFar("pii", Len(PIIPatterns) + 1)'
  BY <1>1, <1>2, <1>4, ReportsStay
<1>6. ScanTypes'
  BY <1>1, <1>2 DEF ScanTypes, Detectors
<1> QED BY <1>1, <1>5, <1>6 DEF ScanInv, Detectors

\* Masking decides nothing.
LEMMA MaskingScans ==
  ASSUME ScanInv, MaskNext \/ EndMasking
  PROVE  ScanInv'
<1>1. /\ phase = "masking" /\ phase' \in {"masking", "done"}
      /\ next' \in {next, next + 1} /\ text' = text /\ locales' = locales
      /\ reported' = reported
  BY DEF MaskNext, EndMasking
<1>2. ScanTypes /\ ReportedSoFar("secrets", Len(SecretPatterns) + 1)
      /\ ReportedSoFar("pii", Len(PIIPatterns) + 1)
  BY <1>1 DEF ScanInv
<1>3. ReportedSoFar("secrets", Len(SecretPatterns) + 1)' /\ ReportedSoFar("pii", Len(PIIPatterns) + 1)'
  BY <1>1, <1>2, ReportsStay
<1>4. ScanTypes'
  BY <1>1, <1>2 DEF ScanTypes, Detectors
<1> QED BY <1>1, <1>3, <1>4 DEF ScanInv, Detectors

\* The invariant of scanning, for any patterns and texts.
THEOREM ScanInvariance == ScanSpec => []ScanInv
<1>1. ScanInv /\ UNCHANGED scanVars => ScanInv'
  <2> SUFFICES ASSUME ScanInv, UNCHANGED scanVars PROVE ScanInv'
    OBVIOUS
  <2>1. /\ text' = text /\ locales' = locales /\ reported' = reported
        /\ phase' = phase /\ next' = next /\ seen' = seen
    BY DEF scanVars
  <2>2. ScanTypes'
    BY <2>1 DEF ScanInv, ScanTypes
  <2>3. (\A e \in Detectors, m \in Nat :
          phase = e /\ next = m => SeenSoFar(e, m) /\ ReportedSoFar(e, m))'
    <3> SUFFICES ASSUME NEW e \in Detectors, NEW m \in Nat, phase = e, next = m
                 PROVE  SeenSoFar(e, m)' /\ ReportedSoFar(e, m)'
      BY <2>1
    <3>1. SeenSoFar(e, m) /\ ReportedSoFar(e, m)
      BY DEF ScanInv
    <3> QED BY <2>1, <3>1, ReportsStay, SameText DEF SeenSoFar
  <2>4. (phase # "secrets" => ReportedSoFar("secrets", Len(SecretPatterns) + 1))'
    BY <2>1, ReportsStay DEF ScanInv
  <2>5. (phase \in {"masking", "done"} => ReportedSoFar("pii", Len(PIIPatterns) + 1))'
    BY <2>1, ReportsStay DEF ScanInv
  <2>6. (phase = "secrets" => reported["pii"] = <<>>)'
    BY <2>1 DEF ScanInv
  <2> QED BY <2>2, <2>3, <2>4, <2>5, <2>6 DEF ScanInv
<1>2. ScanInv /\ [ScanNext]_scanVars => ScanInv'
  BY <1>1, ScanPatternScans, SkipPatternScans, EndSecretsScans, EndPIIScans,
     MaskingScans DEF ScanNext
<1> QED BY <1>2, InitScan, PTL DEF ScanSpec

\* What a detector reports is decided, value by value, where it first meets
\* the value, for any patterns, whatever their order and whatever they match
\* (secret.go:153-202, pii.go:67-131).
THEOREM ReportsAreDecided == ScanSpec => []DecidedWhereFirstMet
<1>1. ScanInv => DecidedWhereFirstMet
  <2> SUFFICES ASSUME ScanInv, NEW d \in Detectors, phase \in {"masking", "done"}
               PROVE  LET met == {ik \in Ran(d) \X DOMAIN text :
                                    /\ ik[2] <= Len(FindAll(Patterns(d)[ik[1]], text))
                                    /\ FirstMeeting(d, Ran(d), ik[1], ik[2])}
                          Hit(ik) == FindAll(Patterns(d)[ik[1]], text)[ik[2]]
                      IN ToSet(reported[d]) =
                           {Report(Patterns(d)[ik[1]], Hit(ik)) :
                              ik \in {x \in met : Hit(x).match.value \notin Patterns(d)[x[1]].rejects}}
    BY DEF DecidedWhereFirstMet
  <2> DEFINE n == Len(Patterns(d)) + 1
             met == {ik \in Ran(d) \X DOMAIN text :
                       /\ ik[2] <= Len(FindAll(Patterns(d)[ik[1]], text))
                       /\ FirstMeeting(d, Ran(d), ik[1], ik[2])}
             Hit(ik) == FindAll(Patterns(d)[ik[1]], text)[ik[2]]
             told == {Report(Patterns(d)[ik[1]], Hit(ik)) :
                        ik \in {x \in met : Hit(x).match.value \notin Patterns(d)[x[1]].rejects}}
  <2>1. ReportedSoFar(d, n) /\ text \in Seq(Atoms)
    BY DEF ScanInv, ScanTypes, Detectors, Patterns
  <2>2. Before(d, n) = Ran(d)
    BY PatternTypes DEF Before, Ran
  <2>3. \A i \in Ran(d) : /\ DOMAIN Matches(d, i) = 1..Len(Matches(d, i))
                          /\ Len(Matches(d, i)) \in Nat /\ Len(Matches(d, i)) <= Len(text)
    <3> SUFFICES ASSUME NEW i \in Ran(d)
                 PROVE  /\ DOMAIN Matches(d, i) = 1..Len(Matches(d, i))
                        /\ Len(Matches(d, i)) \in Nat /\ Len(Matches(d, i)) <= Len(text)
      OBVIOUS
    <3>1. IsPattern(Patterns(d)[i])
      BY PatternTypes DEF Ran
    <3>2. Matches(d, i) \in Seq(Hits(Patterns(d)[i], text)) /\ Len(Matches(d, i)) <= Len(text)
      BY <2>1, <3>1, FindAllFinds DEF Matches
    <3> QED BY <3>2
  <2>4. \A i \in Ran(d) : \A k : k \in DOMAIN Matches(d, i) <=> k \in DOMAIN text /\ k <= Len(Matches(d, i))
    <3>1. DOMAIN text = 1..Len(text) /\ Len(text) \in Nat
      BY <2>1
    <3> QED BY <2>3, <3>1
  <2>5. \A i, k : <<i, k>> \in met <=>
                    i \in Ran(d) /\ k \in DOMAIN Matches(d, i) /\ FirstMeeting(d, Ran(d), i, k)
    BY <2>4 DEF Matches
  <2>6. \A f : f \in told <=> \E i \in Ran(d) : \E k \in DOMAIN Matches(d, i) : Reports(d, i, k, f)
    <3> SUFFICES ASSUME NEW f
                 PROVE  f \in told <=> \E i \in Ran(d) : \E k \in DOMAIN Matches(d, i) : Reports(d, i, k, f)
      OBVIOUS
    <3>1. ASSUME f \in told
          PROVE  \E i \in Ran(d) : \E k \in DOMAIN Matches(d, i) : Reports(d, i, k, f)
      <4>1. PICK ik \in met : /\ Hit(ik).match.value \notin Patterns(d)[ik[1]].rejects
                              /\ f = Report(Patterns(d)[ik[1]], Hit(ik))
        BY <3>1
      <4>2. ik = <<ik[1], ik[2]>>
        OBVIOUS
      <4>3. ik[1] \in Ran(d) /\ ik[2] \in DOMAIN Matches(d, ik[1]) /\ FirstMeeting(d, Ran(d), ik[1], ik[2])
        <5> HIDE DEF met
        <5> QED BY <2>5, <4>1, <4>2
      <4>4. Reports(d, ik[1], ik[2], f)
        BY <4>1, <4>3 DEF Reports, Matches
      <4> QED BY <4>3, <4>4
    <3>2. ASSUME NEW i \in Ran(d), NEW k \in DOMAIN Matches(d, i), Reports(d, i, k, f)
          PROVE  f \in told
      <4>1. <<i, k>> \in met
        <5> HIDE DEF met
        <5> QED BY <2>5, <3>2 DEF Reports
      <4>2. /\ Hit(<<i, k>>).match.value \notin Patterns(d)[<<i, k>>[1]].rejects
            /\ f = Report(Patterns(d)[<<i, k>>[1]], Hit(<<i, k>>))
        BY <3>2 DEF Reports, Matches
      <4> HIDE DEF met, Hit
      <4> QED BY <4>1, <4>2
    <3> HIDE DEF told
    <3> QED BY <3>1, <3>2
  <2>7. \A f : f \in ToSet(reported[d]) <=> f \in told
    <3> HIDE DEF told, n
    <3> QED BY <2>1, <2>2, <2>6 DEF ReportedSoFar, IsReport
  <2>8. ToSet(reported[d]) = told
    <3> HIDE DEF told
    <3> QED BY <2>7
  <2> QED BY <2>8
<1> QED BY <1>1, ScanInvariance, PTL

(***************************************************************************)
(* Replacing the first occurrence of a string.                             *)
(***************************************************************************)

\* A string stands where it does, place by place.
LEMMA StandsByPlace ==
  ASSUME NEW S, NEW s \in Seq(S), NEW t \in Seq(S), NEW i \in 1..(Len(t) + 1)
  PROVE  StandsAt(s, t, i) <=>
           i + Len(s) - 1 <= Len(t) /\ \A k \in 1..Len(s) : t[i + k - 1] = s[k]
<1> DEFINE n == Len(t)
           l == Len(s)
           u == SubSeq(t, i, i + l - 1)
<1>1. n \in Nat /\ l \in Nat /\ i \in Nat /\ i >= 1
  OBVIOUS
<1>2. ASSUME i + l - 1 <= n
      PROVE  u \in Seq(S) /\ Len(u) = l /\ \A k \in 1..l : u[k] = t[i + k - 1]
  <2>1. \A k \in i..(i + l - 1) : t[k] \in S
    BY <1>1, <1>2
  <2>2. Len(u) = l
    BY <1>1, <1>2
  <2>3. u = [k \in 1..l |-> t[i + k - 1]]
    BY <1>1, <1>2
  <2> QED BY <1>1, <1>2, <2>1, <2>2, <2>3
<1>3. s = [k \in 1..l |-> s[k]]
  OBVIOUS
<1>4. ASSUME i + l - 1 <= n
      PROVE  u = s <=> \A k \in 1..l : t[i + k - 1] = s[k]
  <2>1. u = [k \in 1..l |-> u[k]]
    <3>1. u \in Seq(S) /\ Len(u) = l
      BY <1>2, <1>4
    <3> HIDE DEF u
    <3> QED BY <3>1
  <2> HIDE DEF u, l, n
  <2> QED BY <1>2, <1>3, <1>4, <2>1
<1> QED BY <1>4 DEF StandsAt

\* A string is a part of another where it stands somewhere.
LEMMA PartsStand ==
  ASSUME NEW S, NEW s \in Seq(S), NEW t \in Seq(S)
  PROVE  s \in SubSeqs(t) <=> Occurrences(s, t) # {}
<1>1. Len(s) \in Nat /\ Len(t) \in Nat
  OBVIOUS
<1>2. ASSUME NEW a \in 0..Len(t), NEW b \in 0..Len(t), s = SubSeq(t, a + 1, b)
      PROVE  Occurrences(s, t) # {}
  <2>1. CASE a <= b
    <3>1. Len(s) = b - a
      BY <1>1, <1>2, <2>1
    <3>2. a + 1 \in 1..(Len(t) + 1) /\ (a + 1) + Len(s) - 1 = b
      BY <1>1, <2>1, <3>1
    <3>3. StandsAt(s, t, a + 1)
      <4>1. SubSeq(t, a + 1, (a + 1) + Len(s) - 1) = s /\ (a + 1) + Len(s) - 1 <= Len(t)
        BY <1>1, <1>2, <3>2
      <4> QED BY <4>1 DEF StandsAt
    <3>4. a + 1 \in Occurrences(s, t)
      BY <3>2, <3>3 DEF Occurrences
    <3> QED BY <3>4
  <2>2. CASE b < a
    <3>1. Len(s) = 0
      BY <1>1, <1>2, <2>2
    <3>2. 1 \in 1..(Len(t) + 1) /\ 1 + Len(s) - 1 <= Len(t) /\ 1..Len(s) = {}
      BY <1>1, <3>1
    <3>3. StandsAt(s, t, 1)
      BY <3>2, StandsByPlace
    <3> QED BY <3>2, <3>3 DEF Occurrences
  <2> QED BY <2>1, <2>2
<1>3. ASSUME NEW i \in Occurrences(s, t)
      PROVE  s \in SubSeqs(t)
  <2>1. i \in 1..(Len(t) + 1) /\ i + Len(s) - 1 <= Len(t) /\ SubSeq(t, i, i + Len(s) - 1) = s
    BY DEF Occurrences, StandsAt
  <2>2. i - 1 \in 0..Len(t) /\ i + Len(s) - 1 \in 0..Len(t) /\ (i - 1) + 1 = i
    BY <1>1, <2>1
  <2>3. SubSeq(t, (i - 1) + 1, i + Len(s) - 1) = s
    BY <2>1, <2>2
  <2>4. \E a \in 0..Len(t), b \in 0..Len(t) : s = SubSeq(t, a + 1, b)
    BY <2>2, <2>3
  <2> QED BY <2>4 DEF SubSeqs
<1>4. s \in SubSeqs(t) => \E a \in 0..Len(t), b \in 0..Len(t) : s = SubSeq(t, a + 1, b)
  BY DEF SubSeqs
<1> QED BY <1>2, <1>3, <1>4

\* The index at which IndexFirstSubSeq finds a string is one where it stands.
LEMMA FirstStands ==
  ASSUME NEW S, NEW s \in Seq(S), NEW t \in Seq(S), s \in SubSeqs(t)
  PROVE  IndexFirstSubSeq(s, t) \in Occurrences(s, t)
<1> DEFINE n == Len(t)
           l == Len(s)
           Ends(i) == s \in SubSeqs(SubSeq(t, 1, i))
           ends == {i \in 0..n : Ends(i)}
           IsLast(i) == Ends(i) /\ \A j \in 0..i-1 : s \notin SubSeqs(SubSeq(t, 1, j))
           last == CHOOSE i \in 0..n : IsLast(i)
<1>1. n \in Nat /\ l \in Nat
  OBVIOUS
<1>2. PICK e \in ends : \A j \in ends : e <= j
  <2>1. SubSeq(t, 1, n) = t
    OBVIOUS
  <2>2. n \in ends
    <3>1. Ends(n)
      <4> HIDE DEF n
      <4> QED BY <2>1
    <3>2. n \in 0..n
      BY <1>1
    <3> HIDE DEF Ends, n
    <3> QED BY <3>1, <3>2
  <2>3. ends \in SUBSET Nat /\ ends # {}
    BY <1>1, <2>2
  <2> HIDE DEF ends
  <2> QED BY <2>3, LeastNumber
<1>3. e \in 0..n /\ IsLast(e)
  <2>1. e \in 0..n /\ Ends(e)
    OBVIOUS
  <2>2. ASSUME NEW j \in 0..e-1 PROVE ~ Ends(j)
    <3>1. j \in 0..n /\ j \in Nat /\ ~ (e <= j)
      <4> HIDE DEF n
      <4> QED BY <1>1, <2>1
    <3>2. j \notin ends
      <4> HIDE DEF ends
      <4> QED BY <1>2, <3>1
    <3> QED BY <3>1, <3>2
  <2> HIDE DEF n
  <2> QED BY <2>1, <2>2
<1>4. last \in 0..n /\ IsLast(last)
  <2> HIDE DEF IsLast
  <2> QED BY <1>3
<1>5. IndexFirstSubSeq(s, t) = last - (l - 1)
  BY DEF IndexFirstSubSeq
<1> HIDE DEF last
<1> DEFINE u == SubSeq(t, 1, last)
<1>6. u \in Seq(S) /\ Len(u) = last /\ last \in Nat /\ \A k \in 1..last : u[k] = t[k]
  BY <1>1, <1>4
<1>7. PICK i \in Occurrences(s, u) : TRUE
  <2>1. s \in SubSeqs(u)
    BY <1>4
  <2> HIDE DEF u
  <2> QED BY <1>6, <2>1, PartsStand
<1>8. i \in 1..(last + 1) /\ StandsAt(s, u, i) /\ i + l - 1 <= last /\ \A k \in 1..l : u[i + k - 1] = s[k]
  <2>1. i \in 1..(Len(u) + 1) /\ StandsAt(s, u, i)
    BY DEF Occurrences
  <2> HIDE DEF u
  <2> QED BY <1>6, <2>1, StandsByPlace
<1>9. i + l - 1 = last
  <2> SUFFICES ASSUME i + l - 1 < last PROVE FALSE
    BY <1>1, <1>6, <1>8
  <2> DEFINE j == i + l - 1
             w == SubSeq(t, 1, j)
  <2>1. j \in 0..last-1 /\ j \in 0..n
    BY <1>1, <1>4, <1>6, <1>8
  <2>2. w \in Seq(S) /\ Len(w) = j /\ \A k \in 1..j : w[k] = t[k]
    BY <1>1, <2>1
  <2>3. i \in 1..(j + 1) /\ \A k \in 1..l : i + k - 1 \in 1..j /\ i + k - 1 \in 1..last
    BY <1>1, <1>6, <1>8, <2>1
  <2>4. \A k \in 1..l : w[i + k - 1] = s[k]
    <3> HIDE DEF w, u
    <3> QED BY <1>6, <1>8, <2>2, <2>3
  <2>5. StandsAt(s, w, i)
    <3>1. i \in 1..(Len(w) + 1) /\ i + Len(s) - 1 <= Len(w)
      <4> HIDE DEF w
      <4> QED BY <1>1, <2>1, <2>2, <2>3
    <3> HIDE DEF w
    <3> QED BY <2>2, <2>4, <3>1, StandsByPlace
  <2>6. s \in SubSeqs(w)
    <3>1. i \in Occurrences(s, w)
      <4> HIDE DEF w
      <4> QED BY <2>2, <2>3, <2>5 DEF Occurrences
    <3> HIDE DEF w
    <3> QED BY <2>2, <3>1, PartsStand
  <2>7. s \notin SubSeqs(w)
    BY <1>4, <2>1
  <2> QED BY <2>6, <2>7
<1>10. i \in 1..(n + 1) /\ i + l - 1 <= n /\ \A k \in 1..l : t[i + k - 1] = s[k]
  <2>1. i \in 1..(n + 1) /\ i + l - 1 <= n
    BY <1>1, <1>4, <1>6, <1>8
  <2>2. \A k \in 1..l : i + k - 1 \in 1..last
    BY <1>1, <1>6, <1>8
  <2> HIDE DEF u
  <2> QED BY <1>6, <1>8, <2>1, <2>2
<1>11. StandsAt(s, t, i)
  BY <1>10, StandsByPlace
<1>12. IndexFirstSubSeq(s, t) = i
  BY <1>1, <1>5, <1>6, <1>8, <1>9
<1> QED BY <1>10, <1>11, <1>12 DEF Occurrences

\* Two strings put together, place by place.
LEMMA Joined ==
  ASSUME NEW S, NEW x \in Seq(S), NEW y \in Seq(S),
         NEW m, Len(x) = m, NEW n, n = m + Len(y)
  PROVE  /\ x \o y \in Seq(S) /\ Len(x \o y) = n
         /\ \A i \in 1..n : (x \o y)[i] = IF i <= m THEN x[i] ELSE y[i - m]
  OBVIOUS

\* Replacing the first occurrence by something as long changes the places of
\* one occurrence, or nothing if there is none.
LEMMA ReplacedInPlace ==
  ASSUME NEW S, NEW s \in Seq(S), NEW t \in Seq(S), NEW r \in Seq(S), Len(r) = Len(s)
  PROVE  \/ ReplaceFirstSubSeq(r, s, t) = t /\ Occurrences(s, t) = {}
         \/ \E j \in Occurrences(s, t) :
              ReplaceFirstSubSeq(r, s, t) =
                [i \in 1..Len(t) |-> IF j <= i /\ i < j + Len(s) THEN r[i - j + 1] ELSE t[i]]
<1> DEFINE n == Len(t)
           l == Len(s)
<1>1. n \in Nat /\ l \in Nat
  OBVIOUS
<1>2. CASE s \notin SubSeqs(t)
  BY <1>2, PartsStand DEF ReplaceFirstSubSeq
<1>3. CASE s \in SubSeqs(t)
  <2> DEFINE j == IndexFirstSubSeq(s, t)
             a == SubSeq(t, 1, j - 1)
             b == SubSeq(t, j + l, n)
             u == [i \in 1..n |-> IF j <= i /\ i < j + l THEN r[i - j + 1] ELSE t[i]]
  <2>1. ReplaceFirstSubSeq(r, s, t) = (a \o r) \o b
    BY <1>3 DEF ReplaceFirstSubSeq, ReplaceSubSeqAt
  <2>2. j \in Occurrences(s, t)
    BY <1>3, FirstStands
  <2>3. j \in 1..(n + 1) /\ j + l - 1 <= n
    BY <2>2, <1>1 DEF Occurrences, StandsAt
  <2> HIDE DEF j
  <2>4. /\ a \in Seq(S) /\ Len(a) = j - 1 /\ \A i \in 1..(j - 1) : a[i] = t[i]
        /\ b \in Seq(S) /\ Len(b) = n - (j + l) + 1 /\ \A i \in 1..Len(b) : b[i] = t[i + j + l - 1]
    BY <1>1, <2>3
  <2> HIDE DEF a, b
  <2>5. (a \o r) \in Seq(S) /\ Len(a \o r) = j - 1 + l
        /\ \A i \in 1..(j - 1 + l) : (a \o r)[i] = IF i <= j - 1 THEN a[i] ELSE r[i - (j - 1)]
    <3>1. a \in Seq(S) /\ Len(a) = j - 1 /\ j - 1 + l = (j - 1) + Len(r)
      BY <1>1, <2>3, <2>4
    <3> HIDE DEF l, n
    <3> QED BY <3>1, Joined
  <2> DEFINE c == a \o r
  <2> HIDE DEF c
  <2>6. c \o b \in Seq(S) /\ Len(c \o b) = n
        /\ \A i \in 1..n : (c \o b)[i] = IF i <= j - 1 + l THEN c[i] ELSE b[i - (j - 1 + l)]
    <3>1. c \in Seq(S) /\ Len(c) = j - 1 + l
      BY <2>5 DEF c
    <3> HIDE DEF l, n
    <3>2. b \in Seq(S) /\ n = (j - 1 + l) + Len(b)
      BY <1>1, <2>3, <2>4
    <3> DEFINE k == j - 1 + l
    <3>3. c \in Seq(S) /\ Len(c) = k /\ n = k + Len(b)
      BY <3>1, <3>2
    <3> HIDE DEF k
    <3>4. /\ c \o b \in Seq(S) /\ Len(c \o b) = n
          /\ \A i \in 1..n : (c \o b)[i] = IF i <= k THEN c[i] ELSE b[i - k]
      BY <3>2, <3>3, Joined, SMTT(30)
    <3> QED BY <3>4 DEF k
  <2>7. ASSUME NEW i \in 1..n
        PROVE  (c \o b)[i] = IF j <= i /\ i < j + l THEN r[i - j + 1] ELSE t[i]
    <3>1. CASE i < j
      <4>1. i \in 1..(j - 1) /\ i \in 1..(j - 1 + l) /\ i <= j - 1 /\ i <= j - 1 + l /\ ~ (j <= i)
        BY <1>1, <2>3, <3>1
      <4> HIDE DEF l, n
      <4> QED BY <2>4, <2>5, <2>6, <3>1, <4>1 DEF c
    <3>2. CASE j <= i /\ i < j + l
      <4>1. i \in 1..(j - 1 + l) /\ ~ (i <= j - 1) /\ i <= j - 1 + l /\ i - (j - 1) = i - j + 1
        BY <1>1, <2>3, <3>2
      <4> HIDE DEF l, n
      <4> QED BY <2>5, <2>6, <3>2, <4>1 DEF c
    <3>3. CASE i >= j + l
      <4>1. i - (j - 1 + l) \in 1..Len(b) /\ ~ (i <= j - 1 + l) /\ ~ (i < j + l)
            /\ (i - (j - 1 + l)) + j + l - 1 = i
        BY <1>1, <2>3, <2>4, <3>3
      <4> HIDE DEF l, n
      <4> QED BY <2>4, <2>6, <4>1
    <3>4. i < j \/ (j <= i /\ i < j + l) \/ i >= j + l
      BY <1>1, <2>3
    <3> HIDE DEF l, n
    <3> QED BY <3>1, <3>2, <3>3, <3>4
  <2>8. c \o b = u
    <3>1. c \o b = [i \in 1..n |-> (c \o b)[i]]
      <4> DEFINE x == c \o b
      <4>1. x \in Seq(S) /\ Len(x) = n
        BY <2>6
      <4> HIDE DEF x, n
      <4>2. x = [i \in 1..n |-> x[i]]
        BY <4>1
      <4> QED BY <4>2 DEF x
    <3> QED BY <2>7, <3>1
  <2> QED BY <2>1, <2>2, <2>8 DEF c
<1> QED BY <1>2, <1>3

\* A mask is as long as the value, hides at least one of its atoms, and leaves
\* the others.
LEMMA MaskHides ==
  ASSUME NEW s \in Seq(Atoms)
  PROVE  /\ MaskSecret(s) \in Seq(Atoms \cup {Star})
         /\ Len(MaskSecret(s)) = Len(s)
         /\ \A i \in 1..Len(s) : MaskSecret(s)[i] \in {s[i], Star}
         /\ s # <<>> => \E i \in 1..Len(s) : MaskSecret(s)[i] = Star
<1> DEFINE n == Len(s)
           X == Atoms \cup {Star}
<1>1. n \in Nat /\ Shown \in Nat /\ s \in Seq(X) /\ (s # <<>> => n > 0)
  BY PatternsAssumption
<1>2. CASE n <= 2 * Shown
  <2>1. MaskSecret(s) = [i \in 1..n |-> Star]
    BY <1>2 DEF MaskSecret, Stars
  <2> QED BY <1>1, <2>1
<1>3. CASE ~ (n <= 2 * Shown)
  <2> DEFINE k == n - 2 * Shown
             a == SubSeq(s, 1, Shown)
             m == [i \in 1..k |-> Star]
             b == SubSeq(s, n - Shown + 1, n)
  <2>1. MaskSecret(s) = (a \o m) \o b
    BY <1>3 DEF MaskSecret, Stars
  <2>2. k \in Nat /\ k > 0 /\ Shown + k + Shown = n
    BY <1>1, <1>3
  <2>3. /\ a \in Seq(X) /\ Len(a) = Shown /\ \A i \in 1..Shown : a[i] = s[i]
        /\ b \in Seq(X) /\ Len(b) = Shown /\ \A i \in 1..Shown : b[i] = s[i + n - Shown]
    BY <1>1, <2>2
  <2>4. m \in Seq(X) /\ Len(m) = k /\ \A i \in 1..k : m[i] = Star
    BY <2>2
  <2> HIDE DEF a, m, b
  <2>5. (a \o m) \in Seq(X) /\ Len(a \o m) = Shown + k
        /\ \A i \in 1..(Shown + k) : (a \o m)[i] = IF i <= Shown THEN a[i] ELSE m[i - Shown]
    <3>1. a \in Seq(X) /\ m \in Seq(X) /\ Len(a) = Shown /\ Shown + k = Shown + Len(m)
      BY <2>3, <2>4
    <3> HIDE DEF k, X
    <3> QED BY <3>1, Joined
  <2> DEFINE c == a \o m
  <2>6. c \in Seq(X) /\ Len(c) = Shown + k
        /\ \A i \in 1..(Shown + k) : c[i] = IF i <= Shown THEN s[i] ELSE Star
    <3>1. \A i \in 1..(Shown + k) :
            /\ i <= Shown => i \in 1..Shown
            /\ ~ (i <= Shown) => i - Shown \in 1..k
      BY <1>1, <2>2
    <3> QED BY <2>3, <2>4, <2>5, <3>1
  <2> HIDE DEF c, k
  <2>7. c \o b \in Seq(X) /\ Len(c \o b) = n
        /\ \A i \in 1..n : (c \o b)[i] = IF i <= Shown + k THEN c[i] ELSE b[i - (Shown + k)]
    <3>1. c \in Seq(X) /\ b \in Seq(X) /\ Len(c) = Shown + k /\ n = (Shown + k) + Len(b)
      BY <2>2, <2>3, <2>6
    <3> HIDE DEF n, X
    <3> QED BY <3>1, Joined
  <2>8. \A i \in 1..n : (c \o b)[i] = IF i > Shown /\ i <= Shown + k THEN Star ELSE s[i]
    <3> SUFFICES ASSUME NEW i \in 1..n
                 PROVE  (c \o b)[i] = IF i > Shown /\ i <= Shown + k THEN Star ELSE s[i]
      OBVIOUS
    <3>1. CASE i <= Shown + k
      <4>1. i \in 1..(Shown + k)
        BY <1>1, <2>2, <3>1
      <4> QED BY <1>1, <2>6, <2>7, <3>1, <4>1
    <3>2. CASE ~ (i <= Shown + k)
      <4>1. i - (Shown + k) \in 1..Shown /\ (i - (Shown + k)) + n - Shown = i
        BY <1>1, <2>2, <3>2
      <4> QED BY <2>3, <2>7, <3>2, <4>1
    <3> QED BY <3>1, <3>2
  <2>9. Shown + 1 \in 1..n /\ Shown + 1 > Shown /\ Shown + 1 <= Shown + k
    BY <1>1, <2>2
  <2>10. MaskSecret(s) = c \o b
    BY <2>1 DEF c
  <2> QED BY <1>1, <2>7, <2>8, <2>9, <2>10
<1> QED BY <1>2, <1>3

(***************************************************************************)
(* Masking.                                                                *)
(***************************************************************************)

\* What is reported stands in the text.
LEMMA ReportsStand ==
  ASSUME text \in Seq(Atoms), NEW d \in Detectors, NEW n, NEW f, IsReport(d, n, f)
  PROVE  f.value \in Seq(Atoms) /\ Occurrences(f.value, text) # {}
<1>1. PICK i \in Before(d, n) : \E k \in DOMAIN Matches(d, i) : Reports(d, i, k, f)
  BY DEF IsReport
<1>1a. PICK k \in DOMAIN Matches(d, i) : Reports(d, i, k, f)
  BY <1>1
<1> DEFINE p == Patterns(d)[i]
           h == Matches(d, i)[k]
<1>2. i \in DOMAIN Patterns(d) /\ IsPattern(p)
  BY PatternTypes DEF Before, Ran
<1>3. Matches(d, i) \in Seq(Hits(p, text))
  BY <1>2, FindAllFinds DEF Matches
<1>4. h \in Hits(p, text) /\ f = Report(p, h)
  BY <1>1a, <1>3 DEF Reports
<1> HIDE DEF p, h
<1>5. h.match.value \in Seq(Atoms) /\ f.value = h.match.value
  BY <1>2, <1>4, HitTypes
<1> DEFINE v == h.match.value
           s == h.match.span
           b == h.pos
<1>6. /\ b \in 1..Len(text) /\ s \in Seq(Atoms) /\ v \in SubSeqs(s)
      /\ StandsAt(s, text, b)
  BY <1>2, <1>4 DEF Hits, IsPattern
<1>7. PICK a \in Occurrences(v, s) : TRUE
  <2>1. v \in Seq(Atoms) /\ s \in Seq(Atoms) /\ v \in SubSeqs(s)
    BY <1>5, <1>6
  <2> HIDE DEF v, s
  <2> QED BY <2>1, PartsStand
<1> HIDE DEF v, s, b
<1>8. Len(text) \in Nat /\ Len(s) \in Nat /\ Len(v) \in Nat /\ v \in Seq(Atoms)
  BY <1>5, <1>6 DEF v
<1>9. a \in 1..(Len(s) + 1) /\ a + Len(v) - 1 <= Len(s) /\ \A k1 \in 1..Len(v) : s[a + k1 - 1] = v[k1]
  <2>1. a \in 1..(Len(s) + 1) /\ StandsAt(v, s, a)
    BY <1>7 DEF Occurrences
  <2> QED BY <1>6, <1>8, <2>1, StandsByPlace
<1>10. b + Len(s) - 1 <= Len(text) /\ \A k1 \in 1..Len(s) : text[b + k1 - 1] = s[k1]
  BY <1>6, <1>8, StandsByPlace
<1> DEFINE c == b + a - 1
<1>11. c \in 1..(Len(text) + 1) /\ c + Len(v) - 1 <= Len(text)
  BY <1>6, <1>8, <1>9, <1>10
<1>12. \A k1 \in 1..Len(v) : text[c + k1 - 1] = v[k1]
  <2> SUFFICES ASSUME NEW k1 \in 1..Len(v) PROVE text[c + k1 - 1] = v[k1]
    OBVIOUS
  <2>1. a + k1 - 1 \in 1..Len(s) /\ b + (a + k1 - 1) - 1 = c + k1 - 1
    BY <1>6, <1>8, <1>9
  <2> HIDE DEF c
  <2> QED BY <1>9, <1>10, <2>1
<1>13. StandsAt(v, text, c)
  <2> HIDE DEF c
  <2> QED BY <1>8, <1>11, <1>12, StandsByPlace
<1> QED BY <1>5, <1>11, <1>13 DEF Occurrences, v

\* Of the value v at least one occurrence is gone.
Touched(v) == v # <<>> => \E j \in Occurrences(v, text) : j \notin Occurrences(v, maskedText)

\* The masked text is as long as the text, and every finding stands in the text.
MaskTypes ==
  /\ maskedText \in Seq(Atoms \cup {Star})
  /\ Len(maskedText) = Len(text)
  /\ findings \in Seq(Finding)
  /\ \A m \in DOMAIN findings :
       findings[m].value \in Seq(Atoms) /\ Occurrences(findings[m].value, text) # {}

\* What masking has done before the n-th finding.  That no value stands in the
\* masked text where it did not stand in the text is what keeps earlier
\* findings masked and later masks within reported values.
MaskInv ==
  /\ MaskTypes
  /\ OnlyValuesAreMasked
  /\ phase \in Detectors => maskedText = text /\ findings = <<>>
  /\ phase = "masking" => \A m \in DOMAIN findings : m < next => Touched(findings[m].value)
  /\ phase = "done" /\ locales = {} => \A m \in DOMAIN findings : Touched(findings[m].value)

\* A value stands in the masked text only where it stood in the text, and in a
\* text that is masked further only where it stood before.
LEMMA StandsWhereItDid ==
  ASSUME NEW v \in Seq(Atoms), NEW s \in Seq(Atoms \cup {Star}), NEW t \in Seq(Atoms \cup {Star}),
         Len(s) = Len(t), \A i \in 1..Len(t) : s[i] # t[i] => s[i] = Star
  PROVE  Occurrences(v, s) \subseteq Occurrences(v, t)
<1> DEFINE X == Atoms \cup {Star}
<1>1. v \in Seq(X) /\ Len(s) \in Nat /\ Len(t) \in Nat /\ Len(v) \in Nat /\ Star \notin Atoms
      /\ \A k \in 1..Len(v) : v[k] \in Atoms
  BY PatternsAssumption
<1>2. SUFFICES ASSUME NEW j \in Occurrences(v, s) PROVE j \in Occurrences(v, t)
  OBVIOUS
<1>3. j \in 1..(Len(s) + 1) /\ StandsAt(v, s, j)
  BY DEF Occurrences
<1>4. j + Len(v) - 1 <= Len(s) /\ \A k \in 1..Len(v) : s[j + k - 1] = v[k]
  <2> HIDE DEF X
  <2> QED BY <1>1, <1>3, StandsByPlace DEF X
<1>5. \A k \in 1..Len(v) : t[j + k - 1] = v[k]
  <2> SUFFICES ASSUME NEW k \in 1..Len(v) PROVE t[j + k - 1] = v[k]
    OBVIOUS
  <2>1. j + k - 1 \in 1..Len(t)
    BY <1>1, <1>3, <1>4
  <2>2. s[j + k - 1] = v[k] /\ v[k] # Star
    BY <1>1, <1>4
  <2> QED BY <2>1, <2>2
<1>6. StandsAt(v, t, j)
  BY <1>1, <1>3, <1>4, <1>5, StandsByPlace
<1> QED BY <1>3, <1>6 DEF Occurrences

\* Before the detectors are done nothing is masked.
LEMMA InitMask == ScanInit => MaskInv
<1> SUFFICES ASSUME ScanInit PROVE MaskInv
  OBVIOUS
<1>1. text \in Seq(Atoms) /\ maskedText = text /\ findings = <<>> /\ phase = "secrets"
  BY PatternsAssumption DEF ScanInit
<1>2. text \in Seq(Atoms \cup {Star})
  BY <1>1
<1>3. MaskTypes
  BY <1>1, <1>2 DEF MaskTypes
<1> QED BY <1>1, <1>3 DEF MaskInv, OnlyValuesAreMasked, Detectors

\* The detectors leave the text, and what they report stands in it.
LEMMA DetectorsMaskNothing ==
  ASSUME MaskInv, ScanPattern \/ SkipPattern \/ EndSecrets
  PROVE  MaskInv'
<1>1. /\ phase \in Detectors /\ phase' \in Detectors /\ text' = text
      /\ maskedText' = maskedText /\ findings' = findings /\ locales' = locales
  BY DEF ScanPattern, SkipPattern, EndSecrets, Detectors
<1>2. maskedText = text /\ findings = <<>> /\ MaskTypes
  BY <1>1 DEF MaskInv
<1>3. MaskTypes'
  BY <1>1, <1>2 DEF MaskTypes
<1> QED BY <1>1, <1>2, <1>3 DEF MaskInv, OnlyValuesAreMasked, Detectors

\* The findings of both detectors stand in the text when masking begins.
LEMMA EndPIIMasksNothing ==
  ASSUME ScanInv, MaskInv, EndPII
  PROVE  MaskInv'
<1>1. /\ phase = "pii" /\ next > Len(PIIPatterns) /\ text' = text /\ maskedText' = maskedText
      /\ findings' = reported["secrets"] \o InContext(reported["pii"])
      /\ phase' = (IF locales = {} THEN "masking" ELSE "done")
      /\ next' = 1 /\ locales' = locales
  BY DEF EndPII
<1>2. /\ maskedText = text /\ MaskTypes
      /\ text \in Seq(Atoms) /\ next \in Nat
      /\ reported["secrets"] \in Seq(Finding) /\ reported["pii"] \in Seq(Finding)
  BY <1>1 DEF MaskInv, ScanInv, ScanTypes, Detectors
<1>3. /\ ReportedSoFar("secrets", Len(SecretPatterns) + 1)
      /\ \E n : ReportedSoFar("pii", n)
  BY <1>1, <1>2 DEF ScanInv, Detectors
<1>4. \A d \in Detectors : \A f \in ToSet(reported[d]) :
        f.value \in Seq(Atoms) /\ Occurrences(f.value, text) # {}
  BY <1>2, <1>3, ReportsStand DEF ReportedSoFar, Detectors
<1> DEFINE a == reported["secrets"]
           b == InContext(reported["pii"])
<1>5. a \in Seq(Finding) /\ b \in Seq(Finding) /\ ToSet(b) \subseteq ToSet(reported["pii"])
  BY <1>2, LeftInContext
<1>6. \A m \in DOMAIN a : a[m] \in ToSet(a)
  BY DEF ToSet
<1>7. \A m \in DOMAIN b : b[m] \in ToSet(b)
  BY DEF ToSet
<1>8. \A m \in DOMAIN a : a[m].value \in Seq(Atoms) /\ Occurrences(a[m].value, text) # {}
  BY <1>4, <1>6 DEF Detectors
<1>9. \A m \in DOMAIN b : b[m].value \in Seq(Atoms) /\ Occurrences(b[m].value, text) # {}
  BY <1>4, <1>5, <1>7 DEF Detectors
<1> HIDE DEF a, b
<1>10. /\ a \o b \in Seq(Finding)
       /\ \A m \in DOMAIN (a \o b) :
            /\ m \in Nat /\ m >= 1
            /\ \/ m \in DOMAIN a /\ (a \o b)[m] = a[m]
               \/ m - Len(a) \in DOMAIN b /\ (a \o b)[m] = b[m - Len(a)]
  <2> DEFINE n == Len(a) + Len(b)
  <2>1. Len(a) \in Nat /\ Len(b) \in Nat /\ DOMAIN a = 1..Len(a) /\ DOMAIN b = 1..Len(b) /\ n \in Nat
    BY <1>5
  <2>2. /\ a \o b \in Seq(Finding) /\ Len(a \o b) = n
        /\ \A i \in 1..n : (a \o b)[i] = IF i <= Len(a) THEN a[i] ELSE b[i - Len(a)]
    BY <1>5
  <2>3. DOMAIN (a \o b) = 1..n
    <3> DEFINE c == a \o b
    <3>1. c \in Seq(Finding) /\ Len(c) = n
      BY <2>2
    <3> HIDE DEF c, n
    <3>2. DOMAIN c = 1..n
      BY <3>1
    <3> QED BY <3>2 DEF c
  <2>4. ASSUME NEW m \in 1..n
        PROVE  /\ m \in Nat /\ m >= 1
               /\ \/ m \in 1..Len(a) /\ (a \o b)[m] = a[m]
                  \/ m - Len(a) \in 1..Len(b) /\ (a \o b)[m] = b[m - Len(a)]
    <3>1. CASE m <= Len(a)
      BY <2>1, <2>2, <3>1
    <3>2. CASE ~ (m <= Len(a))
      <4>1. m - Len(a) \in 1..Len(b)
        BY <2>1, <3>2
      <4>2. (a \o b)[m] = b[m - Len(a)]
        BY <2>2, <3>2
      <4> QED BY <2>1, <4>1, <4>2
    <3> QED BY <3>1, <3>2
  <2> QED BY <2>1, <2>2, <2>3, <2>4
<1>11. \A m \in DOMAIN (a \o b) : (a \o b)[m].value \in Seq(Atoms) /\ Occurrences((a \o b)[m].value, text) # {}
  BY <1>8, <1>9, <1>10
<1>12. findings' = a \o b
  BY <1>1 DEF a, b
<1>13. MaskTypes'
  BY <1>1, <1>2, <1>10, <1>11, <1>12 DEF MaskTypes
<1>14. OnlyValuesAreMasked'
  BY <1>1, <1>2 DEF OnlyValuesAreMasked
<1>15. (phase = "masking" => \A m \in DOMAIN findings : m < next => Touched(findings[m].value))'
  <2>1. \A m \in DOMAIN (a \o b) : ~ (m < 1)
    BY <1>10
  <2> QED BY <1>1, <1>12, <2>1
<1> QED BY <1>1, <1>13, <1>14, <1>15 DEF MaskInv, Detectors

\* Masking a value puts stars where it stands, once.
LEMMA MaskNextMasks ==
  ASSUME ScanInv, MaskInv, MaskNext
  PROVE  MaskInv'
<1> DEFINE X == Atoms \cup {Star}
           n == Len(text)
<1>1. PICK v : v = findings[next].value
  OBVIOUS
<1>2. /\ phase = "masking" /\ next <= Len(findings)
      /\ maskedText' = ReplaceFirstSubSeq(MaskSecret(v), v, maskedText)
      /\ next' = next + 1 /\ phase' = phase /\ text' = text /\ locales' = locales
      /\ findings' = findings
  BY <1>1 DEF MaskNext
<1>3. /\ text \in Seq(Atoms) /\ next \in Nat \ {0} /\ MaskTypes /\ OnlyValuesAreMasked
      /\ \A m \in DOMAIN findings : m < next => Touched(findings[m].value)
  BY <1>2 DEF MaskInv, ScanInv, ScanTypes
<1>4. /\ n \in Nat /\ text \in Seq(X) /\ maskedText \in Seq(X) /\ Len(maskedText) = n
      /\ findings \in Seq(Finding) /\ next \in DOMAIN findings
  BY <1>2, <1>3 DEF MaskTypes
<1>5. v \in Seq(Atoms) /\ v \in Seq(X) /\ Occurrences(v, text) # {} /\ Len(v) \in Nat
  BY <1>1, <1>3, <1>4 DEF MaskTypes
<1> DEFINE r == MaskSecret(v)
<1>6. /\ r \in Seq(X) /\ Len(r) = Len(v) /\ \A i \in 1..Len(v) : r[i] \in {v[i], Star}
      /\ v # <<>> => \E i \in 1..Len(v) : r[i] = Star
  BY <1>5, MaskHides
<1> HIDE DEF r
<1>7. \A i \in 1..n : maskedText[i] # text[i] => maskedText[i] = Star
  BY <1>3, <1>4 DEF OnlyValuesAreMasked
<1>8. Occurrences(v, maskedText) \subseteq Occurrences(v, text)
  <2> HIDE DEF n
  <2> QED BY <1>4, <1>5, <1>7, StandsWhereItDid DEF n
<1> HIDE DEF X, n
<1>9. /\ maskedText' \in Seq(X) /\ Len(maskedText') = n
      /\ \A i \in 1..n : maskedText'[i] # maskedText[i] =>
           /\ maskedText'[i] = Star
           /\ \E j \in Occurrences(v, text) : j <= i /\ i < j + Len(v)
      /\ v # <<>> => \E j \in Occurrences(v, text) : j \notin Occurrences(v, maskedText')
  <2>1. CASE maskedText' = maskedText /\ Occurrences(v, maskedText) = {}
    BY <1>4, <1>5, <2>1
  <2>2. ASSUME NEW j \in Occurrences(v, maskedText),
               maskedText' = [i \in 1..Len(maskedText) |->
                                IF j <= i /\ i < j + Len(v) THEN r[i - j + 1] ELSE maskedText[i]]
        PROVE  <1>9
    <3>1. j \in 1..(n + 1) /\ j + Len(v) - 1 <= n /\ \A k \in 1..Len(v) : maskedText[j + k - 1] = v[k]
      <4>1. j \in 1..(n + 1) /\ StandsAt(v, maskedText, j)
        BY <1>4 DEF Occurrences
      <4> QED BY <1>4, <1>5, <4>1, StandsByPlace
    <3>2. j \in Occurrences(v, text)
      BY <1>8
    <3>3. \A i \in 1..n : j <= i /\ i < j + Len(v) =>
             /\ i - j + 1 \in 1..Len(v) /\ maskedText[i] = v[i - j + 1]
             /\ maskedText'[i] = r[i - j + 1]
      <4> SUFFICES ASSUME NEW i \in 1..n, j <= i, i < j + Len(v)
                   PROVE  /\ i - j + 1 \in 1..Len(v) /\ maskedText[i] = v[i - j + 1]
                          /\ maskedText'[i] = r[i - j + 1]
        OBVIOUS
      <4>1. i - j + 1 \in 1..Len(v) /\ j + (i - j + 1) - 1 = i
        BY <1>4, <1>5, <3>1
      <4> QED BY <1>4, <2>2, <3>1, <4>1
    <3>4. \A i \in 1..n : ~ (j <= i /\ i < j + Len(v)) => maskedText'[i] = maskedText[i]
      BY <1>4, <2>2
    <3>5. maskedText' \in Seq(X) /\ Len(maskedText') = n
      <4>1. ASSUME NEW i \in 1..n PROVE maskedText'[i] \in X
        <5>1. CASE j <= i /\ i < j + Len(v)
          <6>1. i - j + 1 \in 1..Len(r) /\ maskedText'[i] = r[i - j + 1]
            BY <1>6, <3>3, <5>1
          <6> QED BY <1>6, <6>1
        <5>2. CASE ~ (j <= i /\ i < j + Len(v))
          BY <1>4, <3>4, <5>2
        <5> QED BY <5>1, <5>2
      <4>2. maskedText' = [i \in 1..n |-> maskedText'[i]]
        BY <1>4, <2>2
      <4> QED BY <1>4, <4>1, <4>2
    <3>6. \A i \in 1..n : maskedText'[i] # maskedText[i] =>
            /\ maskedText'[i] = Star
            /\ \E l \in Occurrences(v, text) : l <= i /\ i < l + Len(v)
      <4> SUFFICES ASSUME NEW i \in 1..n, maskedText'[i] # maskedText[i]
                   PROVE  maskedText'[i] = Star /\ j <= i /\ i < j + Len(v)
        BY <3>2
      <4>1. j <= i /\ i < j + Len(v)
        BY <3>4
      <4> QED BY <1>6, <3>3, <4>1
    <3>7. ASSUME v # <<>> PROVE j \notin Occurrences(v, maskedText')
      <4>1. PICK k \in 1..Len(v) : r[k] = Star
        BY <1>6, <3>7
      <4>2. j + k - 1 \in 1..n /\ j <= j + k - 1 /\ j + k - 1 < j + Len(v) /\ (j + k - 1) - j + 1 = k
        BY <1>4, <1>5, <3>1
      <4>3. maskedText'[j + k - 1] = Star
        BY <3>3, <4>1, <4>2
      <4>4. v[k] # Star
        BY <1>5, PatternsAssumption
      <4>5. ~ StandsAt(v, maskedText', j)
        BY <1>5, <3>1, <3>5, <4>3, <4>4, StandsByPlace
      <4> QED BY <4>5 DEF Occurrences
    <3> QED BY <3>2, <3>5, <3>6, <3>7
  <2>3. \/ maskedText' = maskedText /\ Occurrences(v, maskedText) = {}
        \/ \E j \in Occurrences(v, maskedText) :
             maskedText' = [i \in 1..Len(maskedText) |->
                              IF j <= i /\ i < j + Len(v) THEN r[i - j + 1] ELSE maskedText[i]]
    <3> DEFINE u == ReplaceFirstSubSeq(r, v, maskedText)
    <3>1. \/ u = maskedText /\ Occurrences(v, maskedText) = {}
          \/ \E j \in Occurrences(v, maskedText) :
               u = [i \in 1..Len(maskedText) |->
                      IF j <= i /\ i < j + Len(v) THEN r[i - j + 1] ELSE maskedText[i]]
      <4>1. v \in Seq(X) /\ maskedText \in Seq(X) /\ r \in Seq(X) /\ Len(r) = Len(v)
        BY <1>4, <1>5, <1>6
      <4> QED BY <4>1, ReplacedInPlace
    <3>2. maskedText' = u
      BY <1>2 DEF r
    <3> HIDE DEF u
    <3> QED BY <3>1, <3>2
  <2> QED BY <2>1, <2>2, <2>3
<1>10. MaskTypes'
  BY <1>2, <1>3, <1>9 DEF MaskTypes, X, n
<1>11. OnlyValuesAreMasked'
  <2> SUFFICES ASSUME NEW i \in DOMAIN text, maskedText'[i] # text[i]
               PROVE  /\ maskedText'[i] = Star
                      /\ \E f \in ToSet(findings) : \E j \in Occurrences(f.value, text) :
                           j <= i /\ i < j + Len(f.value)
    BY <1>2 DEF OnlyValuesAreMasked
  <2>1. i \in 1..n
    BY <1>3 DEF n
  <2>2. CASE maskedText'[i] = maskedText[i]
    BY <1>3, <2>2 DEF OnlyValuesAreMasked
  <2>3. CASE maskedText'[i] # maskedText[i]
    <3>1. findings[next] \in ToSet(findings) /\ v = findings[next].value
      BY <1>1, <1>4 DEF ToSet
    <3> QED BY <1>9, <2>1, <2>3, <3>1
  <2> QED BY <2>2, <2>3
<1>12. ASSUME NEW m \in DOMAIN findings, m < next + 1
       PROVE  Touched(findings[m].value)'
  <2>1. CASE m = next
    BY <1>1, <1>2, <1>9, <2>1 DEF Touched
  <2>2. CASE m < next
    <3> DEFINE w == findings[m].value
    <3>1. w \in Seq(Atoms) /\ Touched(w)
      BY <1>3, <2>2 DEF MaskTypes
    <3>2. Occurrences(w, maskedText') \subseteq Occurrences(w, maskedText)
      <4>1. /\ maskedText' \in Seq(Atoms \cup {Star}) /\ maskedText \in Seq(Atoms \cup {Star})
            /\ Len(maskedText') = Len(maskedText)
            /\ \A i \in 1..Len(maskedText) : maskedText'[i] # maskedText[i] => maskedText'[i] = Star
        BY <1>4, <1>9 DEF X
      <4> HIDE DEF w
      <4> QED BY <3>1, <4>1, StandsWhereItDid
    <3> QED BY <1>2, <3>1, <3>2 DEF Touched
  <2>3. m \in Nat
    BY <1>4
  <2> QED BY <1>3, <1>12, <2>1, <2>2, <2>3
<1>13. (phase = "masking" => \A m \in DOMAIN findings : m < next => Touched(findings[m].value))'
  BY <1>2, <1>12
<1> QED BY <1>2, <1>10, <1>11, <1>13 DEF MaskInv, Detectors

\* At the end every finding has been masked.
LEMMA EndMaskingMasks ==
  ASSUME ScanInv, MaskInv, EndMasking
  PROVE  MaskInv'
<1>1. /\ phase = "masking" /\ next > Len(findings) /\ phase' = "done"
      /\ UNCHANGED <<text, locales, findings, maskedText>>
  BY DEF EndMasking
<1>2. next \in Nat /\ MaskTypes
  BY DEF ScanInv, ScanTypes, MaskInv
<1>3. \A m \in DOMAIN findings : m < next
  <2>1. findings \in Seq(Finding)
    BY <1>2 DEF MaskTypes
  <2>2. \A m \in DOMAIN findings : m \in Nat /\ m <= Len(findings) /\ Len(findings) \in Nat
    BY <2>1
  <2> QED BY <1>1, <1>2, <2>2
<1>4. \A m \in DOMAIN findings : Touched(findings[m].value)
  BY <1>1, <1>3 DEF MaskInv
<1>5. (\A m \in DOMAIN findings : Touched(findings[m].value))'
  BY <1>1, <1>4 DEF Touched
<1>6. MaskTypes'
  BY <1>1, <1>2 DEF MaskTypes
<1>7. OnlyValuesAreMasked'
  BY <1>1 DEF MaskInv, OnlyValuesAreMasked
<1> QED BY <1>1, <1>5, <1>6, <1>7 DEF MaskInv, Detectors

\* What holds of the masked text in every reachable state.
THEOREM MaskInvariance == ScanSpec => [](ScanInv /\ MaskInv)
<1>1. ScanInit => MaskInv
  BY InitMask
<1>2. ScanInv /\ MaskInv /\ [ScanNext]_scanVars => MaskInv'
  <2> SUFFICES ASSUME ScanInv, MaskInv, [ScanNext]_scanVars PROVE MaskInv'
    OBVIOUS
  <2>1. CASE ScanPattern \/ SkipPattern \/ EndSecrets
    BY <2>1, DetectorsMaskNothing
  <2>2. CASE EndPII
    BY <2>2, EndPIIMasksNothing
  <2>3. CASE MaskNext
    BY <2>3, MaskNextMasks
  <2>4. CASE EndMasking
    BY <2>4, EndMaskingMasks
  <2>5. CASE UNCHANGED scanVars
    BY <2>5 DEF scanVars, MaskInv, MaskTypes, OnlyValuesAreMasked, Touched
  <2> QED BY <2>1, <2>2, <2>3, <2>4, <2>5 DEF ScanNext
<1> QED BY <1>1, <1>2, ScanInvariance, PTL DEF ScanSpec

\* Masking takes away reported values and nothing else, and of each of them at
\* least one occurrence (masker.go:41-60): whatever the findings, their order
\* and their overlaps.
THEOREM MaskingIsAlwaysExact == ScanSpec => []MaskingIsExact
<1>1. ScanInv /\ MaskInv => MaskingIsExact
  <2> SUFFICES ASSUME ScanInv, MaskInv, phase = "done", locales = {},
                      NEW f \in ToSet(findings), f.value # <<>>
               PROVE  Cardinality(Occurrences(f.value, maskedText))
                        < Cardinality(Occurrences(f.value, text))
    BY DEF MaskInv, MaskingIsExact, EachValueIsMasked
  <2>1. PICK m \in DOMAIN findings : findings[m] = f
    BY DEF ToSet
  <2>2. f.value \in Seq(Atoms) /\ Touched(f.value)
    BY <2>1 DEF MaskInv, MaskTypes
  <2>3. /\ maskedText \in Seq(Atoms \cup {Star}) /\ text \in Seq(Atoms)
        /\ Len(maskedText) = Len(text) /\ OnlyValuesAreMasked
    BY DEF MaskInv, MaskTypes, ScanInv, ScanTypes
  <2> DEFINE new == Occurrences(f.value, maskedText)
             old == Occurrences(f.value, text)
  <2>4. new \subseteq old
    <3>1. text \in Seq(Atoms \cup {Star})
      BY <2>3
    <3>2. \A i \in 1..Len(text) : maskedText[i] # text[i] => maskedText[i] = Star
      BY <2>3 DEF OnlyValuesAreMasked
    <3> QED BY <2>2, <2>3, <3>1, <3>2, StandsWhereItDid
  <2>5. new # old
    BY <2>2 DEF Touched
  <2>6. IsFiniteSet(old)
    <3>1. Len(text) \in Nat /\ Len(text) + 1 \in Int /\ 1 \in Int
      BY <2>3
    <3>2. IsFiniteSet(1..(Len(text) + 1))
      BY <3>1, FS_Interval
    <3>3. old \subseteq 1..(Len(text) + 1)
      BY DEF Occurrences
    <3> QED BY <3>2, <3>3, FS_Subset
  <2> HIDE DEF new, old
  <2>7. Cardinality(new) < Cardinality(old)
    BY <2>4, <2>5, <2>6, FS_Subset, FS_CardinalityType
  <2> QED BY <2>7 DEF new, old
<1> QED BY <1>1, MaskInvariance, PTL

\* The types of the scan and of what it leaves (secret.go:153-203,
\* masker.go:41-60): the masked text is as long as the text.
THEOREM ScanTypeCorrect == ScanSpec => []ScanTypeOK
<1>1. ScanInv /\ MaskInv => ScanTypeOK
  <2> SUFFICES ASSUME ScanInv, MaskInv PROVE ScanTypeOK
    OBVIOUS
  <2>1. /\ phase \in Detectors \cup {"masking", "done"} /\ next \in Nat \ {0}
        /\ reported \in [Detectors -> Seq(Finding)] /\ findings \in Seq(Finding)
        /\ text \in Seq(Atoms) /\ maskedText \in Seq(Atoms \cup {Star})
        /\ Len(maskedText) = Len(text)
    BY DEF ScanInv, ScanTypes, MaskInv, MaskTypes
  <2>2. maskedText \in [DOMAIN text -> Atoms \cup {Star}]
    BY <2>1
  <2> QED BY <2>1, <2>2 DEF ScanTypeOK
<1> QED BY <1>1, MaskInvariance, PTL

(***************************************************************************)
(* Part three: documents and replies.                                      *)
(***************************************************************************)

\* Whatever the document - its leaves, their paths and the keys in them - no
\* value outside arrays is a sensitive string any more, and every masked cell is
\* reported under its own name.  It is about values: the name of a cell is made
\* of the keys as they are (mongo.go:215-240).
THEOREM DocumentsAlwaysMasked ==
  ASSUME NEW doc, \A l \in doc : l.value \in Values
  PROVE  DocumentIsMasked(doc)
<1> DEFINE columns == {FullKey(l) : l \in doc}
           Fill(f) == {{CellOf(l)} : l \in {k \in doc : FullKey(k) = f /\ ~InArray(k)}}
                      \cup ({{CellOf(l) : l \in {k \in doc : FullKey(k) = f /\ InArray(k)}}} \ {{}})
<1>1. SUFFICES ASSUME NEW out \in FlattenDoc(doc), NEW f \in DOMAIN out
               PROVE  /\ "sensitive" \in out[f] => \E l \in doc : InArray(l) /\ FullKey(l) = f
                      /\ "masked" \in out[f] => f \in FlattenReport(doc)
  BY DEF DocumentIsMasked
<1>2. DOMAIN out = columns /\ \A g \in columns : out[g] \in Fill(g)
  <2> HIDE DEF columns, Fill
  <2>1. FlattenDoc(doc) = {o \in [columns -> UNION {Fill(g) : g \in columns}] :
                             \A g \in columns : o[g] \in Fill(g)}
    BY DEF FlattenDoc, columns, Fill
  <2> QED BY <2>1
<1>3. out[f] \in Fill(f)
  <2> HIDE DEF columns, Fill
  <2> QED BY <1>2
<1>4. ASSUME NEW l \in doc, FullKey(l) = f, ~InArray(l), out[f] = {CellOf(l)}
      PROVE  "sensitive" \notin out[f] /\ ("masked" \in out[f] => f \in FlattenReport(doc))
  <2>1. CellOf(l) = MaskValue(l.value) /\ l.value \in {"plain", "sensitive", "number"}
    BY <1>4 DEF CellOf, Values
  <2>2. CellOf(l) # "sensitive" /\ (CellOf(l) = "masked" => l.value = "sensitive")
    BY <2>1 DEF MaskValue
  <2> QED BY <1>4, <2>2 DEF FlattenReport
<1>5. ASSUME out[f] = {CellOf(l) : l \in {k \in doc : FullKey(k) = f /\ InArray(k)}}
      PROVE  /\ "sensitive" \in out[f] => \E l \in doc : InArray(l) /\ FullKey(l) = f
             /\ "masked" \notin out[f]
  <2>1. \A l \in doc : InArray(l) => CellOf(l) = l.value /\ l.value # "masked"
    BY DEF CellOf, Values
  <2> QED BY <1>5, <2>1
<1>6. \/ \E l \in doc : FullKey(l) = f /\ ~InArray(l) /\ out[f] = {CellOf(l)}
      \/ out[f] = {CellOf(l) : l \in {k \in doc : FullKey(k) = f /\ InArray(k)}}
  BY <1>3
<1> QED BY <1>4, <1>5, <1>6

\* Printing the keys of a path does not change the name of its column.
LEMMA PrintedHasItsColumn ==
  ASSUME NEW path, NEW value, NEW other
  PROVE  ColumnOf(Leaf(Printed(path), other)) = ColumnOf(Leaf(path, value))
<1> DEFINE p == Printed(path)
           names == [i \in DOMAIN path |-> path[i].name]
           items == {i \in DOMAIN path : path[i].kind = "item"}
<1>1. DOMAIN p = DOMAIN path
  BY DEF Printed
<1>2. \A i \in DOMAIN path : p[i].name = path[i].name /\ (p[i].kind = "item" <=> path[i].kind = "item")
  BY DEF Printed, Key
<1> HIDE DEF p
<1>3. [i \in DOMAIN p |-> p[i].name] = names
  BY <1>1, <1>2
<1>4. {i \in DOMAIN p : p[i].kind = "item"} = items
  BY <1>1, <1>2
<1>5. Leaf(p, other).path = p /\ Leaf(path, value).path = path
  BY DEF Leaf
<1> HIDE DEF names, items
<1>6. ColumnOf(Leaf(path, value)) = FlattenSeq(Without(names, items))
  BY <1>5 DEF ColumnOf, names, items
<1>7. ColumnOf(Leaf(p, other)) = FlattenSeq(Without(names, items))
  BY <1>3, <1>4, <1>5 DEF ColumnOf
<1> QED BY <1>6, <1>7 DEF p

\* The same of the values of a reply, in arrays as well (redis.go:171-213).
THEOREM RepliesAlwaysMasked ==
  ASSUME NEW reply, \A l \in reply : l.value \in Values
  PROVE  ReplyIsMasked(reply)
<1> DEFINE places == {Printed(l.path) : l \in reply}
           Fill(p) == {MaskValue(l.value) : l \in {k \in reply : Printed(k.path) = p}}
<1>1. SUFFICES ASSUME NEW out \in MaskResult(reply), NEW p \in DOMAIN out
               PROVE  /\ out[p] # "sensitive"
                      /\ out[p] = "masked" => ColumnOf(Leaf(p, "")) \in MaskReport(reply)
  BY DEF ReplyIsMasked
<1>2. DOMAIN out = places /\ \A q \in places : out[q] \in Fill(q)
  <2> HIDE DEF places, Fill
  <2>1. MaskResult(reply) = {o \in [places -> UNION {Fill(q) : q \in places}] :
                               \A q \in places : o[q] \in Fill(q)}
    BY DEF MaskResult, places, Fill
  <2> QED BY <2>1
<1>3. PICK l \in reply : Printed(l.path) = p /\ out[p] = MaskValue(l.value)
  BY <1>2
<1>4. l.value \in {"plain", "sensitive", "number"}
  BY DEF Values
<1>5. out[p] # "sensitive" /\ (out[p] = "masked" => l.value = "sensitive")
  BY <1>3, <1>4 DEF MaskValue
<1>6. ColumnOf(Leaf(p, "")) = ColumnOf(Leaf(l.path, l.value))
  BY <1>3, PrintedHasItsColumn
<1>7. ColumnOf(Leaf(l.path, l.value)) = ColumnOf(l)
  BY DEF ColumnOf, Leaf
<1> QED BY <1>5, <1>6, <1>7 DEF MaskReport

\* What a Find or a command returns, in the instance of the runs.
THEOREM ResultsAlwaysMasked == Spec => []ResultsAreMasked
<1>1. ASSUME NEW paths, NEW tree \in Trees(paths), NEW l \in tree PROVE l.value \in Values
  <2>1. PICK s \in SUBSET paths : \E v \in [s -> Values] : tree = {Leaf(p, v[p]) : p \in s}
    BY DEF Trees
  <2>2. PICK v \in [s -> Values] : tree = {Leaf(p, v[p]) : p \in s}
    BY <2>1
  <2>3. PICK p \in s : l = Leaf(p, v[p])
    BY <2>2
  <2> QED BY <2>3 DEF Leaf
<1>2. ResultsAreMasked
  BY <1>1, DocumentsAlwaysMasked, RepliesAlwaysMasked
  DEF ResultsAreMasked, DocumentsAreMasked, RepliesAreMasked
<1> QED BY <1>2, PTL
=============================================================================
