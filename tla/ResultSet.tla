----------------------------- MODULE ResultSet -----------------------------
(***************************************************************************)
(* Calls that read from one database of internal/db: Query and Exec of a   *)
(* SQL connection, ListTables and DescribeTable, and Find of MongoDB.  A   *)
(* SQL call takes a connection of the pool and keeps it until its rows are *)
(* closed; Find has the driver's own pool and keeps a cursor.              *)
(*                                                                         *)
(* The server sends row after row and may stop in the middle: with an      *)
(* error, or without a word.  A row is plain, has a sensitive cell, or     *)
(* cannot be scanned (decoded).                                            *)
(***************************************************************************)
EXTENDS Naturals, Sequences, FiniteSets

CONSTANTS
  Queries,  \* calls of Query
  Execs,    \* calls of Exec
  Schemas,  \* calls of ListTables and DescribeTable
  Finds,    \* calls of Find
  maxOpen,  \* connections of the SQL pool
  MaxRows   \* bound on the rows a server sends for one call

ASSUME PoolAssumption == maxOpen \in Nat \ {0}
ASSUME RowsAssumption == MaxRows \in Nat
ASSUME KindsAssumption ==
  /\ IsFiniteSet(Queries \cup Execs \cup Schemas \cup Finds)
  /\ (Queries \cup Execs) \cap (Schemas \cup Finds) = {}
  /\ Queries \cap Execs = {} /\ Schemas \cap Finds = {}

Calls == Queries \cup Execs \cup Schemas \cup Finds
Pooled == Queries \cup Execs \cup Schemas
Reading == Queries \cup Schemas \cup Finds

\* The calls whose context has a deadline.
Bounded == Queries \cup Execs \cup Finds

VARIABLES
  stage,   \* call -> "new", "waiting", "running", "reading", "done"
  free,    \* connections of the pool nobody has
  open,    \* calls with a connection or a cursor
  rows,    \* call -> the rows of its result, so far
  masked,  \* call -> MaskedField.Row of each cell masked
  sent,    \* history: call -> the rows the server has sent
  whole,   \* history: calls whose server has sent its last row
  failed   \* calls that returned an error

vars == <<stage, free, open, rows, masked, sent, whole, failed>>

Stages == {"new", "waiting", "running", "reading", "done"}

Rows == {"plain", "sensitive", "bad"}

\* Column names are not scanned for secrets.
RowsOf(c) == IF c \in Schemas THEN {"plain", "bad"} ELSE Rows

Init ==
  /\ stage = [c \in Calls |-> "new"]
  /\ free = maxOpen
  /\ open = {}
  /\ rows = [c \in Calls |-> <<>>]
  /\ masked = [c \in Calls |-> <<>>]
  /\ sent = [c \in Calls |-> <<>>]
  /\ whole = {}
  /\ failed = {}

Go(c, to) == stage' = [stage EXCEPT ![c] = to]

Begin(c) ==
  /\ stage[c] = "new"
  /\ Go(c, "waiting")
  /\ UNCHANGED <<free, open, rows, masked, sent, whole, failed>>

\* The pool has a connection for the call, or opens one.
Take(c) ==
  /\ stage[c] = "waiting"
  /\ c \in Pooled => free > 0
  /\ free' = IF c \in Pooled THEN free - 1 ELSE free
  /\ open' = open \cup {c}
  /\ Go(c, "running")
  /\ UNCHANGED <<rows, masked, sent, whole, failed>>

\* Mutant: an error return leaves the rows open.
LeaveUnlessFailed(c, error) ==
  /\ Go(c, "done")
  /\ IF error
       THEN failed' = failed \cup {c} /\ UNCHANGED <<open, free>>
       ELSE /\ open' = open \ {c}
            /\ free' = IF c \in open \cap Pooled THEN free + 1 ELSE free
            /\ UNCHANGED failed

\* Every return after a result set was opened closes it.
Leave(c, error) ==
  /\ Go(c, "done")
  /\ open' = open \ {c}
  /\ free' = IF c \in open \cap Pooled THEN free + 1 ELSE free
  /\ failed' = IF error THEN failed \cup {c} ELSE failed

\* The server answers the statement: rows follow, or an Exec is over.
Answered(c) ==
  /\ stage[c] = "running"
  /\ IF c \in Execs THEN Leave(c, FALSE)
                    ELSE Go(c, "reading") /\ UNCHANGED <<free, open, failed>>
  /\ UNCHANGED <<rows, masked, sent, whole>>

Refused(c) ==
  /\ stage[c] = "running"
  /\ Leave(c, TRUE)
  /\ UNCHANGED <<rows, masked, sent, whole>>

\* The deadline is over before there is a connection, or an answer.
Expire(c) ==
  /\ c \in Bounded
  /\ stage[c] \in {"waiting", "running"}
  /\ Leave(c, TRUE)
  /\ UNCHANGED <<rows, masked, sent, whole>>

CanSend(c) ==
  /\ stage[c] = "reading"
  /\ c \notin whole
  /\ Len(sent[c]) < MaxRows

Send(c, r) == sent' = [sent EXCEPT ![c] = Append(@, r)]

\* A row of the result, its sensitive cell masked and noted under its rowIdx,
\* which counts from zero.
Add(c, r) ==
  /\ rows' = [rows EXCEPT ![c] = Append(@, IF r = "sensitive" THEN "masked" ELSE r)]
  /\ masked' = [masked EXCEPT ![c] = IF r = "sensitive" THEN Append(@, Len(rows[c])) ELSE @]

ReadRow(c) ==
  /\ CanSend(c)
  /\ \E r \in RowsOf(c) \ {"bad"} : Send(c, r) /\ Add(c, r)
  /\ UNCHANGED <<stage, free, open, whole, failed>>

\* Mutant: a row that cannot be scanned is skipped by Query, too.
SkipRowAlways(c) ==
  /\ CanSend(c)
  /\ Send(c, "bad")
  /\ UNCHANGED <<stage, free, open, rows, masked, whole, failed>>

\* A row that cannot be scanned: ListTables, DescribeTable and Find go on.
SkipRow(c) ==
  /\ CanSend(c)
  /\ c \notin Queries
  /\ Send(c, "bad")
  /\ UNCHANGED <<stage, free, open, rows, masked, whole, failed>>

\* "scan: ...": Query gives up.
FailOnRow(c) ==
  /\ CanSend(c)
  /\ c \in Queries
  /\ Send(c, "bad")
  /\ Leave(c, TRUE)
  /\ UNCHANGED <<rows, masked, whole>>

ReadEnd(c) ==
  /\ stage[c] = "reading"
  /\ whole' = whole \cup {c}
  /\ Leave(c, FALSE)
  /\ UNCHANGED <<rows, masked, sent>>

\* Mutant: the loop does not end when the context is over.
BreakOffNever(c) ==
  /\ stage[c] = "reading"
  /\ c \in Schemas
  /\ Leave(c, TRUE)
  /\ UNCHANGED <<rows, masked, sent, whole>>

\* Next returns false although there are more rows: an error of the server, or
\* the deadline.  Only ListTables and DescribeTable ask rows.Err().
BreakOff(c) ==
  /\ stage[c] = "reading"
  /\ Leave(c, c \in Schemas)
  /\ UNCHANGED <<rows, masked, sent, whole>>

Step(c) ==
  \/ Begin(c) \/ Take(c) \/ Answered(c) \/ Refused(c) \/ Expire(c)
  \/ ReadRow(c) \/ SkipRow(c) \/ FailOnRow(c) \/ ReadEnd(c) \/ BreakOff(c)

Next == \E c \in Calls : Step(c)

Spec == Init /\ [][Next]_vars

\* Deadlines pass, and the pool serves a waiting call when it can.  The server
\* owes nothing; a call without a deadline depends on it.
FairSpec ==
  /\ Spec
  /\ \A c \in Calls : WF_vars(Begin(c)) /\ WF_vars(Take(c))
  /\ \A c \in Bounded : WF_vars(Expire(c) \/ BreakOff(c))

-----------------------------------------------------------------------------
TypeOK ==
  /\ stage \in [Calls -> Stages]
  /\ free \in 0..maxOpen
  /\ open \subseteq Calls
  /\ rows \in [Calls -> Seq({"plain", "masked"})]
  /\ masked \in [Calls -> Seq(0..MaxRows)]
  /\ sent \in [Calls -> Seq(Rows)]
  /\ whole \subseteq Calls /\ failed \subseteq Calls

\* Whatever way a call ends - no connection, a refused statement, a row that
\* cannot be scanned, a deadline - its connection is back in the pool, and no
\* connection is given back twice (registry.go:338, :444, mongo.go:145).
PoolIsWhole ==
  /\ free + Cardinality(open \cap Pooled) = maxOpen
  /\ open = {c \in Calls : stage[c] \in {"running", "reading"}}

\* The report of masked cells names the rows of the result they are in, also
\* when rows have been skipped (mongo.go:149-161, registry.go:370-378).
MaskedMatchesRows ==
  \A c \in Calls \ Schemas :
    {masked[c][i] : i \in DOMAIN masked[c]} = {i - 1 : i \in {j \in DOMAIN rows[c] : rows[c][j] = "masked"}}

\* A Query that succeeds has a row for each one it was sent, in their order
\* (registry.go:349-379).
QueryDropsNoRow ==
  \A c \in Queries :
    stage[c] = "done" /\ c \notin failed =>
      /\ Len(rows[c]) = Len(sent[c])
      /\ \A i \in DOMAIN rows[c] : rows[c][i] = "plain" <=> sent[c][i] = "plain"

\* A call with a deadline returns, although other calls hold every connection
\* and the server says nothing.
BoundedCallsReturn == \A c \in Bounded : <>(stage[c] = "done")

-----------------------------------------------------------------------------
(***************************************************************************)
(* What the documentation promises.                                        *)
(***************************************************************************)

\* The result of a query that succeeds is the result of the query, not the
\* part that arrived before something failed.
ResultIsWhole ==
  \A c \in Queries \cup Finds : stage[c] = "done" /\ c \notin failed => c \in whole

\* "30s on all external calls": the calls that inspect a schema return, too.
SchemaCallsReturn == \A c \in Schemas : <>(stage[c] = "done")
=============================================================================
