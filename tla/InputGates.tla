----------------------------- MODULE InputGates -----------------------------
(***************************************************************************)
(* application/tools/security.go: what the handlers look at before they    *)
(* touch a service.                                                        *)
(*                                                                         *)
(* A query is a sequence of tokens: quotes, semicolons, the marks of       *)
(* comments, spaces and line ends, and words, each with the space that     *)
(* ends it.  Of the words, "SELECT" stands for the reading statements,     *)
(* "DELETE" for DELETE and UPDATE, "DROP" for the list of blocked words,   *)
(* "SLEEP" for the calls and clauses blocked by a pattern of their own     *)
(* (SLEEP, BENCHMARK, WAITFOR DELAY, PG_SLEEP, CHAR of a number, INTO      *)
(* OUTFILE), and "x" for any other text.  A Mongo filter is the set of its *)
(* paths: keys, with "[]" for the step into an array.                      *)
(***************************************************************************)
EXTENDS Slices

Tokens ==
  {"SELECT", "DELETE", "WHERE", "DROP", "UNION", "SLEEP", ";", "'",
   "/*", "*/", "--", "\n", " ", "x"}

Blanks == {"\n", " "}

\* The places a block comment covers: from "/*" to the next "*/", if there is
\* one.
BlockComments(q) ==
  LET Closed(i) == \E j \in i + 1..Len(q) : q[j] = "*/"
      in[i \in 0..Len(q)] ==
        i > 0 /\ ((in[i - 1] /\ q[i - 1] # "*/") \/ (q[i] = "/*" /\ Closed(i)))
  IN  {i \in DOMAIN q : in[i]}

\* From "--" to the end of its line.
LineComments(q) ==
  {i \in DOMAIN q : \E j \in 1..i : q[j] = "--" /\ \A k \in j..i : q[k] # "\n"}

\* ReplaceAllString(" "): of the places of each match the first becomes a space,
\* the others go.
Spaced(q, places, firsts) ==
  Without([i \in DOMAIN q |-> IF i \in firsts THEN " " ELSE q[i]], places \ firsts)

BlocksSpaced(q) ==
  LET inside == BlockComments(q)
  IN  Spaced(q, inside,
             {i \in inside : q[i] = "/*" /\ (i - 1 \notin inside \/ q[i - 1] = "*/")})

LinesSpaced(q) ==
  LET inside == LineComments(q) IN Spaced(q, inside, {i \in inside : i - 1 \notin inside})

\* Block comments first; whether a mark stands in a string is not looked at.
StripSQLComments(q) == LinesSpaced(BlocksSpaced(q))

\* strings.TrimSpace, as far as the beginning of the text is concerned.
TrimSpace(q) ==
  Without(q, {i \in DOMAIN q : \A j \in 1..i : q[j] \in Blanks})

Has(q, word) == \E i \in DOMAIN q : q[i] = word

\* The first word after place i, over blanks: the \s* of the patterns.
Follows(q, i, words) ==
  \E j \in i + 1..Len(q) : q[j] \in words /\ \A k \in i + 1..j - 1 : q[k] \in Blanks

\* The patterns are matched with the text as it came, comments and strings
\* included.
BlockedPattern(q) ==
  \E i \in DOMAIN q :
    \/ q[i] = ";" /\ Follows(q, i, {"DROP", "DELETE"})
    \/ q[i] = "UNION" /\ Follows(q, i, {"SELECT"})
    \/ q[i] = "/*" /\ \E j \in i + 1..Len(q) : q[j] = "*/" /\ \A k \in i..j : q[k] # "\n"
    \/ q[i] = "--" /\ \A k \in i + 1..Len(q) : q[k] \in Blanks
    \/ q[i] = "SLEEP"

\* Mutant: the second half of an escaped quote is looked at again.
CountBareStatementsRereading(q) ==
  LET inside[i \in 1..Len(q) + 1] ==
        IF i = 1 THEN FALSE
        ELSE IF q[i - 1] # "'" THEN inside[i - 1]
        ELSE ~inside[i - 1] \/ (i <= Len(q) /\ q[i] = "'")
  IN  1 + Cardinality({i \in DOMAIN q : q[i] = ";" /\ ~inside[i]})

\* at[i]: where the loop is when it comes to place i: outside a string, inside
\* one, or at a place it skips, the second half of an escaped quote.
CountBareStatements(q) ==
  LET at[i \in 1..Len(q) + 1] ==
        IF i = 1 THEN "outside"
        ELSE IF at[i - 1] = "skipped" THEN "inside"
        ELSE IF q[i - 1] # "'" THEN at[i - 1]
        ELSE IF at[i - 1] = "outside" THEN "inside"
        ELSE IF i <= Len(q) /\ q[i] = "'" THEN "skipped" ELSE "outside"
  IN  1 + Cardinality({i \in DOMAIN q : q[i] = ";" /\ at[i] = "outside"})

IsReadQuery(q) == q # <<>> /\ Head(q) = "SELECT"

\* What the gate has decided the query is, after its comments were stripped.
Judged(q) == IF IsReadQuery(TrimSpace(StripSQLComments(q))) THEN "query" ELSE "exec"

ValidateSQL(q) ==
  LET cleaned == StripSQLComments(q)
      upper == TrimSpace(cleaned)
  IN  /\ upper # <<>>
      /\ IsReadQuery(upper) \/ (Head(upper) = "DELETE" /\ Has(upper, "WHERE"))
      /\ ~Has(upper, "DROP")
      /\ ~BlockedPattern(q)
      /\ CountBareStatements(cleaned) <= 1

BlockedRedisCommands == {"FLUSHALL", "FLUSHDB", "SHUTDOWN", "CONFIG", "EVAL"}

ValidateRedisCommand(command) == command \notin BlockedRedisCommands

BlockedMongoOperators == {"$where", "$expr", "$function", "$accumulator"}

\* The filter is searched through its sub-documents and through arrays of
\* them, not through arrays of arrays.
ValidateMongoFilter(filter) ==
  \A path \in filter : \A i \in DOMAIN path :
    path[i] \in BlockedMongoOperators =>
      \E j \in 1..i - 1 : path[j] = "[]" /\ path[j + 1] = "[]"

-----------------------------------------------------------------------------
\* The statements of a query without comments: semicolons with an even number of
\* quotes before them separate two.
Statements(q) ==
  1 + Cardinality({i \in DOMAIN q : q[i] = ";" /\
        Cardinality({j \in 1..i : q[j] = "'"}) % 2 = 0})

HasCommentMarks(q) == \E i \in DOMAIN q : q[i] \in {"/*", "*/", "--"}

BeginsWithComment(q) ==
  LET text == TrimSpace(q) IN text # <<>> /\ Head(text) \in {"/*", "--"}
=============================================================================
