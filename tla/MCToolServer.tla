---------------------------- MODULE MCToolServer ----------------------------
(***************************************************************************)
(* The instances of ToolServer for TLC: several calls of tools with a      *)
(* deadline and without; one call with many inputs for the gates; and the  *)
(* texts over which compression is compared with what it is for, once a    *)
(* handler has used it.                                                    *)
(***************************************************************************)
EXTENDS ToolServer, Compression

Asks(tool, input) == [tool |-> tool, input |-> input]

\* A read behind a blank, with a semicolon in a string, and two statements, with
\* an escaped quote in a string before what separates them.
SomeRequests ==
  {Asks("db_query", <<" ", "SELECT", "'", ";", "'">>),
   Asks("db_query", <<"SELECT", "'", "'", "'", "x", "'", ";", "x">>),
   Asks("http_request", "private"),
   Asks("db_list_tables", "")}

Texts(tokens, n) == UNION {[1..m -> tokens] : m \in 1..n}

\* Short texts with reads, writes and comments anywhere, and reads with quotes
\* and semicolons in any order, long enough for an escaped quote in a string.
SomeQueries ==
  Texts({"SELECT", "DELETE", "WHERE", " ", "--", "\n", ";"}, 4)
    \cup Texts({"SELECT", "/*", "*/", "\n", "--", "'"}, 4)
    \cup {<<"SELECT">> \o text : text \in Texts({"'", ";", "x"}, 7)}

SomeFilters ==
  {{<<"name">>, <<"$or", "[]", "name">>}, {<<"name">>, <<"$where">>},
   {<<"$or", "[]", "$where">>}, {<<"$or", "[]", "[]", "$where">>}}

GateRequests ==
  {Asks("db_query", q) : q \in SomeQueries}
    \cup {Asks("mongo_find", f) : f \in SomeFilters}
    \cup {Asks("redis_exec", command) : command \in {"GET", "FLUSHALL"}}

\* Requests for which more is promised than the code keeps.
Commented == {Asks("db_query", <<"--", "x", "\n", "SELECT">>)}

\* A comment with the keyword, a line and the same line indented: texts long
\* enough for a line to be far from the others.
Lines ==
  {BlankLine, Line(0, "", {"x"}), Line(1, "", {"x"}), Line(0, "", {"y"}),
   Line(0, "", {"k"}), Line(0, "#", {"k"})}

SomeTexts == UNION {[1..n -> Lines] : n \in 1..5}

CompressionIsSafe ==
  \A text \in SomeTexts : \A keywords \in {{}, {"k"}} :
    Keeps(text, keywords) /\ IsStable(text, keywords)

\* What compress_context answers has every line that is no comment and no
\* repetition and, if there are such lines with a keyword, all of those, in
\* their order; what is compressed once is not compressed further
\* (compressor.go:124-134).
RelevantLinesAreKept ==
  \A c \in Calls : ran[c] = "call" => CompressionIsSafe

\* "removes duplicate consecutive lines" (compressor.go:22).
OnlyConsecutiveAreDropped ==
  \A c \in Calls : ran[c] = "call" => \A text \in SomeTexts : DropsConsecutive(text)
=============================================================================
