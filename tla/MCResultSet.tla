----------------------------- MODULE MCResultSet -----------------------------
(***************************************************************************)
(* The instance of ResultSet for TLC, and the documents and replies over   *)
(* which it is checked what a result shows of them.                        *)
(***************************************************************************)
EXTENDS ResultSet, Documents

Values == {"plain", "sensitive", "number"}

\* A key, the same key nested, the same two with a dot, a sensitive key, items of
\* an array, and a document in one.
DocumentPaths ==
  {<<Key(<<"a">>)>>, <<Key(<<"a">>), Key(<<"b">>)>>, <<Key(<<"a", "b">>)>>,
   <<Key(<<"a">>), Key(<<"sensitive">>)>>,
   <<Key(<<"c">>), Item(1)>>, <<Key(<<"c">>), Item(2), Key(<<"b">>)>>}

\* Items, a key and a sensitive one, and a key that is a number.
ReplyPaths ==
  {<<>>, <<Item(1)>>, <<Item(2), Key(<<"a">>)>>, <<Item(2), Key(<<"sensitive">>)>>,
   <<Item(2), NumberKey(<<"1">>), Item(1)>>,
   <<Item(2), Key(<<"1">>), Item(1)>>}

\* No leaf is where another one needs a document.
Trees(paths) ==
  {tree \in UNION {{{Leaf(p, v[p]) : p \in s} : v \in [s -> Values]} : s \in SUBSET paths} :
     \A k \in tree, l \in tree : k # l => ~IsStrictPrefix(k.path, l.path)}

DocumentsAreMasked == \A doc \in Trees(DocumentPaths) : DocumentIsMasked(doc)
RepliesAreMasked == \A reply \in Trees(ReplyPaths) : ReplyIsMasked(reply)

\* What a Find or a command of Redis returns has no sensitive string for a value
\* but in arrays of documents, and the report names each cell that is masked,
\* however deep it was and in whatever order a map was read; keys are no values
\* and come back as they are (mongo.go:215-240, redis.go:171-213).
ResultsAreMasked ==
  \A c \in Finds : stage[c] = "done" /\ c \notin failed =>
    DocumentsAreMasked /\ RepliesAreMasked

\* "executes an arbitrary Redis command and returns the result with masking",
\* "recursively scans redis values": of the keys, too.
ResultKeysAreMasked ==
  \A c \in Finds : stage[c] = "done" /\ c \notin failed =>
    /\ \A doc \in Trees(DocumentPaths) : NamesAreMasked(doc)
    /\ \A reply \in Trees(ReplyPaths) : KeysAreMasked(reply)

\* "returns masked results".
ItemsAreMasked ==
  \A c \in Finds : stage[c] = "done" /\ c \notin failed =>
    \A doc \in Trees(DocumentPaths) : ArraysAreMasked(doc)

\* What the report names is masked in the result.
ReportedIsMasked ==
  \A c \in Finds : stage[c] = "done" /\ c \notin failed =>
    \A doc \in Trees(DocumentPaths) : ReportIsOfResult(doc)
=============================================================================
