------------------------------ MODULE Documents ------------------------------
(***************************************************************************)
(* What internal/db makes of a document of MongoDB (flattenDoc) and of a   *)
(* reply of Redis (maskResult) before they are part of a result.           *)
(*                                                                         *)
(* A document or reply is the set of its leaves.  A leaf has the path to   *)
(* it and its value: "plain" and "sensitive" strings, or a "number".  A    *)
(* step of a path is an item of an array or a key; a key is a sequence of  *)
(* parts, more than one if there are dots in it, and in Redis also has a   *)
(* type.  A part is any text, "sensitive" among them: keys are not         *)
(* scanned, and name the cells, and the report's columns, as they are.     *)
(***************************************************************************)
EXTENDS Slices, SequencesExt

Leaf(path, value) == [path |-> path, value |-> value]

Item(i) == [kind |-> "item", name |-> <<i>>]
Key(parts) == [kind |-> "key", name |-> parts]
NumberKey(parts) == [kind |-> "number", name |-> parts]

InArray(leaf) == \E i \in DOMAIN leaf.path : leaf.path[i].kind = "item"

\* MaskString; what is masked is reported.
MaskValue(value) == IF value = "sensitive" THEN "masked" ELSE value

-----------------------------------------------------------------------------
\* The keys down to the leaf, or to the array it is in, with dots between them.
FullKey(leaf) ==
  LET upTo == {0} \cup {n \in DOMAIN leaf.path : \A i \in 1..n : leaf.path[i].kind # "item"}
      keys == SubSeq(leaf.path, 1, CHOOSE n \in upTo : \A m \in upTo : m <= n)
  IN  FlattenSeq([i \in DOMAIN keys |-> keys[i].name])

\* An array is left as it is.
CellOf(leaf) == IF InArray(leaf) THEN leaf.value ELSE MaskValue(leaf.value)

\* The map is ranged over in any order: of two leaves with one full key the
\* later stands.  An array is one cell with all its items.
FlattenDoc(doc) ==
  LET columns == {FullKey(l) : l \in doc}
      Fill(f) == {{CellOf(l)} : l \in {k \in doc : FullKey(k) = f /\ ~InArray(k)}}
                 \cup ({{CellOf(l) : l \in {k \in doc : FullKey(k) = f /\ InArray(k)}}} \ {{}})
  IN  {out \in [columns -> UNION {Fill(f) : f \in columns}] : \A f \in columns : out[f] \in Fill(f)}

\* Mutant: the list that a nested document is given is its own.
FlattenReportOfTop(doc) ==
  {FullKey(l) : l \in {k \in doc : k.value = "sensitive" /\ Len(k.path) = 1}}

\* MaskedField.Column of the report.
FlattenReport(doc) ==
  {FullKey(l) : l \in {k \in doc : k.value = "sensitive" /\ ~InArray(k)}}

-----------------------------------------------------------------------------
\* A key that is a number is printed, and is a string from then on.
Printed(path) ==
  [i \in DOMAIN path |-> IF path[i].kind = "number" THEN Key(path[i].name) ELSE path[i]]

\* The keys down to a leaf, through arrays.
ColumnOf(leaf) ==
  LET names == [i \in DOMAIN leaf.path |-> leaf.path[i].name]
  IN  FlattenSeq(Without(names, {i \in DOMAIN leaf.path : leaf.path[i].kind = "item"}))

MaskResult(reply) ==
  LET places == {Printed(l.path) : l \in reply}
      Fill(p) == {MaskValue(l.value) : l \in {k \in reply : Printed(k.path) = p}}
  IN  {out \in [places -> UNION {Fill(p) : p \in places}] : \A p \in places : out[p] \in Fill(p)}

MaskReport(reply) == {ColumnOf(l) : l \in {k \in reply : k.value = "sensitive"}}

-----------------------------------------------------------------------------
\* Outside arrays no value is a sensitive string any more, and what is masked is
\* reported under the name of its cell.
DocumentIsMasked(doc) ==
  \A out \in FlattenDoc(doc) : \A f \in DOMAIN out :
    /\ "sensitive" \in out[f] => \E l \in doc : InArray(l) /\ FullKey(l) = f
    /\ "masked" \in out[f] => f \in FlattenReport(doc)

ReplyIsMasked(reply) ==
  \A out \in MaskResult(reply) : \A p \in DOMAIN out :
    /\ out[p] # "sensitive"
    /\ out[p] = "masked" => ColumnOf(Leaf(p, "")) \in MaskReport(reply)

\* No value is, in arrays either.
ArraysAreMasked(doc) ==
  \A out \in FlattenDoc(doc) : \A f \in DOMAIN out : "sensitive" \notin out[f]

\* Nothing sensitive is left in the names of the cells either, or in the keys of
\* a reply.
NamesAreMasked(doc) ==
  \A out \in FlattenDoc(doc) : \A f \in DOMAIN out : ~Contains(f, "sensitive")

KeysAreMasked(reply) ==
  \A out \in MaskResult(reply) : \A p \in DOMAIN out : ~Contains(ColumnOf(Leaf(p, "")), "sensitive")

\* What is reported is masked in the result.
ReportIsOfResult(doc) ==
  \A out \in FlattenDoc(doc) : \A f \in FlattenReport(doc) : "masked" \in out[f]
=============================================================================
