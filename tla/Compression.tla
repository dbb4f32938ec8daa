----------------------------- MODULE Compression -----------------------------
(***************************************************************************)
(* internal/compress: what compress_context makes of a text.  A line has   *)
(* an indent, the mark of a comment it begins with, if any, and a set of   *)
(* words.  The extractor by TF-IDF has no caller.                          *)
(***************************************************************************)
EXTENDS Slices

Line(indent, mark, words) == [indent |-> indent, mark |-> mark, words |-> words]

BlankLine == Line(0, "", {})

\* strings.Split and strings.Join: no line at all is one blank line.
Joined(lines) == IF lines = <<>> THEN <<BlankLine>> ELSE lines

Trimmed(line) == [line EXCEPT !.indent = 0]

\* Every repetition of a line goes, wherever it is; blank lines stay.
DedupLines(text) ==
  IF Len(text) <= 1 THEN text
  ELSE Without(text, {i \in DOMAIN text :
         /\ Trimmed(text[i]) # BlankLine
         /\ \E j \in 1..i - 1 : Trimmed(text[j]) = Trimmed(text[i])})

RemoveComments(text, prefixes) ==
  Joined(Without(text, {i \in DOMAIN text : text[i].mark \in prefixes}))

\* The lines with a keyword and those near them; all, if there are none.
ExtractRelevant(text, keywords, contextLines) ==
  LET matching == {i \in DOMAIN text : text[i].words \cap keywords # {}}
      Near(i) == \E m \in matching : i <= m + contextLines /\ m <= i + contextLines
  IN  IF keywords = {} \/ matching = {} THEN text
      ELSE Without(text, {i \in DOMAIN text : ~Near(i)})

\* Mutant: comments are removed last, when their words have already been used.
CompressCommentsLast(text, keywords) ==
  RemoveComments(ExtractRelevant(DedupLines(text), keywords, 3), {"//", "#", "--"})

Compress(text, keywords) ==
  ExtractRelevant(RemoveComments(DedupLines(text), {"//", "#", "--"}), keywords, 3)

-----------------------------------------------------------------------------
\* The places of a text whose line must survive: neither blank nor a comment,
\* the first of its like, and with a keyword, unless no such place has one.
Relevant(text, keywords) ==
  LET own == {i \in DOMAIN text :
                /\ text[i].mark = "" /\ text[i].words # {}
                /\ \A j \in 1..i - 1 : Trimmed(text[j]) # Trimmed(text[i])}
      matching == {i \in own : text[i].words \cap keywords # {}}
  IN  IF matching = {} THEN own ELSE matching

\* Every relevant line is in the result, in the order of the text.
Keeps(text, keywords) ==
  LET short == Compress(text, keywords)
      Place(i) == CHOOSE k \in DOMAIN short : short[k] = text[i]
  IN  \A i \in Relevant(text, keywords) :
        /\ \E k \in DOMAIN short : short[k] = text[i]
        /\ \A j \in Relevant(text, keywords) :
             i < j => Place(i) < Place(j)

\* Nothing is left to compress.
IsStable(text, keywords) ==
  LET short == Compress(text, keywords) IN Compress(short, keywords) = short

\* "removes duplicate consecutive lines": a line that is dropped follows its
\* like.
DropsConsecutive(text) ==
  Len(DedupLines(text)) >=
    Len(text) - Cardinality({i \in 2..Len(text) : Trimmed(text[i]) = Trimmed(text[i - 1])})
=============================================================================
