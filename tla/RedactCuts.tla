----------------------------- MODULE RedactCuts -----------------------------
(***************************************************************************)
(* One RedactContext call after its scan: the overlap loop of OverlapDedup *)
(* and then the cuts, one per kept finding, from the last position to the  *)
(* first.  Each cut uses offsets into the original text although it is     *)
(* made in a text that earlier cuts have changed.                          *)
(*                                                                         *)
(* A text is a sequence of pieces.  A piece is a character of the original *)
(* or a placeholder, and carries the characters UnredactResponse puts in   *)
(* its place: the character itself, or the Value the mapping store keeps   *)
(* for the placeholder.                                                    *)
(***************************************************************************)
EXTENDS OverlapDedup, SequencesExt

VARIABLES
  text,  \* the text being redacted
  cut    \* kept findings that have been replaced

cutVars == <<findings, next, result, text, cut>>

Character(k) == [raw |-> TRUE, stands |-> <<k>>]

\* The Value of a finding: the characters of the original it covers, without
\* those outside the capturing group.
Value(f) == [i \in 1..(f.len - f.skip - f.drop) |-> f.pos + f.skip + i - 1]

PlaceholderFor(f) == [raw |-> FALSE, stands |-> Value(f)]

Original == [k \in 1..TextLen |-> Character(k - 1)]

CutInit ==
  /\ Init
  /\ text = Original
  /\ cut = {}

Dedup == Iterate /\ UNCHANGED <<text, cut>>

Remaining == ToSet(result) \ cut

\* Mutant: the findings are replaced in the order of the text.
CutForwards(f) ==
  /\ Done
  /\ f \in Remaining
  /\ \A g \in Remaining : f.pos <= g.pos
  /\ text' = SubSeq(text, 1, f.pos) \o <<PlaceholderFor(f)>>
               \o SubSeq(text, End(f) + 1, Len(text))
  /\ cut' = cut \cup {f}
  /\ UNCHANGED vars

\* result[:f.Position] + placeholder + result[f.Position+f.Length:]
Cut(f) ==
  /\ Done
  /\ f \in Remaining
  /\ \A g \in Remaining : g.pos <= f.pos
  /\ text' = SubSeq(text, 1, f.pos) \o <<PlaceholderFor(f)>>
               \o SubSeq(text, End(f) + 1, Len(text))
  /\ cut' = cut \cup {f}
  /\ UNCHANGED vars

CutNext == Dedup \/ \E f \in Remaining : Cut(f)

CutSpec == CutInit /\ [][CutNext]_cutVars

-----------------------------------------------------------------------------
Redacted == Done /\ Remaining = {}

\* UnredactResponse over the whole text: every piece gives its characters.
Unredacted == FlattenSeq([i \in DOMAIN text |-> text[i].stands])

RawCharacters == {text[i].stands[1] : i \in {j \in DOMAIN text : text[j].raw}}

Span(f) == f.pos..(End(f) - 1)

CutTypeOK ==
  /\ TypeOK
  /\ cut \subseteq ToSet(result)
  /\ Len(text) <= TextLen

IsStrictlyIncreasing(s) == \A i, j \in DOMAIN s : i < j => s[i] < s[j]

\* The characters of a match its capturing group leaves out.
LeftOut(f) == Span(f) \ ToSet(Value(f))

\* The characters that restoring a piece gives back.
Characters(piece) == ToSet(piece.stands)

\* Every cut is made in its place: after any number of them, restoring the
\* placeholders gives the original back, each character once and in order, but
\* for what the capturing groups of the cut findings leave out.  No cut removes
\* or shifts a character another finding or the plain text owns
\* (redact.go:63-75, 93-123).
CutsAreReversible ==
  /\ \A i \in DOMAIN text : IsStrictlyIncreasing(text[i].stands)
  /\ \A i, j \in DOMAIN text :
       i < j => \A a \in Characters(text[i]), b \in Characters(text[j]) : a < b
  /\ UNION {Characters(text[i]) : i \in DOMAIN text} =
       (0..TextLen - 1) \ UNION {LeftOut(f) : f \in cut}

-----------------------------------------------------------------------------
(***************************************************************************)
(* What the code's own words promise without that condition.               *)
(***************************************************************************)

\* "RedactContext replaces detected secrets and PII with placeholders": no
\* character of a finding is left in the redacted text.
EveryFindingIsReplaced ==
  Redacted => \A f \in ToSet(findings) : RawCharacters \cap Span(f) = {}

\* "redact replaces and unredact restores": for every finding, also when its
\* Value is a capturing group.
UnredactRestores == Redacted => Unredacted = [k \in 1..TextLen |-> k - 1]
=============================================================================
