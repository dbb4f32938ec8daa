---------------------------- MODULE OverlapDedup ----------------------------
(***************************************************************************)
(* deduplicateOverlapping of internal/engine/redact.go: the loop that      *)
(* decides which of the findings in a text are replaced.  One step is one  *)
(* iteration of the outer loop.                                            *)
(*                                                                         *)
(* RedactContext then cuts the text at the kept findings, last one first,  *)
(* with offsets into the original text.  That is only right when no two    *)
(* kept findings overlap, and nothing in the code checks it.               *)
(***************************************************************************)
EXTENDS Naturals, Sequences

CONSTANTS
  TextLen,      \* bound on the offsets of a text
  Risks,        \* risk levels, numbered as detector.RiskLevel
  MaxFindings,  \* bound on the findings of a text
  MaxDrop       \* bound on the characters of a match before, and after, its Value

ASSUME NumbersAssumption ==
  /\ TextLen \in Nat /\ MaxFindings \in Nat /\ MaxDrop \in Nat
  /\ Risks \subseteq Nat

VARIABLES
  findings,  \* all findings of the text, sorted by position
  next,      \* index of the finding the loop looks at
  result     \* the findings kept so far

vars == <<findings, next, result>>

\* Where a finding is, how bad it is, and how many characters of the match its
\* Value leaves out at the start (skip) and at the end (drop): the Value of a
\* pattern with a capturing group is the group ("token" in "token=..." for a
\* Session Cookie, what is between "aws" and "key" for an AWS Secret Key, which
\* may be nothing), but Position and Length are those of the whole match.
\* No built-in pattern matches the empty string.
Finding ==
  [pos : 0..TextLen, len : 1..TextLen, risk : Risks,
   skip : 0..MaxDrop, drop : 0..MaxDrop]

End(f) == f.pos + f.len

\* The findings a scan can report in a text of TextLen characters.
Matches == {f \in Finding : End(f) <= TextLen /\ f.skip + f.drop <= f.len}

\* sort.Slice is not stable: findings at one position come in any order.
SortedByPosition(s) == \A i, j \in DOMAIN s : i < j => s[i].pos <= s[j].pos

\* Mutant: only findings at the same position count.
OverlapRangesAtStart(f, g) == f.pos = g.pos

OverlapRanges(f, g) == f.pos < End(g) /\ g.pos < End(f)

Init ==
  /\ \E n \in 0..MaxFindings : findings \in [1..n -> Matches]
  /\ SortedByPosition(findings)
  /\ next = 1
  /\ result = <<>>

\* Mutant: a finding replaces the one it overlaps whatever their risks.
KeepOrReplaceLatest(f) ==
  \/ \E i \in DOMAIN result :
       /\ OverlapRanges(result[i], f)
       /\ \A j \in 1..(i - 1) : ~OverlapRanges(result[j], f)
       /\ result' = [result EXCEPT ![i] = f]
  \/ /\ \A i \in DOMAIN result : ~OverlapRanges(result[i], f)
     /\ result' = Append(result, f)

\* The inner loop stops at the first kept finding f overlaps: it stays unless
\* f is riskier.  A finding that overlaps none is kept.
KeepOrReplace(f) ==
  \/ \E i \in DOMAIN result :
       /\ OverlapRanges(result[i], f)
       /\ \A j \in 1..(i - 1) : ~OverlapRanges(result[j], f)
       /\ result' = IF f.risk > result[i].risk
                    THEN [result EXCEPT ![i] = f] ELSE result
  \/ /\ \A i \in DOMAIN result : ~OverlapRanges(result[i], f)
     /\ result' = Append(result, f)

Iterate ==
  /\ next <= Len(findings)
  /\ KeepOrReplace(findings[next])
  /\ next' = next + 1
  /\ UNCHANGED findings

Next == Iterate

Spec == Init /\ [][Next]_vars

-----------------------------------------------------------------------------
Done == next > Len(findings)

TypeOK ==
  /\ findings \in Seq(Finding)
  /\ next \in 1..(Len(findings) + 1)
  /\ result \in Seq(Finding)

\* The kept findings are in the order of the text and none reaches into the
\* next, at any point of the loop: a replacement, which stops at the first
\* overlap, never leaves a second one behind (redact.go:148-163), so the cuts of
\* RedactContext (redact.go:71-75) are disjoint and their offsets into the
\* original text stay right.
KeptAreDisjoint ==
  \A i, j \in DOMAIN result :
    i < j => End(result[i]) <= result[j].pos

\* A finding gives way only to a risk as high as its own, and not to one that
\* lies wholly before it (redact.go:151-157).
RiskIsKept ==
  \A i \in 1..(next - 1) : \E j \in DOMAIN result :
    /\ result[j].risk >= findings[i].risk
    /\ End(result[j]) > findings[i].pos
=============================================================================
