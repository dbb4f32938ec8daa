------------------------- MODULE OverlapDedupProofs -------------------------
(***************************************************************************)
(* The overlap loop keeps disjoint findings, and the cuts at these are     *)
(* each made in their place, for texts and finding lists of any size.      *)
(***************************************************************************)
EXTENDS RedactCuts, TLAPS

(***************************************************************************)
(* The invariant: the kept findings are in order and disjoint, and none    *)
(* starts after a finding the loop has still to look at.  A finding can    *)
(* then only overlap the last kept one, which is why replacing the first   *)
(* overlap is enough.                                                      *)
(***************************************************************************)

KeptAreBehind ==
  \A i \in DOMAIN result : \A j \in next..Len(findings) :
    result[i].pos <= findings[j].pos

IInv ==
  /\ TypeOK
  /\ SortedByPosition(findings)
  /\ KeptAreBehind
  /\ KeptAreDisjoint

\* The fields of a finding are numbers and it has at least one character.
LEMMA FindingFields ==
  ASSUME NEW f \in Finding
  PROVE  f.pos \in Nat /\ f.len \in Nat /\ f.len > 0 /\ f.risk \in Nat
         /\ End(f) \in Nat /\ End(f) > f.pos /\ End(f) = f.pos + f.len
<1>1. f.pos \in 0..TextLen /\ f.len \in 1..TextLen /\ f.risk \in Risks
  BY DEF Finding
<1>2. TextLen \in Nat /\ Risks \subseteq Nat
  BY NumbersAssumption
<1>3. f.pos \in Nat /\ f.len \in Nat /\ f.len > 0
  BY <1>1, <1>2
<1>4. f.risk \in Nat
  BY <1>1, <1>2
<1>5. QED
  BY <1>3, <1>4 DEF End

\* A finding that overlaps a kept one overlaps the last kept one.
LEMMA OverlapIsWithTheLast ==
  ASSUME IInv, next <= Len(findings), NEW i \in DOMAIN result,
         OverlapRanges(result[i], findings[next])
  PROVE  i = Len(result)
<1> DEFINE f == findings[next]
<1>1. f \in Finding /\ result[i] \in Finding /\ next \in DOMAIN findings
  BY DEF IInv, TypeOK
<1>2. f.pos < End(result[i])
  BY DEF OverlapRanges
<1>3. SUFFICES ASSUME i # Len(result) PROVE FALSE
  OBVIOUS
<1>4. i < Len(result) /\ Len(result) \in DOMAIN result /\ result[Len(result)] \in Finding
  BY <1>3 DEF IInv, TypeOK
<1>5. End(result[i]) <= result[Len(result)].pos
  BY <1>4 DEF IInv, KeptAreDisjoint
<1>6. result[Len(result)].pos <= f.pos
  BY <1>1, <1>4 DEF IInv, KeptAreBehind, TypeOK
<1>7. QED
  BY <1>1, <1>2, <1>4, <1>5, <1>6, FindingFields

\* Before the loop nothing is kept.
LEMMA InitIInv == Init => IInv
<1> SUFFICES ASSUME Init PROVE IInv
  OBVIOUS
<1>1. findings \in Seq(Finding)
  <2>1. PICK n \in 0..MaxFindings : findings \in [1..n -> Matches]
    BY DEF Init
  <2>2. n \in Nat /\ findings \in [1..n -> Finding]
    BY <2>1, NumbersAssumption DEF Matches
  <2>3. QED BY <2>2
<1>2. QED
  BY <1>1 DEF Init, IInv, TypeOK, KeptAreBehind, KeptAreDisjoint

\* An iteration replaces the last kept finding or appends one behind it.
LEMMA IterateIInv ==
  ASSUME IInv, Iterate
  PROVE  IInv'
<1> DEFINE f == findings[next]
<1>1. /\ next \in Nat /\ next <= Len(findings) /\ next \in DOMAIN findings
      /\ next' = next + 1 /\ UNCHANGED findings
      /\ f \in Finding /\ Len(findings) \in Nat
  BY DEF IInv, TypeOK, Iterate
<1>2. \A j \in next'..Len(findings) :
        /\ j \in next..Len(findings) /\ f.pos <= findings[j].pos
        /\ findings[j] \in Finding
  BY <1>1 DEF IInv, TypeOK, SortedByPosition
<1>3. \A i \in DOMAIN result : result[i] \in Finding
  BY DEF IInv, TypeOK
<1>4. CASE \E i \in DOMAIN result :
             /\ OverlapRanges(result[i], f)
             /\ result' = IF f.risk > result[i].risk
                          THEN [result EXCEPT ![i] = f] ELSE result
  <2>1. PICK i \in DOMAIN result :
          /\ OverlapRanges(result[i], f)
          /\ result' = IF f.risk > result[i].risk
                       THEN [result EXCEPT ![i] = f] ELSE result
    BY <1>4
  <2>2. i = Len(result)
    BY <1>1, <2>1, OverlapIsWithTheLast
  <2>3. CASE result' = result
    BY <1>1, <1>2, <2>3 DEF IInv, TypeOK, SortedByPosition, KeptAreBehind,
       KeptAreDisjoint
  <2>4. CASE result' = [result EXCEPT ![i] = f]
    <3>1. /\ result' \in Seq(Finding) /\ DOMAIN result' = DOMAIN result
          /\ result'[i] = f
          /\ \A j \in DOMAIN result : j # i => result'[j] = result[j]
      BY <1>1, <2>4 DEF IInv, TypeOK
    <3>2. TypeOK'
      BY <1>1, <3>1 DEF IInv, TypeOK
    <3>3. KeptAreBehind'
      BY <1>1, <1>2, <3>1 DEF IInv, KeptAreBehind
    <3>4. KeptAreDisjoint'
      <4> SUFFICES ASSUME NEW a \in DOMAIN result, NEW b \in DOMAIN result, a < b
                   PROVE  End(result'[a]) <= result'[b].pos
        BY <3>1 DEF KeptAreDisjoint, End
      <4>1. a # i /\ result'[a] = result[a] /\ End(result[a]) <= result[b].pos
        BY <2>2, <3>1 DEF IInv, TypeOK, KeptAreDisjoint
      <4>2. CASE b # i
        BY <3>1, <4>1, <4>2
      <4>3. CASE b = i
        <5>1. result[b].pos <= f.pos
          BY <1>1 DEF IInv, KeptAreBehind, TypeOK
        <5>2. QED
          BY <1>1, <1>3, <3>1, <4>1, <4>3, <5>1, FindingFields
      <4>4. QED BY <4>2, <4>3
    <3>5. QED
      BY <1>1, <3>2, <3>3, <3>4 DEF IInv, SortedByPosition
  <2>5. QED BY <2>1, <2>3, <2>4
<1>5. CASE /\ \A i \in DOMAIN result : ~OverlapRanges(result[i], f)
           /\ result' = Append(result, f)
  <2>1. /\ result' \in Seq(Finding)
        /\ Len(result') = Len(result) + 1
        /\ DOMAIN result' = DOMAIN result \cup {Len(result) + 1}
        /\ result'[Len(result) + 1] = f
        /\ \A j \in DOMAIN result : result'[j] = result[j] /\ j < Len(result) + 1
    BY <1>1, <1>5 DEF IInv, TypeOK
  <2>2. TypeOK'
    BY <1>1, <2>1 DEF IInv, TypeOK
  <2>3. KeptAreBehind'
    BY <1>1, <1>2, <2>1 DEF IInv, KeptAreBehind
  <2>4. \A a \in DOMAIN result : End(result[a]) <= f.pos
    <3> SUFFICES ASSUME NEW a \in DOMAIN result PROVE End(result[a]) <= f.pos
      OBVIOUS
    <3>1. result[a].pos <= f.pos /\ ~OverlapRanges(result[a], f)
      BY <1>1, <1>5 DEF IInv, KeptAreBehind, TypeOK
    <3>2. QED
      BY <1>1, <1>3, <3>1, FindingFields DEF OverlapRanges
  <2>5. KeptAreDisjoint'
    <3> SUFFICES ASSUME NEW a \in DOMAIN result', NEW b \in DOMAIN result', a < b
                 PROVE  End(result'[a]) <= result'[b].pos
      BY DEF KeptAreDisjoint, End
    <3>1. a \in DOMAIN result /\ result'[a] = result[a]
      BY <2>1 DEF IInv, TypeOK
    <3>2. CASE b = Len(result) + 1
      BY <2>1, <2>4, <3>1, <3>2
    <3>3. CASE b \in DOMAIN result
      BY <2>1, <3>1, <3>3 DEF IInv, KeptAreDisjoint
    <3>4. QED BY <2>1, <3>2, <3>3
  <2>6. QED
    BY <1>1, <2>2, <2>3, <2>5 DEF IInv, SortedByPosition
<1>6. QED
  BY <1>4, <1>5 DEF Iterate, KeepOrReplace

\* The invariant holds in every state of the loop.
LEMMA Invariance == Spec => []IInv
<1>1. IInv /\ [Next]_vars => IInv'
  <2>1. ASSUME IInv, Next PROVE IInv'
    BY <2>1, IterateIInv DEF Next
  <2>2. ASSUME IInv, UNCHANGED vars PROVE IInv'
    BY <2>2 DEF vars, IInv, TypeOK, SortedByPosition, KeptAreBehind,
       KeptAreDisjoint, End
  <2>3. QED BY <2>1, <2>2
<1>2. QED
  BY <1>1, InitIInv, PTL DEF Spec

\* The findings RedactContext cuts out are in text order and disjoint.
THEOREM KeptFindingsAreDisjoint == Spec => []KeptAreDisjoint
<1>1. IInv => KeptAreDisjoint
  BY DEF IInv
<1>2. QED BY <1>1, Invariance, PTL

(***************************************************************************)
(* Nothing gives way to a lower risk.                                      *)
(***************************************************************************)

\* f is kept, or a finding at least as risky that ends after f's start is.
Outweighed(f, s) ==
  \E j \in DOMAIN s : s[j].risk >= f.risk /\ End(s[j]) > f.pos

\* Whatever outweighed an earlier finding, or a riskier one in its place,
\* still does after an iteration.
LEMMA IterateRisk ==
  ASSUME IInv, RiskIsKept, Iterate
  PROVE  RiskIsKept'
<1> DEFINE f == findings[next]
<1>1. /\ next \in Nat /\ next \in DOMAIN findings /\ next' = next + 1
      /\ UNCHANGED findings /\ f \in Finding
  BY DEF IInv, TypeOK, Iterate
<1>2. \A i \in DOMAIN result : result[i] \in Finding
  BY DEF IInv, TypeOK
<1>3. \A i \in 1..(next - 1) :
        /\ findings[i] \in Finding /\ findings[i].pos <= f.pos
        /\ Outweighed(findings[i], result)
  BY <1>1 DEF IInv, TypeOK, SortedByPosition, RiskIsKept, Outweighed
<1>4. SUFFICES \A i \in 1..next : Outweighed(findings[i], result')
  BY <1>1 DEF RiskIsKept, Outweighed, End
<1>5. CASE \E i \in DOMAIN result :
             /\ OverlapRanges(result[i], f)
             /\ result' = IF f.risk > result[i].risk
                          THEN [result EXCEPT ![i] = f] ELSE result
  <2>1. PICK i \in DOMAIN result :
          /\ OverlapRanges(result[i], f)
          /\ result' = IF f.risk > result[i].risk
                       THEN [result EXCEPT ![i] = f] ELSE result
    BY <1>5
  <2>2. CASE f.risk > result[i].risk
    <3>1. /\ DOMAIN result' = DOMAIN result /\ result'[i] = f
          /\ \A j \in DOMAIN result : j # i => result'[j] = result[j]
      BY <2>1, <2>2 DEF IInv, TypeOK
    <3>2. Outweighed(f, result')
      BY <1>1, <3>1, FindingFields DEF Outweighed
    <3>3. ASSUME NEW k \in 1..(next - 1) PROVE Outweighed(findings[k], result')
      <4>1. PICK j \in DOMAIN result : /\ result[j].risk >= findings[k].risk
                                       /\ End(result[j]) > findings[k].pos
        BY <1>3 DEF Outweighed
      <4>2. CASE j # i
        BY <3>1, <4>1, <4>2 DEF Outweighed
      <4>3. CASE j = i
        <5>1. f.risk >= findings[k].risk
          BY <1>1, <1>2, <1>3, <2>2, <4>1, <4>3, FindingFields
        <5>2. End(f) > findings[k].pos
          BY <1>1, <1>3, FindingFields
        <5>3. QED
          BY <3>1, <5>1, <5>2 DEF Outweighed
      <4>4. QED BY <4>2, <4>3
    <3>4. QED BY <1>1, <3>2, <3>3
  <2>3. CASE ~(f.risk > result[i].risk)
    <3>1. result' = result
      BY <2>1, <2>3
    <3>2. result[i].risk >= f.risk /\ End(result[i]) > f.pos
      BY <1>1, <1>2, <2>1, <2>3, FindingFields DEF OverlapRanges
    <3>3. Outweighed(f, result')
      BY <3>1, <3>2 DEF Outweighed
    <3>4. QED BY <1>1, <1>3, <3>1, <3>3
  <2>4. QED BY <2>2, <2>3
<1>6. CASE result' = Append(result, f)
  <2>1. /\ Len(result) + 1 \in DOMAIN result' /\ result'[Len(result) + 1] = f
        /\ \A j \in DOMAIN result : j \in DOMAIN result' /\ result'[j] = result[j]
    BY <1>1, <1>6 DEF IInv, TypeOK
  <2>2. Outweighed(f, result')
    BY <1>1, <2>1, FindingFields DEF Outweighed
  <2>3. \A k \in 1..(next - 1) : Outweighed(findings[k], result')
    BY <1>3, <2>1 DEF Outweighed
  <2>4. QED BY <1>1, <2>2, <2>3
<1>7. QED
  BY <1>5, <1>6 DEF Iterate, KeepOrReplace

\* A finding gives way only to one at least as risky that reaches past its
\* start.
THEOREM RiskierFindingsWin == Spec => []RiskIsKept
<1>1. Init => RiskIsKept
  BY DEF Init, RiskIsKept
<1>2. IInv /\ RiskIsKept /\ [Next]_vars => RiskIsKept'
  <2>1. ASSUME IInv, RiskIsKept, Next PROVE RiskIsKept'
    BY <2>1, IterateRisk DEF Next
  <2>2. ASSUME RiskIsKept, UNCHANGED vars PROVE RiskIsKept'
    BY <2>2 DEF vars, RiskIsKept, End
  <2>3. QED BY <2>1, <2>2
<1>3. QED
  BY <1>1, <1>2, Invariance, PTL DEF Spec

(***************************************************************************)
(* The cuts.                                                               *)
(*                                                                         *)
(* That they can be undone is not inductive: a cut removes what lies at    *)
(* its offsets, and these are offsets into the original text.  So the      *)
(* invariant says that the text is still the original as far as the end of *)
(* every finding that remains; the cut findings lie behind all of those.   *)
(***************************************************************************)

Piece == [raw : BOOLEAN, stands : Seq(Nat)]

TextIsPieces == text \in Seq(Piece)

IntactUpTo(n) == n <= Len(text) /\ \A k \in 1..n : text[k] = Character(k - 1)

CutInv ==
  /\ IInv
  /\ findings \in Seq(Matches) /\ result \in Seq(Matches)
  /\ TextIsPieces
  /\ ~Done => cut = {} /\ text = Original
  /\ \A g \in Remaining : IntactUpTo(End(g))
  /\ CutsAreReversible

\* The fields of a finding that lies within the text.
LEMMA MatchFields ==
  ASSUME NEW f \in Matches
  PROVE  /\ f \in Finding /\ f.pos \in Nat /\ f.len \in Nat /\ f.len >= 1
         /\ f.skip \in Nat /\ f.drop \in Nat /\ f.skip + f.drop <= f.len
         /\ End(f) = f.pos + f.len /\ End(f) <= TextLen
<1>1. /\ f \in Finding /\ End(f) <= TextLen /\ f.skip + f.drop <= f.len
      /\ f.skip \in 0..MaxDrop /\ f.drop \in 0..MaxDrop
  BY DEF Matches, Finding
<1>2. f.skip \in Nat /\ f.drop \in Nat
  BY <1>1, NumbersAssumption
<1> QED
  BY <1>1, <1>2, FindingFields

\* Where the Value of a finding begins and ends.
ValueStart(f) == f.pos + f.skip
ValueEnd(f) == f.pos + f.len - f.drop - 1

\* What a placeholder stands for.
LEMMA ValueIsASegment ==
  ASSUME NEW f \in Matches
  PROVE  /\ PlaceholderFor(f) \in Piece
         /\ IsStrictlyIncreasing(PlaceholderFor(f).stands)
         /\ Characters(PlaceholderFor(f)) = ValueStart(f)..ValueEnd(f)
         /\ LeftOut(f) = (f.pos..f.pos + f.len - 1) \ (ValueStart(f)..ValueEnd(f))
         /\ f.pos <= ValueStart(f) /\ ValueEnd(f) <= f.pos + f.len - 1
<1>1. /\ f.pos \in Nat /\ f.len \in Nat /\ f.skip \in Nat /\ f.drop \in Nat
      /\ f.skip + f.drop <= f.len /\ End(f) = f.pos + f.len
  BY MatchFields
<1> DEFINE n == f.len - f.skip - f.drop
<1>2. /\ n \in Nat /\ DOMAIN Value(f) = 1..n
      /\ \A i \in 1..n : Value(f)[i] = f.pos + f.skip + i - 1
  BY <1>1 DEF Value
<1>3. Value(f) \in Seq(Nat)
  BY <1>1, <1>2 DEF Value
<1>4. PlaceholderFor(f) \in Piece /\ PlaceholderFor(f).stands = Value(f)
  BY <1>3 DEF PlaceholderFor, Piece
<1>5. IsStrictlyIncreasing(Value(f))
  BY <1>1, <1>2 DEF IsStrictlyIncreasing
<1>6. ToSet(Value(f)) = ValueStart(f)..ValueEnd(f)
  <2>1. ASSUME NEW a \in ToSet(Value(f)) PROVE a \in ValueStart(f)..ValueEnd(f)
    BY <1>1, <1>2 DEF ToSet, ValueStart, ValueEnd
  <2>2. ASSUME NEW a \in ValueStart(f)..ValueEnd(f) PROVE a \in ToSet(Value(f))
    <3> DEFINE i == a - f.pos - f.skip + 1
    <3>1. i \in 1..n /\ f.pos + f.skip + i - 1 = a
      BY <1>1 DEF ValueStart, ValueEnd
    <3> HIDE DEF i, n
    <3> QED BY <1>2, <3>1 DEF ToSet
  <2> QED BY <2>1, <2>2
<1>7. LeftOut(f) = (f.pos..f.pos + f.len - 1) \ (ValueStart(f)..ValueEnd(f))
  BY <1>1, <1>6 DEF LeftOut, Span
<1> QED
  BY <1>1, <1>4, <1>5, <1>6, <1>7 DEF Characters, ValueStart, ValueEnd

\* The original text.
LEMMA OriginalPieces ==
  /\ TextLen \in Nat
  /\ Original \in Seq(Piece) /\ Len(Original) = TextLen /\ DOMAIN Original = 1..TextLen
  /\ \A k \in 1..TextLen :
       /\ Original[k] = Character(k - 1)
       /\ IsStrictlyIncreasing(Original[k].stands)
       /\ Characters(Original[k]) = {k - 1}
<1>1. TextLen \in Nat
  BY NumbersAssumption
<1>2. ASSUME NEW k \in 1..TextLen
      PROVE  /\ Character(k - 1) \in Piece
             /\ IsStrictlyIncreasing(Character(k - 1).stands)
             /\ Characters(Character(k - 1)) = {k - 1}
  <2>1. k - 1 \in Nat
    BY <1>1
  <2>2. <<k - 1>> \in Seq(Nat) /\ DOMAIN <<k - 1>> = {1} /\ <<k - 1>>[1] = k - 1
    BY <2>1
  <2>3. Character(k - 1).stands = <<k - 1>> /\ Character(k - 1) \in Piece
    BY <2>2 DEF Character, Piece
  <2> QED
    BY <2>2, <2>3 DEF IsStrictlyIncreasing, Characters, ToSet
<1>3. Original = [k \in 1..TextLen |-> Character(k - 1)]
  BY DEF Original
<1>4. Original \in Seq(Piece) /\ Len(Original) = TextLen
  BY <1>1, <1>2, <1>3
<1> QED
  BY <1>1, <1>2, <1>3, <1>4

\* Nothing is cut yet.
LEMMA UncutIsReversible ==
  ASSUME text = Original, cut = {}
  PROVE  /\ text \in Seq(Piece) /\ CutsAreReversible
         /\ \A f \in Matches : IntactUpTo(End(f))
<1>1. \A i \in DOMAIN text : IsStrictlyIncreasing(text[i].stands)
  BY OriginalPieces
<1>2. ASSUME NEW i \in DOMAIN text, NEW j \in DOMAIN text, i < j,
             NEW a \in Characters(text[i]), NEW b \in Characters(text[j])
      PROVE  a < b
  <2>1. i \in 1..TextLen /\ j \in 1..TextLen /\ a = i - 1 /\ b = j - 1 /\ TextLen \in Nat
    BY OriginalPieces
  <2> QED BY <1>2, <2>1
<1>3. UNION {Characters(text[i]) : i \in DOMAIN text} = 0..TextLen - 1
  <2>1. TextLen \in Nat
    BY OriginalPieces
  <2>2. ASSUME NEW a \in 0..TextLen - 1
        PROVE  a + 1 \in DOMAIN text /\ a \in Characters(text[a + 1])
    <3>1. a + 1 \in 1..TextLen /\ a + 1 - 1 = a
      BY <2>1
    <3> QED BY <3>1, OriginalPieces
  <2>3. ASSUME NEW i \in DOMAIN text PROVE Characters(text[i]) \subseteq 0..TextLen - 1
    <3>1. i \in 1..TextLen /\ Characters(text[i]) = {i - 1}
      BY OriginalPieces
    <3> QED BY <2>1, <3>1
  <2> QED BY <2>2, <2>3
<1>4. UNION {LeftOut(f) : f \in cut} = {}
  OBVIOUS
<1>5. CutsAreReversible
  BY <1>1, <1>2, <1>3, <1>4 DEF CutsAreReversible
<1>6. \A f \in Matches : IntactUpTo(End(f))
  <2> SUFFICES ASSUME NEW f \in Matches PROVE IntactUpTo(End(f))
    OBVIOUS
  <2>1. End(f) <= TextLen /\ End(f) \in Nat
    BY MatchFields
  <2> QED BY <2>1, OriginalPieces DEF IntactUpTo
<1> QED
  BY <1>5, <1>6, OriginalPieces

Around(s, x, t) == s \o <<x>> \o t

\* The elements of a concatenation around one element.
LEMMA Joined ==
  ASSUME NEW S, NEW s \in Seq(S), NEW x \in S, NEW t \in Seq(S)
  PROVE  /\ Around(s, x, t) \in Seq(S)
         /\ Len(Around(s, x, t)) = Len(s) + 1 + Len(t)
         /\ \A i \in 1..Len(s) : Around(s, x, t)[i] = s[i]
         /\ Around(s, x, t)[Len(s) + 1] = x
         /\ \A i \in 1..Len(t) : Around(s, x, t)[Len(s) + 1 + i] = t[i]
<1>1. Around(s, x, t) \in Seq(S) /\ Len(Around(s, x, t)) = Len(s) + 1 + Len(t)
  BY DEF Around
<1>2. ASSUME NEW i \in 1..Len(s) PROVE Around(s, x, t)[i] = s[i]
  BY DEF Around
<1>3. Around(s, x, t)[Len(s) + 1] = x
  BY DEF Around
<1>4. ASSUME NEW i \in 1..Len(t) PROVE Around(s, x, t)[Len(s) + 1 + i] = t[i]
  BY DEF Around
<1> QED
  BY <1>1, <1>2, <1>3, <1>4

\* The elements of a segment.
LEMMA Segment ==
  ASSUME NEW S, NEW t \in Seq(S), NEW m \in Nat, NEW n \in Nat, m <= n, n <= Len(t)
  PROVE  /\ SubSeq(t, m + 1, n) \in Seq(S) /\ Len(SubSeq(t, m + 1, n)) = n - m
         /\ \A i \in 1..n - m : SubSeq(t, m + 1, n)[i] = t[m + i]
  OBVIOUS

\* The pieces after a cut, by the pieces before it.
LEMMA PiecesAfterCut ==
  ASSUME NEW f \in Matches, TextIsPieces, IntactUpTo(End(f)), Cut(f)
  PROVE  /\ text' \in Seq(Piece) /\ Len(text') = Len(text) - f.len + 1
         /\ \A i \in 1..f.pos : text'[i] = text[i]
         /\ text'[f.pos + 1] = PlaceholderFor(f)
         /\ \A i \in f.pos + 2..Len(text') : text'[i] = text[i + f.len - 1]
<1> DEFINE n == f.pos
           l == f.len
           x == PlaceholderFor(f)
           a == SubSeq(text, 0 + 1, n)
           c == SubSeq(text, n + l + 1, Len(text))
<1>1. /\ n \in Nat /\ l \in Nat /\ l > 0 /\ End(f) = n + l /\ n + l <= Len(text)
      /\ x \in Piece /\ Len(text) \in Nat /\ n + l \in Nat
  BY MatchFields, FindingFields, ValueIsASegment DEF IntactUpTo, TextIsPieces
<1>2. text' = Around(a, x, c)
  BY <1>1 DEF Cut, Around
<1>3. a \in Seq(Piece) /\ Len(a) = n /\ \A i \in 1..n : a[i] = text[i]
  <2>1. 0 \in Nat /\ 0 <= n /\ n <= Len(text) /\ n - 0 = n /\ \A i \in 1..n : 0 + i = i
    BY <1>1
  <2> HIDE DEF n
  <2> QED BY <1>1, <2>1, Segment DEF TextIsPieces
<1>4. /\ c \in Seq(Piece) /\ Len(c) = Len(text) - (n + l)
      /\ \A i \in 1..Len(text) - (n + l) : c[i] = text[n + l + i]
  <2>1. Len(text) <= Len(text)
    BY <1>1
  <2> HIDE DEF n, l
  <2> QED BY <1>1, <2>1, Segment DEF TextIsPieces
<1> HIDE DEF a, c, x, n, l
<1>5. /\ text' \in Seq(Piece) /\ Len(text') = Len(a) + 1 + Len(c)
      /\ \A i \in 1..Len(a) : text'[i] = a[i]
      /\ text'[Len(a) + 1] = x
      /\ \A i \in 1..Len(c) : text'[Len(a) + 1 + i] = c[i]
  <2> DEFINE r == Around(a, x, c)
  <2>1. a \in Seq(Piece) /\ x \in Piece /\ c \in Seq(Piece)
    BY <1>1, <1>3, <1>4
  <2>2. r \in Seq(Piece) /\ Len(r) = Len(a) + 1 + Len(c) /\ r[Len(a) + 1] = x
    BY <2>1, Joined
  <2>3. \A i \in 1..Len(a) : r[i] = a[i]
    BY <2>1, Joined
  <2>4. \A i \in 1..Len(c) : r[Len(a) + 1 + i] = c[i]
    BY <2>1, Joined
  <2> HIDE DEF r
  <2>5. text' = r
    BY <1>2 DEF r
  <2> QED BY <2>2, <2>3, <2>4, <2>5, Zenon
<1>6. Len(text') = Len(text) - l + 1
  BY <1>1, <1>3, <1>4, <1>5
<1>7. ASSUME NEW i \in n + 2..Len(text') PROVE text'[i] = text[i + l - 1]
  <2> DEFINE k == i - n - 1
  <2>1. k \in 1..Len(text) - (n + l) /\ n + l + k = i + l - 1 /\ n + 1 + k = i
    BY <1>1, <1>6
  <2> HIDE DEF k
  <2>2. text'[n + 1 + k] = c[k] /\ c[k] = text[n + l + k]
    BY <1>3, <1>4, <1>5, <2>1, Zenon
  <2> QED BY <2>1, <2>2
<1>8. \A i \in 1..n : text'[i] = text[i]
  BY <1>3, <1>5
<1>9. text'[n + 1] = x
  BY <1>3, <1>5
<1> QED
  BY <1>5, <1>6, <1>7, <1>8, <1>9 DEF n, l, x

\* The characters of a piece after a cut belonged to a piece before it
\* (p and l are the position and length of the finding).
Origin(i, k, p, l) ==
  /\ k \in DOMAIN text
  /\ i <= p => k = i
  /\ i = p + 1 => k \in p + 1..p + l
  /\ i > p + 1 => k = i + l - 1

\* Where the text is the original, a piece is one character.
LEMMA IntactPieces ==
  ASSUME NEW f \in Matches, TextIsPieces, IntactUpTo(End(f)), NEW k \in 1..End(f)
  PROVE  k \in DOMAIN text /\ Characters(text[k]) = {k - 1}
<1>1. End(f) \in Nat /\ End(f) <= TextLen /\ TextLen \in Nat
  BY MatchFields, OriginalPieces
<1>2. Len(text) \in Nat /\ DOMAIN text = 1..Len(text) /\ End(f) <= Len(text)
  BY DEF TextIsPieces, IntactUpTo
<1>3. k \in 1..Len(text) /\ k \in 1..TextLen
  BY <1>1, <1>2
<1>4. text[k] = Original[k]
  BY <1>3, OriginalPieces DEF IntactUpTo
<1> QED
  BY <1>2, <1>3, <1>4, OriginalPieces

\* Where the pieces after a cut come from: every character of a piece was one
\* of a piece of its origin, and every character but those the finding's
\* capturing group leaves out is still one of a piece.
LEMMA CutMovesPieces ==
  ASSUME NEW f \in Matches, TextIsPieces, IntactUpTo(End(f)), Cut(f)
  PROVE  /\ \A i \in DOMAIN text' : \A a \in Characters(text'[i]) :
              \E k : Origin(i, k, f.pos, f.len) /\ a \in Characters(text[k])
         /\ \A k \in DOMAIN text : \A a \in Characters(text[k]) \ LeftOut(f) :
              \E i \in DOMAIN text' : a \in Characters(text'[i])
         /\ \A i \in DOMAIN text' : IsStrictlyIncreasing(text'[i].stands)
              \/ \E k \in DOMAIN text : text'[i] = text[k]
<1> DEFINE p == f.pos
           l == f.len
           v == ValueStart(f)
           w == ValueEnd(f)
           n == Len(text)
           m == Len(text')
<1>1. /\ p \in Nat /\ l \in Nat /\ l > 0 /\ End(f) = p + l
      /\ v \in Int /\ w \in Int /\ p <= v /\ w <= p + l - 1
      /\ p + l <= n /\ n \in Nat /\ DOMAIN text = 1..n
  BY MatchFields, FindingFields, ValueIsASegment DEF ValueStart, ValueEnd, IntactUpTo, TextIsPieces
<1>2. /\ m = n - l + 1 /\ DOMAIN text' = 1..m
      /\ \A i \in 1..p : text'[i] = text[i]
      /\ text'[p + 1] = PlaceholderFor(f)
      /\ \A i \in p + 2..m : text'[i] = text[i + l - 1]
  BY PiecesAfterCut
<1>3. /\ IsStrictlyIncreasing(PlaceholderFor(f).stands)
      /\ Characters(PlaceholderFor(f)) = v..w
      /\ LeftOut(f) = (p..p + l - 1) \ (v..w)
  BY ValueIsASegment
<1>4. \A k \in p + 1..p + l : k \in DOMAIN text /\ Characters(text[k]) = {k - 1}
  <2>1. \A k \in p + 1..p + l : k \in 1..End(f)
    BY <1>1
  <2> QED BY <2>1, IntactPieces
<1> HIDE DEF p, l, v, w, n, m
<1>5. ASSUME NEW i \in DOMAIN text' PROVE i \in 1..p \/ i = p + 1 \/ i \in p + 2..m
  BY <1>1, <1>2
<1>6. ASSUME NEW i \in p + 2..m
      PROVE  i + l - 1 \in DOMAIN text /\ Origin(i, i + l - 1, p, l)
  BY <1>1, <1>2 DEF Origin
<1>7. ASSUME NEW i \in 1..p PROVE i \in DOMAIN text /\ i \in DOMAIN text' /\ Origin(i, i, p, l)
  BY <1>1, <1>2 DEF Origin
<1>8. ASSUME NEW i \in DOMAIN text', NEW a \in Characters(text'[i])
      PROVE  \E k : Origin(i, k, p, l) /\ a \in Characters(text[k])
  <2>1. CASE i \in 1..p
    BY <1>2, <1>7, <1>8, <2>1
  <2>2. CASE i \in p + 2..m
    BY <1>2, <1>6, <1>8, <2>2
  <2>3. CASE i = p + 1
    <3>1. a \in v..w
      BY <1>2, <1>3, <1>8, <2>3
    <3> DEFINE k == a + 1
    <3>2. k \in p + 1..p + l /\ k - 1 = a
      BY <1>1, <3>1
    <3> HIDE DEF k
    <3>3. k \in DOMAIN text /\ Characters(text[k]) = {k - 1}
      BY <1>4, <3>2
    <3>4. a \in Characters(text[k])
      BY <3>2, <3>3
    <3>5. Origin(i, k, p, l)
      BY <1>1, <2>3, <3>2, <3>3 DEF Origin
    <3> QED BY <3>4, <3>5
  <2> QED BY <1>5, <2>1, <2>2, <2>3
<1>9. ASSUME NEW k \in DOMAIN text, NEW a \in Characters(text[k]) \ LeftOut(f)
      PROVE  \E i \in DOMAIN text' : a \in Characters(text'[i])
  <2>1. CASE k \in 1..p
    BY <1>2, <1>7, <2>1
  <2>2. CASE k \in p + 1..p + l
    <3>1. a = k - 1
      BY <1>4, <2>2
    <3>2. a \in v..w
      BY <1>1, <1>3, <2>2, <3>1
    <3>3. p + 1 \in DOMAIN text'
      BY <1>1, <1>2
    <3> QED BY <1>2, <1>3, <3>2, <3>3
  <2>3. CASE k \in p + l + 1..n
    <3> DEFINE i == k - l + 1
    <3>1. i \in p + 2..m /\ i + l - 1 = k /\ i \in DOMAIN text'
      <4>1. k \in Nat /\ p + l + 1 <= k /\ k <= n
        BY <1>1, <2>3
      <4>2. i \in Nat /\ p + 2 <= i /\ i <= m /\ i + l - 1 = k /\ m \in Nat
        <5>1. l \in Nat /\ p \in Nat /\ n \in Nat /\ p + l <= n /\ m = n - l + 1
          BY <1>1, <1>2
        <5> QED BY <4>1, <5>1
      <4>3. i \in p + 2..m /\ i \in 1..m
        BY <1>1, <4>2
      <4> QED BY <1>2, <4>2, <4>3
    <3> HIDE DEF i
    <3>2. text'[i] = text[k]
      BY <1>2, <3>1
    <3> QED BY <3>1, <3>2
  <2> QED BY <1>1, <1>2, <2>1, <2>2, <2>3
<1>10. ASSUME NEW i \in DOMAIN text'
       PROVE  IsStrictlyIncreasing(text'[i].stands) \/ \E k \in DOMAIN text : text'[i] = text[k]
  BY <1>2, <1>3, <1>5, <1>6, <1>7
<1> QED
  BY <1>8, <1>9, <1>10 DEF p, l

\* A cut can be undone when it is made where the text is still the original.
LEMMA CutIsReversible ==
  ASSUME NEW f \in Matches, TextIsPieces, IntactUpTo(End(f)), Cut(f),
         CutsAreReversible
  PROVE  CutsAreReversible'
<1> DEFINE p == f.pos
           l == f.len
           v == ValueStart(f)
           w == ValueEnd(f)
           n == Len(text)
           m == Len(text')
<1>1. /\ p \in Nat /\ l \in Nat /\ l > 0 /\ End(f) = p + l
      /\ v \in Int /\ w \in Int /\ p <= v /\ w <= p + l - 1
      /\ p + l <= n /\ n \in Nat /\ DOMAIN text = 1..n
  BY MatchFields, FindingFields, ValueIsASegment DEF ValueStart, ValueEnd, IntactUpTo, TextIsPieces
<1>2. /\ m = n - l + 1 /\ DOMAIN text' = 1..m
      /\ text'[p + 1] = PlaceholderFor(f)
  BY PiecesAfterCut
<1>3. /\ Characters(PlaceholderFor(f)) = v..w
      /\ LeftOut(f) = (p..p + l - 1) \ (v..w)
  BY ValueIsASegment
<1>4. /\ \A i \in DOMAIN text' : \A a \in Characters(text'[i]) :
           \E k : Origin(i, k, p, l) /\ a \in Characters(text[k])
      /\ \A k \in DOMAIN text : \A a \in Characters(text[k]) \ LeftOut(f) :
           \E i \in DOMAIN text' : a \in Characters(text'[i])
      /\ \A i \in DOMAIN text' : IsStrictlyIncreasing(text'[i].stands)
           \/ \E k \in DOMAIN text : text'[i] = text[k]
  BY CutMovesPieces
<1> HIDE DEF p, l, v, w, n, m
<1>5. /\ \A i \in DOMAIN text : IsStrictlyIncreasing(text[i].stands)
      /\ \A i, j \in DOMAIN text :
           i < j => \A a \in Characters(text[i]), b \in Characters(text[j]) : a < b
      /\ UNION {Characters(text[i]) : i \in DOMAIN text} =
           (0..TextLen - 1) \ UNION {LeftOut(g) : g \in cut}
  BY DEF CutsAreReversible
<1>6. \A i \in DOMAIN text' : IsStrictlyIncreasing(text'[i].stands)
  BY <1>4, <1>5
<1>7. ASSUME NEW i \in DOMAIN text', NEW j \in DOMAIN text', i < j,
             NEW a \in Characters(text'[i]), NEW b \in Characters(text'[j])
      PROVE  a < b
  <2>1. PICK k : Origin(i, k, p, l) /\ a \in Characters(text[k])
    BY <1>4, <1>7
  <2>2. PICK h : Origin(j, h, p, l) /\ b \in Characters(text[h])
    BY <1>4, <1>7
  <2>3. k \in DOMAIN text /\ h \in DOMAIN text /\ k < h
    <3>1. i \in Nat /\ j \in Nat
      BY <1>2
    <3>2. k \in Nat /\ h \in Nat
      BY <1>1, <2>1, <2>2 DEF Origin
    <3> QED BY <1>1, <1>7, <2>1, <2>2, <3>1, <3>2 DEF Origin
  <2> QED BY <1>5, <2>1, <2>2, <2>3
<1>8. ASSUME NEW i \in DOMAIN text', NEW a \in Characters(text'[i])
      PROVE  a \notin LeftOut(f)
  <2> SUFFICES ASSUME a \in LeftOut(f) PROVE FALSE
    OBVIOUS
  <2>1. a \in Nat /\ a + 1 \in p + 1..p + l /\ a + 1 \in DOMAIN text
    BY <1>1, <1>3
  <2>2. a \in Characters(text[a + 1])
    <3> DEFINE k == a + 1
    <3>1. k \in 1..End(f) /\ k - 1 = a
      BY <1>1, <2>1
    <3> HIDE DEF k
    <3>2. Characters(text[k]) = {k - 1}
      BY <3>1, IntactPieces
    <3>3. a \in Characters(text[k])
      BY <3>1, <3>2
    <3> QED BY <3>3 DEF k
  <2>3. CASE i = p + 1
    BY <1>1, <1>2, <1>3, <1>8, <2>3
  <2>4. CASE i # p + 1
    <3>1. PICK k : Origin(i, k, p, l) /\ a \in Characters(text[k])
      BY <1>4, <1>8
    <3>2. i \in Nat
      BY <1>2
    <3>3. k \in DOMAIN text /\ (k < a + 1 \/ a + 1 < k)
      BY <1>1, <2>1, <2>4, <3>1, <3>2 DEF Origin
    <3>4. a < a
      BY <1>5, <2>1, <2>2, <3>1, <3>3
    <3> QED BY <2>1, <3>4
  <2> QED BY <2>3, <2>4
<1>9. cut' = cut \cup {f}
  BY DEF Cut
<1>10. UNION {Characters(text'[i]) : i \in DOMAIN text'} =
         (UNION {Characters(text[i]) : i \in DOMAIN text}) \ LeftOut(f)
  <2>1. ASSUME NEW i \in DOMAIN text', NEW a \in Characters(text'[i])
        PROVE  a \notin LeftOut(f) /\ \E k \in DOMAIN text : a \in Characters(text[k])
    BY <1>4, <1>8, <2>1 DEF Origin
  <2>2. ASSUME NEW k \in DOMAIN text, NEW a \in Characters(text[k]), a \notin LeftOut(f)
        PROVE  \E i \in DOMAIN text' : a \in Characters(text'[i])
    BY <1>4, <2>2
  <2> QED BY <2>1, <2>2
<1>11. UNION {LeftOut(g) : g \in cut'} = (UNION {LeftOut(g) : g \in cut}) \cup LeftOut(f)
  BY <1>9
<1>12. UNION {Characters(text'[i]) : i \in DOMAIN text'} =
         (0..TextLen - 1) \ UNION {LeftOut(g) : g \in cut'}
  BY <1>5, <1>10, <1>11
<1> QED
  BY <1>6, <1>7, <1>12 DEF CutsAreReversible

\* An iteration of the overlap loop finds the text uncut.
LEMMA DedupKeepsCutInv ==
  ASSUME CutInv, Dedup
  PROVE  CutInv'
<1>1. /\ IInv /\ findings \in Seq(Matches) /\ result \in Seq(Matches)
      /\ Iterate /\ text' = text /\ cut' = cut
      /\ next <= Len(findings) /\ next \in DOMAIN findings
      /\ findings' = findings
  BY DEF CutInv, Dedup, Iterate, IInv, TypeOK
<1>2. text = Original /\ cut = {} /\ TextIsPieces
  BY <1>1 DEF CutInv, Done
<1>3. IInv'
  BY <1>1, IterateIInv
<1>4. result' \in Seq(Matches)
  <2>1. findings[next] \in Matches
    BY <1>1
  <2>2. CASE result' = result
    BY <1>1, <2>2
  <2>3. CASE \E i \in DOMAIN result : result' = [result EXCEPT ![i] = findings[next]]
    BY <1>1, <2>1, <2>3
  <2>4. CASE result' = Append(result, findings[next])
    BY <1>1, <2>1, <2>4
  <2> QED
    BY <1>1, <2>2, <2>3, <2>4 DEF Iterate, KeepOrReplace
<1>5. CutsAreReversible /\ \A f \in Matches : IntactUpTo(End(f))
  BY <1>2, UncutIsReversible
<1>6. CutsAreReversible'
  BY <1>1, <1>5 DEF CutsAreReversible
<1>7. ASSUME NEW g \in Remaining' PROVE IntactUpTo(End(g))'
  <2>1. g \in Matches
    BY <1>4, <1>7 DEF Remaining, ToSet
  <2> QED BY <1>1, <1>5, <2>1 DEF IntactUpTo, End
<1>8. TextIsPieces' /\ (~Done => cut = {} /\ text = Original)' /\ findings' \in Seq(Matches)
  BY <1>1, <1>2 DEF TextIsPieces, Original
<1> QED
  BY <1>3, <1>4, <1>6, <1>7, <1>8 DEF CutInv

\* The last remaining finding is the one the cut is made at, so every other
\* one ends before it.
LEMMA OthersEndBefore ==
  ASSUME CutInv, NEW f \in Remaining, NEW g \in Remaining, g # f, g.pos <= f.pos
  PROVE  f \in Matches /\ g \in Matches /\ End(g) <= f.pos
<1>1. PICK i \in DOMAIN result, j \in DOMAIN result : f = result[i] /\ g = result[j]
  BY DEF Remaining, ToSet
<1>2. result \in Seq(Matches) /\ KeptAreDisjoint
  BY DEF CutInv, IInv
<1>3. f \in Matches /\ g \in Matches /\ i \in Nat /\ j \in Nat
  BY <1>1, <1>2
<1>4. i < j => End(f) <= g.pos
  BY <1>1, <1>2 DEF KeptAreDisjoint
<1>5. j < i => End(g) <= f.pos
  BY <1>1, <1>2 DEF KeptAreDisjoint
<1>6. i # j
  BY <1>1
<1>7. ~(End(f) <= g.pos)
  <2>1. f.pos \in Nat /\ g.pos \in Nat /\ End(f) \in Nat /\ End(f) > f.pos
    BY <1>3, MatchFields, FindingFields
  <2> QED BY <2>1
<1> QED
  BY <1>3, <1>4, <1>5, <1>6, <1>7

\* A cut leaves the text before it as it is, and everything that remains lies
\* there.
LEMMA CutKeepsCutInv ==
  ASSUME CutInv, NEW f \in Remaining, Cut(f)
  PROVE  CutInv'
<1>1. /\ IInv /\ result \in Seq(Matches) /\ TextIsPieces /\ CutsAreReversible
      /\ IntactUpTo(End(f)) /\ findings \in Seq(Matches)
  BY DEF CutInv
<1>2. /\ Done /\ cut' = cut \cup {f}
      /\ findings' = findings /\ next' = next /\ result' = result
      /\ \A g \in Remaining : g.pos <= f.pos
  BY DEF Cut, vars
<1>3. f \in Matches
  BY <1>1 DEF Remaining, ToSet
<1>4. IInv'
  BY <1>1, <1>2 DEF IInv, TypeOK, SortedByPosition, KeptAreBehind, KeptAreDisjoint, End
<1>5. CutsAreReversible'
  BY <1>1, <1>3, CutIsReversible
<1>6. /\ TextIsPieces' /\ Len(text') = Len(text) - f.len + 1
      /\ \A k \in 1..f.pos : text'[k] = text[k]
  BY <1>1, <1>3, PiecesAfterCut DEF TextIsPieces
<1>7. ASSUME NEW g \in Remaining' PROVE IntactUpTo(End(g))'
  <2>1. g \in Remaining /\ g # f
    BY <1>2, <1>7 DEF Remaining, ToSet
  <2>2. g \in Matches /\ End(g) <= f.pos
    BY <1>2, <2>1, OthersEndBefore
  <2> DEFINE e == End(g)
             p == f.pos
             n == Len(text)
             m == Len(text')
  <2>3. /\ e \in Nat /\ p \in Nat /\ e <= p /\ n \in Nat
        /\ p + f.len <= n /\ f.len \in Nat /\ m = n - f.len + 1
    <3>1. /\ e \in Nat /\ p \in Nat /\ f.len \in Nat /\ End(f) = p + f.len
      <4>1. End(g) = g.pos + g.len /\ g.pos \in Nat /\ g.len \in Nat
        BY <2>2, MatchFields
      <4>2. f.pos \in Nat /\ f.len \in Nat /\ End(f) = f.pos + f.len
        BY <1>1, <1>3, MatchFields
      <4> QED BY <4>1, <4>2
    <3>2. n \in Nat /\ End(f) <= n
      BY <1>1, <1>3 DEF IntactUpTo, TextIsPieces
    <3> QED BY <1>6, <2>2, <3>1, <3>2
  <2>4. \A k \in 1..e : k \in 1..p
    BY <2>3
  <2>5. e <= m
    <3> HIDE DEF e, p, n, m
    <3> QED BY <2>3
  <2>6. \A k \in 1..e : text[k] = Character(k - 1)
    BY <2>1 DEF CutInv, IntactUpTo
  <2>7. \A k \in 1..e : text'[k] = Character(k - 1)
    BY <1>6, <2>4, <2>6
  <2> QED BY <2>5, <2>7 DEF IntactUpTo, End, Character
<1> QED
  BY <1>1, <1>2, <1>4, <1>5, <1>6, <1>7 DEF CutInv, Done

\* Before the loop the text is the original.
LEMMA CutInitInv == CutInit => CutInv
<1> SUFFICES ASSUME CutInit PROVE CutInv
  OBVIOUS
<1>1. Init /\ text = Original /\ cut = {} /\ result = <<>>
  BY DEF CutInit, Init
<1>2. findings \in Seq(Matches)
  <2>1. PICK n \in 0..MaxFindings : findings \in [1..n -> Matches]
    BY <1>1 DEF Init
  <2>2. n \in Nat
    BY <2>1, NumbersAssumption
  <2> QED BY <2>1, <2>2
<1>3. IInv /\ TextIsPieces /\ CutsAreReversible
  BY <1>1, InitIInv, UncutIsReversible DEF TextIsPieces
<1>4. result \in Seq(Matches) /\ Remaining = {}
  BY <1>1 DEF Remaining, ToSet
<1> QED
  BY <1>1, <1>2, <1>3, <1>4 DEF CutInv

\* The invariant holds through the loop and all cuts.
LEMMA CutInvariance == CutSpec => []CutInv
<1>1. ASSUME CutInv, [CutNext]_cutVars PROVE CutInv'
  <2>1. CASE Dedup
    BY <1>1, <2>1, DedupKeepsCutInv
  <2>2. CASE \E f \in Remaining : Cut(f)
    BY <1>1, <2>2, CutKeepsCutInv
  <2>3. CASE UNCHANGED cutVars
    <3>1. /\ findings' = findings /\ next' = next /\ result' = result
          /\ text' = text /\ cut' = cut
      BY <2>3 DEF cutVars
    <3>2. IInv'
      BY <1>1, <3>1 DEF CutInv, IInv, TypeOK, SortedByPosition, KeptAreBehind,
         KeptAreDisjoint, End
    <3>3. CutsAreReversible'
      <4>1. CutsAreReversible
        BY <1>1 DEF CutInv
      <4> QED BY <3>1, <4>1 DEF CutsAreReversible
    <3>4. TextIsPieces' /\ \A g \in Remaining' : IntactUpTo(End(g))'
      BY <1>1, <3>1 DEF CutInv, TextIsPieces, IntactUpTo, Remaining, ToSet, End, Character
    <3> QED BY <1>1, <3>1, <3>2, <3>3, <3>4 DEF CutInv, Done
  <2> QED BY <1>1, <2>1, <2>2, <2>3 DEF CutNext
<1> QED
  BY <1>1, CutInitInv, PTL DEF CutSpec

\* After any number of cuts, restoring the placeholders gives back every
\* character of the original once and in order, except what the capturing
\* groups of the cut findings leave out: the offsets of a cut, which are those
\* of the original text, still fit the changed one (redact.go:63-75, 93-123).
THEOREM CutsAreAlwaysReversible == CutSpec => []CutsAreReversible
<1>1. CutInv => CutsAreReversible
  BY DEF CutInv
<1> QED BY <1>1, CutInvariance, PTL

\* RedactContext cuts what the loop alone would keep: with the cuts, a call is
\* an execution of the loop, so both theorems about it hold of the call too.
THEOREM CutsFollowTheLoop == CutSpec => Spec
<1>1. CutInit => Init
  BY DEF CutInit
<1>2. [CutNext]_cutVars => [Next]_vars
  BY DEF CutNext, cutVars, Dedup, Cut, Next, vars
<1> QED BY <1>1, <1>2, PTL DEF CutSpec, Spec

\* What has been cut is among the kept findings, and a cut never lengthens the
\* text in pieces (redact.go:71-75).
THEOREM CutTypeCorrect == CutSpec => []CutTypeOK
<1> DEFINE Sizes == cut \subseteq ToSet(result) /\ Len(text) <= TextLen
<1>1. CutInit => Sizes
  <2> SUFFICES ASSUME CutInit PROVE Sizes
    OBVIOUS
  <2>1. text = Original /\ cut = {}
    BY DEF CutInit
  <2>2. Len(Original) = TextLen
    BY NumbersAssumption DEF Original
  <2> QED BY <2>1, <2>2, NumbersAssumption
<1>2. CutInv /\ Sizes /\ [CutNext]_cutVars => Sizes'
  <2> SUFFICES ASSUME CutInv, Sizes, [CutNext]_cutVars PROVE Sizes'
    OBVIOUS
  <2>1. CASE Dedup
    <3>1. text' = text /\ cut' = cut /\ ~Done
      BY <2>1 DEF Dedup, Iterate, Done, CutInv, IInv, TypeOK
    <3> QED BY <3>1 DEF CutInv
  <2>2. ASSUME NEW f \in Remaining, Cut(f) PROVE Sizes'
    <3>1. /\ f \in ToSet(result) /\ cut' = cut \cup {f} /\ result' = result
      BY <2>2 DEF Cut, vars, Remaining
    <3>2. f \in Matches /\ result \in Seq(Matches) /\ TextIsPieces /\ IntactUpTo(End(f))
      BY <2>2, <3>1 DEF CutInv, ToSet
    <3>3. Len(text') = Len(text) - f.len + 1
      BY <2>2, <3>2, PiecesAfterCut DEF CutInv, TextIsPieces
    <3>4. f.len \in Nat /\ f.len >= 1 /\ Len(text) \in Nat /\ TextLen \in Nat
      BY <3>2, MatchFields, NumbersAssumption DEF TextIsPieces
    <3>5. Len(text') <= TextLen
      BY <3>3, <3>4
    <3> QED BY <3>1, <3>5
  <2>3. CASE UNCHANGED cutVars
    BY <2>3 DEF cutVars
  <2> QED BY <2>1, <2>2, <2>3 DEF CutNext
<1>3. CutInv /\ Sizes => CutTypeOK
  BY DEF CutInv, IInv, CutTypeOK
<1> QED
  BY <1>1, <1>2, <1>3, CutInvariance, PTL DEF CutSpec
=============================================================================
