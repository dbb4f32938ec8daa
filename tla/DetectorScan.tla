---------------------------- MODULE DetectorScan ----------------------------
(***************************************************************************)
(* The two detectors (internal/detector) and the masker (internal/masking) *)
(* that every result of a database, of an API and every request body goes  *)
(* through: each detector runs its patterns in order, a value is reported  *)
(* at most once per detector, and MaskString replaces each reported value  *)
(* once, in the order of the reports.                                      *)
(*                                                                         *)
(* A text is a sequence of atoms, and a regular expression is the finite   *)
(* set of the strings it matches there.  A match with a capturing group    *)
(* has a value that differs from its span.  One step is one pattern, or    *)
(* one iteration of the masking loop.                                      *)
(***************************************************************************)
EXTENDS Naturals, Sequences, SequencesExt, FiniteSetsExt

CONSTANTS
  Atoms,           \* what texts are made of, without the mask
  Star,            \* a masked atom
  Texts,           \* the texts scanned
  SecretPatterns,  \* patterns of the SecretDetector, custom rules last
  PIIPatterns,     \* patterns of the PIIDetector
  LocaleFilters,   \* sets of locales a call may ask for; {} is "all"
  CodeAtoms,       \* atoms that make their surroundings look like code
  Window,          \* how far isFalsePositive looks around a finding
  Shown            \* atoms MaskSecret leaves at either end of a long value

\* span, value: what is matched, and what of it is captured.
\* rejects: values below the pattern's entropy floor, or private addresses.
\* noise: values isFalsePositive drops when there is code around.
IsPattern(p) ==
  /\ DOMAIN p = {"type", "matches", "rejects", "noise", "locales"}
  /\ p.type \in STRING
  /\ \A m \in p.matches : m.span \in Seq(Atoms) \ {<<>>} /\ m.value \in SubSeqs(m.span)

ASSUME PatternsAssumption ==
  /\ Star \notin Atoms /\ CodeAtoms \subseteq Atoms
  /\ \A txt \in Texts : txt \in Seq(Atoms)
  /\ SecretPatterns \in Seq(ToSet(SecretPatterns)) /\ PIIPatterns \in Seq(ToSet(PIIPatterns))
  /\ \A p \in ToSet(SecretPatterns) \cup ToSet(PIIPatterns) : IsPattern(p)
  /\ Window \in Nat /\ Shown \in Nat

VARIABLES
  text,      \* the text being scanned
  locales,   \* the locales asked for
  phase,     \* "secrets", "pii", "masking", "done"
  next,      \* the pattern to run, or the finding to mask
  seen,      \* values the running detector has come across
  reported,  \* detector -> its findings, before the context filter
  findings,  \* those of both detectors, after it
  maskedText \* the text with the findings so far masked

scanVars == <<text, locales, phase, next, seen, reported, findings, maskedText>>

Detectors == {"secrets", "pii"}
Patterns(d) == IF d = "secrets" THEN SecretPatterns ELSE PIIPatterns

\* String s stands in txt at position i.
StandsAt(s, txt, i) ==
  /\ i + Len(s) - 1 <= Len(txt)
  /\ SubSeq(txt, i, i + Len(s) - 1) = s

Occurrences(s, txt) == {i \in 1..(Len(txt) + 1) : StandsAt(s, txt, i)}

\* Where a match may begin, and which one is taken.
MatchesAt(p, txt, i) == {m \in p.matches : StandsAt(m.span, txt, i)}
Longest(ms) == CHOOSE m \in ms : \A o \in ms : Len(o.span) <= Len(m.span)

\* FindAllStringSubmatchIndex: from the left, without overlaps, the longest
\* match at each place.
FindAll(p, txt) ==
  LET from[i \in 1..(Len(txt) + 1)] ==
        IF i > Len(txt) THEN <<>>
        ELSE IF MatchesAt(p, txt, i) = {} THEN from[i + 1]
        ELSE LET m == Longest(MatchesAt(p, txt, i))
             IN <<[pos |-> i, match |-> m]>> \o from[i + Len(m.span)]
  IN from[1]

Report(p, hit) ==
  [type |-> p.type, value |-> hit.match.value, pos |-> hit.pos,
   len |-> Len(hit.match.span), noisy |-> hit.match.value \in p.noise]

ScanInit ==
  /\ text \in Texts
  /\ locales \in LocaleFilters
  /\ phase = "secrets"
  /\ next = 1
  /\ seen = {}
  /\ reported = [d \in Detectors |-> <<>>]
  /\ findings = <<>>
  /\ maskedText = text

\* The secret detector knows no locales, and "global" means all of them.
Applies(d, p) ==
  d = "pii" => locales = {} \/ "global" \in locales \/ p.locales \cap locales # {}

\* Mutant: a value counts as seen only once it was reported.
LookSeenWhenReported(p, acc, hit) ==
  IF hit.match.value \in acc.seen \cup p.rejects THEN acc
  ELSE [seen |-> acc.seen \cup {hit.match.value}, found |-> Append(acc.found, Report(p, hit))]

\* One match.  A value is seen before it is known whether the pattern accepts
\* it.
Look(p, acc, hit) ==
  IF hit.match.value \in acc.seen THEN acc
  ELSE [seen |-> acc.seen \cup {hit.match.value},
        found |-> IF hit.match.value \in p.rejects THEN acc.found
                  ELSE Append(acc.found, Report(p, hit))]

\* All matches of one pattern.
LookAtAll(p, txt, acc) == FoldLeft(LAMBDA a, hit : Look(p, a, hit), acc, FindAll(p, txt))

ScanPattern ==
  LET p == Patterns(phase)[next]
      after == LookAtAll(p, text, [seen |-> seen, found |-> reported[phase]])
  IN /\ phase \in Detectors
     /\ next <= Len(Patterns(phase))
     /\ Applies(phase, p)
     /\ seen' = after.seen
     /\ reported' = [reported EXCEPT ![phase] = after.found]
     /\ next' = next + 1
     /\ UNCHANGED <<text, locales, phase, findings, maskedText>>

SkipPattern ==
  /\ phase = "pii"
  /\ next <= Len(PIIPatterns)
  /\ ~Applies("pii", PIIPatterns[next])
  /\ next' = next + 1
  /\ UNCHANGED <<text, locales, phase, seen, reported, findings, maskedText>>

EndSecrets ==
  /\ phase = "secrets"
  /\ next > Len(SecretPatterns)
  /\ phase' = "pii"
  /\ next' = 1
  /\ seen' = {}
  /\ UNCHANGED <<text, locales, reported, findings, maskedText>>

\* There is code close to where the finding is.
LooksLikeCode(f) ==
  \E i \in DOMAIN text :
    /\ text[i] \in CodeAtoms
    /\ i + Window >= f.pos /\ i < f.pos + f.len + Window

IsFalsePositive(f) == f.noisy /\ LooksLikeCode(f)

\* The findings that are not false positives, in their order.
InContext(fs) ==
  FoldLeft(LAMBDA kept, f : IF IsFalsePositive(f) THEN kept ELSE Append(kept, f), <<>>, fs)

\* ScanWithContext drops false positives; MaskString takes the secrets first.
\* A scan for some locales only is a ScanContext, which masks nothing.
EndPII ==
  /\ phase = "pii"
  /\ next > Len(PIIPatterns)
  /\ findings' = reported["secrets"] \o InContext(reported["pii"])
  /\ phase' = IF locales = {} THEN "masking" ELSE "done"
  /\ next' = 1
  /\ UNCHANGED <<text, locales, seen, reported, maskedText>>

Stars(n) == [i \in 1..n |-> Star]

\* Mutant: a value as long as what is shown of it is shown.
MaskSecretShowingShort(s) ==
  IF Len(s) < 2 * Shown THEN Stars(Len(s))
  ELSE SubSeq(s, 1, Shown) \o Stars(Len(s) - 2 * Shown)
         \o SubSeq(s, Len(s) - Shown + 1, Len(s))

MaskSecret(s) ==
  IF Len(s) <= 2 * Shown THEN Stars(Len(s))
  ELSE SubSeq(s, 1, Shown) \o Stars(Len(s) - 2 * Shown)
         \o SubSeq(s, Len(s) - Shown + 1, Len(s))

\* strings.Replace(masked, f.Value, MaskSecret(f.Value), 1): the first
\* occurrence of the value, if an earlier mask has left one.
MaskNext ==
  LET v == findings[next].value
  IN /\ phase = "masking"
     /\ next <= Len(findings)
     /\ maskedText' = ReplaceFirstSubSeq(MaskSecret(v), v, maskedText)
     /\ next' = next + 1
     /\ UNCHANGED <<text, locales, phase, seen, reported, findings>>

EndMasking ==
  /\ phase = "masking"
  /\ next > Len(findings)
  /\ phase' = "done"
  /\ UNCHANGED <<text, locales, next, seen, reported, findings, maskedText>>

ScanNext ==
  \/ ScanPattern \/ SkipPattern \/ EndSecrets
  \/ EndPII \/ MaskNext \/ EndMasking

ScanSpec == ScanInit /\ [][ScanNext]_scanVars
-----------------------------------------------------------------------------
Finding == [type : STRING, value : Seq(Atoms), pos : Nat, len : Nat, noisy : BOOLEAN]

ScanTypeOK ==
  /\ phase \in Detectors \cup {"masking", "done"}
  /\ next \in Nat \ {0}
  /\ \A d \in Detectors : reported[d] \in Seq(Finding)
  /\ findings \in Seq(Finding)
  /\ maskedText \in [DOMAIN text -> Atoms \cup {Star}]

\* The k-th match of pattern i is where the detector first meets its value.
FirstMeeting(d, ran, i, k) ==
  LET hits(j) == FindAll(Patterns(d)[j], text)
      v == hits(i)[k].match.value
  IN /\ \A j \in ran : j < i => \A l \in DOMAIN hits(j) : hits(j)[l].match.value # v
     /\ \A l \in 1..(k - 1) : hits(i)[l].match.value # v

Ran(d) == {i \in DOMAIN Patterns(d) : Applies(d, Patterns(d)[i])}

\* What a detector reports is decided, value by value, where it first meets
\* the value, in the order of its patterns and then from left to right: there
\* and only there does the pattern accept or reject it (secret.go:153-202,
\* pii.go:67-131).
DecidedWhereFirstMet ==
  \A d \in Detectors :
    phase \in {"masking", "done"} =>
      LET met == {ik \in Ran(d) \X DOMAIN text :
                    /\ ik[2] <= Len(FindAll(Patterns(d)[ik[1]], text))
                    /\ FirstMeeting(d, Ran(d), ik[1], ik[2])}
          Hit(ik) == FindAll(Patterns(d)[ik[1]], text)[ik[2]]
      IN ToSet(reported[d]) =
           {Report(Patterns(d)[ik[1]], Hit(ik)) :
              ik \in {x \in met : Hit(x).match.value \notin Patterns(d)[x[1]].rejects}}

\* Masking changes nothing but reported values, although the masks of earlier
\* findings and captured values move away from where the matches were
\* (masker.go:54-57).
OnlyValuesAreMasked ==
  \A i \in DOMAIN text :
    maskedText[i] # text[i] =>
      /\ maskedText[i] = Star
      /\ \E f \in ToSet(findings) : \E j \in Occurrences(f.value, text) :
           j <= i /\ i < j + Len(f.value)

\* Of every reported value at least one occurrence is gone in the end, even
\* when findings overlap (masker.go:41-60).
EachValueIsMasked ==
  phase = "done" /\ locales = {} =>
    \A f \in ToSet(findings) :
      f.value # <<>> =>
        Cardinality(Occurrences(f.value, maskedText)) < Cardinality(Occurrences(f.value, text))

\* Masking takes away reported values and nothing else.
MaskingIsExact == OnlyValuesAreMasked /\ EachValueIsMasked

-----------------------------------------------------------------------------
(***************************************************************************)
(* What the code's own words promise of every text.                        *)
(***************************************************************************)

\* "Scan runs all secret detectors against the input text": a value that some
\* secret pattern matches and accepts is reported.
AllDetectorsAreRun ==
  phase # "secrets" =>
    \A i \in DOMAIN SecretPatterns :
      \A hit \in ToSet(FindAll(SecretPatterns[i], text)) :
        hit.match.value \notin SecretPatterns[i].rejects =>
          \E f \in ToSet(reported["secrets"]) : f.value = hit.match.value

\* "returns the masked version": no reported value is left in it.
NoValueIsLeft ==
  phase = "done" /\ locales = {} =>
    \A f \in ToSet(findings) : f.value # <<>> => Occurrences(f.value, maskedText) = {}
=============================================================================
