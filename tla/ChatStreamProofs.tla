-------------------------- MODULE ChatStreamProofs --------------------------
(***************************************************************************)
(* Proofs about ChatStream, for streams of any length and any deadline.    *)
(*                                                                         *)
(* The first part is about FlattenSeq, by which lines become content and   *)
(* content becomes an answer: that it exists, and how it grows at either   *)
(* end.  The second keeps the content a prefix, line by line.  The third   *)
(* follows the restored text part by part.                                 *)
(***************************************************************************)
EXTENDS ChatStream, WellFoundedInduction, TLAPS

\* Every set of numbers has a least element.
LEMMA LeastNumber ==
  ASSUME NEW S \in SUBSET Nat, S # {}
  PROVE  \E n \in S : \A m \in S : n <= m
<1>1. PICK n \in S : \A m \in S : ~ (<<m, n>> \in OpToRel(<, Nat))
  BY WFMin, NatLessThanWellFounded
<1>2. ASSUME NEW m \in S PROVE n <= m
  <2>1. n \in Nat /\ m \in Nat
    OBVIOUS
  <2>2. ~ (m < n)
    BY <1>1, <2>1 DEF OpToRel
  <2> QED BY <2>1, <2>2
<1> QED BY <1>2

(***************************************************************************)
(* FlattenSeq, by which the parts of a stream are put together.            *)
(***************************************************************************)

\* Two sequences of V can be joined to one of V.
Joins(V) == \A v, w \in V : v \o w \in V

\* The lists of n elements.
Lists(n, V) == [1..n -> V]

IsFlattening(f, n, ss) == f = [i \in 1..n |-> IF i = 1 THEN ss[i] ELSE f[i - 1] \o ss[i]]

\* The elements of any list of sequences can be put together, step by step.
LEMMA FlatteningExists ==
  ASSUME NEW V, Joins(V), NEW n \in Nat, n > 0, NEW ss \in Lists(n, V)
  PROVE  \E f \in Lists(n, V) : IsFlattening(f, n, ss)
<1> DEFINE bad == {k \in 1..n : ~ \E f \in Lists(k, V) : IsFlattening(f, k, ss)}
<1>1. \A k \in 1..n : ss[k] \in V
  BY DEF Lists
<1>2. SUFFICES ASSUME bad # {} PROVE FALSE
  OBVIOUS
<1>3. PICK k \in bad : \A m \in bad : k <= m
  <2>1. bad \in SUBSET Nat
    OBVIOUS
  <2> HIDE DEF bad
  <2> QED BY <1>2, <2>1, LeastNumber
<1>4. k \in 1..n /\ ~ \E f \in Lists(k, V) : IsFlattening(f, k, ss)
  OBVIOUS
<1>5. CASE k = 1
  <2> DEFINE f == [i \in 1..1 |-> ss[1]]
  <2>1. f \in Lists(1, V)
    BY <1>1, <1>4, <1>5 DEF Lists
  <2>2. f = [i \in 1..1 |-> IF i = 1 THEN ss[i] ELSE f[i - 1] \o ss[i]]
    OBVIOUS
  <2> HIDE DEF f
  <2> QED BY <1>4, <1>5, <2>1, <2>2 DEF IsFlattening
<1>6. CASE k > 1
  <2>1. k \in Nat /\ k - 1 \in 1..n /\ k - 1 \notin bad
    <3>1. k \in Nat /\ k - 1 \in 1..n /\ k - 1 < k
      BY <1>4, <1>6
    <3> HIDE DEF bad
    <3> QED BY <1>3, <3>1
  <2>2. PICK f \in Lists(k - 1, V) : IsFlattening(f, k - 1, ss)
    BY <2>1
  <2>3. /\ \A i \in 1..k - 1 : f[i] \in V
        /\ \A i \in 1..k - 1 : f[i] = IF i = 1 THEN ss[i] ELSE f[i - 1] \o ss[i]
    BY <2>2 DEF Lists, IsFlattening
  <2> DEFINE g == [i \in 1..k |-> IF i < k THEN f[i] ELSE f[k - 1] \o ss[k]]
  <2>4. k - 1 \in 1..k - 1 /\ f[k - 1] \in V /\ f[k - 1] \o ss[k] \in V
    BY <1>1, <1>4, <1>6, <2>1, <2>3 DEF Joins
  <2>5. g \in Lists(k, V)
    BY <2>1, <2>3, <2>4 DEF Lists
  <2>6. ASSUME NEW i \in 1..k
        PROVE  g[i] = IF i = 1 THEN ss[i] ELSE g[i - 1] \o ss[i]
    <3>1. CASE i = k
      BY <1>6, <2>1, <3>1
    <3>2. CASE i < k
      <4>1. i \in 1..k - 1 /\ g[i] = f[i]
        BY <2>1, <3>2
      <4>2. i # 1 => i - 1 \in 1..k /\ g[i - 1] = f[i - 1]
        BY <2>1, <3>2
      <4> HIDE DEF g
      <4> QED BY <2>3, <4>1, <4>2
    <3> QED BY <2>1, <3>1, <3>2
  <2>7. IsFlattening(g, k, ss)
    <3>1. g = [i \in 1..k |-> g[i]]
      OBVIOUS
    <3> HIDE DEF g
    <3> QED BY <2>6, <3>1 DEF IsFlattening
  <2> HIDE DEF g
  <2> QED BY <1>4, <2>5, <2>7
<1> QED
  BY <1>4, <1>5, <1>6

\* How the beginning of a list is put together does not depend on the rest.
LEMMA FlattenedAlike ==
  ASSUME NEW m \in Nat, NEW n \in Nat, NEW ss, NEW tt, NEW f, NEW g,
         IsFlattening(f, m, ss), IsFlattening(g, n, tt), m <= n,
         \A i \in 1..m : ss[i] = tt[i]
  PROVE  \A i \in 1..m : f[i] = g[i]
<1> DEFINE bad == {i \in 1..m : f[i] # g[i]}
<1> SUFFICES ASSUME bad # {} PROVE FALSE
  OBVIOUS
<1>1. PICK i \in bad : \A k \in bad : i <= k
  <2>1. bad \in SUBSET Nat
    OBVIOUS
  <2> HIDE DEF bad
  <2> QED BY <2>1, LeastNumber
<1>2. i \in 1..m /\ i \in 1..n /\ f[i] # g[i]
  OBVIOUS
<1>3. /\ f[i] = IF i = 1 THEN ss[i] ELSE f[i - 1] \o ss[i]
      /\ g[i] = IF i = 1 THEN tt[i] ELSE g[i - 1] \o tt[i]
  BY <1>2 DEF IsFlattening
<1>4. CASE i = 1
  BY <1>2, <1>3, <1>4
<1>5. CASE i # 1
  <2>1. i - 1 \in 1..m /\ i - 1 < i /\ i - 1 \notin bad
    <3>1. i - 1 \in 1..m /\ i - 1 < i /\ i \in Nat
      BY <1>2, <1>5
    <3> HIDE DEF bad
    <3> QED BY <1>1, <3>1
  <2>2. f[i - 1] = g[i - 1]
    BY <2>1
  <2> QED BY <1>2, <1>3, <1>5, <2>2
<1> QED BY <1>4, <1>5

\* FlattenSeq puts the elements of a list together.
LEMMA FlattenSeqFlattens ==
  ASSUME NEW V, Joins(V), NEW n \in Nat, n > 0,
         NEW ss, ss \in Lists(n, V), Len(ss) = n
  PROVE  \E f \in Lists(n, V) : IsFlattening(f, n, ss) /\ FlattenSeq(ss) = f[n]
<1>1. PICK f \in Lists(n, V) : IsFlattening(f, n, ss)
  BY FlatteningExists
<1> DEFINE g == CHOOSE h : IsFlattening(h, n, ss)
<1>2. IsFlattening(g, n, ss)
  BY <1>1
<1>3. FlattenSeq(ss) = g[n]
  BY DEF FlattenSeq, IsFlattening
<1> HIDE DEF g
<1>4. f[n] = g[n]
  BY <1>1, <1>2, FlattenedAlike
<1> QED
  BY <1>1, <1>3, <1>4

\* FlattenSeq of a list with one more element at its end.
LEMMA FlattenOneMore ==
  ASSUME NEW V, Joins(V), NEW n \in Nat, n > 0, NEW m \in Nat, m = n + 1, NEW ss, NEW tt,
         ss \in Lists(n, V), Len(ss) = n, tt \in Lists(m, V), Len(tt) = m,
         \A i \in 1..n : ss[i] = tt[i]
  PROVE  FlattenSeq(ss) \in V /\ FlattenSeq(tt) = FlattenSeq(ss) \o tt[m]
<1>1. PICK f \in Lists(n, V) : IsFlattening(f, n, ss) /\ FlattenSeq(ss) = f[n]
  BY FlattenSeqFlattens
<1>2. m > 0 /\ n <= m /\ n \in 1..n /\ m \in 1..m /\ m # 1 /\ m - 1 = n
  OBVIOUS
<1>3. PICK g \in Lists(m, V) : IsFlattening(g, m, tt) /\ FlattenSeq(tt) = g[m]
  BY <1>2, FlattenSeqFlattens
<1>4. f[n] = g[n] /\ f[n] \in V
  BY <1>1, <1>2, <1>3, FlattenedAlike DEF Lists
<1>5. g[m] = g[n] \o tt[m]
  BY <1>2, <1>3 DEF IsFlattening
<1> QED BY <1>1, <1>3, <1>4, <1>5

\* FlattenSeq of a list of one.
LEMMA FlattenOne ==
  ASSUME NEW V, Joins(V), NEW ss, ss \in Lists(1, V), Len(ss) = 1
  PROVE  FlattenSeq(ss) \in V /\ FlattenSeq(ss) = ss[1]
<1>1. 1 \in Nat /\ 1 > 0 /\ 1 \in 1..1
  OBVIOUS
<1>2. PICK f \in Lists(1, V) : IsFlattening(f, 1, ss) /\ FlattenSeq(ss) = f[1]
  BY <1>1, FlattenSeqFlattens
<1>3. f[1] = ss[1]
  BY <1>1, <1>2 DEF IsFlattening, Lists
<1> QED BY <1>1, <1>2, <1>3 DEF Lists

\* FlattenSeq of a list of none.
LEMMA FlattenNone == FlattenSeq(<<>>) = <<>>
  BY DEF FlattenSeq

\* What a list of sequences becomes at its end.
LEMMA FlattenAppended ==
  ASSUME NEW S, NEW ss, NEW x
  PROVE  ss \in Seq(Seq(S)) /\ x \in Seq(S)
           => /\ FlattenSeq(ss) \in Seq(S)
              /\ FlattenSeq(Append(ss, x)) = FlattenSeq(ss) \o x
<1>0. SUFFICES ASSUME ss \in Seq(Seq(S)), x \in Seq(S)
               PROVE  /\ FlattenSeq(ss) \in Seq(S)
                      /\ FlattenSeq(Append(ss, x)) = FlattenSeq(ss) \o x
  OBVIOUS
<1> DEFINE V == Seq(S)
           n == Len(ss)
           m == n + 1
           tt == Append(ss, x)
<1>1. n \in Nat /\ m \in Nat /\ m = n + 1 /\ ss \in Lists(n, V) /\ x \in V /\ Len(ss) = n
  BY <1>0 DEF Lists
<1>2. tt \in Seq(V) /\ Len(tt) = m /\ tt[m] = x
  BY <1>0
<1>3. \A i \in 1..n : ss[i] = tt[i]
  BY <1>0
<1>4. tt \in Lists(m, V)
  <2> HIDE DEF tt, V, m
  <2> QED BY <1>1, <1>2 DEF Lists
<1>5. Joins(V)
  BY DEF Joins
<1>6. <<>> \in V /\ \A v \in V : <<>> \o v = v
  OBVIOUS
<1>7. n = 0 => ss = <<>>
  BY <1>0
<1>8. FlattenSeq(ss) \in V /\ FlattenSeq(tt) = FlattenSeq(ss) \o x
  <2> HIDE DEF V, tt, n, m
  <2>1. CASE n = 0
    <3>1. m = 1
      BY <1>1, <2>1
    <3>2. FlattenSeq(tt) = x
      BY <1>2, <1>4, <1>5, <3>1, FlattenOne
    <3>3. FlattenSeq(ss) = <<>>
      BY <1>7, <2>1, FlattenNone
    <3> QED BY <1>1, <1>6, <3>2, <3>3
  <2>2. CASE n # 0
    <3>1. n > 0
      BY <1>1, <2>2
    <3>2. /\ n \in Nat /\ m \in Nat /\ m = n + 1 /\ ss \in Lists(n, V) /\ Len(ss) = n
          /\ Len(tt) = m /\ tt \in Lists(m, V)
      BY <1>1, <1>2, <1>4
    <3>3. FlattenSeq(ss) \in V /\ FlattenSeq(tt) = FlattenSeq(ss) \o tt[m]
      BY <1>3, <1>5, <3>1, <3>2, FlattenOneMore
    <3> QED BY <1>2, <3>3
  <2> QED BY <2>1, <2>2
<1> QED BY <1>8

\* Sequences put together and taken apart at either end.
LEMMA JoinedAgain ==
  ASSUME NEW S, NEW s \in Seq(S), NEW t \in Seq(S), NEW u \in Seq(S)
  PROVE  (s \o t) \o u = s \o (t \o u)
  OBVIOUS

\* Putting together, with something at either end.
LEMMA AppendedBehind ==
  ASSUME NEW S, NEW x \in S, NEW s \in Seq(S), NEW y \in S
  PROVE  /\ <<x>> \o s \in Seq(S)
         /\ <<x>> \o Append(s, y) = Append(<<x>> \o s, y)
  OBVIOUS

\* Append, place by place.
LEMMA AppendIs ==
  ASSUME NEW S, NEW s \in Seq(S), NEW y \in S
  PROVE  Append(s, y) = [i \in 1..Len(s) + 1 |-> IF i = Len(s) + 1 THEN y ELSE s[i]]
<1> DEFINE t == Append(s, y)
           n == Len(s)
<1>1. /\ t \in Seq(S) /\ Len(t) = n + 1 /\ t[n + 1] = y /\ n \in Nat
      /\ \A i \in 1..n : t[i] = s[i]
  OBVIOUS
<1>2. t = [i \in 1..n + 1 |-> t[i]]
  <2> HIDE DEF t, n
  <2> QED BY <1>1
<1>3. ASSUME NEW i \in 1..n + 1 PROVE t[i] = IF i = n + 1 THEN y ELSE s[i]
  <2>1. i # n + 1 => i \in 1..n
    BY <1>1
  <2> HIDE DEF t, n
  <2> QED BY <1>1, <2>1
<1> HIDE DEF t
<1>4. t = [i \in 1..n + 1 |-> IF i = n + 1 THEN y ELSE s[i]]
  BY <1>2, <1>3, Zenon
<1> QED
  BY <1>4 DEF t

\* A list that is not empty is its front and its last element.
LEMMA FrontAndLast ==
  ASSUME NEW S, NEW s \in Seq(S), s # <<>>
  PROVE  \E front \in Seq(S), last \in S :
           s = Append(front, last) /\ Len(front) = Len(s) - 1 /\ Len(front) \in Nat
<1> DEFINE front == SubSeq(s, 1, Len(s) - 1)
           last == s[Len(s)]
<1>1. Len(s) \in Nat /\ Len(s) # 0
  OBVIOUS
<1>2. front \in Seq(S) /\ last \in S /\ Len(front) = Len(s) - 1
  BY <1>1
<1>3. s = Append(front, last)
  BY <1>1
<1>4. Len(s) - 1 \in Nat
  BY <1>1
<1> QED
  BY <1>2, <1>3, <1>4

\* What a list of sequences becomes at its beginning.
Prepends(x, ss) == FlattenSeq(<<x>> \o ss) = x \o FlattenSeq(ss)

\* ... of a list that was empty,
LEMMA PrependsNone ==
  ASSUME NEW S, NEW x \in Seq(S)
  PROVE  Prepends(x, <<>>)
<1>1. <<x>> \o <<>> = Append(<<>>, x) /\ <<>> \in Seq(Seq(S))
  OBVIOUS
<1>2. FlattenSeq(Append(<<>>, x)) = FlattenSeq(<<>>) \o x
  <2> DEFINE e == <<>>
  <2>1. e \in Seq(Seq(S)) /\ x \in Seq(S)
    BY <1>1
  <2> HIDE DEF e
  <2>2. FlattenSeq(Append(e, x)) = FlattenSeq(e) \o x
    BY <2>1, FlattenAppended
  <2> QED BY <2>2 DEF e
<1>3. <<>> \o x = x /\ x \o <<>> = x
  OBVIOUS
<1> QED
  BY <1>1, <1>2, <1>3, FlattenNone DEF Prepends

\* ... of a list with one more element at its end,
LEMMA PrependsOneMore ==
  ASSUME NEW S, NEW x, NEW front, NEW last
  PROVE  x \in Seq(S) /\ front \in Seq(Seq(S)) /\ last \in Seq(S) /\ Prepends(x, front)
           => Prepends(x, Append(front, last))
<1>0. SUFFICES ASSUME x \in Seq(S), front \in Seq(Seq(S)), last \in Seq(S),
                      Prepends(x, front)
               PROVE  Prepends(x, Append(front, last))
  OBVIOUS
<1>1. /\ <<x>> \o front \in Seq(Seq(S))
      /\ <<x>> \o Append(front, last) = Append(<<x>> \o front, last)
  BY <1>0, AppendedBehind
<1>2. FlattenSeq(Append(<<x>> \o front, last)) = FlattenSeq(<<x>> \o front) \o last
  <2> DEFINE h == <<x>> \o front
  <2>1. h \in Seq(Seq(S)) /\ last \in Seq(S)
    BY <1>0, <1>1
  <2> HIDE DEF h
  <2>2. FlattenSeq(Append(h, last)) = FlattenSeq(h) \o last
    BY <2>1, FlattenAppended
  <2> QED BY <2>2 DEF h
<1>3. /\ FlattenSeq(front) \in Seq(S)
      /\ FlattenSeq(Append(front, last)) = FlattenSeq(front) \o last
  BY <1>0, FlattenAppended
<1>4. FlattenSeq(<<x>> \o front) = x \o FlattenSeq(front)
  BY <1>0 DEF Prepends
<1> DEFINE f == FlattenSeq(front)
<1>5. f \in Seq(S)
  BY <1>3
<1> HIDE DEF f
<1>6. (x \o f) \o last = x \o (f \o last)
  BY <1>0, <1>5, JoinedAgain, SMTT(30)
<1> QED
  BY <1>1, <1>2, <1>3, <1>4, <1>6 DEF f, Prepends

\* ... and so of every list: there is no shortest one for which it fails.
LEMMA FlattenPrepended ==
  ASSUME NEW S, NEW x, x \in Seq(S)
  PROVE  \A ss \in Seq(Seq(S)) : FlattenSeq(<<x>> \o ss) = x \o FlattenSeq(ss)
<1> DEFINE bad == {k \in Nat : \E ss \in Seq(Seq(S)) : Len(ss) = k /\ ~Prepends(x, ss)}
<1>1. ASSUME bad # {} PROVE FALSE
  <2>1. PICK k \in bad : \A m \in bad : k <= m
    <3>1. bad \in SUBSET Nat
      OBVIOUS
    <3> HIDE DEF bad
    <3> QED BY <1>1, <3>1, LeastNumber
  <2>2. PICK ss : ss \in Seq(Seq(S)) /\ Len(ss) = k /\ ~Prepends(x, ss)
    OBVIOUS
  <2>3. ss # <<>>
    BY <2>2, PrependsNone
  <2>4. PICK front \in Seq(Seq(S)), last \in Seq(S) :
          ss = Append(front, last) /\ Len(front) = k - 1 /\ k - 1 \in Nat
    <3>1. \E front \in Seq(Seq(S)), last \in Seq(S) :
            ss = Append(front, last) /\ Len(front) = Len(ss) - 1 /\ Len(front) \in Nat
      BY <2>2, <2>3, FrontAndLast, Zenon
    <3> QED BY <2>2, <3>1, Zenon
  <2>5. Prepends(x, front)
    <3>1. k - 1 \notin bad
      <4>1. k \in Nat /\ k - 1 \in Nat /\ ~ (k <= k - 1)
        BY <2>4
      <4> HIDE DEF bad
      <4> QED BY <2>1, <4>1
    <3> QED BY <2>4, <3>1
  <2> QED BY <2>2, <2>4, <2>5, PrependsOneMore
<1>2. ASSUME NEW ss \in Seq(Seq(S)) PROVE Prepends(x, ss)
  <2>1. Len(ss) \in Nat /\ Len(ss) \notin bad
    <3>1. Len(ss) \in Nat
      OBVIOUS
    <3> HIDE DEF bad
    <3> QED BY <1>1, <3>1
  <2> QED BY <2>1
<1> QED
  BY <1>2 DEF Prepends

(***************************************************************************)
(* What has been read and what is still on the wire make up what was sent. *)
(***************************************************************************)

\* The part a line carries.
PartOf(l) == IF IsEvent(l) /\ l.part # "none" THEN <<l.part>> ELSE <<>>

Each(lines) == [i \in DOMAIN lines |-> PartOf(lines[i])]

\* The parts of some lines are those of each of them, put together.
LEMMA PartsOfEach ==
  ASSUME NEW lines
  PROVE  PartsOf(lines) = FlattenSeq(Each(lines))
BY DEF PartsOf, Each, PartOf

\* A line is an event or ends the stream.
LEMMA PartIsOne ==
  ASSUME NEW l \in Line
  PROVE  /\ PartOf(l) \in Seq(Parts)
         /\ IsEvent(l) => l \in Event /\ PartOf(l) = Delta(l) /\ l.usage \in Nat
<1>1. IsEvent(l) => l \in Event
  BY DEF IsEvent, Line
<1>2. ASSUME l \in Event PROVE l.part \in Parts \cup {"none"} /\ l.usage \in Nat
  <2>1. l.part \in Parts \cup {"none"} /\ l.usage \in Usages \cup {0}
    BY <1>2 DEF Event
  <2>2. Usages \cup {0} \subseteq Nat
    BY StreamAssumption
  <2> QED BY <2>1, <2>2
<1>3. \A x \in Parts : <<x>> \in Seq(Parts)
  OBVIOUS
<1>4. <<>> \in Seq(Parts)
  OBVIOUS
<1>5. PartOf(l) \in Seq(Parts)
  BY <1>1, <1>2, <1>3, <1>4 DEF PartOf
<1>6. IsEvent(l) => PartOf(l) = Delta(l)
  BY DEF PartOf, Delta
<1> QED
  BY <1>1, <1>2, <1>5, <1>6

\* One more line is one more part, or none.
LEMMA EachLine ==
  ASSUME NEW lines \in Seq(Line)
  PROVE  Each(lines) \in Seq(Seq(Parts)) /\ Len(Each(lines)) = Len(lines)
<1>1. Len(lines) \in Nat /\ DOMAIN lines = 1..Len(lines)
  OBVIOUS
<1>2. \A i \in 1..Len(lines) : PartOf(lines[i]) \in Seq(Parts)
  BY PartIsOne
<1> DEFINE n == Len(lines)
           P == Seq(Parts)
<1>3. Each(lines) \in [1..n -> P]
  BY <1>1, <1>2 DEF Each
<1> HIDE DEF n, P
<1>4. Each(lines) \in Seq(P) /\ Len(Each(lines)) = n
  BY <1>1, <1>3 DEF n
<1> QED
  BY <1>4 DEF n, P

\* No lines have no parts.
LEMMA PartsOfNone == PartsOf(<<>>) = <<>>
<1>1. Each(<<>>) = <<>>
  BY DEF Each
<1> QED BY <1>1, PartsOfEach, FlattenNone

\* A line that is sent adds its part at the end.
LEMMA PartsOfAppended ==
  ASSUME NEW lines \in Seq(Line), NEW l \in Line
  PROVE  /\ PartsOf(lines) \in Seq(Parts)
         /\ PartsOf(Append(lines, l)) = PartsOf(lines) \o PartOf(l)
<1>1. Each(lines) \in Seq(Seq(Parts)) /\ PartOf(l) \in Seq(Parts)
  BY EachLine, PartIsOne
<1>2. Each(Append(lines, l)) = Append(Each(lines), PartOf(l))
  <2> DEFINE n == Len(lines)
             t == Append(lines, l)
  <2>1. n \in Nat /\ DOMAIN lines = 1..n
    OBVIOUS
  <2>2. DOMAIN t = 1..n + 1 /\ t[n + 1] = l /\ \A i \in 1..n : t[i] = lines[i]
    OBVIOUS
  <2>3. Each(t) = [i \in 1..n + 1 |-> PartOf(t[i])]
    BY <2>2 DEF Each
  <2>4. Len(Each(lines)) = n
    BY EachLine
  <2>5. Append(Each(lines), PartOf(l))
          = [i \in 1..n + 1 |-> IF i = n + 1 THEN PartOf(l) ELSE Each(lines)[i]]
    <3> DEFINE e == Each(lines)
               y == PartOf(l)
               P == Seq(Parts)
    <3>1. e \in Seq(P) /\ y \in P /\ Len(e) = n
      BY <1>1, <2>4
    <3> HIDE DEF e, y, P, n
    <3> QED BY <3>1, AppendIs DEF e, y
  <2> HIDE DEF t, n
  <2>6. ASSUME NEW i \in 1..n + 1
        PROVE  PartOf(t[i]) = IF i = n + 1 THEN PartOf(l) ELSE Each(lines)[i]
    <3>1. CASE i = n + 1
      BY <2>2, <3>1
    <3>2. CASE i # n + 1
      <4>1. i \in 1..n
        BY <2>1, <3>2
      <4> QED BY <2>1, <2>2, <3>2, <4>1 DEF Each
    <3> QED BY <3>1, <3>2
  <2>7. Each(t) = Append(Each(lines), PartOf(l))
    BY <2>3, <2>5, <2>6
  <2> QED BY <2>7 DEF t
<1>3. /\ FlattenSeq(Each(lines)) \in Seq(Parts)
      /\ FlattenSeq(Append(Each(lines), PartOf(l))) = FlattenSeq(Each(lines)) \o PartOf(l)
  BY <1>1, FlattenAppended
<1> QED
  BY <1>2, <1>3, PartsOfEach

\* A line in front, place by place.
LEMMA PrependIs ==
  ASSUME NEW S, NEW s \in Seq(S), NEW x \in S
  PROVE  <<x>> \o s = [i \in 1..Len(s) + 1 |-> IF i = 1 THEN x ELSE s[i - 1]]
<1> DEFINE t == <<x>> \o s
           n == Len(s)
<1>1. t \in Seq(S) /\ Len(t) = n + 1 /\ t[1] = x /\ n \in Nat
  OBVIOUS
<1>2. ASSUME NEW i \in 1..n PROVE t[i + 1] = s[i]
  OBVIOUS
<1>3. t = [i \in 1..n + 1 |-> t[i]]
  <2> HIDE DEF t, n
  <2> QED BY <1>1
<1> HIDE DEF t, n
<1>4. ASSUME NEW i \in 1..n + 1 PROVE t[i] = IF i = 1 THEN x ELSE s[i - 1]
  <2>1. i # 1 => i - 1 \in 1..n /\ i - 1 + 1 = i
    BY <1>1
  <2> QED BY <1>1, <1>2, <2>1
<1>5. t = [i \in 1..n + 1 |-> IF i = 1 THEN x ELSE s[i - 1]]
  BY <1>3, <1>4, Zenon
<1> QED
  BY <1>5 DEF t, n

\* The line that is read next has the first of the parts to come.
LEMMA PartsOfRead ==
  ASSUME NEW lines \in Seq(Line), lines # <<>>
  PROVE  /\ Head(lines) \in Line /\ Tail(lines) \in Seq(Line)
         /\ PartsOf(lines) = PartOf(Head(lines)) \o PartsOf(Tail(lines))
<1> DEFINE n == Len(lines)
           l == Head(lines)
           t == Tail(lines)
<1>1. /\ l \in Line /\ t \in Seq(Line) /\ n \in Nat /\ n > 0 /\ Len(t) = n - 1
      /\ l = lines[1] /\ DOMAIN lines = 1..n /\ DOMAIN t = 1..n - 1
  OBVIOUS
<1>2. \A i \in 1..n - 1 : t[i] = lines[i + 1]
  OBVIOUS
<1>3. Each(lines) \in Seq(Seq(Parts)) /\ PartOf(l) \in Seq(Parts)
  BY EachLine, PartIsOne, <1>1
<1>4. Each(t) \in Seq(Seq(Parts)) /\ Len(Each(t)) = n - 1
  <2> HIDE DEF t, n
  <2> QED BY EachLine, <1>1
<1> HIDE DEF l, t, n
<1>5. Each(lines) = <<PartOf(l)>> \o Each(t)
  <2> DEFINE e == Each(t)
             y == PartOf(l)
             P == Seq(Parts)
  <2>1. e \in Seq(P) /\ y \in P /\ Len(e) = n - 1
    BY <1>3, <1>4
  <2>2. <<y>> \o e = [i \in 1..n |-> IF i = 1 THEN y ELSE e[i - 1]]
    <3> HIDE DEF e, y, P
    <3>1. <<y>> \o e = [i \in 1..Len(e) + 1 |-> IF i = 1 THEN y ELSE e[i - 1]]
      BY <2>1, PrependIs
    <3>2. Len(e) + 1 = n
      BY <1>1, <2>1
    <3> QED BY <3>1, <3>2
  <2>3. ASSUME NEW i \in 1..n
        PROVE  PartOf(lines[i]) = IF i = 1 THEN y ELSE e[i - 1]
    <3>1. CASE i = 1
      BY <1>1, <3>1
    <3>2. CASE i # 1
      <4>1. i - 1 \in 1..n - 1 /\ i - 1 + 1 = i
        BY <1>1, <3>2
      <4>2. e[i - 1] = PartOf(t[i - 1])
        BY <1>1, <4>1 DEF Each
      <4> QED BY <1>2, <3>2, <4>1, <4>2
    <3> QED BY <3>1, <3>2
  <2>4. Each(lines) = [i \in 1..n |-> PartOf(lines[i])]
    BY <1>1 DEF Each
  <2> HIDE DEF e, y
  <2>5. Each(lines) = <<y>> \o e
    BY <2>2, <2>3, <2>4, Zenon
  <2> QED BY <2>5 DEF e, y
<1>6. FlattenSeq(Each(lines)) = PartOf(l) \o FlattenSeq(Each(t))
  <2> DEFINE e == Each(t)
             y == PartOf(l)
  <2>1. e \in Seq(Seq(Parts)) /\ y \in Seq(Parts)
    BY <1>3, <1>4
  <2> HIDE DEF e, y
  <2>2. FlattenSeq(<<y>> \o e) = y \o FlattenSeq(e)
    BY <2>1, FlattenPrepended
  <2> QED BY <1>5, <2>2 DEF e, y
<1>7. PartsOf(lines) = PartOf(l) \o PartsOf(t)
  BY <1>6, PartsOfEach
<1> QED
  BY <1>1, <1>7 DEF l, t

\* A prefix, place by place.
LEMMA PrefixByPlace ==
  ASSUME NEW S, NEW s \in Seq(S), NEW t \in Seq(S)
  PROVE  IsPrefix(s, t) <=> Len(s) <= Len(t) /\ \A i \in 1..Len(s) : s[i] = t[i]
<1>1. Len(s) \in Nat /\ Len(t) \in Nat
  OBVIOUS
<1>2. SubSeq(s, 1, Len(s)) = s
  OBVIOUS
<1>3. ASSUME Len(s) <= Len(t)
      PROVE  SubSeq(t, 1, Len(s)) \in Seq(S) /\ Len(SubSeq(t, 1, Len(s))) = Len(s)
             /\ \A i \in 1..Len(s) : SubSeq(t, 1, Len(s))[i] = t[i]
  BY <1>1, <1>3
<1>4. ASSUME NEW u \in Seq(S), Len(u) = Len(s), \A i \in 1..Len(s) : s[i] = u[i]
      PROVE  s = u
  <2>1. s = [i \in 1..Len(s) |-> s[i]] /\ u = [i \in 1..Len(s) |-> u[i]]
    BY <1>4
  <2> QED BY <1>4, <2>1
<1>5. ASSUME IsPrefix(s, t) PROVE Len(s) <= Len(t) /\ \A i \in 1..Len(s) : s[i] = t[i]
  BY <1>2, <1>3, <1>5 DEF IsPrefix
<1>6. ASSUME Len(s) <= Len(t), \A i \in 1..Len(s) : s[i] = t[i] PROVE IsPrefix(s, t)
  <2> DEFINE u == SubSeq(t, 1, Len(s))
  <2>1. u \in Seq(S) /\ Len(u) = Len(s) /\ \A i \in 1..Len(s) : s[i] = u[i]
    BY <1>3, <1>6
  <2> HIDE DEF u
  <2>2. s = u
    BY <1>4, <2>1
  <2> QED BY <1>2, <1>6, <2>2 DEF IsPrefix, u
<1> QED
  BY <1>5, <1>6

\* What is put behind a text leaves its prefixes.
LEMMA PrefixStays ==
  ASSUME NEW S, NEW s \in Seq(S), NEW t \in Seq(S), NEW u \in Seq(S)
  PROVE  /\ IsPrefix(s, s \o t)
         /\ IsPrefix(s, t) => IsPrefix(s, t \o u)
<1>1. /\ s \o t \in Seq(S) /\ Len(s \o t) = Len(s) + Len(t)
      /\ Len(s) \in Nat /\ Len(t) \in Nat /\ Len(u) \in Nat
      /\ t \o u \in Seq(S) /\ Len(t \o u) = Len(t) + Len(u)
  OBVIOUS
<1>2. \A i \in 1..Len(s) : (s \o t)[i] = s[i]
  OBVIOUS
<1>3. \A i \in 1..Len(t) : (t \o u)[i] = t[i]
  OBVIOUS
<1>4. IsPrefix(s, s \o t)
  <2> DEFINE v == s \o t
  <2>1. v \in Seq(S) /\ Len(s) <= Len(v) /\ \A i \in 1..Len(s) : s[i] = v[i]
    BY <1>1, <1>2
  <2> HIDE DEF v
  <2> QED BY <2>1, PrefixByPlace DEF v
<1>5. ASSUME IsPrefix(s, t) PROVE IsPrefix(s, t \o u)
  <2> DEFINE v == t \o u
  <2>1. Len(s) <= Len(t) /\ \A i \in 1..Len(s) : s[i] = t[i]
    BY <1>5, PrefixByPlace
  <2>2. v \in Seq(S) /\ Len(s) <= Len(v) /\ \A i \in 1..Len(s) : i \in 1..Len(t)
    BY <1>1, <2>1
  <2>3. \A i \in 1..Len(s) : s[i] = v[i]
    BY <1>3, <2>1, <2>2
  <2> HIDE DEF v
  <2> QED BY <2>2, <2>3, PrefixByPlace DEF v
<1> QED
  BY <1>4, <1>5

(***************************************************************************)
(* The invariant: to what is read and what is on the wire, ContentIsPrefix *)
(* adds that nothing is read before the response has arrived, and that an  *)
(* answer is the restored content, which nothing adds to any more.         *)
(***************************************************************************)

StreamTypes ==
  /\ sent \in Seq(Line) /\ wire \in Seq(Line) /\ content \in Seq(Parts)
  /\ at \in {"sending", "reading", "over", "returned"}

NothingBeforeTheResponse == at = "sending" => sent = <<>> /\ wire = <<>> /\ content = <<>>

AnswerIsRestored == result = "ok" => at = "returned" /\ answer = Unredact(content)

StreamInv == StreamTypes /\ NothingBeforeTheResponse /\ ContentIsPrefix /\ AnswerIsRestored

\* Before the request nothing is sent.
LEMMA InitStream == Init => StreamInv
<1> SUFFICES ASSUME Init PROVE StreamInv
  OBVIOUS
<1>1. IsPrefix(<<>>, PartsOf(<<>>))
  BY PartsOfNone DEF IsPrefix
<1>2. <<>> \in Seq(Line) /\ <<>> \in Seq(Parts)
  OBVIOUS
<1> QED
  BY <1>1, <1>2 DEF Init, StreamInv, StreamTypes, NothingBeforeTheResponse, ContentIsPrefix,
     AnswerIsRestored

\* A line the provider sends is behind everything that is on the wire.
LEMMA PutStream ==
  ASSUME StreamInv, NEW l \in Line, Put(l), at # "sending",
         UNCHANGED <<at, content, result, answer>>
  PROVE  StreamInv'
<1>1. /\ sent \in Seq(Line) /\ wire \in Seq(Line) /\ content \in Seq(Parts)
      /\ sent' = Append(sent, l) /\ wire' = Append(wire, l)
      /\ at' = at /\ content' = content /\ result' = result /\ answer' = answer
  BY DEF StreamInv, StreamTypes, Put
<1>2. /\ PartsOf(sent) \in Seq(Parts) /\ PartsOf(wire) \in Seq(Parts) /\ PartOf(l) \in Seq(Parts)
      /\ PartsOf(sent') = PartsOf(sent) \o PartOf(l)
      /\ PartsOf(wire') = PartsOf(wire) \o PartOf(l)
  BY <1>1, PartsOfAppended, PartIsOne
<1>3. IsPrefix(content, PartsOf(sent'))
  <2>1. IsPrefix(content, PartsOf(sent))
    BY DEF StreamInv, ContentIsPrefix
  <2> DEFINE p == PartsOf(sent)
             d == PartOf(l)
  <2>2. p \in Seq(Parts) /\ d \in Seq(Parts) /\ PartsOf(sent') = p \o d
    BY <1>2
  <2> HIDE DEF p, d
  <2> QED BY <1>1, <2>1, <2>2, PrefixStays DEF p
<1>4. ASSUME at = "reading" PROVE content \o PartsOf(wire') = PartsOf(sent')
  <2>1. content \o PartsOf(wire) = PartsOf(sent)
    BY <1>4 DEF StreamInv, ContentIsPrefix
  <2> DEFINE c == content
             p == PartsOf(wire)
             d == PartOf(l)
  <2>2. c \in Seq(Parts) /\ p \in Seq(Parts) /\ d \in Seq(Parts)
    BY <1>1, <1>2
  <2> HIDE DEF c, p, d
  <2>3. (c \o p) \o d = c \o (p \o d)
    BY <2>2, JoinedAgain, SMTT(30)
  <2> QED BY <1>2, <2>1, <2>3 DEF c, p, d
<1>5. sent' \in Seq(Line) /\ wire' \in Seq(Line)
  BY <1>1
<1> QED
  BY <1>1, <1>3, <1>4, <1>5 DEF StreamInv, StreamTypes, NothingBeforeTheResponse,
     ContentIsPrefix, AnswerIsRestored

\* A line that is read moves its part from the wire to the content.
LEMMA ReadStream ==
  ASSUME StreamInv, ReadEvent
  PROVE  StreamInv'
<1>1. /\ sent \in Seq(Line) /\ wire \in Seq(Line) /\ content \in Seq(Parts)
      /\ at = "reading" /\ at' = at /\ wire # <<>> /\ IsEvent(Head(wire))
      /\ content' = content \o Delta(Head(wire)) /\ wire' = Tail(wire)
      /\ sent' = sent /\ result' = result /\ answer' = answer
      /\ content \o PartsOf(wire) = PartsOf(sent)
  BY DEF StreamInv, StreamTypes, ReadEvent, ContentIsPrefix
<1>2. /\ Head(wire) \in Line /\ Tail(wire) \in Seq(Line)
      /\ PartsOf(wire) = PartOf(Head(wire)) \o PartsOf(Tail(wire))
  BY <1>1, PartsOfRead
<1>3. PartOf(Head(wire)) \in Seq(Parts) /\ Delta(Head(wire)) = PartOf(Head(wire))
  BY <1>1, <1>2, PartIsOne
<1>4. PartsOf(Tail(wire)) \in Seq(Parts)
  <2> DEFINE t == Tail(wire)
             l == Head(wire)
  <2>1. t \in Seq(Line) /\ l \in Line
    BY <1>2
  <2> HIDE DEF t, l
  <2> QED BY <2>1, PartsOfAppended DEF t
<1> DEFINE c == content
           d == PartOf(Head(wire))
           p == PartsOf(Tail(wire))
           n == c \o d
<1>5. c \in Seq(Parts) /\ d \in Seq(Parts) /\ p \in Seq(Parts) /\ n \in Seq(Parts)
  BY <1>1, <1>3, <1>4
<1>6. content' = n /\ c \o (d \o p) = PartsOf(sent)
  BY <1>1, <1>2, <1>3
<1> HIDE DEF c, d, p
<1>7. n \o p = PartsOf(sent)
  <2>1. (c \o d) \o p = c \o (d \o p)
    <3> HIDE DEF n
    <3> QED BY <1>5, JoinedAgain, SMTT(30)
  <2> QED BY <1>6, <2>1
<1> HIDE DEF n
<1>8. IsPrefix(n, n \o p)
  BY <1>5, PrefixStays
<1>9. ContentIsPrefix'
  BY <1>1, <1>6, <1>7, <1>8 DEF ContentIsPrefix, p
<1>10. StreamTypes'
  BY <1>1, <1>2, <1>5, <1>6 DEF StreamTypes
<1> QED
  BY <1>1, <1>9, <1>10 DEF StreamInv, NothingBeforeTheResponse, AnswerIsRestored

\* The invariant holds in every state a stream can reach.
LEMMA StreamInvariance == Spec => []StreamInv
<1>1. ASSUME StreamInv, [Next]_vars PROVE StreamInv'
  <2> USE <1>1 DEF StreamInv
  <2>1. CASE ProviderSends
    <3>1. PICK l \in Line : Put(l)
      BY <2>1 DEF ProviderSends, Line
    <3> QED BY <2>1, <3>1, PutStream DEF ProviderSends
  <2>2. CASE ProviderFinishes
    <3>1. DoneLine \in Line
      BY DEF Line
    <3> QED BY <2>2, <3>1, PutStream DEF ProviderFinishes
  <2>3. CASE ProviderBreaksOff
    BY <2>3 DEF ProviderBreaksOff, StreamTypes, NothingBeforeTheResponse, ContentIsPrefix,
       AnswerIsRestored
  <2>4. CASE ResponseArrives
    <3>1. /\ at = "sending" /\ at' = "reading" /\ sent = <<>> /\ wire = <<>> /\ content = <<>>
          /\ sent' = <<>> /\ wire' = <<>> /\ content' = <<>> /\ result' = result
      BY <2>4 DEF ResponseArrives, NothingBeforeTheResponse
    <3>2. <<>> \o <<>> = <<>> /\ <<>> \in Seq(Line) /\ <<>> \in Seq(Parts)
      OBVIOUS
    <3>3. ContentIsPrefix'
      BY <3>1, <3>2, PartsOfNone DEF ContentIsPrefix, IsPrefix
    <3>4. result # "ok"
      BY <3>1 DEF AnswerIsRestored
    <3> QED BY <3>1, <3>2, <3>3, <3>4 DEF StreamTypes, NothingBeforeTheResponse, AnswerIsRestored
  <2>5. CASE RequestFails
    BY <2>5 DEF RequestFails, Return, StreamTypes, NothingBeforeTheResponse, ContentIsPrefix,
       AnswerIsRestored
  <2>6. CASE ReadEvent
    BY <2>6, ReadStream
  <2>7. CASE ReadLast
    <3>1. wire' \in Seq(Line)
      BY <2>7 DEF ReadLast, StreamTypes
    <3> QED BY <2>7, <3>1 DEF ReadLast, StreamTypes, NothingBeforeTheResponse, ContentIsPrefix,
       AnswerIsRestored
  <2>8. CASE StreamEnds
    BY <2>8 DEF StreamEnds, StreamTypes, NothingBeforeTheResponse, ContentIsPrefix,
       AnswerIsRestored
  <2>9. CASE Finish
    BY <2>9 DEF Finish, Return, StreamTypes, NothingBeforeTheResponse, ContentIsPrefix,
       AnswerIsRestored
  <2>10. CASE Tick
    BY <2>10 DEF Tick, StreamTypes, NothingBeforeTheResponse, ContentIsPrefix,
       AnswerIsRestored
  <2>11. CASE UNCHANGED vars
    BY <2>11 DEF vars, StreamTypes, NothingBeforeTheResponse, ContentIsPrefix,
       AnswerIsRestored
  <2> QED
    BY <2>1, <2>2, <2>3, <2>4, <2>5, <2>6, <2>7, <2>8, <2>9, <2>10, <2>11
    DEF Next, Provider, Client
<1> QED
  BY <1>1, InitStream, PTL DEF Spec

\* What the client has accumulated is the beginning of what the provider has
\* sent, for streams of any length, wherever they are cut and however they end
\* (stream.go:89-114).
THEOREM ContentIsAlwaysPrefix == Spec => []ContentIsPrefix
<1>1. StreamInv => ContentIsPrefix
  BY DEF StreamInv
<1> QED BY <1>1, StreamInvariance, PTL

(***************************************************************************)
(* The restored text, place by place: where it ends with the first half of *)
(* a placeholder, the part there is that half and its other half does not  *)
(* follow.                                                                 *)
(***************************************************************************)

Texts == {"text", "original"} \cup Halves

WholeAt(s, i) == i \in 1..(Len(s) - 1) /\ s[i] = "open" /\ s[i + 1] = "close"

PieceAt(s, i) ==
  IF WholeAt(s, i) THEN <<"original">> ELSE IF WholeAt(s, i - 1) THEN <<>> ELSE <<s[i]>>

NoneWhole(t) == \A i \in 1..(Len(t) - 1) : ~(t[i] = "open" /\ t[i + 1] = "close")

EndsOpen(t) == t # <<>> /\ t[Len(t)] = "open"

\* A part put behind a text.
LEMMA OnePartMore ==
  ASSUME NEW t \in Seq(Texts), NEW x \in Texts, NoneWhole(t), EndsOpen(t) => x # "close"
  PROVE  /\ t \o <<x>> \in Seq(Texts) /\ NoneWhole(t \o <<x>>)
         /\ EndsOpen(t \o <<x>>) => x = "open"
<1> DEFINE u == t \o <<x>>
           n == Len(t)
<1>1. /\ u \in Seq(Texts) /\ Len(u) = n + 1 /\ n \in Nat /\ u[n + 1] = x
      /\ \A i \in 1..n : u[i] = t[i]
  OBVIOUS
<1>2. n # 0 => t # <<>>
  OBVIOUS
<1>3. ASSUME NEW i \in 1..(Len(u) - 1), u[i] = "open", u[i + 1] = "close" PROVE FALSE
  <2> HIDE DEF u
  <2>1. i \in 1..n /\ u[i] = t[i]
    BY <1>1
  <2>2. CASE i = n
    BY <1>1, <1>2, <1>3, <2>1, <2>2 DEF EndsOpen
  <2>3. CASE i < n
    <3>1. i \in 1..(Len(t) - 1) /\ i + 1 \in 1..n
      BY <1>1, <2>1, <2>3
    <3> QED BY <1>1, <1>3, <2>1, <3>1 DEF NoneWhole
  <2> QED BY <1>1, <2>1, <2>2, <2>3
<1> QED
  BY <1>1, <1>3 DEF NoneWhole, EndsOpen

\* A text in which nothing is put.
LEMMA NoPartMore ==
  ASSUME NEW t \in Seq(Texts)
  PROVE  t \o <<>> = t
  OBVIOUS

\* Restoring gives a text and leaves no whole placeholder.
LEMMA UnredactRestores ==
  ASSUME NEW s \in Seq(Parts)
  PROVE  Unredact(s) \in Seq(Texts) /\ NoneWhole(Unredact(s))
<1> DEFINE V == Seq(Texts)
           n == Len(s)
           pieces == [i \in 1..n |-> PieceAt(s, i)]
<1>1. n \in Nat /\ DOMAIN s = 1..n /\ \A i \in 1..n : s[i] \in Parts
  OBVIOUS
<1>2. Unredact(s) = FlattenSeq(pieces)
  BY <1>1 DEF Unredact, PieceAt, WholeAt
<1>3. \A x \in Texts : <<x>> \in V
  OBVIOUS
<1>4. <<>> \in V /\ "original" \in Texts /\ Parts \subseteq Texts
  BY DEF Texts, Parts
<1>5. ASSUME NEW i \in 1..n PROVE PieceAt(s, i) \in V
  <2> HIDE DEF V
  <2> QED BY <1>1, <1>3, <1>4 DEF PieceAt
<1>6. pieces \in Lists(n, V) /\ Len(pieces) = n
  <2>1. pieces \in [1..n -> V]
    <3> HIDE DEF V
    <3> QED BY <1>5
  <2> QED BY <1>1, <2>1 DEF Lists
<1>7. Joins(V)
  BY DEF Joins
<1>8. NoneWhole(<<>>) /\ ~EndsOpen(<<>>)
  BY DEF NoneWhole, EndsOpen
<1>9. \A i \in 1..n : pieces[i] = PieceAt(s, i)
  OBVIOUS
<1>10. n = 0 => pieces = <<>>
  OBVIOUS
<1> HIDE DEF V, n, pieces
<1>11. CASE n = 0
  BY <1>2, <1>4, <1>8, <1>10, <1>11, FlattenNone DEF V
<1>12. CASE n # 0
  <2>1. n > 0 /\ n \in 1..n
    BY <1>1, <1>12
  <2>2. PICK f \in Lists(n, V) : IsFlattening(f, n, pieces) /\ FlattenSeq(pieces) = f[n]
    BY <1>1, <1>6, <1>7, <2>1, FlattenSeqFlattens
  <2>3. \A i \in 1..n : /\ f[i] \in V
                        /\ f[i] = IF i = 1 THEN PieceAt(s, 1) ELSE f[i - 1] \o PieceAt(s, i)
    BY <1>9, <2>2 DEF Lists, IsFlattening
  <2> DEFINE Good(i) == NoneWhole(f[i]) /\ (EndsOpen(f[i]) => s[i] = "open" /\ ~WholeAt(s, i))
             bad == {i \in 1..n : ~Good(i)}
  <2>4. ASSUME bad # {} PROVE FALSE
    <3>1. PICK i \in bad : \A k \in bad : i <= k
      <4>1. bad \in SUBSET Nat
        OBVIOUS
      <4> HIDE DEF bad
      <4> QED BY <2>4, <4>1, LeastNumber
    <3>2. i \in 1..n /\ ~Good(i)
      OBVIOUS
    <3> DEFINE t == IF i = 1 THEN <<>> ELSE f[i - 1]
    <3>3. i # 1 => i - 1 \in 1..n /\ Good(i - 1)
      <4>1. i # 1 => i - 1 \in 1..n /\ i - 1 < i
        BY <1>1, <3>2
      <4>2. i \in Nat
        BY <3>2
      <4>3. i # 1 => i - 1 \notin bad
        <5> HIDE DEF bad
        <5> QED BY <3>1, <4>1, <4>2
      <4> QED BY <4>1, <4>3
    <3>4. t \in V /\ NoneWhole(t)
      BY <1>4, <1>8, <2>3, <3>3
    <3>5. EndsOpen(t) => i # 1 /\ i - 1 \in 1..n /\ s[i - 1] = "open" /\ ~WholeAt(s, i - 1)
      BY <1>8, <3>3
    <3>6. f[i] = t \o PieceAt(s, i)
      <4>1. i = 1 => f[i] = <<>> \o PieceAt(s, i)
        <5>1. \A v \in V : <<>> \o v = v
          BY DEF V
        <5> QED BY <2>3, <3>2, <5>1
      <4> QED BY <2>3, <3>2, <4>1
    <3> HIDE DEF t, Good
    <3>7. t \in Seq(Texts)
      BY <3>4 DEF V
    <3>8. CASE WholeAt(s, i)
      <4>1. f[i] = t \o <<"original">> /\ (EndsOpen(t) => "original" # "close")
        BY <3>6, <3>8 DEF PieceAt
      <4>2. NoneWhole(f[i]) /\ ~EndsOpen(f[i])
        BY <1>4, <3>4, <3>7, <4>1, OnePartMore
      <4> QED BY <3>2, <4>2 DEF Good
    <3>9. CASE ~WholeAt(s, i) /\ WholeAt(s, i - 1)
      <4>1. f[i] = t
        BY <3>6, <3>7, <3>9, NoPartMore DEF PieceAt
      <4> QED BY <3>2, <3>4, <3>5, <3>9, <4>1 DEF Good
    <3>10. CASE ~WholeAt(s, i) /\ ~WholeAt(s, i - 1)
      <4>1. f[i] = t \o <<s[i]>> /\ s[i] \in Texts
        BY <1>1, <1>4, <3>2, <3>6, <3>10 DEF PieceAt
      <4>2. EndsOpen(t) => s[i] # "close"
        <5>1. i - 1 \in 1..n => i - 1 + 1 = i /\ (i - 1 \in 1..(Len(s) - 1))
          BY <1>1, <3>2 DEF n
        <5> QED BY <3>5, <3>10, <5>1 DEF WholeAt
      <4>3. NoneWhole(f[i]) /\ (EndsOpen(f[i]) => s[i] = "open")
        BY <3>4, <3>7, <4>1, <4>2, OnePartMore
      <4> QED BY <3>2, <3>10, <4>3 DEF Good
    <3> QED BY <3>8, <3>9, <3>10
  <2>5. Good(n)
    BY <2>1, <2>4
  <2>6. f[n] \in Seq(Texts)
    BY <2>1, <2>3 DEF V
  <2> QED BY <1>2, <2>2, <2>5, <2>6
<1> QED
  BY <1>11, <1>12

\* In an answer no whole placeholder is left, however many events shared one
\* and wherever the stream ended (stream.go:78-79).
THEOREM NoPlaceholderIsEverLeft == Spec => []NoPlaceholderIsLeft
<1>1. StreamInv => NoPlaceholderIsLeft
  <2> SUFFICES ASSUME StreamInv, result = "ok" PROVE NoneWhole(answer)
    BY DEF NoPlaceholderIsLeft, NoneWhole
  <2>1. answer = Unredact(content) /\ content \in Seq(Parts)
    BY DEF StreamInv, StreamTypes, AnswerIsRestored
  <2> QED BY <2>1, UnredactRestores
<1> QED BY <1>1, StreamInvariance, PTL

(***************************************************************************)
(* Types.  What is on the wire is the end of what has been sent.           *)
(***************************************************************************)

WireIsTheEnd == \E i \in 1..(Len(sent) + 1) : wire = SubSeq(sent, i, Len(sent))

\* The end of a list of lines, when the list grows and when it is read.
LEMMA Ends ==
  ASSUME NEW s \in Seq(Line), NEW i \in 1..(Len(s) + 1), NEW l \in Line
  PROVE  /\ Append(SubSeq(s, i, Len(s)), l) =
              SubSeq(Append(s, l), i, Len(Append(s, l)))
         /\ i \in 1..(Len(Append(s, l)) + 1)
         /\ SubSeq(s, i, Len(s)) # <<>> =>
              /\ i + 1 \in 1..(Len(s) + 1)
              /\ Tail(SubSeq(s, i, Len(s))) = SubSeq(s, i + 1, Len(s))
<1> DEFINE n == Len(s)
           u == SubSeq(s, i, n)
           t == Append(s, l)
<1>1. /\ n \in Nat /\ i \in Nat /\ t \in Seq(Line) /\ Len(t) = n + 1 /\ t[n + 1] = l
      /\ \A k \in 1..n : t[k] = s[k]
  OBVIOUS
<1>2. /\ u \in Seq(Line) /\ Len(u) = n + 1 - i
      /\ \A k \in 1..(n + 1 - i) : u[k] = s[i + k - 1]
  BY <1>1
<1>3. Append(u, l) = SubSeq(t, i, n + 1)
  <2> DEFINE v == SubSeq(t, i, n + 1)
             w == Append(u, l)
  <2>1. /\ v \in Seq(Line) /\ Len(v) = n + 2 - i
        /\ \A k \in 1..(n + 2 - i) : v[k] = t[i + k - 1]
    <3>1. i \in 1..(n + 1) /\ n + 1 \in Nat
      BY <1>1
    <3> HIDE DEF n, t
    <3> QED BY <1>1, <3>1
  <2>2. /\ w \in Seq(Line) /\ Len(w) = n + 2 - i /\ w[n + 2 - i] = l
        /\ \A k \in 1..(n + 1 - i) : w[k] = u[k]
    BY <1>1, <1>2
  <2>3. ASSUME NEW k \in 1..(n + 2 - i) PROVE v[k] = w[k]
    <3> HIDE DEF t, u, v, w, n
    <3>1. CASE k = n + 2 - i
      <4>1. i + k - 1 = n + 1
        BY <1>1, <3>1
      <4> QED BY <1>1, <2>1, <2>2, <3>1, <4>1
    <3>2. CASE k # n + 2 - i
      <4>1. k \in 1..(n + 1 - i) /\ i + k - 1 \in 1..n
        BY <1>1, <3>2
      <4> QED BY <1>1, <1>2, <2>1, <2>2, <4>1
    <3> QED BY <3>1, <3>2
  <2> HIDE DEF v, w
  <2> QED BY <2>1, <2>2, <2>3 DEF v, w
<1>4. ASSUME u # <<>>
      PROVE  i + 1 \in 1..(n + 1) /\ Tail(u) = SubSeq(s, i + 1, n)
  <2> DEFINE v == SubSeq(s, i + 1, n)
             w == Tail(u)
  <2>1. i <= n
    BY <1>1, <1>2, <1>4
  <2>2. v \in Seq(Line) /\ Len(v) = n - i /\ \A k \in 1..(n - i) : v[k] = s[i + k]
    BY <1>1, <2>1
  <2>3. w \in Seq(Line) /\ Len(w) = n - i /\ \A k \in 1..(n - i) : w[k] = u[k + 1]
    BY <1>1, <1>2, <1>4
  <2>4. ASSUME NEW k \in 1..(n - i) PROVE v[k] = w[k]
    <3> HIDE DEF u, v, w, n
    <3>1. k + 1 \in 1..(n + 1 - i) /\ i + (k + 1) - 1 = i + k
      BY <1>1
    <3> QED BY <1>2, <2>2, <2>3, <3>1
  <2> HIDE DEF v, w
  <2>5. v = w
    BY <2>2, <2>3, <2>4
  <2>6. i + 1 \in 1..(n + 1)
    BY <1>1, <2>1
  <2> QED BY <2>5, <2>6 DEF v, w
<1>5. Len(Append(s, l)) = n + 1 /\ i \in 1..(n + 1 + 1)
  OBVIOUS
<1> QED BY <1>3, <1>4, <1>5

\* The values the code does not branch on.
OtherTypes ==
  /\ provider \in {"working", "finished", "gone"}
  /\ tokens \in Nat
  /\ result \in {"none", "ok", "error"}
  /\ answer \in Seq(Texts)
  /\ now \in 0..Deadline /\ lastLine \in 0..Deadline

LEMMA NextTypes ==
  StreamInv /\ OtherTypes /\ WireIsTheEnd /\ [Next]_vars => OtherTypes' /\ WireIsTheEnd'
<1> SUFFICES ASSUME StreamInv, OtherTypes, WireIsTheEnd, [Next]_vars
             PROVE  OtherTypes' /\ WireIsTheEnd'
  OBVIOUS
<1>0. sent \in Seq(Line) /\ wire \in Seq(Line) /\ content \in Seq(Parts) /\ Deadline \in Nat
  BY StreamAssumption DEF StreamInv, StreamTypes
<1>1. ASSUME NEW l \in Line, Put(l) PROVE WireIsTheEnd'
  <2>1. PICK i \in 1..(Len(sent) + 1) : wire = SubSeq(sent, i, Len(sent))
    BY DEF WireIsTheEnd
  <2> QED BY <1>0, <1>1, <2>1, Ends DEF Put, WireIsTheEnd
<1>2. ASSUME wire # <<>>, wire' = Tail(wire), sent' = sent PROVE WireIsTheEnd'
  <2>1. PICK i \in 1..(Len(sent) + 1) : wire = SubSeq(sent, i, Len(sent))
    BY DEF WireIsTheEnd
  <2>2. DoneLine \in Line
    BY DEF Line
  <2>3. i + 1 \in 1..(Len(sent) + 1) /\ Tail(wire) = SubSeq(sent, i + 1, Len(sent))
    BY <1>0, <1>2, <2>1, <2>2, Ends
  <2> QED BY <1>2, <2>3 DEF WireIsTheEnd
<1>3. ASSUME UNCHANGED <<sent, wire>> PROVE WireIsTheEnd'
  BY <1>3 DEF WireIsTheEnd
<1>4. CASE ProviderSends \/ ProviderFinishes
  <2>1. PICK l \in Line : Put(l)
    BY <1>4 DEF ProviderSends, ProviderFinishes, Line
  <2> QED BY <1>1, <1>4, <2>1 DEF ProviderSends, ProviderFinishes, OtherTypes
<1>5. CASE ReadEvent
  <2>1. /\ wire # <<>> /\ IsEvent(Head(wire)) /\ tokens' = tokens + Head(wire).usage
        /\ wire' = Tail(wire) /\ lastLine' = now
        /\ UNCHANGED <<provider, sent, at, result, answer, now>>
    BY <1>5 DEF ReadEvent
  <2>2. Head(wire) \in Line
    BY <1>0, <2>1
  <2>3. Head(wire).usage \in Nat
    <3>1. Head(wire) \in Event
      BY <2>1, <2>2 DEF Line, IsEvent
    <3>2. \A l \in Event : l.usage \in Usages \cup {0}
      BY DEF Event
    <3>3. Head(wire).usage \in Usages \cup {0}
      BY <3>1, <3>2
    <3>4. Usages \cup {0} \subseteq Nat
      BY StreamAssumption, 0 \in Nat
    <3> QED BY <3>3, <3>4
  <2> QED BY <1>2, <2>1, <2>3 DEF OtherTypes
<1>6. CASE ReadLast
  BY <1>2, <1>6 DEF ReadLast, OtherTypes
<1>7. CASE Finish
  <2>1. Unredact(content) \in Seq(Texts) /\ <<>> \in Seq(Texts)
    BY <1>0, UnredactRestores
  <2> QED BY <1>3, <1>7, <2>1 DEF Finish, Return, OtherTypes
<1>8. CASE RequestFails
  BY <1>3, <1>8 DEF RequestFails, Return, OtherTypes
<1>9. CASE Tick
  <2>1. now' \in 0..Deadline
    BY <1>0, <1>9 DEF Tick, OtherTypes
  <2> QED BY <1>3, <1>9, <2>1 DEF Tick, OtherTypes
<1>10. CASE ProviderBreaksOff \/ ResponseArrives \/ StreamEnds \/ UNCHANGED vars
  BY <1>3, <1>10 DEF ProviderBreaksOff, ResponseArrives, StreamEnds, vars, OtherTypes
<1> QED
  BY <1>4, <1>5, <1>6, <1>7, <1>8, <1>9, <1>10 DEF Next, Provider, Client

\* What is on the wire is always the end of what was sent, the call never
\* outlives its deadline, and an answer is made of text and restored values.
THEOREM StreamTypeCorrect == Spec => []TypeOK
<1>1. Init => OtherTypes /\ WireIsTheEnd
  <2> SUFFICES ASSUME Init PROVE OtherTypes /\ WireIsTheEnd
    OBVIOUS
  <2>1. OtherTypes
    BY StreamAssumption DEF Init, OtherTypes
  <2>2. WireIsTheEnd
    BY DEF Init, WireIsTheEnd
  <2> QED BY <2>1, <2>2
<1>2. StreamInv /\ OtherTypes /\ WireIsTheEnd => TypeOK
  BY DEF StreamInv, StreamTypes, OtherTypes, WireIsTheEnd, TypeOK, Texts
<1> QED BY <1>1, <1>2, NextTypes, StreamInvariance, PTL DEF Spec
=============================================================================
